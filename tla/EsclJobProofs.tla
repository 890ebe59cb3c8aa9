---------------------------- MODULE EsclJobProofs -----------------------------
(***************************************************************************)
(* Every call of ScanPages returns pages scanned one after another, no job *)
(* is ever recorded as cancelled, and without a fault no page is lost: for *)
(* any number of calls, sheets, repeated requests and faults.              *)
(***************************************************************************)
EXTENDS EsclJob, SequenceTheorems, TLAPS

USE EsclJobAssumption

-----------------------------------------------------------------------------
(* Pages taken one after another, up to page last.                          *)
Run(s, last) == \A i \in 1 .. Len(s) : s[i] = last - Len(s) + i

LEMMA RunAppend ==
    ASSUME NEW s \in Seq(Int), NEW last \in Int, Run(s, last)
    PROVE  Run(Append(s, last + 1), last + 1)
<1>1. Len(Append(s, last + 1)) = Len(s) + 1 /\ Len(s) \in Nat
  BY AppendProperties, LenProperties
<1>2. \A i \in 1 .. Len(s) : Append(s, last + 1)[i] = s[i]
  BY AppendProperties
<1>3. Append(s, last + 1)[Len(s) + 1] = last + 1
  BY AppendProperties
<1>. QED  BY <1>1, <1>2, <1>3 DEF Run

LEMMA RunTail ==
    ASSUME NEW s \in Seq(Int), s # << >>, NEW last \in Int, Run(s, last)
    PROVE  Run(Tail(s), last) /\ Head(s) = last - Len(s) + 1
<1>1. Len(Tail(s)) = Len(s) - 1 /\ Len(s) \in Nat \ {0}
  BY HeadTailProperties, EmptySeq
<1>2. \A i \in 1 .. Len(Tail(s)) : Tail(s)[i] = s[i + 1]
  BY HeadTailProperties
<1>3. Head(s) = s[1]
  BY <1>1
<1>. QED  BY <1>1, <1>2, <1>3 DEF Run

LEMMA RunIsSegment ==
    ASSUME NEW s \in Seq(Int), s # << >>, Run(s, s[Len(s)])
    PROVE  s = [i \in 1 .. Len(s) |-> s[1] + i - 1] /\ s[1] = s[Len(s)] - Len(s) + 1
<1>1. Len(s) \in Nat \ {0} /\ s \in [1 .. Len(s) -> Int]
  BY EmptySeq, LenProperties
<1>2. s[1] = s[Len(s)] - Len(s) + 1 /\ s[Len(s)] \in Int
  BY <1>1 DEF Run
<1>3. \A i \in 1 .. Len(s) : s[i] = s[1] + i - 1
  BY <1>1, <1>2 DEF Run
<1>. QED  BY <1>1, <1>2, <1>3

-----------------------------------------------------------------------------
(* The inductive invariant. *)

LastOf(s) == IF s = << >> THEN 0 ELSE s[Len(s)]

\* A job that is no longer open has nothing left, and DELETE meets no other.
OpenInv ==
    /\ ~open => sheets = 0 /\ queue = << >>
    /\ pc = "delete" => ~open
    /\ cancelled = {}

\* A job for each call at most, of at most MaxSheets pages.
BoundInv ==
    /\ njobs <= calls /\ (pc = "post" => njobs < calls)
    /\ scanned + sheets <= njobs * MaxSheets

\* What the printer has ready ends with the last page taken; what the client
\* holds comes before it, at once before it while the job is open, and after
\* everything that was returned.
RunInv ==
    /\ Run(queue, scanned)
    /\ LastOf(returned) <= scanned - Len(queue)
    /\ pages # << >> =>
        /\ pc \in {"next", "delete"} /\ src = "feeder"
        /\ Run(pages, pages[Len(pages)])
        /\ LastOf(returned) < pages[1]
        /\ pages[Len(pages)] <= scanned - Len(queue)
        /\ open => pages[Len(pages)] = scanned - Len(queue)

\* Without a fault every page is on the printer, in the client or returned.
CountInv ==
    ~hurt =>
        /\ Len(returned) + Len(pages) + Len(queue) = scanned
        /\ pc # "next" => sheets = 0 /\ queue = << >>

\* The glass has one page.
GlassInv == pc = "next" /\ src = "flatbed" => sheets + Len(queue) <= 1

JobInv == TypeOK /\ OpenInv /\ BoundInv /\ RunInv /\ CountInv /\ GlassInv

LEMMA JobInit == Init => JobInv
<1>. SUFFICES ASSUME Init PROVE JobInv
  OBVIOUS
<1>1. << >> \in Seq(1 .. 0) /\ Len(<< >>) = 0
  BY EmptySeq
<1>2. 0 * MaxSheets = 0
  OBVIOUS
<1>. QED
  <2>1. TypeOK
    <3>1. open \in BOOLEAN /\ settling \in BOOLEAN /\ hurt \in BOOLEAN
      BY Zenon DEF Init
    <3>2. /\ pc = "idle" /\ src \in Sources /\ attempt = 0 /\ njobs = 0 /\ sheets = 0 /\ calls = 0
          /\ scanned = 0 /\ cancelled = {} /\ pages = << >> /\ queue = << >> /\ returned = << >>
      BY DEF Init, Sources
    <3>. QED  BY <1>1, <3>1, <3>2 DEF TypeOK
  <2>2. OpenInv /\ BoundInv
    BY <1>2 DEF Init, OpenInv, BoundInv
  <2>3. RunInv
    BY <1>1 DEF Init, RunInv, Run, LastOf
  <2>4. CountInv /\ GlassInv
    BY <1>1 DEF Init, CountInv, GlassInv
  <2>. QED  BY <2>1, <2>2, <2>3, <2>4 DEF JobInv

-----------------------------------------------------------------------------
(* The types. *)

LEMMA JobType == TypeOK /\ OpenInv /\ [Next]_vars => TypeOK'
<1>. SUFFICES ASSUME TypeOK, OpenInv, [Next]_vars PROVE TypeOK'
  OBVIOUS
<1>. USE DEF TypeOK, Goes, Wrong, clientVars, printerVars
<1>1. << >> \in Seq(1 .. scanned) /\ returned \o << >> = returned
  BY EmptySeq, ConcatEmptySeq
<1>2. returned \o pages \in Seq(1 .. scanned)
  BY ConcatProperties
<1>3. ASSUME queue # << >>
      PROVE  /\ Tail(queue) \in Seq(1 .. scanned)
             /\ Append(pages, Head(queue)) \in Seq(1 .. scanned)
             /\ returned \o Append(pages, Head(queue)) \in Seq(1 .. scanned)
  <2>1. Tail(queue) \in Seq(1 .. scanned) /\ Head(queue) \in 1 .. scanned
    BY <1>3, HeadTailProperties
  <2>2. Append(pages, Head(queue)) \in Seq(1 .. scanned)
    BY <2>1, AppendProperties
  <2>. QED  BY <2>1, <2>2, ConcatProperties
<1>4. ASSUME NEW s \in Sources, Call(s) PROVE TypeOK'
  BY <1>4 DEF Call
<1>5. CASE CreateJob
  <2>1. Accept => /\ njobs' \in Nat /\ sheets' \in 0 .. MaxSheets /\ open' \in BOOLEAN
                  /\ 1 .. njobs \subseteq 1 .. njobs'
    BY DEF Accept
  <2>2. Accept => UNCHANGED <<queue, settling, scanned>>
    BY DEF Accept
  <2>3. attempt' \in 0 .. MaxRetries /\ pc' \in {"idle", "post", "next"}
    BY <1>5 DEF CreateJob, Return
  <2>4. hurt' \in BOOLEAN
    BY <1>5, Zenon DEF CreateJob
  <2>5. UNCHANGED <<src, calls, cancelled>> /\ pages' \in {pages, << >>} /\ returned' = returned
    BY <1>1, <1>5 DEF CreateJob, Return
  <2>6. Accept \/ UNCHANGED printerVars
    BY <1>5 DEF CreateJob
  <2>. QED  BY <1>1, <2>1, <2>2, <2>3, <2>5, <2>6, <2>4
<1>6. CASE NextDocument
  BY <1>3, <1>6, <1>1 DEF NextDocument, Return
<1>7. CASE NoMoreDocuments
  BY <1>7 DEF NoMoreDocuments
<1>8. CASE Interrupted
  BY <1>1, <1>2, <1>3, <1>8 DEF Interrupted, Return
<1>9. CASE DeleteJob
  BY <1>1, <1>2, <1>9 DEF DeleteJob, Return, OpenInv
<1>10. CASE TakeSheet
  <2>1. 1 .. scanned \subseteq 1 .. scanned + 1 /\ scanned + 1 \in 1 .. scanned + 1
    OBVIOUS
  <2>2. pages \in Seq(1 .. scanned + 1) /\ returned \in Seq(1 .. scanned + 1)
        /\ queue \in Seq(1 .. scanned + 1)
    BY <2>1, SeqMonotonic
  <2>3. Append(queue, scanned + 1) \in Seq(1 .. scanned + 1)
    BY <2>1, <2>2, AppendProperties
  <2>. QED  BY <1>10, <2>2, <2>3 DEF TakeSheet
<1>11. CASE Settle \/ EndJob
  BY <1>11 DEF Settle, EndJob
<1>12. CASE AbortJob
  <2>1. UNCHANGED <<pc, src, attempt, pages, njobs, settling, scanned, calls, returned, cancelled>>
    BY <1>12 DEF AbortJob
  <2>2. queue' = << >> /\ sheets' = 0
    BY <1>12 DEF AbortJob
  <2>3. open' \in BOOLEAN /\ hurt' \in BOOLEAN
    BY <1>12, Zenon DEF AbortJob
  <2>. QED  BY <1>1, <2>1, <2>2, <2>3
<1>13. CASE Finished \/ UNCHANGED vars
  BY <1>13 DEF Finished, vars
<1>. QED
  BY <1>4, <1>5, <1>6, <1>7, <1>8, <1>9, <1>10, <1>11, <1>12, <1>13 DEF Next, ClientStep

-----------------------------------------------------------------------------
(* The jobs. *)

LEMMA JobOpen == TypeOK /\ OpenInv /\ [Next]_vars => OpenInv'
<1>. SUFFICES ASSUME TypeOK, OpenInv, [Next]_vars PROVE OpenInv'
  OBVIOUS
<1>. USE DEF OpenInv, clientVars, printerVars
<1>1. ASSUME NEW s \in Sources, Call(s) PROVE OpenInv'
  BY <1>1 DEF Call
<1>2. CASE CreateJob
  BY <1>2 DEF CreateJob, Accept, Return
<1>3. CASE NextDocument \/ NoMoreDocuments \/ Interrupted
  BY <1>3 DEF NextDocument, NoMoreDocuments, Interrupted, Return
<1>4. CASE DeleteJob
  BY <1>4 DEF DeleteJob, Return
<1>5. CASE TakeSheet
  BY <1>5 DEF TakeSheet, TypeOK
<1>6. CASE Settle \/ EndJob \/ AbortJob
  BY <1>6 DEF Settle, EndJob, AbortJob
<1>7. CASE Finished \/ UNCHANGED vars
  BY <1>7 DEF Finished, vars
<1>. QED  BY <1>1, <1>2, <1>3, <1>4, <1>5, <1>6, <1>7 DEF Next, ClientStep

LEMMA JobBound == TypeOK /\ BoundInv /\ [Next]_vars => BoundInv'
<1>. SUFFICES ASSUME TypeOK, BoundInv, [Next]_vars PROVE BoundInv'
  OBVIOUS
<1>. USE DEF BoundInv, clientVars, printerVars
<1>1. ASSUME NEW s \in Sources, Call(s) PROVE BoundInv'
  BY <1>1 DEF Call, TypeOK
<1>2. CASE CreateJob
  <2>1. CASE Accept
    <3>1. (njobs + 1) * MaxSheets = njobs * MaxSheets + MaxSheets
      BY DEF TypeOK
    <3>2. sheets = 0 /\ sheets' \in 0 .. MaxSheets /\ njobs' = njobs + 1 /\ scanned' = scanned
      BY <2>1 DEF Accept, Busy, TypeOK
    <3>3. njobs * MaxSheets \in Int
      BY DEF TypeOK
    <3>4. scanned' + sheets' <= njobs' * MaxSheets
      <4>1. scanned \in Nat /\ scanned <= njobs * MaxSheets
        BY <3>2 DEF TypeOK
      <4>2. scanned + sheets' <= njobs * MaxSheets + MaxSheets
        BY <3>2, <3>3, <4>1
      <4>. QED  BY <3>1, <3>2, <4>2
    <3>5. pc' # "post" /\ njobs < calls /\ calls' = calls
      BY <1>2, <2>1 DEF CreateJob, Return, Accept
    <3>6. njobs' <= calls'
      BY <3>2, <3>5 DEF TypeOK
    <3>. QED  BY <3>4, <3>5, <3>6
  <2>2. CASE UNCHANGED printerVars
    BY <1>2, <2>2 DEF CreateJob, Return
  <2>. QED  BY <1>2, <2>1, <2>2 DEF CreateJob
<1>3. CASE NextDocument \/ NoMoreDocuments \/ Interrupted \/ DeleteJob
  BY <1>3 DEF NextDocument, NoMoreDocuments, Interrupted, DeleteJob, Return
<1>4. CASE TakeSheet
  BY <1>4 DEF TakeSheet, TypeOK
<1>5. CASE Settle \/ EndJob
  BY <1>5 DEF Settle, EndJob
<1>6. CASE AbortJob
  <2>1. njobs * MaxSheets \in Int
    BY DEF TypeOK
  <2>. QED  BY <1>6, <2>1 DEF AbortJob, TypeOK
<1>7. CASE Finished \/ UNCHANGED vars
  BY <1>7 DEF Finished, vars
<1>. QED  BY <1>1, <1>2, <1>3, <1>4, <1>5, <1>6, <1>7 DEF Next, ClientStep

-----------------------------------------------------------------------------
(* The pages. *)

LEMMA LastOfConcat ==
    ASSUME NEW s \in Seq(Int), NEW t \in Seq(Int)
    PROVE  LastOf(s \o t) = IF t = << >> THEN LastOf(s) ELSE t[Len(t)]
<1>1. CASE t = << >>
  BY <1>1, ConcatEmptySeq
<1>2. CASE t # << >>
  <2>1. Len(t) \in Nat \ {0} /\ Len(s) \in Nat
    BY <1>2, EmptySeq, LenProperties
  <2>2. Len(s \o t) = Len(s) + Len(t) /\ (s \o t)[Len(s) + Len(t)] = t[Len(t)]
    BY <2>1, ConcatProperties
  <2>3. s \o t # << >>
    BY <2>1, <2>2, EmptySeq
  <2>. QED  BY <1>2, <2>2, <2>3 DEF LastOf
<1>. QED  BY <1>1, <1>2

LEMMA JobSeqs ==
    ASSUME TypeOK
    PROVE  /\ scanned \in Nat /\ sheets \in Nat
           /\ queue \in Seq(Int) /\ pages \in Seq(Int) /\ returned \in Seq(Int)
           /\ Len(queue) \in Nat /\ Len(pages) \in Nat /\ Len(returned) \in Nat
           /\ LastOf(returned) \in Nat
<1>1. scanned \in Nat /\ sheets \in Nat /\ 1 .. scanned \subseteq Int
  BY DEF TypeOK
<1>2. queue \in Seq(Int) /\ pages \in Seq(Int) /\ returned \in Seq(Int)
  BY <1>1, SeqMonotonic DEF TypeOK
<1>3. returned # << >> => returned[Len(returned)] \in 1 .. scanned
  BY EmptySeq, ElementOfSeq DEF TypeOK
<1>. QED  BY <1>1, <1>2, <1>3, LenProperties DEF LastOf

\* The page NextDocument brings is the one after what the client holds.
LEMMA NextPage ==
    ASSUME TypeOK, OpenInv, RunInv, pc = "next", queue # << >>
    PROVE  LET h == Head(queue)
               got == Append(pages, h)
           IN  /\ h = scanned - Len(queue) + 1 /\ h \in Int
               /\ Tail(queue) \in Seq(Int) /\ Len(Tail(queue)) = Len(queue) - 1
               /\ Run(Tail(queue), scanned)
               /\ got \in Seq(Int) /\ got # << >> /\ Len(got) = Len(pages) + 1
               /\ got[Len(got)] = h /\ Run(got, h)
               /\ LastOf(returned) < got[1]
<1>. DEFINE h == Head(queue)
            got == Append(pages, h)
<1>1. scanned \in Nat /\ queue \in Seq(Int) /\ pages \in Seq(Int) /\ Len(queue) \in Nat
      /\ Len(pages) \in Nat /\ LastOf(returned) \in Nat
  BY JobSeqs
<1>2. h = scanned - Len(queue) + 1 /\ Run(Tail(queue), scanned) /\ h \in Int
  BY <1>1, RunTail DEF RunInv
<1>3. Tail(queue) \in Seq(Int) /\ Len(Tail(queue)) = Len(queue) - 1
  BY <1>1, HeadTailProperties
<1>4. got \in Seq(Int) /\ got # << >> /\ Len(got) = Len(pages) + 1 /\ got[Len(pages) + 1] = h
      /\ \A i \in 1 .. Len(pages) : got[i] = pages[i]
  BY <1>1, <1>2, AppendProperties
<1>5. CASE pages = << >>
  <2>1. Len(pages) = 0
    BY <1>5, EmptySeq
  <2>2. Run(got, h) /\ got[1] = h
    BY <1>2, <1>4, <2>1 DEF Run
  <2>3. LastOf(returned) < h
    BY <1>1, <1>2 DEF RunInv
  <2>. QED  BY <1>2, <1>3, <1>4, <2>1, <2>2, <2>3
<1>6. CASE pages # << >>
  <2>1. Len(pages) \in Nat \ {0} /\ got[1] = pages[1]
    BY <1>1, <1>4, <1>6, EmptySeq
  <2>2. open
    BY DEF OpenInv
  <2>3. pages[Len(pages)] = scanned - Len(queue) /\ Run(pages, scanned - Len(queue))
        /\ LastOf(returned) < pages[1]
    BY <1>6, <2>2 DEF RunInv
  <2>4. Run(got, (scanned - Len(queue)) + 1)
    BY <1>1, <1>2, <2>3, RunAppend
  <2>. QED  BY <1>2, <1>3, <1>4, <2>1, <2>3, <2>4
<1>. QED  BY <1>5, <1>6

LEMMA JobRun == TypeOK /\ OpenInv /\ RunInv /\ [Next]_vars => RunInv'
<1>. SUFFICES ASSUME TypeOK, OpenInv, RunInv, [Next]_vars PROVE RunInv'
  OBVIOUS
<1>. USE DEF clientVars, printerVars
<1>1. /\ scanned \in Nat /\ sheets \in Nat
      /\ queue \in Seq(Int) /\ pages \in Seq(Int) /\ returned \in Seq(Int)
      /\ Len(queue) \in Nat /\ Len(pages) \in Nat /\ Len(returned) \in Nat
      /\ LastOf(returned) \in Nat
  BY JobSeqs
<1>2. ASSUME pages' = << >>, UNCHANGED <<queue, scanned, returned>> PROVE RunInv'
  BY <1>2 DEF RunInv, Run, LastOf
<1>3. ASSUME UNCHANGED <<pages, queue, scanned, returned, src>>,
             pc' \in {"next", "delete"}, open' = open
      PROVE  RunInv'
  BY <1>3 DEF RunInv, Run, LastOf
<1>4. ASSUME Return(pages), UNCHANGED scanned,
             queue' = queue \/ (queue # << >> /\ queue' = Tail(queue))
      PROVE  RunInv'
  <2>1. LastOf(returned') <= scanned - Len(queue) /\ LastOf(returned') \in Int
    <3>1. LastOf(returned') = IF pages = << >> THEN LastOf(returned) ELSE pages[Len(pages)]
      BY <1>1, <1>4, LastOfConcat DEF Return
    <3>2. pages # << >> => pages[Len(pages)] \in Int
      BY <1>1, ElementOfSeq, EmptySeq
    <3>. QED  BY <1>1, <3>1, <3>2 DEF RunInv
  <2>2. Run(queue', scanned) /\ Len(queue') \in Nat /\ Len(queue') <= Len(queue)
    <3>1. CASE queue' = queue
      BY <1>1, <3>1 DEF RunInv
    <3>2. CASE queue # << >> /\ queue' = Tail(queue)
      BY <1>1, <3>2, RunTail, HeadTailProperties, LenProperties DEF RunInv
    <3>. QED  BY <1>4, <3>1, <3>2
  <2>3. pages' = << >>
    BY <1>4 DEF Return
  <2>. QED  BY <1>1, <1>4, <2>1, <2>2, <2>3 DEF RunInv, Run, LastOf
<1>5. ASSUME NEW s \in Sources, Call(s) PROVE RunInv'
  <2>1. pages' = << >>
    BY <1>5 DEF Call, RunInv
  <2>. QED  BY <1>2, <1>5, <2>1 DEF Call
<1>6. CASE CreateJob
  <2>1. pages = << >>
    BY <1>6 DEF CreateJob, RunInv
  <2>2. returned \o << >> = returned
    BY <1>1, ConcatEmptySeq
  <2>. QED  BY <1>2, <1>6, <2>1, <2>2 DEF CreateJob, Accept, Return
<1>7. CASE NextDocument
  <2>. DEFINE h == Head(queue)
              got == Append(pages, h)
  <2>1. /\ h = scanned - Len(queue) + 1 /\ h \in Int
        /\ Tail(queue) \in Seq(Int) /\ Len(Tail(queue)) = Len(queue) - 1
        /\ Run(Tail(queue), scanned)
        /\ got \in Seq(Int) /\ got # << >> /\ Len(got) = Len(pages) + 1
        /\ got[Len(got)] = h /\ Run(got, h)
        /\ LastOf(returned) < got[1]
    BY <1>7, NextPage DEF NextDocument
  <2>. HIDE DEF h, got
  <2>2. queue' = Tail(queue) /\ scanned' = scanned /\ open' = open
    BY <1>7 DEF NextDocument
  <2>3. CASE src = "flatbed"
    <3>1. pages' = << >> /\ returned' = returned \o got
      BY <1>7, <2>3 DEF NextDocument, Return, got, h
    <3>2. LastOf(returned') = h
      BY <1>1, <2>1, <3>1, LastOfConcat
    <3>. QED  BY <1>1, <2>1, <2>2, <3>1, <3>2 DEF RunInv, Run, LastOf
  <2>4. CASE src # "flatbed"
    <3>1. pages' = got /\ UNCHANGED <<pc, src, returned>> /\ src = "feeder" /\ pc = "next"
      BY <1>7, <2>4 DEF NextDocument, got, h, TypeOK, Sources
    <3>2. LastOf(returned) <= scanned' - Len(queue')
      BY <1>1, <2>1, <2>2 DEF RunInv
    <3>3. Run(queue', scanned') /\ h = scanned' - Len(queue')
      BY <1>1, <2>1, <2>2
    <3>. QED  BY <2>1, <2>2, <3>1, <3>2, <3>3 DEF RunInv
  <2>. QED  BY <2>3, <2>4
<1>8. CASE NoMoreDocuments
  BY <1>3, <1>8 DEF NoMoreDocuments
<1>9. CASE Interrupted
  BY <1>4, <1>9 DEF Interrupted
<1>10. CASE DeleteJob
  BY <1>4, <1>10 DEF DeleteJob
<1>11. CASE TakeSheet
  <2>1. open /\ UNCHANGED <<pc, src, pages, open, returned>>
    BY <1>1, <1>11 DEF TakeSheet, OpenInv
  <2>2. Run(queue', scanned') /\ Len(queue') = Len(queue) + 1 /\ scanned' = scanned + 1
    BY <1>1, <1>11, RunAppend, AppendProperties DEF TakeSheet, RunInv
  <2>. QED  BY <1>1, <2>1, <2>2 DEF RunInv, LastOf, Run
<1>12. CASE Settle
  BY <1>12 DEF Settle, RunInv, Run, LastOf
<1>13. CASE EndJob
  BY <1>13 DEF EndJob, RunInv, Run, LastOf
<1>14. CASE AbortJob
  <2>1. UNCHANGED <<pc, src, pages, scanned, returned>> /\ queue' = << >> /\ ~open'
    BY <1>14 DEF AbortJob
  <2>2. Len(queue') = 0 /\ Run(queue', scanned')
    BY <2>1, EmptySeq DEF Run
  <2>3. LastOf(returned) <= scanned
    BY <1>1 DEF RunInv
  <2>4. pages # << >> => pages[Len(pages)] <= scanned
    <3>1. pages # << >> => pages[Len(pages)] \in Int
      BY <1>1, ElementOfSeq, EmptySeq
    <3>. QED  BY <1>1, <3>1 DEF RunInv
  <2>. QED  BY <1>1, <2>1, <2>2, <2>3, <2>4 DEF RunInv, LastOf, Run
<1>15. CASE Finished \/ UNCHANGED vars
  BY <1>15 DEF Finished, vars, RunInv, Run, LastOf
<1>. QED
  BY <1>5, <1>6, <1>7, <1>8, <1>9, <1>10, <1>11, <1>12, <1>13, <1>14, <1>15
  DEF Next, ClientStep

-----------------------------------------------------------------------------
(* The number of pages. *)

LEMMA JobCount ==
    TypeOK /\ OpenInv /\ RunInv /\ CountInv /\ GlassInv /\ [Next]_vars => CountInv' /\ GlassInv'
<1>. SUFFICES ASSUME TypeOK, OpenInv, RunInv, CountInv, GlassInv, [Next]_vars
              PROVE  CountInv' /\ GlassInv'
  OBVIOUS
<1>. USE DEF CountInv, GlassInv, clientVars, printerVars, Goes, Wrong
<1>1. /\ scanned \in Nat /\ sheets \in Nat
      /\ queue \in Seq(Int) /\ pages \in Seq(Int) /\ returned \in Seq(Int)
      /\ Len(queue) \in Nat /\ Len(pages) \in Nat /\ Len(returned) \in Nat
  BY JobSeqs
<1>2. Len(returned \o pages) = Len(returned) + Len(pages) /\ returned \o << >> = returned
  BY <1>1, ConcatProperties, ConcatEmptySeq
<1>3. Len(<< >>) = 0
  BY EmptySeq
<1>4. ASSUME NEW s \in Sources, Call(s) PROVE CountInv' /\ GlassInv'
  BY <1>4 DEF Call
<1>5. CASE CreateJob
  <2>1. pages = << >> /\ pc = "post"
    BY <1>5 DEF CreateJob, RunInv
  <2>2. CASE Accept /\ pc' = "next" /\ Goes /\ UNCHANGED <<src, pages, returned>>
    <3>1. queue = << >> /\ queue' = << >> /\ scanned' = scanned /\ (src = "flatbed" => sheets' = 1)
      BY <2>2 DEF Accept, Busy
    <3>. QED  BY <1>1, <1>3, <2>2, <3>1
  <2>3. CASE UNCHANGED printerVars /\ hurt' = hurt
    <3>1. pages' = << >> /\ returned' = returned /\ pc' \in {"idle", "post"}
      BY <1>2, <1>5, <2>1, <2>3 DEF CreateJob, Return, Accept, TypeOK
    <3>. QED  BY <2>1, <2>3, <3>1
  <2>4. CASE hurt' = TRUE /\ pc' = "idle"
    BY <2>4
  <2>. QED  BY <1>5, <2>2, <2>3, <2>4 DEF CreateJob, Return
<1>6. CASE NextDocument
  <2>. DEFINE got == Append(pages, Head(queue))
  <2>1. /\ Len(Tail(queue)) = Len(queue) - 1
        /\ got \in Seq(Int) /\ Len(got) = Len(pages) + 1
    BY <1>6, NextPage DEF NextDocument
  <2>2. Len(returned \o got) = Len(returned) + Len(got)
    BY <1>1, <2>1, ConcatProperties
  <2>. HIDE DEF got
  <2>3. /\ queue' = Tail(queue) /\ scanned' = scanned /\ sheets' = sheets /\ pc = "next"
        /\ Len(queue') \in Nat /\ (~hurt' => ~hurt)
    BY <1>1, <1>6, <2>1, HeadTailProperties, LenProperties DEF NextDocument
  <2>4. Len(queue') = Len(queue) - 1 /\ Len(got) = Len(pages) + 1
    BY <2>1, <2>3
  <2>5. CASE src = "flatbed"
    <3>1. pages' = << >> /\ returned' = returned \o got /\ pc' = "idle"
      BY <1>6, <2>5 DEF NextDocument, Return, got
    <3>2. Len(queue') = 0 /\ sheets = 0
      BY <1>1, <1>6, <2>1, <2>3, <2>5, EmptySeq DEF NextDocument
    <3>3. queue' = << >>
      BY <1>1, <1>6, <2>3, <3>2, HeadTailProperties, EmptySeq DEF NextDocument
    <3>4. Len(returned') + Len(pages') + Len(queue') = Len(returned) + Len(pages) + Len(queue)
      <4>1. Len(returned') = Len(returned) + Len(got) /\ Len(pages') = 0
        BY <1>3, <2>2, <3>1
      <4>. QED  BY <1>1, <2>4, <4>1
    <3>5. CountInv'
      BY <2>3, <3>2, <3>3, <3>4
    <3>6. GlassInv'
      BY <3>1
    <3>. QED  BY <3>5, <3>6
  <2>6. CASE src # "flatbed"
    <3>1. pages' = got /\ UNCHANGED <<pc, src, returned>>
      BY <1>6, <2>6 DEF NextDocument, got
    <3>2. Len(returned') + Len(pages') + Len(queue') = Len(returned) + Len(pages) + Len(queue)
      <4>1. Len(returned') = Len(returned) /\ Len(pages') = Len(got)
        BY <3>1
      <4>. QED  BY <1>1, <2>4, <4>1
    <3>3. CountInv'
      BY <2>3, <3>1, <3>2
    <3>4. GlassInv'
      BY <2>6, <3>1
    <3>. QED  BY <3>3, <3>4
  <2>. QED  BY <2>5, <2>6
<1>7. CASE NoMoreDocuments
  BY <1>7 DEF NoMoreDocuments, OpenInv
<1>8. CASE Interrupted
  BY <1>8 DEF Interrupted, Return
<1>9. CASE DeleteJob
  BY <1>1, <1>2, <1>3, <1>9 DEF DeleteJob, Return
<1>10. CASE TakeSheet
  <2>1. Len(queue') = Len(queue) + 1
    BY <1>1, <1>10, AppendProperties DEF TakeSheet
  <2>. QED  BY <1>1, <1>10, <2>1 DEF TakeSheet
<1>11. CASE Settle \/ EndJob
  BY <1>11 DEF Settle, EndJob
<1>12. CASE AbortJob
  BY <1>3, <1>12 DEF AbortJob
<1>13. CASE Finished \/ UNCHANGED vars
  BY <1>13 DEF Finished, vars
<1>. QED
  BY <1>4, <1>5, <1>6, <1>7, <1>8, <1>9, <1>10, <1>11, <1>12, <1>13 DEF Next, ClientStep

LEMMA JobInvAlways == Spec => []JobInv
<1>1. Init => JobInv
  BY JobInit
<1>2. JobInv /\ [Next]_vars => JobInv'
  BY JobType, JobOpen, JobBound, JobRun, JobCount DEF JobInv
<1>. QED  BY <1>1, <1>2, PTL DEF Spec

(* Type correctness of one client's calls of ScanPages and of the printer's  *)
(* jobs (escl/client.go), with failures.                                     *)
THEOREM EsclJobTypes == Spec => []TypeOK
BY JobInvAlways, PTL DEF JobInv

(* createJob repeats a POST only after 503: a printer gets at most one job   *)
(* for each call of ScanPages, whatever replies are lost.                    *)
THEOREM EsclOneJobPerCall == Spec => []OneJobPerCall
<1>1. JobInv => OneJobPerCall
  BY DEF JobInv, BoundInv, OneJobPerCall
<1>. QED  BY <1>1, JobInvAlways, PTL

(* ScanPages deletes a job only after a 404 and leaves a flatbed job alone:  *)
(* no job is ever recorded as cancelled by the user.                         *)
THEOREM EsclNothingCancelled == Spec => []NothingCancelled
<1>1. JobInv => NothingCancelled
  BY DEF JobInv, OpenInv, NothingCancelled
<1>. QED  BY <1>1, JobInvAlways, PTL

(* ScanPages leaves no page on the printer and drops none when nothing fails. *)
THEOREM EsclAllPagesReturned == Spec => []AllPagesReturned
<1>1. JobInv => AllPagesReturned
  <2>. SUFFICES ASSUME JobInv, pc = "idle", ~hurt PROVE Len(returned) = scanned
    BY DEF AllPagesReturned
  <2>1. queue = << >> /\ pages = << >> /\ Len(returned) + Len(pages) + Len(queue) = scanned
    BY DEF JobInv, CountInv, RunInv
  <2>2. Len(returned) \in Nat /\ Len(<< >>) = 0
    BY JobSeqs, EmptySeq DEF JobInv
  <2>. QED  BY <2>1, <2>2
<1>. QED  BY <1>1, JobInvAlways, PTL

-----------------------------------------------------------------------------
(* The refinement. *)

LEMMA ScannedBound ==
    ASSUME TypeOK, BoundInv
    PROVE  scanned <= MaxCalls * MaxSheets /\ MaxCalls * MaxSheets \in Nat
<1>1. \A a, b, c \in Nat : a <= b => a * c <= b * c
  OBVIOUS
<1>2. njobs \in Nat /\ njobs <= MaxCalls /\ scanned \in Nat /\ sheets \in Nat
  BY DEF TypeOK, BoundInv
<1>3. njobs * MaxSheets <= MaxCalls * MaxSheets
  BY <1>1, <1>2
<1>4. njobs * MaxSheets \in Nat /\ MaxCalls * MaxSheets \in Nat
  BY <1>2
<1>5. scanned + sheets <= njobs * MaxSheets
  BY DEF BoundInv
<1>. QED  BY <1>2, <1>3, <1>4, <1>5

\* What the client holds is what ScanCall allows a call to return.
LEMMA ReturnRun ==
    ASSUME TypeOK, BoundInv,
           NEW p \in Seq(1 .. scanned), p # << >>, Run(p, p[Len(p)]), LastOf(returned) < p[1],
           src = "flatbed" => Len(p) = 1,
           pc # "idle", pc' = "idle", src' = src, returned' = returned \o p
    PROVE  ScanPages!Next
<1>1. p \in Seq(Int) /\ Len(p) \in Nat \ {0} /\ p[1] \in 1 .. scanned /\ p[Len(p)] \in 1 .. scanned
  <2>1. 1 .. scanned \subseteq Int /\ scanned \in Nat
    BY DEF TypeOK
  <2>2. Len(p) \in Nat \ {0}
    BY EmptySeq
  <2>. QED  BY <2>1, <2>2, SeqMonotonic, ElementOfSeq
<1>2. p = [i \in 1 .. Len(p) |-> p[1] + i - 1] /\ p[1] = p[Len(p)] - Len(p) + 1
  BY <1>1, RunIsSegment
<1>3. Len(p) \in 1 .. MaxCalls * MaxSheets /\ p[1] \in 1 .. MaxCalls * MaxSheets
  <2>1. scanned \in Nat
    BY DEF TypeOK
  <2>. QED  BY <1>1, <1>2, <2>1, ScannedBound
<1>4. ScanPages!Return(p[1], Len(p))
  <2>1. returned' = returned \o [i \in 1 .. Len(p) |-> p[1] + i - 1]
    BY <1>2
  <2>2. p[1] > ScanPages!Last /\ Len(p) >= 1
    BY <1>1 DEF ScanPages!Last, LastOf
  <2>. QED  BY <2>1, <2>2 DEF ScanPages!Return
<1>. QED  BY <1>3, <1>4 DEF ScanPages!Next

LEMMA JobSteps ==
    ASSUME JobInv, [Next]_vars
    PROVE  [ScanPages!Next]_<<pc # "idle", src, returned>>
<1>. USE DEF clientVars, printerVars
<1>1. /\ TypeOK /\ OpenInv /\ RunInv /\ BoundInv
      /\ scanned \in Nat /\ returned \in Seq(Int) /\ returned \o << >> = returned
  BY JobSeqs, ConcatEmptySeq DEF JobInv
<1>2. ASSUME pc # "idle", pc' = "idle", UNCHANGED <<src, returned>> PROVE ScanPages!Next
  BY <1>2 DEF ScanPages!Next, ScanPages!Fail
<1>3. ASSUME pc \in {"next", "delete"}, Return(pages) PROVE ScanPages!Next
  <2>1. CASE pages = << >>
    BY <1>1, <1>2, <1>3, <2>1 DEF Return
  <2>2. CASE pages # << >>
    <3>1. Run(pages, pages[Len(pages)]) /\ LastOf(returned) < pages[1] /\ src = "feeder"
      BY <1>1, <2>2 DEF RunInv
    <3>2. pages \in Seq(1 .. scanned)
      BY <1>1 DEF TypeOK
    <3>3. src' = src /\ pc' = "idle" /\ returned' = returned \o pages /\ pc # "idle"
      BY <1>3 DEF Return
    <3>. QED  BY <1>1, <2>2, <3>1, <3>2, <3>3, ReturnRun
  <2>. QED  BY <2>1, <2>2
<1>4. ASSUME NEW s \in Sources, Call(s) PROVE ScanPages!Next
  BY <1>4 DEF Call, Sources, ScanPages!Next, ScanPages!Call
<1>5. CASE CreateJob
  BY <1>1, <1>2, <1>5 DEF CreateJob, Return
<1>6. CASE NextDocument
  <2>. DEFINE got == Append(pages, Head(queue))
  <2>1. /\ got \in Seq(Int) /\ got # << >> /\ Len(got) = Len(pages) + 1
        /\ got[Len(got)] = Head(queue) /\ Run(got, Head(queue))
        /\ LastOf(returned) < got[1]
    BY <1>1, <1>6, NextPage DEF NextDocument
  <2>2. got \in Seq(1 .. scanned)
    <3>1. Head(queue) \in 1 .. scanned /\ pages \in Seq(1 .. scanned)
      BY <1>1, <1>6, HeadTailProperties DEF NextDocument, TypeOK
    <3>. QED  BY <3>1, AppendProperties
  <2>3. CASE src = "flatbed"
    <3>1. pages = << >> /\ Len(got) = 1
      BY <1>1, <2>1, <2>3, EmptySeq DEF RunInv
    <3>2. pc # "idle" /\ pc' = "idle" /\ src' = src /\ returned' = returned \o got
      BY <1>6, <2>3 DEF NextDocument, Return
    <3>. QED  BY <1>1, <2>1, <2>2, <3>1, <3>2, ReturnRun
  <2>4. CASE src # "flatbed"
    BY <1>6, <2>4 DEF NextDocument
  <2>. QED  BY <2>3, <2>4
<1>7. CASE NoMoreDocuments
  BY <1>7 DEF NoMoreDocuments
<1>8. CASE Interrupted
  BY <1>3, <1>8 DEF Interrupted
<1>9. CASE DeleteJob
  BY <1>3, <1>9 DEF DeleteJob
<1>10. CASE TakeSheet \/ Settle \/ EndJob \/ AbortJob
  BY <1>10 DEF TakeSheet, Settle, EndJob, AbortJob
<1>11. CASE Finished \/ UNCHANGED vars
  BY <1>11 DEF Finished, vars
<1>. QED
  BY <1>4, <1>5, <1>6, <1>7, <1>8, <1>9, <1>10, <1>11 DEF Next, ClientStep

(* Whatever replies are lost, jobs aborted and requests repeated, a call of  *)
(* ScanPages fails or returns pages the scanner took one after another since *)
(* the pages of the call before, and one from the glass.                     *)
THEOREM EsclReturnsScanned == Spec => ReturnsScanned
<1>1. Init => ScanPages!Init
  BY DEF Init, ScanPages!Init
<1>2. JobInv /\ [Next]_vars => [ScanPages!Next]_<<pc # "idle", src, returned>>
  BY JobSteps
<1>. QED  BY <1>1, <1>2, JobInvAlways, PTL DEF Spec, ReturnsScanned, ScanPages!Spec
=============================================================================
