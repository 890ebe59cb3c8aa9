-------------------------- MODULE EsclSessionProofs --------------------------
(***************************************************************************)
(* Proofs about EsclSession, for every channel capacity, failure limit and *)
(* bound, and every set of faults.                                         *)
(***************************************************************************)
EXTENDS EsclSession, DocumentsProofs

USE EsclAssumption

\* Why the panel never shows this computer twice: what each place of the
\* poller knows about the newest entry.
EntryInv ==
    /\ OneEntryOnPanel
    /\ PollsNewestEntry
    /\ ppc = "store" => psub = nsubs
    /\ ppc = "reg" => subs = {}
    /\ ppc \in {"poll", "get", "send"} /\ hpc \notin {"unsub", "done"} => esub = nsubs
    /\ hpc = "setup" => ppc = "exit" /\ subs = {}

-----------------------------------------------------------------------------
(* Every variable of a session keeps its type.                              *)
LEMMA SessionTypeInit == Init => SessionTypeOK
<1> SUFFICES ASSUME Init PROVE SessionTypeOK
  OBVIOUS
<1>1. << >> \in Seq(Event) /\ Len(<< >>) = 0
  BY EmptySeq
<1>2. NoEvent \in Event /\ NoJob \in Job /\ "pdf" \in Formats
  BY DEF Event, NoEvent, Job, NoJob, Sources, Formats
<1>3. pollErr \in BOOLEAN /\ cancelled \in BOOLEAN
  BY DEF Init
<1>4. subs \subseteq 1 .. nsubs /\ wedged \subseteq subs /\ pend \in [1 .. MaxSubs -> Seq(Event)]
  BY <1>1 DEF Init
<1> QED
  BY <1>1, <1>2, <1>3, <1>4 DEF Init, SessionTypeOK

LEMMA PostType ==
  ASSUME SessionTypeOK, NEW type \in {"host", "scan", "complete"}, NEW fmt \in Formats,
         NEW s \in Nat, NEW v \in Nat, Post(type, fmt, s, v)
  PROVE  pend' \in [1 .. MaxSubs -> Seq(Event)] /\ posted' \in Nat
<1> DEFINE e == [type |-> type, fmt |-> fmt, sub |-> s, visit |-> v, seq |-> posted + 1]
<1>1. e \in Event /\ posted' \in Nat
  BY DEF SessionTypeOK, Post, Event
<1> HIDE DEF e
<1>2. pend' = [pend EXCEPT ![s] = Append(pend[s], e)]
  BY DEF Post, e
<1>3. s \in 1 .. MaxSubs => Append(pend[s], e) \in Seq(Event)
  BY <1>1, AppendProperties DEF SessionTypeOK
<1> QED
  BY <1>1, <1>2, <1>3 DEF SessionTypeOK

LEMMA ForgetType ==
  ASSUME SessionTypeOK, NEW s, Forget(s)
  PROVE  /\ subs' \subseteq 1 .. nsubs' /\ wedged' \subseteq subs' /\ nsubs' = nsubs
         /\ pend' \in [1 .. MaxSubs -> Seq(Event)]
         /\ panel' \in {"idle", "menu", "scan", "prompt"}
         /\ UNCHANGED <<panelSub, panelFmt, visit, posted>>
<1>1. << >> \in Seq(Event)
  BY EmptySeq
<1> QED
  BY <1>1 DEF SessionTypeOK, Forget

LEMMA SessionTypeNext == SessionTypeOK /\ [Next]_vars => SessionTypeOK'
<1> SUFFICES ASSUME SessionTypeOK, [Next]_vars PROVE SessionTypeOK'
  OBVIOUS
<1> USE DEF SessionTypeOK, handlerVars, pollerVars, sharedVars, entryVars, panelVars
<1>1. CASE Setup
  <2>1. Enter \/ UNCHANGED entryVars
    BY <1>1 DEF Setup
  <2> DEFINE T == /\ nsubs' \in Nat /\ nsubs' <= MaxSubs
                  /\ subs' \subseteq 1 .. nsubs' /\ wedged' \subseteq subs'
                  /\ pend' \in [1 .. MaxSubs -> Seq(Event)]
  <2>2. T
    <3>1. CASE Enter
      BY <3>1 DEF Enter
    <3>2. CASE UNCHANGED entryVars
      BY <3>2
    <3> QED
      BY <2>1, <3>1, <3>2
  <2>3. /\ esub' \in Nat /\ hpc' \in {"select", "done"} /\ ppc' \in {"poll", ppc}
    BY <1>1 DEF Setup
  <2> QED
    BY <1>1, <2>2, <2>3 DEF Setup
<1>2. CASE TakeEvent
  <2>1. events # << >> /\ events \in Seq(Event)
    BY <1>2 DEF TakeEvent
  <2>2. /\ Head(events) \in Event /\ Tail(events) \in Seq(Event)
        /\ Len(Tail(events)) = Len(events) - 1 /\ Len(events) \in Nat
    BY <2>1, HeadTailProperties, LenProperties
  <2> QED
    BY <1>2, <2>2 DEF TakeEvent
<1>3. CASE LoopEnds
  BY <1>3 DEF LoopEnds
<1>4. CASE ScanFails
  BY <1>4 DEF ScanFails
<1>5. CASE TakeSub
  BY <1>5 DEF TakeSub
<1>6. CASE Unsubscribe
  BY <1>6, ForgetType DEF Unsubscribe
<1>7. ASSUME NEW src \in Sources, ScannerIdle(src) PROVE SessionTypeOK'
  BY <1>7 DEF ScannerIdle, WaitIdle, EsclSettings, NoJob, Job, Sources
<1>8. ASSUME NEW n \in 1 .. MaxFeed, ScanDone(n) PROVE SessionTypeOK'
  <2>1. Post("complete", panelFmt, panelSub, visit) =>
           pend' \in [1 .. MaxSubs -> Seq(Event)] /\ posted' \in Nat
    BY PostType
  <2>2. pend' \in [1 .. MaxSubs -> Seq(Event)] /\ posted' \in Nat
    BY <1>8, <2>1 DEF ScanDone
  <2> QED
    BY <1>8, <2>2 DEF ScanDone
<1>9. CASE PollStart
  BY <1>9 DEF PollStart
<1>10. CASE PollExit
  BY <1>10 DEF PollExit
<1>11. CASE AbandonPoll
  BY <1>11 DEF AbandonPoll
<1>12. CASE AnswerNothing
  BY <1>12 DEF AnswerNothing
<1>13. CASE AnswerEvent
  <2>1. psub \in 1 .. MaxSubs /\ pend[psub] \in Seq(Event) /\ pend[psub] # << >>
    BY <1>13 DEF AnswerEvent
  <2>2. Head(pend[psub]) \in Event /\ Tail(pend[psub]) \in Seq(Event)
    BY <2>1, HeadTailProperties
  <2> QED
    BY <1>13, <2>2 DEF AnswerEvent
<1>14. CASE AnswerGone
  BY <1>14 DEF AnswerGone
<1>15. CASE PollFails
  <2>1. pend' \in [1 .. MaxSubs -> Seq(Event)] /\ wedged' \subseteq subs
    <3>1. CASE pend' = [pend EXCEPT ![psub] = Tail(@)] /\ psub \in subs /\ pend[psub] # << >>
      <4>1. pend[psub] \in Seq(Event)
        BY <3>1
      <4>2. Tail(pend[psub]) \in Seq(Event)
        BY <3>1, <4>1, HeadTailProperties
      <4> QED
        BY <1>15, <3>1, <4>2 DEF PollFails
    <3>2. CASE UNCHANGED pend
      BY <1>15, <3>2 DEF PollFails
    <3> QED
      BY <1>15, <3>1, <3>2 DEF PollFails
  <2>2. /\ failures' \in {failures, failures + 1} /\ ppc' \in {"poll", "exit"}
        /\ pollErr' = TRUE \/ pollErr' = pollErr
    BY <1>15 DEF PollFails, CountFailure
  <2>3. pollErr' \in BOOLEAN
    BY <2>2, Zenon
  <2>4. failures' \in Nat
    BY <2>2
  <2> QED
    BY <1>15, <2>1, <2>2, <2>3, <2>4 DEF PollFails
<1>16. CASE Register
  BY <1>16 DEF Register, Enter
<1>17. CASE StoreSub
  BY <1>17 DEF StoreSub
<1>18. CASE RegisterFails
  BY <1>18 DEF RegisterFails
<1>19. CASE SendEvent
  <2>1. events' \in Seq(Event) /\ Len(events') = Len(events) + 1 /\ Len(events) \in Nat
    BY <1>19, AppendProperties, LenProperties DEF SendEvent
  <2> QED
    BY <1>19, <2>1 DEF SendEvent
<1>20. ASSUME NEW s \in subs, SelectHost(s) PROVE SessionTypeOK'
  <2>1. pend' \in [1 .. MaxSubs -> Seq(Event)] /\ posted' \in Nat
    BY <1>20, PostType DEF SelectHost, Formats
  <2> QED
    BY <1>20, <2>1 DEF SelectHost
<1>21. ASSUME NEW s \in subs, Evict(s) PROVE SessionTypeOK'
  BY <1>21, ForgetType DEF Evict
<1>22. ASSUME NEW fmt \in Formats, PressStart(fmt) PROVE SessionTypeOK'
  <2>1. pend' \in [1 .. MaxSubs -> Seq(Event)] /\ posted' \in Nat
    BY <1>22, PostType DEF PressStart
  <2> QED
    BY <1>22, <2>1 DEF PressStart
<1>23. CASE AddPage
  <2>1. pend' \in [1 .. MaxSubs -> Seq(Event)] /\ posted' \in Nat
    BY <1>23, PostType DEF AddPage
  <2> QED
    BY <1>23, <2>1 DEF AddPage
<1>24. CASE PressDone
  <2>1. pend' \in [1 .. MaxSubs -> Seq(Event)] /\ posted' \in Nat
    BY <1>24, PostType DEF PressDone
  <2> QED
    BY <1>24, <2>1 DEF PressDone
<1>25. CASE Leave
  BY <1>25 DEF Leave
<1>26. CASE ExpireDocument
  BY <1>26 DEF ExpireDocument
<1>27. CASE Cancel
  BY <1>27 DEF Cancel
<1>28. CASE UNCHANGED vars
  BY <1>28 DEF vars
<1> QED
  BY <1>1, <1>2, <1>3, <1>4, <1>5, <1>6, <1>7, <1>8, <1>9, <1>10, <1>11, <1>12, <1>13, <1>14,
     <1>15, <1>16, <1>17, <1>18, <1>19, <1>20, <1>21, <1>22, <1>23, <1>24, <1>25, <1>26, <1>27,
     <1>28 DEF Next, HandlerStep, PollerStep, PanelStep, Terminated

-----------------------------------------------------------------------------
(* What the session does with documents, it does through Documents.         *)
LEMMA DocNext == DocInv /\ SessionTypeOK /\ [Next]_vars => DocInv'
<1> SUFFICES ASSUME DocInv, SessionTypeOK, [Next]_vars PROVE DocInv'
  OBVIOUS
<1>1. jpegPage \in Nat
  BY DEF DocInv, DocTypeOK
<1>2. CASE TakeEvent
  <2>1. CASE UNCHANGED docVars
    BY <2>1, DocStutter
  <2>2. CASE PagesComplete /\ UNCHANGED owner
    BY <2>2, FinishKeepsDocInv DEF PagesComplete
  <2> QED
    BY <1>2, <2>1, <2>2 DEF TakeEvent
<1>3. CASE ExpireDocument
  BY <1>1, <1>3, FinishKeepsDocInv DEF ExpireDocument
<1>4. CASE Unsubscribe
  BY <1>1, <1>4, FinishKeepsDocInv DEF Unsubscribe
<1>5. ASSUME NEW n \in 1 .. MaxFeed, ScanDone(n) PROVE DocInv'
  <2>1. n \in Nat /\ cur.visit \in Nat /\ (job.src = "feeder") \in BOOLEAN
    BY DEF SessionTypeOK, Event
  <2> QED
    BY <1>5, <2>1, FilePagesKeepsDocInv DEF ScanDone
<1>6. \/ TakeEvent \/ ExpireDocument \/ Unsubscribe \/ \E n \in 1 .. MaxFeed : ScanDone(n)
      \/ UNCHANGED docVars
  BY DEF Next, HandlerStep, PollerStep, PanelStep, Terminated, vars, Setup, LoopEnds, ScanFails,
         ScannerIdle, TakeSub, PollStart, PollExit, AbandonPoll, AnswerNothing, AnswerEvent,
         AnswerGone, PollFails, Register, StoreSub, RegisterFails, SendEvent, SelectHost, Evict,
         PressStart, AddPage, PressDone, Leave, Cancel
<1> QED
  BY <1>2, <1>3, <1>4, <1>5, <1>6, DocStutter

(* TypeOK: every variable keeps its type, and PagesConserved, PagesInOrder: *)
(* whatever polls, scans, expiries, teardowns and failed writes interleave, *)
(* each page is in one place, in scanning order.                            *)
THEOREM SessionDocuments == Spec => [](TypeOK /\ PagesConserved /\ PagesInOrder)
<1>1. Init => SessionTypeOK /\ DocInv
  BY SessionTypeInit, DocInitInv DEF Init
<1>2. SessionTypeOK /\ DocInv /\ [Next]_vars => (SessionTypeOK /\ DocInv)'
  BY SessionTypeNext, DocNext
<1>3. SessionTypeOK /\ DocInv => TypeOK /\ PagesConserved /\ PagesInOrder
  BY DEF TypeOK, DocInv
<1> QED
  BY <1>1, <1>2, <1>3, PTL DEF Spec

-----------------------------------------------------------------------------
(* EntryInv is inductive given the types.                                   *)
LEMMA EntryInit == Init => EntryInv
BY DEF Init, EntryInv, OneEntryOnPanel, PollsNewestEntry

LEMMA EntryNext == SessionTypeOK /\ EntryInv /\ [Next]_vars => EntryInv'
<1> SUFFICES ASSUME SessionTypeOK, EntryInv, [Next]_vars PROVE EntryInv'
  OBVIOUS
<1> USE DEF EntryInv, OneEntryOnPanel, PollsNewestEntry,
            handlerVars, pollerVars, sharedVars, entryVars, panelVars
<1>0. nsubs \in Nat
  BY DEF SessionTypeOK
<1>1. CASE Setup
  BY <1>0, <1>1 DEF Setup, Enter
<1>2. CASE TakeEvent
  BY <1>2 DEF TakeEvent
<1>3. CASE LoopEnds \/ ScanFails \/ TakeSub \/ Unsubscribe
  BY <1>3 DEF LoopEnds, ScanFails, TakeSub, Unsubscribe, Forget
<1>4. ASSUME NEW src \in Sources, ScannerIdle(src) PROVE EntryInv'
  BY <1>4 DEF ScannerIdle, WaitIdle, EsclSettings
<1>5. ASSUME NEW n \in 1 .. MaxFeed, ScanDone(n) PROVE EntryInv'
  BY <1>5 DEF ScanDone
<1>6. CASE PollStart
  BY <1>6 DEF PollStart, PollCtxDone
<1>7. CASE PollExit \/ AbandonPoll
  BY <1>7 DEF PollExit, AbandonPoll
<1>8. CASE AnswerNothing \/ AnswerEvent
  <2>1. hpc \notin {"unsub", "done"} => esub = nsubs
    BY <1>8 DEF AnswerNothing, AnswerEvent
  <2> QED
    BY <1>8, <2>1 DEF AnswerNothing, AnswerEvent
<1>9. CASE AnswerGone
  BY <1>9 DEF AnswerGone
<1>10. CASE PollFails
  BY <1>10 DEF PollFails, CountFailure
<1>11. CASE Register
  BY <1>0, <1>11 DEF Register, Enter
<1>12. CASE StoreSub
  BY <1>12 DEF StoreSub
<1>13. CASE RegisterFails \/ SendEvent
  BY <1>13 DEF RegisterFails, SendEvent
<1>14. ASSUME NEW s \in subs, SelectHost(s) \/ Evict(s) PROVE EntryInv'
  BY <1>14 DEF SelectHost, Evict, Forget
<1>15. ASSUME NEW fmt \in Formats, PressStart(fmt) PROVE EntryInv'
  BY <1>15 DEF PressStart
<1>16. CASE AddPage \/ PressDone \/ Leave
  BY <1>16 DEF AddPage, PressDone, Leave
<1>17. CASE ExpireDocument \/ Cancel
  BY <1>17 DEF ExpireDocument, Cancel
<1>18. CASE UNCHANGED vars
  BY <1>18 DEF vars
<1> QED
  BY <1>1, <1>2, <1>3, <1>4, <1>5, <1>6, <1>7, <1>8, <1>9, <1>10, <1>11, <1>12, <1>13, <1>14,
     <1>15, <1>16, <1>17, <1>18 DEF Next, HandlerStep, PollerStep, PanelStep, Terminated

(* The panel offers this computer at most once, and the poller's request is *)
(* about that entry, however registrations and teardowns overlap.           *)
THEOREM SessionEntries == Spec => [](OneEntryOnPanel /\ PollsNewestEntry)
<1>1. Init => SessionTypeOK /\ EntryInv
  BY SessionTypeInit, EntryInit
<1>2. SessionTypeOK /\ EntryInv /\ [Next]_vars => (SessionTypeOK /\ EntryInv)'
  BY SessionTypeNext, EntryNext
<1>3. EntryInv => OneEntryOnPanel /\ PollsNewestEntry
  BY DEF EntryInv
<1> QED
  BY <1>1, <1>2, <1>3, PTL DEF Spec

-----------------------------------------------------------------------------
(* Sequences: what taking, moving and losing elements makes of a            *)
(* concatenation.                                                           *)
LEMMA HeadAndTail ==
  ASSUME NEW S, NEW s \in Seq(S), s # << >>
  PROVE  s = <<Head(s)>> \o Tail(s)
<1>1. Len(s) \in Nat \ {0} /\ 1 \in 1 .. Len(s) /\ Len(s) \in 1 .. Len(s)
  BY EmptySeq
<1>2. SubSeq(s, 1, Len(s)) = <<s[1]>> \o SubSeq(s, 2, Len(s))
  BY <1>1, SubSeqRecursiveFirst
<1> QED
  BY <1>2, SubSeqFull, TailIsSubSeq

LEMMA HeadOfConcat ==
  ASSUME NEW S, NEW s \in Seq(S), NEW t \in Seq(S), s # << >>
  PROVE  Head(s \o t) = Head(s)
<1>1. Len(s) \in Nat \ {0} /\ Len(t) \in Nat
  BY EmptySeq, LenProperties
<1>2. s \o t \in Seq(S) /\ s \o t # << >> /\ (s \o t)[1] = s[1]
  <2>1. /\ s \o t \in Seq(S) /\ Len(s \o t) = Len(s) + Len(t)
        /\ \A i \in 1 .. Len(s) + Len(t) :
              (s \o t)[i] = IF i <= Len(s) THEN s[i] ELSE t[i - Len(s)]
    BY ConcatProperties
  <2>2. 1 \in 1 .. Len(s) + Len(t) /\ 1 <= Len(s) /\ Len(s) + Len(t) # 0
    BY <1>1
  <2> QED
    BY <2>1, <2>2, EmptySeq
<1> QED
  BY <1>2, HeadTailProperties

LEMMA TailOfConcat ==
  ASSUME NEW S, NEW s \in Seq(S), NEW t \in Seq(S), s # << >>
  PROVE  s \o t # << >> /\ Tail(s \o t) = Tail(s) \o t
<1> DEFINE u == s \o t   v == Tail(u)   w == Tail(s) \o t
<1>1. Len(s) \in Nat \ {0} /\ Len(t) \in Nat
  BY EmptySeq, LenProperties
<1>2. /\ u \in Seq(S) /\ Len(u) = Len(s) + Len(t)
      /\ \A i \in 1 .. Len(s) + Len(t) : u[i] = IF i <= Len(s) THEN s[i] ELSE t[i - Len(s)]
  BY ConcatProperties
<1>3. u # << >>
  BY <1>1, <1>2, EmptySeq
<1> DEFINE r == Tail(s)
<1>4. r \in Seq(S) /\ Len(r) = Len(s) - 1 /\ \A i \in 1 .. Len(r) : r[i] = s[i + 1]
  BY HeadTailProperties
<1> HIDE DEF r
<1>5. /\ w \in Seq(S) /\ Len(w) = Len(r) + Len(t)
      /\ \A i \in 1 .. Len(r) + Len(t) : w[i] = IF i <= Len(r) THEN r[i] ELSE t[i - Len(r)]
  BY <1>4, ConcatProperties DEF r
<1> HIDE DEF u
<1>6. v \in Seq(S) /\ Len(v) = Len(u) - 1 /\ \A i \in 1 .. Len(v) : v[i] = u[i + 1]
  BY <1>2, <1>3, HeadTailProperties
<1> HIDE DEF v, w
<1>7. Len(v) = Len(w)
  BY <1>1, <1>2, <1>4, <1>5, <1>6
<1>8. ASSUME NEW i \in 1 .. Len(v) PROVE v[i] = w[i]
  <2>1. i \in Nat /\ i + 1 \in 1 .. Len(u) /\ v[i] = u[i + 1]
    BY <1>1, <1>2, <1>6
  <2>2. CASE i + 1 <= Len(s)
    BY <1>1, <1>2, <1>4, <1>5, <2>1, <2>2
  <2>3. CASE ~(i + 1 <= Len(s))
    <3>1. u[i + 1] = t[(i + 1) - Len(s)]
      BY <1>2, <2>1, <2>3
    <3>2. i \in 1 .. Len(r) + Len(t) /\ ~(i <= Len(r))
      BY <1>1, <1>2, <1>4, <2>1, <2>3
    <3>3. w[i] = t[i - Len(r)]
      BY <1>5, <3>2
    <3>4. i - Len(r) = (i + 1) - Len(s)
      BY <1>1, <1>4, <2>1
    <3> QED
      BY <2>1, <3>1, <3>3, <3>4
  <2> QED
    BY <2>2, <2>3
<1>9. v = w
  BY <1>5, <1>6, <1>7, <1>8, SeqEqual
<1> QED
  BY <1>3, <1>9 DEF u, v, w

\* v is u without a run of it.
Loses(u, v) ==
    \E i \in 0 .. Len(u), j \in 1 .. Len(u) + 1 :
       i < j /\ v = SubSeq(u, 1, i) \o SubSeq(u, j, Len(u))

LEMMA RunLost ==
  ASSUME NEW S, NEW s \in Seq(S), NEW r \in Seq(S), NEW t \in Seq(S),
         NEW u, u = (s \o r) \o t, NEW v, v = s \o t
  PROVE  Loses(u, v)
<1> DEFINE q == s \o r
           a == Len(s)   b == Len(r)   c == Len(t)
           j == a + b + 1
           front == SubSeq(u, 1, a)   back == SubSeq(u, j, Len(u))
<1>1. a \in Nat /\ b \in Nat /\ c \in Nat
  BY LenProperties
<1>2. /\ q \in Seq(S) /\ Len(q) = a + b
      /\ \A i \in 1 .. a + b : q[i] = IF i <= a THEN s[i] ELSE r[i - a]
  BY ConcatProperties
<1>3. /\ u \in Seq(S) /\ Len(u) = Len(q) + c
      /\ \A i \in 1 .. Len(q) + c : u[i] = IF i <= Len(q) THEN q[i] ELSE t[i - Len(q)]
  BY <1>2, ConcatProperties
<1> HIDE DEF q, a, b, c
<1>4. Len(u) = a + b + c /\ \A i \in 1 .. Len(u) : u[i] \in S
  BY <1>2, <1>3, ElementOfSeq
<1>5. (\A i \in 1 .. a : u[i] = s[i]) /\ (\A i \in 1 .. c : u[i + a + b] = t[i])
  <2>1. ASSUME NEW i \in 1 .. a PROVE u[i] = s[i]
    BY <1>1, <1>2, <1>3
  <2>2. ASSUME NEW i \in 1 .. c PROVE u[i + a + b] = t[i]
    <3>1. /\ i + a + b \in 1 .. Len(q) + c /\ ~(i + a + b <= Len(q))
          /\ (i + a + b) - Len(q) = i
      BY <1>1, <1>2
    <3> QED
      BY <1>3, <3>1
  <2> QED
    BY <2>1, <2>2
<1>6. front \in Seq(S) /\ Len(front) = a /\ \A i \in 1 .. a : front[i] = s[i]
  BY <1>1, <1>4, <1>5, SubSeqProperties
<1>7. front = s
  BY <1>6, SeqEqual DEF a
<1>8. back \in Seq(S) /\ Len(back) = c /\ \A i \in 1 .. c : back[i] = u[i + a + b]
  BY <1>1, <1>4, SubSeqProperties
<1>9. back = t
  BY <1>5, <1>8, SeqEqual DEF c
<1>10. a \in 0 .. Len(u) /\ j \in 1 .. Len(u) + 1 /\ a < j
  BY <1>1, <1>4
<1> QED
  BY <1>7, <1>9, <1>10 DEF Loses

-----------------------------------------------------------------------------
(* The channel, the poller and the printer as one queue.                    *)

\* The parts of Undelivered behind the channel: what the poller holds, and
\* what the printer does.
Held == IF ppc = "send" THEN <<pev>> ELSE << >>
AtPrinter == IF ppc = "exit" \/ nsubs = 0 THEN << >> ELSE pend[nsubs]

\* Events wait only at an entry that exists, and a visit has such an entry.
PanelInv ==
    /\ \A s \in 1 .. MaxSubs : s \notin subs => pend[s] = << >>
    /\ panel # "idle" => panelSub \in subs

LEMMA ForgetPanel ==
  ASSUME SessionTypeOK, PanelInv, NEW s, Forget(s)
  PROVE  PanelInv'
BY DEF SessionTypeOK, PanelInv, Forget

LEMMA PostPanel ==
  ASSUME SessionTypeOK, PanelInv, NEW type, NEW fmt, NEW s \in subs, NEW v,
         Post(type, fmt, s, v), subs' = subs, panelSub' = s
  PROVE  PanelInv'
BY DEF SessionTypeOK, PanelInv, Post

LEMMA PanelNext == SessionTypeOK /\ PanelInv /\ [Next]_vars => PanelInv'
<1> SUFFICES ASSUME SessionTypeOK, PanelInv, [Next]_vars PROVE PanelInv'
  OBVIOUS
<1>1. CASE Setup \/ Register
  BY <1>1 DEF Setup, Register, Enter, entryVars, panelVars, PanelInv
<1>2. CASE Unsubscribe
  BY <1>2, ForgetPanel DEF Unsubscribe, entryVars, panelVars, PanelInv
<1>3. ASSUME NEW n \in 1 .. MaxFeed, ScanDone(n) PROVE PanelInv'
  <2>1. CASE UNCHANGED pend
    BY <1>3, <2>1 DEF ScanDone, PanelInv
  <2>2. CASE panel = "scan" /\ Post("complete", panelFmt, panelSub, visit)
    BY <1>3, <2>2, PostPanel DEF ScanDone, PanelInv
  <2> QED
    BY <1>3, <2>1, <2>2 DEF ScanDone
<1>4. CASE AnswerEvent \/ PollFails
  BY <1>4 DEF AnswerEvent, PollFails, panelVars, PanelInv, SessionTypeOK
<1>5. ASSUME NEW s \in subs, SelectHost(s) PROVE PanelInv'
  BY <1>5, PostPanel DEF SelectHost
<1>6. ASSUME NEW s \in subs, Evict(s) PROVE PanelInv'
  BY <1>6, ForgetPanel DEF Evict
<1>7. ASSUME NEW fmt \in Formats, PressStart(fmt) PROVE PanelInv'
  BY <1>7, PostPanel DEF PressStart, PanelInv
<1>8. CASE AddPage \/ PressDone
  BY <1>8, PostPanel DEF AddPage, PressDone, PanelInv
<1>9. CASE Leave
  BY <1>9 DEF Leave, entryVars, PanelInv
<1>10. ASSUME HandlerStep \/ PollerStep \/ ExpireDocument \/ Cancel \/ UNCHANGED vars,
              ~Setup, ~Register, ~Unsubscribe, ~AnswerEvent, ~PollFails,
              ~\E n \in 1 .. MaxFeed : ScanDone(n)
       PROVE  UNCHANGED <<subs, pend, panel, panelSub>>
  BY <1>10 DEF HandlerStep, PollerStep, vars, entryVars, panelVars, TakeEvent, LoopEnds, ScanFails,
               TakeSub, ScannerIdle, PollStart, PollExit, AbandonPoll, AnswerNothing, AnswerGone,
               StoreSub, RegisterFails, SendEvent, ExpireDocument, Cancel
<1>11. CASE UNCHANGED <<subs, pend, panel, panelSub>>
  BY <1>11 DEF PanelInv
<1> QED
  BY <1>1, <1>2, <1>3, <1>4, <1>5, <1>6, <1>7, <1>8, <1>9, <1>10, <1>11
     DEF Next, PanelStep, Terminated

LEMMA PartTypes ==
  ASSUME SessionTypeOK
  PROVE  /\ events \in Seq(Event) /\ Held \in Seq(Event) /\ AtPrinter \in Seq(Event)
         /\ Undelivered = (events \o Held) \o AtPrinter
         /\ Undelivered \in Seq(Event)
<1>1. events \in Seq(Event) /\ Held \in Seq(Event)
  BY EmptySeq DEF SessionTypeOK, Held
<1>2. AtPrinter \in Seq(Event)
  <2>1. nsubs # 0 => nsubs \in 1 .. MaxSubs
    BY DEF SessionTypeOK
  <2> QED
    BY <2>1, EmptySeq DEF SessionTypeOK, AtPrinter
<1>3. Undelivered = (events \o Held) \o AtPrinter
  BY DEF Undelivered, Held, AtPrinter
<1>4. (events \o Held) \o AtPrinter \in Seq(Event)
  BY <1>1, <1>2, ConcatProperties
<1> QED
  BY <1>1, <1>2, <1>3, <1>4

\* What is behind the channel, or at the printer alone, is lost.
LEMMA BackLost ==
  ASSUME SessionTypeOK, posted' = posted, Undelivered' = events
  PROVE  Queue!Lose
<1> DEFINE r == Held \o AtPrinter
<1>1. events \in Seq(Event) /\ r \in Seq(Event) /\ << >> \in Seq(Event)
  BY PartTypes, ConcatProperties, EmptySeq
<1>2. Undelivered = (events \o r) \o << >>
  <2>1. Undelivered = events \o r
    <3>1. \A x, y, z \in Seq(Event) : (x \o y) \o z = x \o (y \o z)
      BY ConcatAssociative
    <3> QED
      BY <3>1, PartTypes
  <2>2. events \o r \in Seq(Event)
    BY <1>1, ConcatProperties
  <2> QED
    BY <2>1, <2>2, ConcatEmptySeq
<1>3. Undelivered' = events \o << >>
  BY <1>1, ConcatEmptySeq
<1> HIDE DEF r
<1>4. Loses(Undelivered, Undelivered')
  BY <1>1, <1>2, <1>3, RunLost
<1> QED
  BY <1>4 DEF Queue!Lose, Loses

LEMMA PrinterLost ==
  ASSUME SessionTypeOK, posted' = posted, Undelivered' = events \o Held
  PROVE  Queue!Lose
<1> DEFINE s == events \o Held
<1>1. s \in Seq(Event) /\ AtPrinter \in Seq(Event) /\ << >> \in Seq(Event)
  BY PartTypes, ConcatProperties, EmptySeq
<1>2. Undelivered = (s \o AtPrinter) \o << >>
  <2>1. s \o AtPrinter \in Seq(Event) /\ Undelivered = s \o AtPrinter
    BY PartTypes
  <2> QED
    BY <2>1, ConcatEmptySeq
<1>3. Undelivered' = s \o << >>
  BY <1>1, ConcatEmptySeq
<1> HIDE DEF s
<1>4. Loses(Undelivered, Undelivered')
  BY <1>1, <1>2, <1>3, RunLost
<1> QED
  BY <1>4 DEF Queue!Lose, Loses

\* An event the panel posts goes to the end of the queue ...
LEMMA PostAppends ==
  ASSUME SessionTypeOK, EntryInv, NEW type \in {"host", "scan", "complete"}, NEW fmt \in Formats,
         NEW s \in subs, NEW v \in Nat, Post(type, fmt, s, v), UNCHANGED <<events, ppc, pev, nsubs>>,
         ppc # "exit"
  PROVE  \E e \in Event :
            /\ e.type = type /\ e.fmt = fmt /\ e.visit = v /\ e.seq = posted + 1
            /\ Undelivered' = Append(Undelivered, e)
<1> DEFINE e == [type |-> type, fmt |-> fmt, sub |-> s, visit |-> v, seq |-> posted + 1]
           back == events \o Held
<1>1. s = nsubs /\ s \in 1 .. MaxSubs
  BY DEF EntryInv, OneEntryOnPanel, SessionTypeOK
<1>2. e \in Event /\ e.type = type /\ e.fmt = fmt /\ e.visit = v /\ e.seq = posted + 1
  BY <1>1 DEF SessionTypeOK, Event
<1>3. pend' = [pend EXCEPT ![s] = Append(pend[s], e)]
  BY DEF Post
<1> HIDE DEF e
<1>4. Undelivered' = back \o AtPrinter'
  BY DEF Undelivered, Held, AtPrinter
<1>5. back \in Seq(Event) /\ AtPrinter \in Seq(Event) /\ Undelivered = back \o AtPrinter
  BY PartTypes, ConcatProperties
<1> HIDE DEF back
<1>6. AtPrinter' = Append(AtPrinter, e)
  BY <1>1, <1>3 DEF AtPrinter, SessionTypeOK
<1>7. Append(AtPrinter, e) = AtPrinter \o <<e>> /\ <<e>> \in Seq(Event)
  BY <1>2, <1>5, AppendIsConcat
<1>8. \A x, y, z \in Seq(Event) : (x \o y) \o z = x \o (y \o z)
  BY ConcatAssociative
<1>9. Undelivered' = (back \o AtPrinter) \o <<e>>
  BY <1>4, <1>5, <1>6, <1>7, <1>8
<1>10. Undelivered \in Seq(Event)
  BY PartTypes
<1>11. Undelivered' = Append(Undelivered, e)
  BY <1>2, <1>5, <1>9, <1>10, AppendIsConcat
<1> QED
  BY <1>2, <1>11

\* ... or nobody polls for it any more.
LEMMA PostSeen ==
  ASSUME SessionTypeOK, EntryInv, NEW type \in {"host", "scan", "complete"}, NEW fmt \in Formats,
         NEW s \in subs, NEW v \in Nat, Post(type, fmt, s, v), UNCHANGED <<events, ppc, pev, nsubs>>
  PROVE  Queue!Enqueue
<1>1. posted' = posted + 1
  BY DEF Post
<1>2. CASE ppc = "exit"
  BY <1>1, <1>2 DEF Queue!Enqueue, Undelivered
<1>3. CASE ppc # "exit"
  <2>1. PICK e \in Event : e.seq = posted' /\ Undelivered' = Append(Undelivered, e)
    BY <1>1, <1>3, PostAppends
  <2>2. Undelivered' # << >> /\ Undelivered'[Len(Undelivered')] = e
    BY <2>1, PartTypes, AppendProperties
  <2> QED
    BY <1>1, <2>1, <2>2 DEF Queue!Enqueue
<1> QED
  BY <1>2, <1>3

\* The entry's events are lost with it.
LEMMA ForgetSeen ==
  ASSUME SessionTypeOK, NEW s, Forget(s), UNCHANGED <<events, ppc, pev>>
  PROVE  Queue!Lose \/ UNCHANGED <<Undelivered, posted>>
<1>1. Undelivered' = (events \o Held) \o AtPrinter' /\ posted' = posted
  BY DEF Undelivered, Held, AtPrinter, Forget
<1>2. AtPrinter' = AtPrinter \/ AtPrinter' = << >>
  BY DEF AtPrinter, Forget, SessionTypeOK
<1>3. (events \o Held) \o << >> = events \o Held
  BY PartTypes, ConcatProperties, ConcatEmptySeq
<1> QED
  BY <1>1, <1>2, <1>3, PartTypes, PrinterLost

\* When the poller ends, what it holds and what it would have polled for is.
LEMMA ExitSeen ==
  ASSUME SessionTypeOK, SessionTypeOK', ppc' = "exit", UNCHANGED <<events, posted>>
  PROVE  Queue!Lose
<1>1. Undelivered' = (events \o << >>) \o << >>
  BY DEF Undelivered
<1>2. events \o << >> = events
  BY PartTypes, ConcatEmptySeq
<1> QED
  BY <1>1, <1>2, BackLost

LEMMA TakeTail ==
  ASSUME SessionTypeOK, TakeEvent
  PROVE  /\ Undelivered # << >> /\ Undelivered' = Tail(Undelivered)
         /\ Head(Undelivered) = Head(events)
<1> DEFINE back == Held \o AtPrinter
<1>1. events \in Seq(Event) /\ events # << >> /\ back \in Seq(Event)
  BY PartTypes, ConcatProperties DEF TakeEvent
<1>2. Tail(events) \in Seq(Event)
  BY <1>1, HeadTailProperties
<1>3. \A x, y, z \in Seq(Event) : (x \o y) \o z = x \o (y \o z)
  BY ConcatAssociative
<1>4. Undelivered = events \o back
  BY <1>3, PartTypes
<1>5. Undelivered' = Tail(events) \o back
  <2>1. Undelivered' = (Tail(events) \o Held) \o AtPrinter
    BY DEF TakeEvent, Undelivered, Held, AtPrinter, pollerVars, entryVars
  <2> QED
    BY <1>2, <1>3, <2>1, PartTypes
<1> HIDE DEF back
<1>6. events \o back # << >> /\ Tail(events \o back) = Tail(events) \o back
  BY <1>1, TailOfConcat
<1>7. Head(events \o back) = Head(events)
  BY <1>1, HeadOfConcat
<1> QED
  BY <1>4, <1>5, <1>6, <1>7

LEMMA TakeSeen ==
  ASSUME SessionTypeOK, TakeEvent
  PROVE  Queue!Dequeue
BY TakeTail DEF Queue!Dequeue, TakeEvent, panelVars

\* The step from the poller to the channel and the one from the printer to
\* the poller are inside the queue.
LEMMA SendSeen ==
  ASSUME SessionTypeOK, SendEvent
  PROVE  UNCHANGED <<Undelivered, posted>>
<1>1. /\ Undelivered' = (Append(events, pev) \o << >>) \o AtPrinter
      /\ Undelivered = (events \o <<pev>>) \o AtPrinter
  BY DEF SendEvent, Undelivered, AtPrinter, entryVars
<1>2. pev \in Event /\ events \in Seq(Event)
  BY DEF SessionTypeOK
<1>3. Append(events, pev) = events \o <<pev>> /\ Append(events, pev) \in Seq(Event)
  BY <1>2, AppendIsConcat, AppendProperties
<1>4. Append(events, pev) \o << >> = Append(events, pev)
  BY <1>3, ConcatEmptySeq
<1> QED
  BY <1>1, <1>3, <1>4 DEF SendEvent, panelVars

LEMMA AnswerSeen ==
  ASSUME SessionTypeOK, EntryInv, AnswerEvent
  PROVE  UNCHANGED <<Undelivered, posted>>
<1> DEFINE q == pend[nsubs]
<1>1. psub = nsubs /\ nsubs \in 1 .. MaxSubs /\ q \in Seq(Event) /\ q # << >>
  BY DEF AnswerEvent, EntryInv, PollsNewestEntry, SessionTypeOK
<1>2. /\ Undelivered = (events \o << >>) \o q
      /\ Undelivered' = (events \o <<Head(q)>>) \o Tail(q)
  <2>1. /\ ppc = "get" /\ ppc' = "send" /\ pev' = Head(q) /\ UNCHANGED <<events, nsubs>>
        /\ pend' = [pend EXCEPT ![psub] = Tail(pend[psub])]
    BY <1>1 DEF AnswerEvent, sharedVars
  <2>2. AtPrinter = q /\ Held = << >>
    BY <1>1, <2>1 DEF AtPrinter, Held, SessionTypeOK
  <2>3. pend'[nsubs] = Tail(q)
    BY <1>1, <2>1 DEF SessionTypeOK
  <2>4. AtPrinter' = Tail(q) /\ Held' = <<Head(q)>>
    BY <1>1, <2>1, <2>3 DEF AtPrinter, Held
  <2> QED
    BY <2>1, <2>2, <2>4 DEF Undelivered, Held, AtPrinter
<1> HIDE DEF q
<1>3. q = <<Head(q)>> \o Tail(q) /\ Head(q) \in Event /\ Tail(q) \in Seq(Event)
  BY <1>1, HeadAndTail, HeadTailProperties
<1>4. \A x, y, z \in Seq(Event) : (x \o y) \o z = x \o (y \o z)
  BY ConcatAssociative
<1>5. events \in Seq(Event) /\ <<Head(q)>> \in Seq(Event) /\ events \o << >> = events
  BY <1>3, PartTypes, ConcatEmptySeq
<1>6. (events \o <<Head(q)>>) \o Tail(q) = events \o (<<Head(q)>> \o Tail(q))
  BY <1>3, <1>4, <1>5
<1>7. Undelivered' = Undelivered
  BY <1>2, <1>3, <1>5, <1>6
<1> QED
  BY <1>7 DEF AnswerEvent, panelVars

LEMMA FailSeen ==
  ASSUME SessionTypeOK, SessionTypeOK', EntryInv, PollFails
  PROVE  Queue!Lose \/ UNCHANGED <<Undelivered, posted>>
<1>1. UNCHANGED <<events, pev, nsubs, posted>> /\ ppc = "get" /\ ppc' \in {"poll", "exit"}
  BY DEF PollFails, CountFailure, panelVars
<1>2. CASE ppc' = "exit"
  BY <1>1, <1>2, ExitSeen
<1>3. CASE ppc' = "poll" /\ UNCHANGED pend
  BY <1>1, <1>3 DEF Undelivered
<1>4. CASE /\ ppc' = "poll" /\ psub \in subs /\ pend[psub] # << >>
           /\ pend' = [pend EXCEPT ![psub] = Tail(@)]
  <2> DEFINE q == pend[nsubs]
  <2>1. psub = nsubs /\ nsubs \in 1 .. MaxSubs /\ q \in Seq(Event) /\ q # << >>
    BY <1>1, <1>4 DEF EntryInv, PollsNewestEntry, SessionTypeOK
  <2>2. /\ Undelivered = (events \o << >>) \o q
        /\ Undelivered' = (events \o << >>) \o Tail(q)
    <3>1. pend'[nsubs] = Tail(q)
      BY <1>4, <2>1 DEF SessionTypeOK
    <3>2. AtPrinter = q /\ Held = << >> /\ AtPrinter' = Tail(q) /\ Held' = << >>
      BY <1>1, <1>4, <2>1, <3>1 DEF AtPrinter, Held
    <3> QED
      BY <1>1, <3>2 DEF Undelivered, Held, AtPrinter
  <2> HIDE DEF q
  <2>3. q = <<Head(q)>> \o Tail(q) /\ Head(q) \in Event /\ Tail(q) \in Seq(Event)
    BY <2>1, HeadAndTail, HeadTailProperties
  <2>4. \A x, y, z \in Seq(Event) : (x \o y) \o z = x \o (y \o z)
    BY ConcatAssociative
  <2>5. events \in Seq(Event) /\ <<Head(q)>> \in Seq(Event) /\ events \o << >> = events
    BY <2>3, PartTypes, ConcatEmptySeq
  <2>6. Undelivered = (events \o <<Head(q)>>) \o Tail(q) /\ Undelivered' = events \o Tail(q)
    BY <2>2, <2>3, <2>4, <2>5
  <2>7. Loses(Undelivered, Undelivered')
    BY <2>3, <2>5, <2>6, RunLost
  <2> QED
    BY <1>1, <2>7 DEF Queue!Lose, Loses
<1> QED
  BY <1>1, <1>2, <1>3, <1>4 DEF PollFails

\* A new entry has no events yet, and the old one was gone.
LEMMA EnterSeen ==
  ASSUME SessionTypeOK, EntryInv, PanelInv, Setup \/ Register
  PROVE  UNCHANGED <<Undelivered, posted>>
<1>1. CASE Enter
  <2>1. nsubs + 1 \in 1 .. MaxSubs /\ nsubs + 1 \notin subs /\ nsubs' = nsubs + 1 /\ pend' = pend
    BY <1>1 DEF Enter, SessionTypeOK
  <2>2. pend'[nsubs'] = << >>
    BY <2>1 DEF PanelInv
  <2>3. nsubs \in 1 .. MaxSubs \/ nsubs = 0
    BY DEF SessionTypeOK
  <2>4. subs = {}
    BY DEF Setup, Register, EntryInv
  <2>5. AtPrinter = << >>
    BY <2>3, <2>4 DEF AtPrinter, PanelInv
  <2>6. AtPrinter' = << >>
    BY <2>2 DEF AtPrinter
  <2>7. Held = << >> /\ Held' = << >> /\ UNCHANGED <<events, posted>>
    BY DEF Setup, Register, EntryInv, Held, sharedVars, panelVars
  <2> QED
    BY <2>5, <2>6, <2>7 DEF Undelivered, Held, AtPrinter
<1>2. CASE UNCHANGED <<entryVars, ppc, pev, events, posted>>
  BY <1>2 DEF Undelivered, entryVars
<1> QED
  BY <1>1, <1>2 DEF Setup, Register, panelVars

LEMMA QueueStep ==
  ASSUME SessionTypeOK, SessionTypeOK', EntryInv, PanelInv, [Next]_vars
  PROVE  [Queue!Next]_<<Undelivered, posted>>
<1> SUFFICES Queue!Enqueue \/ Queue!Dequeue \/ Queue!Lose \/ UNCHANGED <<Undelivered, posted>>
  BY DEF Queue!Next
<1> USE DEF handlerVars, pollerVars, sharedVars, entryVars, panelVars
<1>1. CASE Setup \/ Register
  BY <1>1, EnterSeen
<1>2. CASE TakeEvent
  BY <1>2, TakeSeen
<1>3. CASE Unsubscribe
  <2>1. CASE Forget(tdsub)
    BY <1>3, <2>1, ForgetSeen DEF Unsubscribe
  <2>2. CASE UNCHANGED <<entryVars, panelVars>>
    BY <1>3, <2>2 DEF Unsubscribe, Undelivered
  <2> QED
    BY <1>3, <2>1, <2>2 DEF Unsubscribe
<1>4. ASSUME NEW n \in 1 .. MaxFeed, ScanDone(n)
      PROVE  Queue!Enqueue \/ UNCHANGED <<Undelivered, posted>>
  <2>1. CASE UNCHANGED <<pend, posted>>
    BY <1>4, <2>1 DEF ScanDone, Undelivered
  <2>2. CASE panel = "scan" /\ Post("complete", panelFmt, panelSub, visit)
    BY <1>4, <2>2, PostSeen DEF ScanDone, PanelInv, SessionTypeOK
  <2> QED
    BY <1>4, <2>1, <2>2 DEF ScanDone
<1>5. CASE PollExit \/ AbandonPoll \/ RegisterFails
  <2>1. ppc' = "exit" /\ UNCHANGED <<events, posted>>
    BY <1>5 DEF PollExit, AbandonPoll, RegisterFails
  <2> QED
    BY <2>1, ExitSeen
<1>6. CASE AnswerEvent
  BY <1>6, AnswerSeen
<1>7. CASE PollFails
  BY <1>7, FailSeen
<1>8. CASE SendEvent
  BY <1>8, SendSeen
<1>9. ASSUME NEW s \in subs, SelectHost(s) PROVE Queue!Enqueue
  <2>1. visit + 1 \in Nat /\ "pdf" \in Formats
    BY DEF SessionTypeOK, Formats
  <2> QED
    BY <1>9, <2>1, PostSeen DEF SelectHost
<1>10. ASSUME NEW s \in subs, Evict(s) PROVE Queue!Lose \/ UNCHANGED <<Undelivered, posted>>
  BY <1>10, ForgetSeen DEF Evict
<1>11. ASSUME NEW fmt \in Formats, PressStart(fmt) PROVE Queue!Enqueue
  BY <1>11, PostSeen DEF PressStart, PanelInv, SessionTypeOK
<1>12. CASE AddPage \/ PressDone
  BY <1>12, PostSeen DEF AddPage, PressDone, PanelInv, SessionTypeOK
<1>13. CASE Leave \/ Cancel \/ ExpireDocument \/ UNCHANGED vars
  BY <1>13 DEF Leave, Cancel, ExpireDocument, vars, Undelivered
<1>14. CASE LoopEnds \/ ScanFails \/ TakeSub \/ \E src \in Sources : ScannerIdle(src)
  BY <1>14 DEF LoopEnds, ScanFails, TakeSub, ScannerIdle, Undelivered
<1>15. CASE PollStart \/ AnswerNothing \/ AnswerGone \/ StoreSub
  BY <1>15 DEF PollStart, AnswerNothing, AnswerGone, StoreSub, Undelivered
<1> QED
  BY <1>1, <1>2, <1>3, <1>4, <1>5, <1>6, <1>7, <1>8, <1>9, <1>10, <1>11, <1>12, <1>13, <1>14,
     <1>15 DEF Next, HandlerStep, PollerStep, PanelStep, Terminated

(* The channel, the poller and the printer together implement EventQueue:   *)
(* whatever fails, events reach the handler in the order of the user's      *)
(* actions, none twice, none made up (DeliversInOrder).                     *)
THEOREM SessionDeliversInOrder == Spec => DeliversInOrder
<1>1. Init => SessionTypeOK /\ EntryInv /\ PanelInv
  BY SessionTypeInit, EntryInit DEF Init, PanelInv
<1>2. SessionTypeOK /\ EntryInv /\ PanelInv /\ [Next]_vars
         => (SessionTypeOK /\ EntryInv /\ PanelInv)'
  BY SessionTypeNext, EntryNext, PanelNext
<1>3. Init => Queue!Init
  <2>1. << >> \in Seq(Event)
    BY EmptySeq
  <2>2. << >> \o << >> = << >>
    BY <2>1, ConcatEmptySeq
  <2>3. ASSUME Init
        PROVE  events = << >> /\ Held = << >> /\ AtPrinter = << >> /\ posted = 0
    BY <2>3 DEF Init, Held, AtPrinter
  <2>4. ASSUME events = << >>, Held = << >>, AtPrinter = << >> PROVE Undelivered = << >>
    BY <2>2, <2>4 DEF Undelivered, Held, AtPrinter
  <2> QED
    BY <2>3, <2>4 DEF Queue!Init
<1>4. SessionTypeOK /\ SessionTypeOK' /\ EntryInv /\ PanelInv /\ [Next]_vars
         => [Queue!Next]_<<Undelivered, posted>>
  BY QueueStep
<1> QED
  BY <1>1, <1>2, <1>3, <1>4, PTL DEF Spec, Queue!Spec, DeliversInOrder

-----------------------------------------------------------------------------
(* What a teardown leaves on the panel.                                     *)

\* Why an entry that a teardown does not know is the poller's: the entry on
\* the panel is the one in d.esub, which the teardown took, or the one the
\* poller registered last.
LeftoverInv ==
    /\ ppc = "store" => psub >= 1
    /\ hpc \in {"select", "wait", "job", "teardown"} =>
          esub >= 1 /\ (subs \subseteq {esub} \/ subs \subseteq {psub})
    /\ hpc = "unsub" =>
          tdsub >= 1 /\ (subs \subseteq {tdsub} \/ subs \subseteq {psub})

LEMMA LeftoverNext ==
  SessionTypeOK /\ EntryInv /\ LeftoverInv /\ [Next]_vars => LeftoverInv'
<1> SUFFICES ASSUME SessionTypeOK, EntryInv, LeftoverInv, [Next]_vars PROVE LeftoverInv'
  OBVIOUS
<1> USE DEF LeftoverInv, handlerVars, pollerVars, sharedVars, entryVars, panelVars
<1>1. nsubs \in Nat
  BY DEF SessionTypeOK
<1>2. CASE Setup
  BY <1>1, <1>2 DEF Setup, Enter, EntryInv
<1>3. CASE Register
  BY <1>1, <1>3 DEF Register, Enter, EntryInv
<1>4. CASE StoreSub
  BY <1>4 DEF StoreSub, EntryInv, OneEntryOnPanel
<1>5. CASE PollStart
  BY <1>5 DEF PollStart, PollCtxDone, EntryInv, OneEntryOnPanel
<1>6. CASE TakeSub
  BY <1>6 DEF TakeSub
<1>7. CASE Unsubscribe
  BY <1>7 DEF Unsubscribe
<1>8. CASE subs' \subseteq subs /\ UNCHANGED <<esub, tdsub, psub>>
           /\ (ppc' = "store" => ppc = "store")
           /\ \/ hpc' = hpc
              \/ /\ hpc \in {"select", "wait", "job"}
                 /\ hpc' \in {"select", "wait", "job", "teardown"}
  BY <1>8
<1>9. ASSUME HandlerStep, ~Setup, ~TakeSub, ~Unsubscribe
      PROVE  /\ UNCHANGED <<subs, ppc, esub, tdsub, psub>>
             /\ hpc \in {"select", "wait", "job"}
             /\ hpc' \in {"select", "wait", "job", "teardown"}
  BY <1>9 DEF HandlerStep, TakeEvent, LoopEnds, ScanFails, ScannerIdle, WaitIdle, ScanDone
<1>10. ASSUME PollerStep, ~Register, ~StoreSub, ~PollStart
       PROVE  UNCHANGED <<subs, hpc, esub, tdsub, psub>> /\ (ppc' = "store" => ppc = "store")
  BY <1>10 DEF PollerStep, PollExit, AbandonPoll, AnswerNothing, AnswerEvent, AnswerGone,
               PollFails, CountFailure, RegisterFails, SendEvent
<1>11. ASSUME PanelStep \/ ExpireDocument \/ Cancel \/ UNCHANGED vars
       PROVE  subs' \subseteq subs /\ UNCHANGED <<hpc, ppc, esub, tdsub, psub>>
  BY <1>11 DEF PanelStep, SelectHost, Evict, Forget, PressStart, AddPage, PressDone, Leave,
               ExpireDocument, Cancel, vars
<1> QED
  BY <1>2, <1>3, <1>4, <1>5, <1>6, <1>7, <1>8, <1>9, <1>10, <1>11 DEF Next, Terminated

(* A session that ends takes the entry it uses off the panel if the printer *)
(* hears the DELETE; another one can stay only if the poller was registering*)
(* it at that moment (TeardownClearsPanel).                                 *)
THEOREM SessionTeardown == Spec => TeardownClearsPanel
<1> DEFINE Cleared == hpc = "unsub" /\ hpc' = "done" /\ tdsub \notin subs'
                         => tdsub # 0 /\ subs' \subseteq {psub} \ {tdsub}
<1>1. Init => SessionTypeOK /\ EntryInv /\ LeftoverInv
  BY SessionTypeInit, EntryInit DEF Init, LeftoverInv
<1>2. SessionTypeOK /\ EntryInv /\ LeftoverInv /\ [Next]_vars
         => (SessionTypeOK /\ EntryInv /\ LeftoverInv)'
  BY SessionTypeNext, EntryNext, LeftoverNext
<1>3. LeftoverInv /\ [Next]_vars => [Cleared]_vars
  <2> SUFFICES ASSUME LeftoverInv, [Next]_vars, hpc = "unsub", hpc' = "done", tdsub \notin subs'
               PROVE  tdsub # 0 /\ subs' \subseteq {psub} \ {tdsub}
    OBVIOUS
  <2>1. Unsubscribe
    BY DEF Next, HandlerStep, PollerStep, PanelStep, Terminated, Ended, vars, handlerVars, Setup,
           TakeEvent, LoopEnds, ScanFails, TakeSub, ScannerIdle, WaitIdle, ScanDone, PollStart,
           PollExit, AbandonPoll, AnswerNothing, AnswerEvent, AnswerGone, PollFails, Register,
           StoreSub, RegisterFails, SendEvent, SelectHost, Evict, PressStart, AddPage, PressDone,
           Leave, ExpireDocument, Cancel
  <2>2. subs' \subseteq subs
    BY <2>1 DEF Unsubscribe, Forget, entryVars
  <2> QED
    BY <2>2 DEF LeftoverInv
<1> QED
  BY <1>1, <1>2, <1>3, PTL DEF Spec, TeardownClearsPanel

-----------------------------------------------------------------------------
(* Walkups.  The session itself cannot tell them apart; it need not while   *)
(* the panel says all that happens and the session hears it until it ends.  *)

\* No reply with an event in it is lost, no entry with events is evicted, no
\* user leaves without a word, no document is closed by its age.  Requests,
\* polls, scans and saves may fail, and the service may be stopped.
EventsTellAll == Faults \cap {"reply", "evict", "leave", "expire"} = {}

\* Then the session has one entry until its teardown, and scans for it.
CalmInv ==
    /\ hpc \in {"select", "wait", "job"} =>
          ppc \in {"poll", "get", "send", "exit"} /\ subs = {nsubs} /\ esub = nsubs
    /\ hpc = "job" => job.ctx = nsubs

LEMMA CalmInit == Init => CalmInv
BY DEF Init, CalmInv

\* The session is live while it may still scan: its poller runs, or it has
\* the event of a scan, or makes the scan.
ScanWaits == \E i \in 1 .. Len(events) : events[i].type = "scan"
Live ==
    \/ hpc = "setup"
    \/ hpc \in {"select", "wait", "job"} /\ (ppc # "exit" \/ hpc # "select" \/ ScanWaits)

\* The steps such a session is made of, as far as events and pages go: none,
\* the end of the poller, what the panel posts, and the end of the session.
\* The events it handles and the scans it makes come to these.
Still ==
    /\ UNCHANGED <<Undelivered, panel, panelFmt, visit, docVars>>
    /\ hpc' \in {"wait", "job"} => hpc \in {"wait", "job"} /\ cur' = cur
    /\ Live' => Live
Hangs ==
    /\ Live /\ hpc # "setup" /\ ppc # "exit" /\ ppc' = "exit"
    /\ UNCHANGED <<events, hpc, cur, panel, panelFmt, visit, docVars>>
PanelPosts ==
    /\ UNCHANGED <<hpc, cur, ppc, events, docVars>>
    /\ \/ \E s \in subs : SelectHost(s)
       \/ \E fmt \in Formats : PressStart(fmt)
       \/ AddPage \/ PressDone
Quits == ~Live' /\ UNCHANGED owner /\ (UNCHANGED docVars \/ FinishDocument)

LEMMA QuitMoves ==
  ASSUME SessionTypeOK, hpc \in {"teardown", "unsub", "done"}, [Next]_vars
  PROVE  CalmInv' /\ Quits
<1> USE DEF handlerVars, pollerVars, sharedVars, entryVars, panelVars
<1>1. hpc' \in {"teardown", "unsub", "done"} /\ (UNCHANGED docVars \/ Unsubscribe)
  <2>1. CASE HandlerStep
    BY <2>1 DEF HandlerStep, Setup, TakeEvent, LoopEnds, ScanFails, TakeSub, Unsubscribe,
       ScannerIdle, WaitIdle, ScanDone
  <2>2. CASE PollerStep
    BY <2>2 DEF PollerStep, PollStart, PollExit, AbandonPoll, AnswerNothing, AnswerEvent,
       AnswerGone, PollFails, Register, StoreSub, RegisterFails, SendEvent
  <2>3. CASE PanelStep
    BY <2>3 DEF PanelStep, SelectHost, Evict, PressStart, AddPage, PressDone, Leave
  <2>4. CASE ExpireDocument \/ Cancel \/ Terminated \/ UNCHANGED vars
    BY <2>4 DEF ExpireDocument, Cancel, Terminated, vars
  <2> QED
    BY <2>1, <2>2, <2>3, <2>4 DEF Next
<1>2. UNCHANGED owner /\ (UNCHANGED docVars \/ FinishDocument)
  BY <1>1 DEF Unsubscribe, docVars
<1> QED
  BY <1>1, <1>2 DEF CalmInv, Live, Quits

LEMMA CalmMoves ==
  ASSUME EventsTellAll, SessionTypeOK, EntryInv, PanelInv, CalmInv, [Next]_vars
  PROVE  /\ CalmInv'
         /\ Still \/ Hangs \/ TakeEvent \/ PanelPosts \/ Quits \/ \E n \in 1 .. MaxFeed : ScanDone(n)
<1> USE DEF handlerVars, pollerVars, sharedVars, entryVars, panelVars, SessionTypeOK
<1>1. Faults \cap {"reply", "evict", "leave", "expire"} = {}
  BY DEF EventsTellAll
<1>2. CASE hpc \in {"teardown", "unsub", "done"}
  BY <1>2, QuitMoves
<1>3. SUFFICES ASSUME hpc \in {"setup", "select", "wait", "job"}
               PROVE  /\ CalmInv'
                      /\ \/ Still \/ Hangs \/ TakeEvent \/ PanelPosts \/ Quits
                         \/ \E n \in 1 .. MaxFeed : ScanDone(n)
  BY <1>2
<1>4. hpc = "setup" => ppc = "exit" /\ subs = {} /\ panel = "idle"
  BY DEF EntryInv, PanelInv
<1>5. ppc # "exit" =>
        /\ Live /\ hpc # "setup" /\ ppc \in {"poll", "get", "send"}
        /\ ppc = "get" => psub \in subs
  BY <1>3, <1>4 DEF CalmInv, EntryInv, PollsNewestEntry, Live
<1>6. CASE Setup
  <2>1. CalmInv' /\ (hpc' = "select" \/ hpc' = "done")
    BY <1>4, <1>6 DEF Setup, Enter, CalmInv
  <2>2. UNCHANGED Undelivered
    BY <1>6, EnterSeen
  <2> QED
    BY <1>6, <2>1, <2>2 DEF Setup, Still, Live
<1>7. CASE TakeEvent
  BY <1>7 DEF TakeEvent, CalmInv
<1>8. CASE ScanFails
  BY <1>8 DEF ScanFails, CalmInv, Still, Undelivered, Live
<1>9. ASSUME NEW src \in Sources, ScannerIdle(src) PROVE CalmInv' /\ Still
  <2>1. job'.ctx = esub
    BY <1>9 DEF ScannerIdle, EsclSettings, NoJob
  <2> QED
    BY <1>9, <2>1 DEF ScannerIdle, WaitIdle, CalmInv, Still, Undelivered, Live
<1>10. ASSUME NEW n \in 1 .. MaxFeed, ScanDone(n) PROVE CalmInv'
  BY <1>10 DEF ScanDone, CalmInv
<1>11. CASE LoopEnds
  BY <1>11 DEF LoopEnds, CalmInv, Quits, Live, docVars
<1>12. ~TakeSub /\ ~Unsubscribe
  BY <1>3 DEF TakeSub, Unsubscribe
<1>13. CASE PollStart \/ AnswerNothing
  <2>1. CalmInv' /\ UNCHANGED <<hpc, cur, panel, panelFmt, visit, docVars>> /\ ppc # "exit"
    BY <1>4, <1>13 DEF PollStart, AnswerNothing, CalmInv
  <2>2. UNCHANGED Undelivered
    BY <1>13 DEF PollStart, AnswerNothing, Undelivered
  <2> QED
    BY <1>5, <2>1, <2>2 DEF Still
<1>14. CASE AnswerEvent
  <2>1. CalmInv' /\ UNCHANGED <<hpc, cur, panel, panelFmt, visit, docVars>> /\ ppc # "exit"
    BY <1>4, <1>14 DEF AnswerEvent, CalmInv
  <2> QED
    BY <1>5, <1>14, <2>1, AnswerSeen DEF Still
<1>15. CASE SendEvent
  <2>1. CalmInv' /\ UNCHANGED <<hpc, cur, panel, panelFmt, visit, docVars>> /\ ppc # "exit"
    BY <1>4, <1>15 DEF SendEvent, CalmInv
  <2> QED
    BY <1>5, <1>15, <2>1, SendSeen DEF Still
<1>16. CASE PollExit \/ AbandonPoll
  <2>1. CalmInv' /\ ppc # "exit" /\ ppc' = "exit"
        /\ UNCHANGED <<events, hpc, cur, panel, panelFmt, visit, docVars>>
    BY <1>4, <1>16 DEF PollExit, AbandonPoll, CalmInv
  <2> QED
    BY <1>5, <2>1 DEF Hangs
<1>17. CASE PollFails
  <2>1. /\ ppc = "get" /\ ppc' \in {"poll", "exit"}
        /\ UNCHANGED <<events, pend, subs, nsubs, esub, job, hpc, cur, pev, panel, panelFmt,
                       visit, docVars>>
    BY <1>1, <1>17 DEF PollFails, CountFailure
  <2>2. CalmInv'
    BY <2>1 DEF CalmInv
  <2>3. CASE ppc' = "exit"
    BY <1>5, <2>1, <2>2, <2>3 DEF Hangs
  <2>4. CASE ppc' = "poll"
    <3>1. UNCHANGED Undelivered
      BY <2>1, <2>4 DEF Undelivered
    <3> QED
      BY <1>5, <2>1, <2>2, <3>1 DEF Still
  <2> QED
    BY <2>1, <2>3, <2>4
<1>18. ~AnswerGone /\ ~Register /\ ~StoreSub /\ ~RegisterFails
  BY <1>4, <1>5 DEF AnswerGone, Register, StoreSub, RegisterFails
<1>19. /\ ~Leave /\ ~ExpireDocument /\ ~Terminated
       /\ \A s \in subs : ~Evict(s)
  BY <1>1, <1>3 DEF Leave, ExpireDocument, Terminated, Ended, Evict
<1>20. CASE PanelStep
  <2>1. PanelPosts
    BY <1>19, <1>20 DEF PanelStep, PanelPosts, SelectHost, PressStart, AddPage, PressDone
  <2>2. CalmInv'
    BY <2>1 DEF PanelPosts, SelectHost, PressStart, AddPage, PressDone, CalmInv
  <2> QED
    BY <2>1, <2>2
<1>21. CASE Cancel \/ UNCHANGED vars
  BY <1>21 DEF Cancel, vars, CalmInv, Still, Undelivered, Live, ScanWaits
<1> QED
  BY <1>6, <1>7, <1>8, <1>9, <1>10, <1>11, <1>12, <1>13, <1>14, <1>15, <1>16, <1>17, <1>18,
     <1>19, <1>20, <1>21 DEF Next, HandlerStep, PollerStep

\* What the panel posts from the end of one visit to the scan of the next,
\* and how far it got.
Script == <<"complete", "host", "scan">>
Stage == CASE panel = "prompt" -> 0 [] panel = "idle" -> 1 [] panel = "menu" -> 2
           [] panel = "scan" -> 3

\* The queue q holds the last of what was posted up to stage k; a scan in it
\* is one of visit v, for format fmt.  Ends: the end of a visit is among it.
Flows(q, k, v, fmt) ==
    /\ Len(q) <= k
    /\ \A i \in 1 .. Len(q) :
          /\ q[i].type = Script[k - Len(q) + i]
          /\ q[i].type = "scan" => q[i].visit = v /\ q[i].fmt = fmt
Ends(q, k) == k # 0 /\ Len(q) = k

LEMMA FlowEmpty ==
  ASSUME NEW k \in 0 .. 3, NEW v, NEW fmt
  PROVE  Flows(<< >>, k, v, fmt) /\ ~Ends(<< >>, k)
BY DEF Flows, Ends

LEMMA FlowAppend ==
  ASSUME NEW q \in Seq(Event), NEW k \in 1 .. 2, NEW v, NEW fmt, Flows(q, k, v, fmt),
         NEW e \in Event, NEW w, NEW g, e.type = Script[k + 1],
         e.type = "scan" => e.visit = w /\ e.fmt = g
  PROVE  /\ Flows(Append(q, e), k + 1, w, g)
         /\ Ends(Append(q, e), k + 1) <=> Ends(q, k)
<1> DEFINE r == Append(q, e)   m == Len(q)
<1>1. /\ m \in Nat /\ m <= k /\ Len(r) = m + 1 /\ r[m + 1] = e
      /\ \A i \in 1 .. m : r[i] = q[i]
  BY AppendProperties, LenProperties DEF Flows
<1>2. \A i \in 1 .. m : q[i].type = Script[k - m + i]
  BY DEF Flows
<1> HIDE DEF r, m
<1>3. ASSUME NEW i \in 1 .. m PROVE r[i].type = Script[(k + 1) - (m + 1) + i] /\ r[i].type # "scan"
  <2>1. (k + 1) - (m + 1) + i = k - m + i /\ k - m + i \in 1 .. 2
    BY <1>1
  <2>2. Script[1] # "scan" /\ Script[2] # "scan"
    BY DEF Script
  <2>3. Script[k - m + i] # "scan"
    BY <2>1, <2>2
  <2> QED
    BY <1>1, <1>2, <2>1, <2>3
<1>4. (k + 1) - (m + 1) + (m + 1) = k + 1
  BY <1>1
<1>5. \A i \in 1 .. m + 1 : i \in 1 .. m \/ i = m + 1
  BY <1>1
<1>6. \A i \in 1 .. m + 1 : /\ r[i].type = Script[(k + 1) - (m + 1) + i]
                            /\ r[i].type = "scan" => r[i].visit = w /\ r[i].fmt = g
  BY <1>1, <1>3, <1>4, <1>5
<1> QED
  BY <1>1, <1>6 DEF Flows, Ends, r, m

LEMMA FlowSingle ==
  ASSUME NEW k \in 1 .. 3, NEW e \in Event, NEW w, NEW g, e.type = Script[k],
         e.type = "scan" => e.visit = w /\ e.fmt = g
  PROVE  /\ Flows(Append(<< >>, e), k, w, g)
         /\ Ends(Append(<< >>, e), k) <=> k = 1
<1> DEFINE r == Append(<< >>, e)
<1>1. Len(r) = 1 /\ r[1] = e
  BY EmptySeq, AppendProperties
<1>2. \A i \in 1 .. 1 : i = 1 /\ k - 1 + i = k
  OBVIOUS
<1> HIDE DEF r
<1> QED
  BY <1>1, <1>2 DEF Flows, Ends, r

LEMMA FlowTail ==
  ASSUME NEW q \in Seq(Event), q # << >>, NEW k \in 0 .. 3, NEW v, NEW fmt, Flows(q, k, v, fmt)
  PROVE  /\ Flows(Tail(q), k, v, fmt) /\ ~Ends(Tail(q), k)
         /\ Head(q).type = "complete" <=> Ends(q, k)
         /\ Head(q).type = "scan" =>
               k = 3 /\ Tail(q) = << >> /\ Head(q).visit = v /\ Head(q).fmt = fmt
<1> DEFINE t == Tail(q)   m == Len(q)
<1>1. /\ m \in 1 .. 3 /\ m <= k /\ t \in Seq(Event) /\ Len(t) = m - 1 /\ Head(q) = q[1]
      /\ \A i \in 1 .. m - 1 : t[i] = q[i + 1]
  <2>1. m \in Nat /\ m # 0
    BY LenProperties, EmptySeq
  <2>2. m <= k
    BY DEF Flows
  <2>3. /\ t \in Seq(Event) /\ Len(t) = m - 1 /\ Head(q) = q[1]
        /\ \A i \in 1 .. Len(t) : t[i] = q[i + 1]
    BY HeadTailProperties
  <2> HIDE DEF t, m
  <2> QED
    BY <2>1, <2>2, <2>3
<1>2. \A i \in 1 .. m : /\ q[i].type = Script[k - m + i]
                        /\ q[i].type = "scan" => q[i].visit = v /\ q[i].fmt = fmt
  BY DEF Flows
<1> HIDE DEF t, m
<1>3. m = 1 => t = << >>
  BY <1>1, EmptySeq
<1>4. \A i \in 1 .. m - 1 : i + 1 \in 1 .. m /\ k - (m - 1) + i = k - m + (i + 1)
  BY <1>1
<1>5. ASSUME NEW i \in 1 .. m - 1
      PROVE  /\ t[i].type = Script[k - (m - 1) + i]
             /\ t[i].type = "scan" => t[i].visit = v /\ t[i].fmt = fmt
  <2>1. i + 1 \in 1 .. m /\ k - (m - 1) + i = k - m + (i + 1)
    BY <1>4
  <2>2. t[i] = q[i + 1]
    BY <1>1
  <2>3. /\ q[i + 1].type = Script[k - m + (i + 1)]
        /\ q[i + 1].type = "scan" => q[i + 1].visit = v /\ q[i + 1].fmt = fmt
    BY <1>2, <2>1
  <2> QED
    BY <2>1, <2>2, <2>3
<1>6. 1 \in 1 .. m /\ k - m + 1 \in 1 .. 3
  BY <1>1
<1>7. Head(q).type = Script[k - m + 1]
  BY <1>1, <1>2, <1>6
<1>8. /\ Head(q).type = "complete" <=> k - m + 1 = 1
      /\ Head(q).type = "scan" <=> k - m + 1 = 3
  BY <1>6, <1>7 DEF Script
<1>9. Head(q).type = "complete" <=> k = m
  BY <1>1, <1>8
<1>10. Head(q).type = "scan" => k = 3 /\ m = 1
  BY <1>1, <1>8
<1> QED
  BY <1>1, <1>2, <1>3, <1>5, <1>6, <1>9, <1>10 DEF Flows, Ends, t, m

LEMMA ScanIsLast ==
  ASSUME NEW s \in Seq(Event), NEW t \in Seq(Event), NEW k \in 0 .. 3, NEW v, NEW fmt,
         Flows(s \o t, k, v, fmt), NEW i \in 1 .. Len(s), s[i].type = "scan"
  PROVE  k = 3 /\ t = << >>
<1> DEFINE q == s \o t   a == Len(s)   b == Len(t)
<1>1. a \in Nat /\ b \in Nat /\ (b = 0 => t = << >>)
  BY LenProperties, EmptySeq
<1>2. Len(q) = a + b /\ \A j \in 1 .. a + b : q[j] = IF j <= a THEN s[j] ELSE t[j - a]
  BY ConcatProperties
<1>3. Len(q) <= k /\ \A j \in 1 .. Len(q) : q[j].type = Script[k - Len(q) + j]
  BY DEF Flows
<1>4. i \in 1 .. a
  OBVIOUS
<1> HIDE DEF q, a, b
<1>5. i \in 1 .. Len(q) /\ q[i] = s[i]
  BY <1>1, <1>2, <1>4
<1>6. k - Len(q) + i \in 1 .. 3 /\ Script[k - Len(q) + i] = "scan"
  BY <1>1, <1>2, <1>3, <1>5
<1>7. \A m \in 1 .. 3 : Script[m] = "scan" => m = 3
  BY DEF Script
<1>8. k - Len(q) + i = 3
  BY <1>6, <1>7
<1> QED
  BY <1>1, <1>2, <1>4, <1>8

\* While the session is live, what is under way is what the panel posted
\* last, and a scan is made for the visit that waits for it.
Closing == Ends(Undelivered, Stage)

FlowInv ==
    Live =>
        /\ Flows(Undelivered, Stage, visit, panelFmt)
        /\ hpc \in {"wait", "job"} =>
              Undelivered = << >> /\ panel = "scan" /\ cur.visit = visit /\ cur.fmt = panelFmt

LEMMA FlowInit == Init => FlowInv
<1>1. << >> \o << >> = << >>
  <2>1. << >> \in Seq(Event)
    BY EmptySeq
  <2> QED
    BY <2>1, ConcatEmptySeq
<1>2. ASSUME Init PROVE Undelivered = << >> /\ hpc = "setup" /\ Stage = 1
  <2>1. /\ events = << >> /\ Held = << >> /\ AtPrinter = << >> /\ hpc = "setup"
        /\ panel = "idle"
    BY <1>2 DEF Init, Held, AtPrinter
  <2> QED
    BY <1>1, <2>1 DEF Undelivered, Held, AtPrinter, Stage
<1> QED
  BY <1>2, FlowEmpty DEF FlowInv

\* What a step means for walkups, while the session is live and when it no
\* longer is.
Rests ==
    /\ Live /\ Live'
    /\ UNCHANGED <<panel, panelFmt, visit, docVars>> /\ (Closing' <=> Closing)
Takes ==
    /\ Live /\ Live'
    /\ UNCHANGED <<panel, panelFmt, visit, owner>> /\ ~Closing'
    /\ \/ Closing /\ PagesComplete
       \/ ~Closing /\ UNCHANGED docVars
PanelMoves ==
    /\ Live /\ Live'
    /\ UNCHANGED docVars
    /\ \/ panel = "idle" /\ panel' = "menu" /\ visit' = visit + 1 /\ (Closing' <=> Closing)
       \/ panel = "menu" /\ panel' = "scan" /\ visit' = visit /\ (Closing' <=> Closing)
       \/ panel = "prompt" /\ panel' = "scan" /\ UNCHANGED <<visit, panelFmt>> /\ ~Closing'
       \/ panel = "prompt" /\ panel' = "idle" /\ visit' = visit /\ Closing'
Scans(n) ==
    /\ FilePages(panelFmt, n, visit, job.src = "feeder")
    /\ Live /\ panel = "scan" /\ ~Closing /\ UNCHANGED <<panelFmt, visit>>
    /\ Live' => IF job.src = "feeder" THEN panel' = "idle" ELSE panel' = "prompt" /\ ~Closing'
Stops == ~Live' /\ UNCHANGED owner /\ (UNCHANGED docVars \/ FinishDocument)

LEMMA StageFacts ==
  ASSUME SessionTypeOK
  PROVE  /\ Stage \in 0 .. 3
         /\ Stage = 0 <=> panel = "prompt"
         /\ Stage = 1 <=> panel = "idle"
         /\ Stage = 2 <=> panel = "menu"
         /\ Stage = 3 <=> panel = "scan"
BY DEF SessionTypeOK, Stage

\* What is live without a poller has the last event, and the panel waits.
LEMMA LastScan ==
  ASSUME SessionTypeOK, FlowInv, Live, hpc # "setup", hpc # "select" \/ ScanWaits
  PROVE  Undelivered = events /\ panel = "scan"
<1> DEFINE back == Held \o AtPrinter
<1>1. events \in Seq(Event) /\ back \in Seq(Event) /\ Undelivered = events \o back
  <2>1. \A x, y, z \in Seq(Event) : (x \o y) \o z = x \o (y \o z)
    BY ConcatAssociative
  <2> QED
    BY <2>1, PartTypes, ConcatProperties
<1>2. Flows(events \o back, Stage, visit, panelFmt) /\ Stage \in 0 .. 3 /\ (Stage = 3 <=> panel = "scan")
  BY <1>1, StageFacts DEF FlowInv
<1> HIDE DEF back
<1>3. CASE ScanWaits
  <2>1. Stage = 3 /\ back = << >>
    BY <1>1, <1>2, <1>3, ScanIsLast DEF ScanWaits
  <2> QED
    BY <1>1, <1>2, <2>1, ConcatEmptySeq
<1>4. CASE hpc # "select"
  <2>1. events \o back = << >> /\ panel = "scan"
    BY <1>1, <1>4 DEF FlowInv, Live
  <2>2. events = << >>
    BY <1>1, <2>1, ConcatSimplifications!concIsEmpty
  <2> QED
    BY <1>1, <2>1, <2>2
<1> QED
  BY <1>3, <1>4

LEMMA TakeLive ==
  ASSUME SessionTypeOK, TakeEvent, Live'
  PROVE  Live
<1>1. /\ hpc = "select" /\ hpc' \in {"select", "wait"} /\ ppc' = ppc /\ events' = Tail(events)
      /\ hpc' = "wait" => Head(events).type = "scan"
  BY DEF TakeEvent, pollerVars
<1>2. /\ Head(events) = events[1] /\ Len(events) \in Nat \ {0}
      /\ Len(Tail(events)) = Len(events) - 1
      /\ \A i \in 1 .. Len(Tail(events)) : Tail(events)[i] = events[i + 1]
  BY HeadTailProperties, EmptySeq, LenProperties DEF SessionTypeOK, TakeEvent
<1>3. ScanWaits' => ScanWaits
  <2>1. ScanWaits' <=> \E i \in 1 .. Len(Tail(events)) : Tail(events)[i].type = "scan"
    BY <1>1 DEF ScanWaits
  <2> DEFINE t == Tail(events)   m == Len(events)
  <2>2. m \in Nat \ {0} /\ Len(t) = m - 1 /\ \A i \in 1 .. Len(t) : t[i] = events[i + 1]
    BY <1>2
  <2>3. (ScanWaits <=> \E i \in 1 .. m : events[i].type = "scan")
        /\ (ScanWaits' <=> \E i \in 1 .. Len(t) : t[i].type = "scan")
    BY <2>1 DEF ScanWaits
  <2> HIDE DEF t, m
  <2>4. \A i \in 1 .. Len(t) : i + 1 \in 1 .. m
    BY <2>2
  <2> QED
    BY <2>2, <2>3, <2>4
<1>4. Head(events).type = "scan" => ScanWaits
  <2>1. 1 \in 1 .. Len(events)
    BY <1>2
  <2> QED
    BY <1>2, <2>1 DEF ScanWaits
<1> QED
  BY <1>1, <1>3, <1>4 DEF Live

LEMMA FlowNext ==
  ASSUME EventsTellAll, SessionTypeOK, SessionTypeOK', EntryInv, PanelInv, CalmInv, FlowInv,
         [Next]_vars
  PROVE  FlowInv' /\ (Rests \/ Takes \/ PanelMoves \/ Stops \/ \E n \in 1 .. MaxFeed : Scans(n))
<1> DEFINE q == Undelivered
<1>1. q \in Seq(Event) /\ (Live => Flows(q, Stage, visit, panelFmt))
  BY PartTypes DEF FlowInv
<1>2. /\ Stage \in 0 .. 3 /\ Stage' \in 0 .. 3
      /\ Stage' = 0 <=> panel' = "prompt"
      /\ Stage' = 1 <=> panel' = "idle"
      /\ Stage' = 2 <=> panel' = "menu"
      /\ Stage' = 3 <=> panel' = "scan"
  <2>1. panel' \in {"idle", "menu", "scan", "prompt"}
    BY DEF SessionTypeOK
  <2>2. Stage' = CASE panel' = "prompt" -> 0 [] panel' = "idle" -> 1 [] panel' = "menu" -> 2
                   [] panel' = "scan" -> 3
    BY DEF Stage
  <2>3. /\ panel' = "prompt" => Stage' = 0
        /\ panel' = "idle" => Stage' = 1
        /\ panel' = "menu" => Stage' = 2
        /\ panel' = "scan" => Stage' = 3
    BY <2>2
  <2>4. Stage \in 0 .. 3
    BY StageFacts
  <2> QED
    BY <2>1, <2>3, <2>4
<1>3. Live /\ panel = "prompt" => q = << >> /\ hpc \notin {"wait", "job"}
  <2>1. Live /\ panel = "prompt" => Stage = 0 /\ hpc \notin {"wait", "job"}
    BY StageFacts DEF FlowInv
  <2>2. Len(q) \in Nat /\ (Live => Len(q) <= Stage)
    BY <1>1, LenProperties DEF Flows
  <2>3. Len(q) = 0 => q = << >>
    BY <1>1, EmptySeq
  <2> HIDE DEF q
  <2> QED
    BY <2>1, <2>2, <2>3
<1>4. hpc # "setup" /\ Live => subs = {nsubs}
  BY DEF CalmInv, Live
<1>5. /\ panel # "idle" => panelSub \in subs /\ hpc # "setup"
      /\ \A s \in subs : hpc # "setup"
  BY DEF PanelInv, EntryInv
<1>6. Closing <=> Ends(q, Stage)
  BY DEF Closing
<1>7. FlowInv' <=>
        (Live' =>
          /\ Flows(q', Stage', visit', panelFmt')
          /\ hpc' \in {"wait", "job"} =>
                q' = << >> /\ panel' = "scan" /\ cur'.visit = visit' /\ cur'.fmt = panelFmt')
  BY DEF FlowInv
<1>8. Closing' <=> Ends(q', Stage')
  BY DEF Closing
<1>9. visit \in Nat /\ visit + 1 \in Nat /\ panelFmt \in Formats /\ "pdf" \in Formats
  BY DEF SessionTypeOK, Formats
<1>10. Script[1] = "complete" /\ Script[2] = "host" /\ Script[3] = "scan"
  BY DEF Script
<1>11. CASE ~Live' /\ ~\E n \in 1 .. MaxFeed : ScanDone(n)
  <2>1. UNCHANGED owner /\ (UNCHANGED docVars \/ FinishDocument)
    BY <1>11, CalmMoves DEF Still, Hangs, TakeEvent, PagesComplete, PanelPosts, Quits, docVars
  <2> QED
    BY <1>7, <1>11, <2>1 DEF Stops
<1>12. CASE Still /\ Live'
  <2>1. Live /\ q' = q /\ Stage' = Stage /\ UNCHANGED <<panel, panelFmt, visit, docVars>>
    BY <1>12 DEF Still, Stage
  <2>2. hpc' \in {"wait", "job"} => hpc \in {"wait", "job"} /\ cur' = cur
    BY <1>12 DEF Still
  <2>3. Rests
    BY <1>6, <1>8, <1>12, <2>1 DEF Rests
  <2> HIDE DEF q
  <2>4. FlowInv'
    BY <1>1, <1>7, <2>1, <2>2 DEF FlowInv, q
  <2> QED
    BY <2>3, <2>4
<1>13. CASE Hangs /\ Live'
  <2>1. /\ Live /\ hpc # "setup" /\ ppc' = "exit" /\ Stage' = Stage
        /\ UNCHANGED <<events, hpc, cur, panel, panelFmt, visit, docVars>>
    BY <1>13 DEF Hangs, Stage
  <2>2. hpc # "select" \/ ScanWaits
    BY <1>13, <2>1 DEF Live, ScanWaits
  <2>3. q' = events
    <3>1. q' = (events \o << >>) \o << >> /\ events \in Seq(Event)
      BY <2>1 DEF Undelivered, SessionTypeOK
    <3> QED
      BY <3>1, ConcatEmptySeq
  <2>4. q' = q
    BY <2>1, <2>2, <2>3, LastScan
  <2>5. Rests
    BY <1>6, <1>8, <1>13, <2>1, <2>4 DEF Rests
  <2> HIDE DEF q
  <2>6. FlowInv'
    BY <1>1, <1>7, <2>1, <2>4 DEF FlowInv, q
  <2> QED
    BY <2>5, <2>6
<1>14. CASE TakeEvent /\ Live'
  <2>1. Live /\ q # << >> /\ q' = Tail(q) /\ Head(q) = Head(events)
    BY <1>14, TakeTail, TakeLive
  <2>2. UNCHANGED <<panel, panelFmt, visit, owner, Stage>>
    BY <1>14 DEF TakeEvent, panelVars, docVars, Stage
  <2>3. /\ Flows(q', Stage, visit, panelFmt) /\ ~Ends(q', Stage)
        /\ Head(q).type = "complete" <=> Ends(q, Stage)
        /\ Head(q).type = "scan" => /\ Stage = 3 /\ q' = << >>
                                  /\ Head(q).visit = visit /\ Head(q).fmt = panelFmt
    BY <1>1, <1>2, <2>1, FlowTail
  <2>4. /\ hpc = "select"
        /\ \/ Head(q).type # "complete" /\ UNCHANGED docVars
           \/ Head(q).type = "complete" /\ PagesComplete
        /\ hpc' \in {"wait", "job"} => Head(q).type = "scan" /\ cur' = Head(q)
    BY <1>14, <2>1 DEF TakeEvent
  <2> HIDE DEF q
  <2>5. FlowInv'
    BY <1>7, <2>2, <2>3, <2>4, StageFacts
  <2>6. Takes
    BY <1>6, <1>8, <1>14, <2>1, <2>2, <2>3, <2>4 DEF Takes
  <2> QED
    BY <2>5, <2>6
<1>15. CASE PanelPosts /\ Live'
  <2>1. Live /\ UNCHANGED <<hpc, cur, docVars>>
    BY <1>15 DEF PanelPosts, Live, ScanWaits
  <2>2. panel # "scan" /\ hpc # "setup" => ppc # "exit"
    BY <2>1, LastScan DEF Live
  <2>3. ASSUME NEW s \in subs, SelectHost(s) PROVE FlowInv' /\ PanelMoves
    <3>1. /\ panel = "idle" /\ panel' = "menu" /\ visit' = visit + 1 /\ panelFmt' = panelFmt
          /\ UNCHANGED <<events, ppc, pev, nsubs>> /\ Post("host", "pdf", s, visit + 1)
      BY <2>3 DEF SelectHost, sharedVars, pollerVars
    <3>2. PICK e \in Event : e.type = "host" /\ q' = Append(q, e)
      BY <1>5, <1>9, <2>2, <3>1, PostAppends
    <3>3. Stage = 1 /\ Stage' = 1 + 1
      BY <1>2, <3>1, StageFacts
    <3> HIDE DEF q
    <3>4. /\ Flows(Append(q, e), 1 + 1, visit + 1, panelFmt)
          /\ Ends(Append(q, e), 1 + 1) <=> Ends(q, 1)
      BY <1>1, <1>10, <2>1, <3>2, <3>3, FlowAppend
    <3>5. hpc \notin {"wait", "job"}
      BY <2>1, <3>1 DEF FlowInv
    <3> QED
      BY <1>6, <1>7, <1>8, <1>15, <2>1, <3>1, <3>2, <3>3, <3>4, <3>5 DEF PanelMoves
  <2>4. ASSUME NEW fmt \in Formats, PressStart(fmt) PROVE FlowInv' /\ PanelMoves
    <3>1. /\ panel = "menu" /\ panel' = "scan" /\ visit' = visit /\ panelFmt' = fmt
          /\ UNCHANGED <<events, ppc, pev, nsubs>> /\ Post("scan", fmt, panelSub, visit)
      BY <2>4 DEF PressStart, sharedVars, pollerVars
    <3>2. PICK e \in Event :
             e.type = "scan" /\ e.fmt = fmt /\ e.visit = visit /\ q' = Append(q, e)
      BY <1>5, <1>9, <2>2, <3>1, PostAppends
    <3>3. Stage = 2 /\ Stage' = 2 + 1
      BY <1>2, <3>1, StageFacts
    <3> HIDE DEF q
    <3>4. /\ Flows(Append(q, e), 2 + 1, visit, fmt)
          /\ Ends(Append(q, e), 2 + 1) <=> Ends(q, 2)
      BY <1>1, <1>10, <2>1, <3>2, <3>3, FlowAppend
    <3>5. hpc \notin {"wait", "job"}
      BY <2>1, <3>1 DEF FlowInv
    <3> QED
      BY <1>6, <1>7, <1>8, <1>15, <2>1, <3>1, <3>2, <3>3, <3>4, <3>5 DEF PanelMoves
  <2>5. CASE AddPage
    <3>1. /\ panel = "prompt" /\ panel' = "scan" /\ UNCHANGED <<visit, panelFmt>>
          /\ UNCHANGED <<events, ppc, pev, nsubs>> /\ Post("scan", panelFmt, panelSub, visit)
      BY <2>5 DEF AddPage, sharedVars, pollerVars
    <3>2. PICK e \in Event :
             e.type = "scan" /\ e.fmt = panelFmt /\ e.visit = visit /\ q' = Append(q, e)
      BY <1>5, <1>9, <2>2, <3>1, PostAppends
    <3>3. q' = Append(<< >>, e) /\ Stage' = 3
      BY <1>2, <1>3, <2>1, <3>1, <3>2
    <3> HIDE DEF q
    <3>4. Flows(Append(<< >>, e), 3, visit, panelFmt) /\ ~Ends(Append(<< >>, e), 3)
      BY <1>10, <3>2, FlowSingle
    <3> QED
      BY <1>3, <1>7, <1>8, <1>15, <2>1, <3>1, <3>3, <3>4 DEF PanelMoves
  <2>6. CASE PressDone
    <3>1. /\ panel = "prompt" /\ panel' = "idle" /\ UNCHANGED <<visit, panelFmt>>
          /\ UNCHANGED <<events, ppc, pev, nsubs>> /\ Post("complete", panelFmt, panelSub, visit)
      BY <2>6 DEF PressDone, sharedVars, pollerVars
    <3>2. PICK e \in Event : e.type = "complete" /\ q' = Append(q, e)
      BY <1>5, <1>9, <2>2, <3>1, PostAppends
    <3>3. q' = Append(<< >>, e) /\ Stage' = 1
      BY <1>2, <1>3, <2>1, <3>1, <3>2
    <3> HIDE DEF q
    <3>4. Flows(Append(<< >>, e), 1, visit, panelFmt) /\ Ends(Append(<< >>, e), 1)
      BY <1>10, <3>2, FlowSingle
    <3> QED
      BY <1>3, <1>7, <1>8, <1>15, <2>1, <3>1, <3>3, <3>4 DEF PanelMoves
  <2> QED
    BY <1>15, <2>3, <2>4, <2>5, <2>6 DEF PanelPosts
<1>16. ASSUME NEW n \in 1 .. MaxFeed, ScanDone(n) PROVE FlowInv' /\ Scans(n)
  <2>1. /\ hpc = "job" /\ hpc' = "select" /\ UNCHANGED <<visit, panelFmt>>
        /\ UNCHANGED <<events, ppc, pev, nsubs>>
        /\ FilePages(cur.fmt, n, cur.visit, job.src = "feeder")
    BY <1>16 DEF ScanDone, sharedVars, pollerVars
  <2>2. Live /\ q = << >> /\ panel = "scan" /\ cur.visit = visit /\ cur.fmt = panelFmt
    BY <2>1 DEF FlowInv, Live
  <2>3. panelSub \in subs /\ job.ctx = panelSub /\ job.src \in {"flatbed", "feeder"}
    BY <1>4, <1>5, <2>1, <2>2 DEF CalmInv, SessionTypeOK, Job, Sources
  <2>4. ~Closing
    BY <1>2, <1>6, <2>2, FlowEmpty
  <2>5. CASE ~Live'
    BY <1>7, <2>1, <2>2, <2>4, <2>5 DEF Scans
  <2>6. Live' => ppc # "exit"
    <3>1. events = << >>
      <4>1. \A x, y \in Seq(Event) : x \o y = << >> => x = << >>
        BY ConcatSimplifications!concIsEmpty
      <4>2. events \o Held \in Seq(Event) /\ (events \o Held) \o AtPrinter = << >>
        BY <2>2, PartTypes, ConcatProperties
      <4> QED
        BY <4>1, <4>2, PartTypes
    <3>2. 1 .. Len(events) = {}
      BY <3>1
    <3> QED
      BY <2>1, <3>2 DEF Live, ScanWaits
  <2>7. CASE Live' /\ UNCHANGED <<pend, posted>>
    <3>1. q' = << >>
      BY <2>1, <2>2, <2>7 DEF Undelivered
    <3>2. FlowInv' /\ ~Closing'
      BY <1>2, <1>7, <1>8, <2>1, <3>1, FlowEmpty
    <3>3. panel' = IF job.src = "feeder" THEN "idle" ELSE "prompt"
      BY <1>16, <2>2, <2>3 DEF ScanDone
    <3> QED
      BY <2>1, <2>2, <2>4, <3>2, <3>3 DEF Scans
  <2>8. CASE /\ Live' /\ job.src = "feeder" /\ panel' = "idle"
             /\ Post("complete", panelFmt, panelSub, visit)
    <3>1. PICK e \in Event : e.type = "complete" /\ q' = Append(q, e)
      BY <1>9, <2>1, <2>2, <2>3, <2>6, <2>8, PostAppends
    <3>2. q' = Append(<< >>, e) /\ Stage' = 1
      BY <1>2, <2>2, <2>8, <3>1
    <3> HIDE DEF q
    <3>3. Flows(Append(<< >>, e), 1, visit, panelFmt)
      <4>1. e.type = Script[1] /\ e.type # "scan"
        BY <1>10, <3>1
      <4> QED
        BY <4>1, FlowSingle
    <3> QED
      BY <1>7, <2>1, <2>2, <2>4, <2>8, <3>2, <3>3 DEF Scans
  <2> QED
    BY <1>16, <2>2, <2>3, <2>5, <2>7, <2>8 DEF ScanDone
<1> QED
  BY <1>11, <1>12, <1>13, <1>14, <1>15, <1>16, CalmMoves DEF Quits

\* While the session is live, a document that stays open is that of the
\* current visit, unless the event that ends it is under way; a visit with
\* pages does not begin again.
VisitInv ==
    /\ \A w \in Scanned : w <= visit
    /\ panel # "idle" => visit \notin Had
    /\ panel = "menu" \/ (panel = "scan" /\ Closing) => visit \notin Scanned
    /\ ~Closing =>
          /\ InDoc \subseteq {visit}
          /\ doc # << >> => panel \in {"scan", "prompt"} /\ panelFmt = "pdf"

ApartInv == Apart(owner, doc, files, {}) /\ (Live => VisitInv)

\* The counter counts the files of the current visit, with the same provisos.
Counted ==
    /\ ~Closing /\ panel \in {"scan", "prompt"} =>
          /\ jpegPage = Cardinality(Jpegs(files, owner, visit))
          /\ panelFmt = "pdf" => jpegPage = 0
    /\ ~Closing /\ panel \notin {"scan", "prompt"} => jpegPage = 0

CountInv == "write" \notin Faults => lost = {} /\ Numbered(files, owner) /\ (Live => Counted)

LEMMA WalkupInit == Init => JpegInv /\ ApartInv /\ CountInv
<1> SUFFICES ASSUME Init PROVE JpegInv /\ ApartInv /\ CountInv
  OBVIOUS
<1>1. /\ owner = << >> /\ doc = << >> /\ files = {} /\ lost = {} /\ jpegPage = 0
      /\ panel = "idle"
  BY DEF Init, DocInit
<1>2. Scanned = {} /\ InDoc = {} /\ Had = {}
  BY <1>1 DEF Scanned, InDoc, Had, Filed, Of, Range
<1>3. JpegInv
  BY <1>1, FS_EmptySet DEF JpegInv
<1>4. ApartInv
  <2>1. Apart(owner, doc, files, {})
    BY <1>1, <1>2 DEF Apart, InDoc, Had
  <2> QED
    BY <1>1, <1>2, <2>1 DEF ApartInv, VisitInv
<1>5. CountInv
  BY <1>1 DEF CountInv, Counted, Numbered
<1> QED
  BY <1>3, <1>4, <1>5

LEMMA ApartNext ==
  ASSUME SessionTypeOK, DocInv, ApartInv,
         Rests \/ Takes \/ PanelMoves \/ Stops \/ \E n \in 1 .. MaxFeed : Scans(n)
  PROVE  ApartInv'
<1>1. visit \in Nat /\ Scanned \subseteq Nat /\ InDoc \subseteq Scanned /\ Had \subseteq Scanned
  BY WalkupSets DEF SessionTypeOK
<1>2. panel = "prompt" => ~Closing
  BY StageFacts DEF Closing, Ends
<1>3. doc = << >> => InDoc = {}
  BY DEF InDoc, Of, Range
<1>4. ASSUME UNCHANGED docVars
      PROVE  /\ UNCHANGED <<Scanned, InDoc, Had, doc>>
             /\ Apart(owner', doc', files', {})
  <2>1. UNCHANGED <<owner, doc, files>> /\ Apart(owner, doc, files, {})
    BY <1>4 DEF docVars, ApartInv, VisitInv
  <2> QED
    BY <2>1 DEF Scanned, InDoc, Had
<1>5. CASE Rests
  BY <1>4, <1>5 DEF Rests, ApartInv, VisitInv
<1>6. CASE Takes
  <2>1. Live /\ UNCHANGED <<panel, panelFmt, visit, owner, Scanned>> /\ ~Closing'
    BY <1>6 DEF Takes, Scanned
  <2>2. CASE Closing /\ PagesComplete
    <3>1. /\ Apart(owner', doc', files', {})
          /\ Of(doc', owner') = {}
          /\ Filed(files', owner') \subseteq Filed(files, owner) \cup Of(doc, owner)
      BY <2>1, <2>2, FinishApart DEF PagesComplete, ApartInv, VisitInv
    <3>2. doc' = << >>
      BY <2>2 DEF PagesComplete, FinishDocument, SavePdf
    <3>3. panel # "idle" => visit \notin InDoc
      BY <1>1, <1>2, <2>1, <2>2 DEF ApartInv, VisitInv, SessionTypeOK
    <3>4. InDoc' = {} /\ Had' \subseteq Had \cup InDoc
      BY <3>1 DEF InDoc, Had
    <3> QED
      BY <2>1, <3>1, <3>2, <3>3, <3>4 DEF ApartInv, VisitInv
  <2>3. CASE ~Closing /\ UNCHANGED docVars
    BY <1>4, <2>1, <2>3 DEF ApartInv, VisitInv
  <2> QED
    BY <1>6, <2>2, <2>3 DEF Takes
<1>7. CASE PanelMoves
  <2>1. Live /\ UNCHANGED <<Scanned, InDoc, Had, doc>> /\ Apart(owner', doc', files', {})
    BY <1>4, <1>7 DEF PanelMoves
  <2>2. CASE panel = "idle" /\ panel' = "menu" /\ visit' = visit + 1 /\ (Closing' <=> Closing)
    <3>1. visit + 1 \notin Scanned /\ \A w \in Scanned : w <= visit + 1
      BY <1>1, <2>1 DEF ApartInv, VisitInv
    <3>2. ~Closing' => doc' = << >> /\ InDoc' = {}
      BY <1>3, <2>1, <2>2 DEF ApartInv, VisitInv
    <3> QED
      BY <1>1, <2>1, <2>2, <3>1, <3>2 DEF ApartInv, VisitInv
  <2>3. CASE panel = "menu" /\ panel' = "scan" /\ visit' = visit /\ (Closing' <=> Closing)
    <3>1. ~Closing' => doc' = << >> /\ InDoc' = {}
      BY <1>3, <2>1, <2>3 DEF ApartInv, VisitInv
    <3> QED
      BY <2>1, <2>3, <3>1 DEF ApartInv, VisitInv
  <2>4. CASE panel = "prompt" /\ panel' = "scan" /\ UNCHANGED <<visit, panelFmt>> /\ ~Closing'
    BY <1>2, <2>1, <2>4 DEF ApartInv, VisitInv
  <2>5. CASE panel = "prompt" /\ panel' = "idle" /\ visit' = visit /\ Closing'
    BY <1>2, <2>1, <2>5 DEF ApartInv, VisitInv
  <2> QED
    BY <1>7, <2>2, <2>3, <2>4, <2>5 DEF PanelMoves
<1>8. ASSUME NEW n \in 1 .. MaxFeed, Scans(n) PROVE ApartInv'
  <2> DEFINE single == job.src = "feeder"
  <2>1. /\ FilePages(panelFmt, n, visit, single) /\ single \in BOOLEAN /\ n \in Nat
        /\ Live /\ panel = "scan" /\ ~Closing /\ UNCHANGED <<panelFmt, visit>>
        /\ Live' => IF single THEN panel' = "idle" ELSE panel' = "prompt" /\ ~Closing'
    BY <1>8 DEF Scans
  <2> HIDE DEF single
  <2>2. /\ Apart(owner, doc, files, {}) /\ Of(doc, owner) \subseteq {visit}
        /\ visit \notin Filed(files, owner)
    BY <2>1 DEF ApartInv, VisitInv, InDoc, Had
  <2>3. /\ Apart(owner', doc', files', {})
        /\ Range(owner') \subseteq Range(owner) \cup {visit}
        /\ Of(doc', owner') \subseteq Of(doc, owner) \cup {visit}
        /\ Filed(files', owner') \subseteq
              Filed(files, owner) \cup (IF single THEN Of(doc, owner) \cup {visit} ELSE {})
    BY <1>1, <2>1, <2>2, FilePagesApart
  <2>4. /\ Scanned' \subseteq Scanned \cup {visit} /\ InDoc' \subseteq {visit}
        /\ ~single => Had' \subseteq Had
    BY <2>2, <2>3 DEF Scanned, InDoc, Had
  <2>5. doc' # << >> => panelFmt = "pdf" /\ ~single
    BY <2>1 DEF FilePages, FilePdf, FileJpegs, SavePdf, ApartInv, VisitInv
  <2> QED
    BY <1>1, <2>1, <2>2, <2>3, <2>4, <2>5 DEF ApartInv, VisitInv, Had
<1>9. CASE Stops
  <2>1. UNCHANGED docVars \/ (FinishDocument /\ UNCHANGED owner)
    BY <1>9 DEF Stops
  <2>2. Apart(owner', doc', files', {})
    BY <1>4, <2>1, FinishApart DEF ApartInv
  <2> QED
    BY <1>9, <2>2 DEF Stops, ApartInv
<1> QED
  BY <1>5, <1>6, <1>7, <1>8, <1>9

LEMMA CountNext ==
  ASSUME SessionTypeOK, DocInv, JpegInv, ApartInv, CountInv,
         Rests \/ Takes \/ PanelMoves \/ Stops \/ \E n \in 1 .. MaxFeed : Scans(n)
  PROVE  JpegInv' /\ CountInv'
<1> DEFINE Counts == jpegPage = Cardinality(Jpegs(files, owner, visit))
           CountsNext == jpegPage' = Cardinality(Jpegs(files', owner', visit'))
<1>1. panel = "prompt" => ~Closing
  BY StageFacts DEF Closing, Ends
<1>2. ASSUME UNCHANGED docVars
      PROVE  /\ JpegInv' /\ (Numbered(files, owner) => Numbered(files', owner'))
             /\ lost' = lost /\ jpegPage' = jpegPage
             /\ visit' = visit /\ Counts => CountsNext
             /\ "write" \notin Faults /\ CountInv => lost' = {} /\ Numbered(files', owner')
  BY <1>2 DEF docVars, JpegInv, CountInv
<1>3. visit \notin Scanned => Cardinality(Jpegs(files, owner, visit)) = 0
  BY NoFiles
<1>4. CASE Rests
  <2>1. Live /\ UNCHANGED <<panel, panelFmt, visit, docVars>> /\ (Closing' <=> Closing)
    BY <1>4 DEF Rests
  <2> QED
    BY <1>2, <2>1 DEF CountInv, Counted
<1>5. CASE Takes
  <2>1. Live /\ UNCHANGED <<panel, panelFmt, visit, owner>> /\ ~Closing'
    BY <1>5 DEF Takes
  <2>2. CASE Closing /\ PagesComplete
    <3>1. FinishDocument /\ jpegPage' = 0
      BY <2>2 DEF PagesComplete
    <3>2. /\ JpegInv' /\ Jpegs(files', owner', visit) = Jpegs(files, owner, visit)
          /\ Numbered(files, owner) => Numbered(files', owner')
      BY <2>1, <3>1, FinishNumbered
    <3>3. "write" \notin Faults => lost' = lost
      BY <3>1 DEF FinishDocument, SavePdf
    <3>4. panel \in {"scan", "prompt"} => CountsNext
      BY <1>1, <1>3, <2>1, <2>2, <3>1, <3>2 DEF ApartInv, VisitInv
    <3> HIDE DEF CountsNext, Counts
    <3>5. CountInv' <=>
            ("write" \notin Faults =>
              /\ lost' = {} /\ Numbered(files', owner')
              /\ Live' /\ ~Closing' /\ panel' \in {"scan", "prompt"} =>
                    CountsNext /\ (panelFmt' = "pdf" => jpegPage' = 0)
              /\ Live' /\ ~Closing' /\ panel' \notin {"scan", "prompt"} => jpegPage' = 0)
      BY DEF CountInv, Counted, CountsNext
    <3> QED
      BY <2>1, <3>1, <3>2, <3>3, <3>4, <3>5 DEF CountInv
  <2>3. CASE ~Closing /\ UNCHANGED docVars
    BY <1>2, <2>1, <2>3 DEF CountInv, Counted
  <2> QED
    BY <1>5, <2>2, <2>3 DEF Takes
<1>6. CASE PanelMoves
  <2>1. Live /\ UNCHANGED docVars
    BY <1>6 DEF PanelMoves
  <2>2. CASE panel = "idle" /\ panel' = "menu" /\ visit' = visit + 1 /\ (Closing' <=> Closing)
    BY <1>2, <2>1, <2>2 DEF CountInv, Counted
  <2>3. CASE panel = "menu" /\ panel' = "scan" /\ visit' = visit /\ (Closing' <=> Closing)
    <3>1. Cardinality(Jpegs(files, owner, visit)) = 0
      BY <1>3, <2>1, <2>3 DEF ApartInv, VisitInv
    <3> QED
      BY <1>2, <2>1, <2>3, <3>1 DEF CountInv, Counted
  <2>4. CASE panel = "prompt" /\ panel' = "scan" /\ UNCHANGED <<visit, panelFmt>> /\ ~Closing'
    BY <1>1, <1>2, <2>1, <2>4 DEF CountInv, Counted
  <2>5. CASE panel = "prompt" /\ panel' = "idle" /\ visit' = visit /\ Closing'
    BY <1>2, <2>1, <2>5 DEF CountInv, Counted
  <2> QED
    BY <1>6, <2>2, <2>3, <2>4, <2>5 DEF PanelMoves
<1>7. ASSUME NEW n \in 1 .. MaxFeed, Scans(n) PROVE JpegInv' /\ CountInv'
  <2> DEFINE single == job.src = "feeder"
  <2>1. /\ FilePages(panelFmt, n, visit, single) /\ single \in BOOLEAN
        /\ n \in Nat /\ visit \in Nat
        /\ Live /\ panel = "scan" /\ ~Closing /\ UNCHANGED <<panelFmt, visit>>
        /\ Live' => IF single THEN panel' = "idle" ELSE panel' = "prompt" /\ ~Closing'
    BY <1>7 DEF Scans, SessionTypeOK
  <2> HIDE DEF single
  <2>2. JpegInv'
    BY <2>1, FilePagesJpegInv
  <2>3. SUFFICES ASSUME "write" \notin Faults
                 PROVE  /\ lost' = {} /\ Numbered(files', owner')
                        /\ ~single => CountsNext
                        /\ panelFmt = "pdf" \/ single => jpegPage' = 0
    <3> HIDE DEF CountsNext, Counts
    <3>1. CountInv' <=>
            ("write" \notin Faults =>
              /\ lost' = {} /\ Numbered(files', owner')
              /\ Live' /\ ~Closing' /\ panel' \in {"scan", "prompt"} =>
                    CountsNext /\ (panelFmt' = "pdf" => jpegPage' = 0)
              /\ Live' /\ ~Closing' /\ panel' \notin {"scan", "prompt"} => jpegPage' = 0)
      BY DEF CountInv, Counted, CountsNext
    <3> QED
      BY <2>1, <2>2, <3>1
  <2>4. /\ lost = {} /\ Numbered(files, owner) /\ Counts
        /\ panelFmt = "pdf" => jpegPage = 0
    BY <2>1, <2>3 DEF CountInv, Counted
  <2>5. lost' = {} /\ (panelFmt = "pdf" \/ single => jpegPage' = 0)
    <3>1. CASE panelFmt = "pdf" /\ FilePdf(n, visit, single)
      BY <2>3, <2>4, <3>1 DEF FilePdf, SavePdf
    <3>2. CASE panelFmt = "jpeg" /\ FileJpegs(n, visit, single)
      <4>1. /\ lost' = lost \cup {Len(owner) + i : i \in n + 1 .. n}
            /\ jpegPage' = IF single THEN 0 ELSE jpegPage + n
        BY <2>3, <3>2 DEF FileJpegs
      <4>2. n + 1 .. n = {}
        BY <2>1
      <4>3. lost' = {}
        BY <2>4, <4>1, <4>2
      <4> QED
        BY <3>2, <4>1, <4>3
    <3> QED
      BY <2>1, <3>1, <3>2 DEF FilePages
  <2>6. /\ Numbered(files', owner')
        /\ ~single => jpegPage' = Cardinality(Jpegs(files', owner', visit))
    BY <2>1, <2>4, <2>5, FilePagesNumbered
  <2> QED
    BY <2>1, <2>5, <2>6
<1>8. CASE Stops
  <2>1. ~Live' /\ (UNCHANGED docVars \/ (FinishDocument /\ UNCHANGED owner))
    BY <1>8 DEF Stops
  <2>2. CASE UNCHANGED docVars
    BY <1>2, <2>1, <2>2 DEF CountInv
  <2>3. CASE FinishDocument /\ UNCHANGED owner
    <3>1. JpegInv' /\ (Numbered(files, owner) => Numbered(files', owner'))
      BY <2>3, FinishNumbered
    <3>2. "write" \notin Faults => lost' = lost
      BY <2>3 DEF FinishDocument, SavePdf
    <3> QED
      BY <2>1, <3>1, <3>2 DEF CountInv
  <2> QED
    BY <2>1, <2>2, <2>3
<1> QED
  BY <1>4, <1>5, <1>6, <1>7, <1>8

LEMMA SessionWalkups ==
  ASSUME EventsTellAll
  PROVE  Spec => [](ApartInv /\ CountInv)
<1> DEFINE Base == SessionTypeOK /\ DocInv /\ EntryInv /\ PanelInv
           Inv == CalmInv /\ FlowInv /\ JpegInv /\ ApartInv /\ CountInv
<1>1. Init => Base
  BY SessionTypeInit, DocInitInv, EntryInit DEF Init, PanelInv
<1>2. Base /\ [Next]_vars => Base'
  BY SessionTypeNext, DocNext, EntryNext, PanelNext
<1>3. Init => Inv
  BY CalmInit, FlowInit, WalkupInit
<1>4. Base /\ Base' /\ Inv /\ [Next]_vars => Inv'
  <2> SUFFICES ASSUME Base, Base', Inv, [Next]_vars PROVE Inv'
    OBVIOUS
  <2>1. CalmInv'
    BY CalmMoves
  <2>2. FlowInv' /\ (Rests \/ Takes \/ PanelMoves \/ Stops \/ \E n \in 1 .. MaxFeed : Scans(n))
    BY FlowNext
  <2>3. ApartInv' /\ JpegInv' /\ CountInv'
    BY <2>2, ApartNext, CountNext
  <2> QED
    BY <2>1, <2>2, <2>3
<1>5. Inv => ApartInv /\ CountInv
  OBVIOUS
<1> HIDE DEF Base, Inv
<1> QED
  BY <1>1, <1>2, <1>3, <1>4, <1>5, PTL DEF Spec

(* A PDF holds the pages of one walkup and a walkup has one PDF             *)
(* (OneWalkupPerPdf), for any number of walkups, pages and events under     *)
(* way, up to the end of the session: also when requests, scans and saves   *)
(* fail, the poller gives up, or the service is stopped in between.         *)
THEOREM SessionOneWalkupPerPdf ==
  ASSUME EventsTellAll
  PROVE  Spec => []OneWalkupPerPdf
<1>1. ApartInv => OneWalkupPerPdf
  <2>1. \A f : Walkups(f) = Of(f.pages, owner)
    BY DEF Walkups, Of
  <2> QED
    BY <2>1 DEF ApartInv, Apart, OneWalkupPerPdf, Pdfs
<1> QED
  BY <1>1, SessionWalkups, PTL

(* The JPEG files of a walkup are numbered 1, 2, 3, ... in the order their  *)
(* pages were scanned (JpegsNumbered), in the same circumstances, if no     *)
(* save fails.                                                              *)
THEOREM SessionJpegsNumbered ==
  ASSUME EventsTellAll, "write" \notin Faults
  PROVE  Spec => []JpegsNumbered
<1>1. CountInv => JpegsNumbered
  BY JpegsAreNumbered DEF CountInv
<1> QED
  BY <1>1, SessionWalkups, PTL
=============================================================================
