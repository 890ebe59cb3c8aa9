---------------------------- MODULE LedmJobProofs -----------------------------
(***************************************************************************)
(* Every call of ScanPages returns pages scanned one after another, though *)
(* the listings it works through are out of date, without a fault it       *)
(* returns all of them, and a flatbed scan does not wait for the deadline: *)
(* for any number of calls, sheets and polls and any faults.               *)
(***************************************************************************)
EXTENDS LedmJob, SequenceTheorems, TLAPS

USE LedmJobAssumption

-----------------------------------------------------------------------------
(* Pages taken one after another, up to page last.                          *)
Run(s, last) == \A i \in 1 .. Len(s) : s[i] = last - Len(s) + i

LEMMA RunAppend ==
    ASSUME NEW s \in Seq(Int), NEW last \in Int, Run(s, last)
    PROVE  Run(Append(s, last + 1), last + 1)
<1>1. Len(Append(s, last + 1)) = Len(s) + 1 /\ Len(s) \in Nat
  BY AppendProperties, LenProperties
<1>2. \A i \in 1 .. Len(s) : Append(s, last + 1)[i] = s[i]
  BY AppendProperties
<1>3. Append(s, last + 1)[Len(s) + 1] = last + 1
  BY AppendProperties
<1>. QED  BY <1>1, <1>2, <1>3 DEF Run

LEMMA RunTail ==
    ASSUME NEW s \in Seq(Int), s # << >>, NEW last \in Int, Run(s, last)
    PROVE  Run(Tail(s), last) /\ Head(s) = last - Len(s) + 1
<1>1. Len(Tail(s)) = Len(s) - 1 /\ Len(s) \in Nat \ {0}
  BY HeadTailProperties, EmptySeq
<1>2. \A i \in 1 .. Len(Tail(s)) : Tail(s)[i] = s[i + 1]
  BY HeadTailProperties
<1>3. Head(s) = s[1]
  BY <1>1
<1>. QED  BY <1>1, <1>2, <1>3 DEF Run

LEMMA RunIsSegment ==
    ASSUME NEW s \in Seq(Int), s # << >>, Run(s, s[Len(s)])
    PROVE  s = [i \in 1 .. Len(s) |-> s[1] + i - 1] /\ s[1] = s[Len(s)] - Len(s) + 1
<1>1. Len(s) \in Nat \ {0} /\ s \in [1 .. Len(s) -> Int]
  BY EmptySeq, LenProperties
<1>2. s[1] = s[Len(s)] - Len(s) + 1 /\ s[Len(s)] \in Int
  BY <1>1 DEF Run
<1>3. \A i \in 1 .. Len(s) : s[i] = s[1] + i - 1
  BY <1>1, <1>2 DEF Run
<1>. QED  BY <1>1, <1>2, <1>3

LEMMA RunConcat ==
    ASSUME NEW s \in Seq(Int), NEW t \in Seq(Int), NEW last \in Int,
           Run(s, last - Len(t)), Run(t, last)
    PROVE  Run(s \o t, last)
<1>1. Len(s \o t) = Len(s) + Len(t) /\ Len(s) \in Nat /\ Len(t) \in Nat
  BY ConcatProperties, LenProperties
<1>2. \A i \in 1 .. Len(s) + Len(t) : (s \o t)[i] = IF i <= Len(s) THEN s[i] ELSE t[i - Len(s)]
  BY ConcatProperties
<1>. QED  BY <1>1, <1>2 DEF Run

-----------------------------------------------------------------------------
(* The inductive invariant. *)

LastOf(s) == IF s = << >> THEN 0 ELSE s[Len(s)]

LEMMA LastOfConcat ==
    ASSUME NEW s \in Seq(Int), NEW t \in Seq(Int)
    PROVE  LastOf(s \o t) = IF t = << >> THEN LastOf(s) ELSE t[Len(t)]
<1>1. CASE t = << >>
  BY <1>1, ConcatEmptySeq
<1>2. CASE t # << >>
  <2>1. Len(t) \in Nat \ {0} /\ Len(s) \in Nat
    BY <1>2, EmptySeq, LenProperties
  <2>2. Len(s \o t) = Len(s) + Len(t) /\ (s \o t)[Len(s) + Len(t)] = t[Len(t)]
    BY <2>1, ConcatProperties
  <2>3. s \o t # << >>
    BY <2>1, <2>2, EmptySeq
  <2>. QED  BY <1>2, <2>2, <2>3 DEF LastOf
<1>. QED  BY <1>1, <1>2

\* A call whose job was accepted.
Active == pc \in {"poll", "pages"}

\* The last page uploaded, while the job is not cancelled.
Sent == scanned - Len(ready)

\* A job that is over has nothing left, and one that a listing calls over is.
StateInv ==
    /\ state = "Completed" => sheets = 0 /\ ready = << >>
    /\ state = "Canceled" => hurt
    /\ listing.over => state # "Processing"
    /\ ~Active => pages = << >>
    /\ pc # "pages" => listing = NoListing

\* At most MaxSheets pages for each call.
BoundInv ==
    scanned + sheets <= (IF pc = "post" THEN calls - 1 ELSE calls) * MaxSheets

\* What is left of a listing: it may be behind the uploads, and then it names
\* one of the got pages that the client has, but it never begins after the
\* next page to upload.
Listed(pre, got, sent, taken) ==
    pre # << >> => \E last \in 0 .. taken :
        Run(pre, last) /\ last - Len(pre) \in sent - got .. sent

\* The client holds the pages uploaded, in order.
Uploading ==
    /\ Run(ready, scanned) /\ Run(stale, Sent) /\ Run(pages, Sent)
    /\ Len(stale) <= Len(pages)
    /\ LastOf(returned) <= Sent - Len(pages)
    /\ Listed(listing.pre, Len(pages), Sent, scanned)

RunInv ==
    /\ LastOf(returned) <= scanned
    /\ Active /\ state # "Canceled" => Uploading
    /\ pages # << >> => Run(pages, pages[Len(pages)]) /\ LastOf(returned) < pages[1]

\* The glass has one page, and the listing after its upload ends the call.
GlassInv ==
    Active /\ src = "flatbed" =>
        /\ Len(pages) + Len(ready) + sheets <= 1
        /\ pages # << >> =>
            uploaded /\ (idle = 0 \/ (idle = 1 /\ pc = "pages" /\ listing.uploaded))

\* Without a fault every page is on the printer, in the client or returned.
CountInv ==
    ~hurt =>
        /\ Len(returned) + Len(pages) + Len(ready) = scanned
        /\ ~Active => sheets = 0 /\ ready = << >>

JobInv == TypeOK /\ StateInv /\ BoundInv /\ RunInv /\ GlassInv /\ CountInv

LEMMA JobInit == Init => JobInv
<1>. SUFFICES ASSUME Init PROVE JobInv
  OBVIOUS
<1>1. << >> \in Seq(1 .. 0) /\ Len(<< >>) = 0
  BY EmptySeq
<1>2. 0 * MaxSheets = 0
  OBVIOUS
<1>3. TypeOK
  <2>1. uploaded \in BOOLEAN /\ hurt \in BOOLEAN /\ FALSE \in BOOLEAN
    BY Zenon DEF Init
  <2>2. listing \in [pre : Seq(1 .. scanned), uploaded : BOOLEAN, over : BOOLEAN]
    BY <1>1, <2>1 DEF Init, NoListing
  <2>3. /\ pc = "idle" /\ src \in Sources /\ idle = 0 /\ sheets = 0 /\ calls = 0 /\ scanned = 0
        /\ state = "Completed" /\ pages = << >> /\ ready = << >> /\ stale = << >> /\ returned = << >>
    BY DEF Init, Sources
  <2>. QED  BY <1>1, <2>1, <2>2, <2>3 DEF TypeOK
<1>4. StateInv /\ BoundInv
  BY <1>2 DEF Init, StateInv, BoundInv, Active, NoListing
<1>5. RunInv
  BY <1>1 DEF Init, RunInv, LastOf, Active
<1>6. CountInv /\ GlassInv
  BY <1>1 DEF Init, CountInv, GlassInv, Active
<1>. QED  BY <1>3, <1>4, <1>5, <1>6 DEF JobInv

-----------------------------------------------------------------------------
(* The types. *)

\* The types, the listing apart.
Listings == [pre : Seq(1 .. scanned), uploaded : BOOLEAN, over : BOOLEAN]

RestOK ==
    /\ pc \in {"idle", "post", "poll", "pages"} /\ src \in Sources
    /\ idle \in 0 .. IdlePolls /\ sheets \in 0 .. MaxSheets
    /\ state \in {"Processing", "Completed", "Canceled"}
    /\ scanned \in Nat /\ calls \in 0 .. MaxCalls
    /\ uploaded \in BOOLEAN /\ hurt \in BOOLEAN

PagesOK ==
    /\ pages \in Seq(1 .. scanned) /\ returned \in Seq(1 .. scanned)
    /\ ready \in Seq(1 .. scanned) /\ stale \in Seq(1 .. scanned)

LEMMA TypeParts == TypeOK <=> RestOK /\ PagesOK /\ listing \in Listings
BY DEF TypeOK, RestOK, PagesOK, Listings

LEMMA TypePartsNext == TypeOK' <=> RestOK' /\ PagesOK' /\ (listing \in Listings)'
BY DEF TypeOK, RestOK, PagesOK, Listings

LEMMA JobRest == RestOK /\ [Next]_vars => RestOK'
<1>. SUFFICES ASSUME RestOK, [Next]_vars PROVE RestOK'
  OBVIOUS
<1>. USE DEF RestOK, clientVars, printerVars
<1>1. hurt' \in BOOLEAN
  BY Zenon DEF Next, ClientStep, Call, CreateJob, GetJob, Download, EndOfListing, Deadline,
     TakeSheet, Settle, Complete, CancelJob, Finished, vars, Goes, Wrong
<1>2. uploaded' \in BOOLEAN
  <2>1. uploaded' \in {uploaded, TRUE, FALSE}
    BY Zenon DEF Next, ClientStep, Call, CreateJob, Accept, GetJob, Download, Upload,
       EndOfListing, Deadline, TakeSheet, Settle, Complete, CancelJob, Finished, vars
  <2>. QED  BY <2>1, Zenon
<1>3. ASSUME NEW s \in Sources, Call(s) PROVE RestOK'
  BY <1>1, <1>2, <1>3 DEF Call
<1>4. CASE CreateJob
  <2>1. /\ pc' \in {"idle", "poll"} /\ src' = src /\ idle' \in {idle, 0} /\ UNCHANGED <<scanned, calls>>
        /\ (sheets' \in 0 .. MaxSheets \/ sheets' = sheets)
        /\ (state' = "Processing" \/ state' = state)
    BY <1>4 DEF CreateJob, Accept, Return
  <2>. QED  BY <1>1, <1>2, <2>1
<1>5. CASE GetJob
  BY <1>1, <1>2, <1>5 DEF GetJob, Return
<1>6. CASE Download
  <2>1. /\ pc' \in {"idle", "pages"} /\ src' = src /\ idle' \in {idle, 0}
        /\ UNCHANGED <<sheets, state, scanned, calls>>
    BY <1>6 DEF Download, Return
  <2>. QED  BY <1>1, <1>2, <2>1
<1>7. CASE EndOfListing \/ Deadline
  BY <1>1, <1>2, <1>7 DEF EndOfListing, Deadline, Return
<1>8. CASE TakeSheet \/ Settle \/ Complete \/ CancelJob
  BY <1>1, <1>2, <1>8 DEF TakeSheet, Settle, Complete, CancelJob
<1>9. CASE Finished \/ UNCHANGED vars
  BY <1>9 DEF Finished, vars
<1>. QED  BY <1>3, <1>4, <1>5, <1>6, <1>7, <1>8, <1>9 DEF Next, ClientStep

LEMMA JobPages == TypeOK /\ [Next]_vars => PagesOK'
<1>. SUFFICES ASSUME TypeOK, [Next]_vars PROVE PagesOK'
  OBVIOUS
<1>. USE DEF PagesOK, clientVars, printerVars
<1>1. PagesOK /\ scanned \in Nat /\ listing.pre \in Seq(1 .. scanned)
  BY DEF TypeOK
<1>2. << >> \in Seq(1 .. scanned) /\ returned \o << >> = returned
      /\ returned \o pages \in Seq(1 .. scanned)
  BY <1>1, EmptySeq, ConcatEmptySeq, ConcatProperties
<1>3. ASSUME NEW s \in Sources, Call(s) PROVE PagesOK'
  BY <1>1, <1>3 DEF Call
<1>4. CASE CreateJob
  BY <1>1, <1>2, <1>4 DEF CreateJob, Accept, Return
<1>5. CASE GetJob
  BY <1>1, <1>2, <1>5 DEF GetJob, Return
<1>6. CASE Download
  <2>. DEFINE p == Head(listing.pre)
  <2>1. p \in 1 .. scanned
    BY <1>1, <1>6, HeadTailProperties DEF Download
  <2>2. Append(pages, p) \in Seq(1 .. scanned) /\ Append(stale, p) \in Seq(1 .. scanned)
    BY <1>1, <2>1, AppendProperties
  <2>3. ready # << >> => Tail(ready) \in Seq(1 .. scanned)
    BY <1>1, HeadTailProperties
  <2>4. /\ pages' \in {pages, Append(pages, p), << >>} /\ returned' = returned
        /\ ready' = ready \/ (ready # << >> /\ ready' = Tail(ready))
        /\ stale' \in {stale, Append(stale, p)} /\ scanned' = scanned
    BY <1>2, <1>6 DEF Download, Return, Upload
  <2>. HIDE DEF p
  <2>. QED  BY <1>1, <1>2, <2>2, <2>3, <2>4
<1>7. CASE EndOfListing \/ Deadline
  BY <1>1, <1>2, <1>7 DEF EndOfListing, Deadline, Return
<1>8. CASE TakeSheet
  <2>1. 1 .. scanned \subseteq 1 .. scanned + 1 /\ scanned + 1 \in 1 .. scanned + 1
    BY <1>1
  <2>2. /\ pages \in Seq(1 .. scanned + 1) /\ returned \in Seq(1 .. scanned + 1)
        /\ ready \in Seq(1 .. scanned + 1) /\ stale \in Seq(1 .. scanned + 1)
    BY <1>1, <2>1, SeqMonotonic
  <2>3. Append(ready, scanned + 1) \in Seq(1 .. scanned + 1)
    BY <2>1, <2>2, AppendProperties
  <2>. QED  BY <1>8, <2>2, <2>3 DEF TakeSheet
<1>9. CASE Settle
  BY <1>1, <1>9, HeadTailProperties DEF Settle
<1>10. CASE Complete \/ CancelJob
  BY <1>1, <1>2, <1>10 DEF Complete, CancelJob
<1>11. CASE Finished \/ UNCHANGED vars
  BY <1>1, <1>11 DEF Finished, vars
<1>. QED
  BY <1>3, <1>4, <1>5, <1>6, <1>7, <1>8, <1>9, <1>10, <1>11 DEF Next, ClientStep

LEMMA JobListing == TypeOK /\ [Next]_vars => (listing \in Listings)'
<1>. SUFFICES ASSUME TypeOK, [Next]_vars PROVE listing' \in Listings'
  OBVIOUS
<1>. USE DEF clientVars, printerVars
<1>1. listing \in Listings /\ scanned \in Nat
  BY TypeParts DEF RestOK
<1>2. NoListing \in Listings
  <2>1. FALSE \in BOOLEAN /\ << >> \in Seq(1 .. scanned)
    BY EmptySeq
  <2>. QED  BY <2>1 DEF NoListing, Listings
<1>3. scanned' = scanned => Listings' = Listings
  BY DEF Listings
<1>4. CASE GetJob
  <2>1. stale \o ready \in Seq(1 .. scanned)
    BY ConcatProperties DEF TypeOK
  <2>2. \A b \in BOOLEAN : [pre |-> stale \o ready, uploaded |-> uploaded, over |-> b] \in Listings
    BY <2>1 DEF Listings, TypeOK
  <2>3. (state \in {"Completed", "Canceled"}) \in BOOLEAN
    OBVIOUS
  <2>4. [pre |-> stale \o ready, uploaded |-> uploaded,
         over |-> state \in {"Completed", "Canceled"}] \in Listings
    BY <2>2, <2>3
  <2>5. listing' \in Listings
    BY <1>2, <1>4, <2>4, Zenon DEF GetJob, Return
  <2>6. scanned' = scanned
    BY <1>4 DEF GetJob
  <2>. QED  BY <1>3, <2>5, <2>6
<1>5. CASE Download
  <2>1. Tail(listing.pre) \in Seq(1 .. scanned)
    BY <1>1, <1>5, HeadTailProperties DEF Download, Listings
  <2>2. [listing EXCEPT !.pre = Tail(@)] \in Listings
    BY <1>1, <2>1 DEF Listings
  <2>. QED  BY <1>2, <1>3, <1>5, <2>2 DEF Download, Return
<1>6. CASE TakeSheet
  <2>1. 1 .. scanned \subseteq 1 .. scanned + 1 /\ listing.pre \in Seq(1 .. scanned)
    BY <1>1 DEF Listings
  <2>2. listing.pre \in Seq(1 .. scanned + 1)
    BY <2>1, SeqMonotonic
  <2>3. listing \in [pre : Seq(1 .. scanned + 1), uploaded : BOOLEAN, over : BOOLEAN]
    BY <1>1, <2>2 DEF Listings
  <2>. QED  BY <1>6, <2>3 DEF TakeSheet, Listings
<1>7. CASE ~TakeSheet /\ ~GetJob /\ ~Download
  <2>1. listing' \in {listing, NoListing} /\ scanned' = scanned
    BY <1>7 DEF Next, ClientStep, Call, CreateJob, Accept, EndOfListing, Deadline, Return,
       Settle, Complete, CancelJob, Finished, vars
  <2>. QED  BY <1>1, <1>2, <1>3, <2>1
<1>. QED  BY <1>4, <1>5, <1>6, <1>7

LEMMA JobType == TypeOK /\ [Next]_vars => TypeOK'
BY TypeParts, TypePartsNext, JobRest, JobPages, JobListing

-----------------------------------------------------------------------------
(* The state of the job. *)

LEMMA JobState == TypeOK /\ StateInv /\ [Next]_vars => StateInv'
<1>. SUFFICES ASSUME TypeOK, StateInv, [Next]_vars PROVE StateInv'
  OBVIOUS
<1>. USE DEF StateInv, Active, clientVars, printerVars
<1>1. NoListing.over = FALSE
  BY DEF NoListing
<1>2. ASSUME NEW s \in Sources, Call(s) PROVE StateInv'
  BY <1>2 DEF Call, Goes
<1>3. CASE CreateJob
  BY <1>1, <1>3 DEF CreateJob, Accept, Return, Goes, Wrong
<1>4. CASE GetJob
  <2>1. CASE Return(<< >>) /\ Wrong("net")
    BY <1>1, <1>4, <2>1 DEF GetJob, Return, Wrong
  <2>2. CASE /\ listing' = [pre |-> stale \o ready, uploaded |-> uploaded,
                            over |-> state \in {"Completed", "Canceled"}]
             /\ pc' = "pages" /\ Goes
    <3>1. listing'.over => state # "Processing"
      BY <2>2
    <3>2. /\ UNCHANGED <<sheets, ready, state>> /\ (hurt => hurt')
      BY <1>4, <2>2 DEF GetJob, Goes
    <3>. QED  BY <2>2, <3>1, <3>2
  <2>. QED  BY <1>4, <2>1, <2>2 DEF GetJob
<1>5. CASE Download
  <2>1. ready = << >> => ready' = << >>
    BY <1>5 DEF Download, Upload
  <2>2. /\ UNCHANGED <<sheets, state>> /\ (hurt => hurt') /\ pc' \in {"pages", "idle"}
        /\ (pc' = "idle" => pages' = << >> /\ listing' = NoListing)
    BY <1>5 DEF Download, Return, Goes, Wrong
  <2>3. listing'.over => listing.over
    <3>1. listing \in Listings
      BY TypeParts
    <3>2. [listing EXCEPT !.pre = Tail(@)].over = listing.over
      BY <3>1 DEF Listings
    <3>. QED  BY <1>1, <1>5, <3>2 DEF Download, Return
  <2>. QED  BY <2>1, <2>2, <2>3
<1>6. CASE EndOfListing \/ Deadline
  BY <1>1, <1>6 DEF EndOfListing, Deadline, Return, Goes
<1>7. CASE TakeSheet \/ Settle \/ Complete
  BY <1>7 DEF TakeSheet, Settle, Complete, Goes, TypeOK
<1>8. CASE CancelJob
  BY <1>8 DEF CancelJob, Wrong
<1>9. CASE Finished \/ UNCHANGED vars
  BY <1>9 DEF Finished, vars
<1>. QED
  BY <1>2, <1>3, <1>4, <1>5, <1>6, <1>7, <1>8, <1>9 DEF Next, ClientStep

LEMMA JobBound == TypeOK /\ BoundInv /\ [Next]_vars => BoundInv'
<1>. SUFFICES ASSUME TypeOK, BoundInv, [Next]_vars PROVE BoundInv'
  OBVIOUS
<1>. USE DEF BoundInv, clientVars, printerVars
<1>1. calls * MaxSheets \in Int /\ (calls - 1) * MaxSheets = calls * MaxSheets - MaxSheets
  BY DEF TypeOK
<1>2. ASSUME NEW s \in Sources, Call(s) PROVE BoundInv'
  <2>1. calls' - 1 = calls /\ pc = "idle" /\ pc' = "post" /\ UNCHANGED <<scanned, sheets>>
    BY <1>2 DEF Call, TypeOK
  <2>. QED  BY <2>1
<1>3. CASE CreateJob
  <2>1. scanned <= calls * MaxSheets - MaxSheets /\ scanned + sheets <= calls * MaxSheets - MaxSheets
    BY <1>1, <1>3 DEF CreateJob, TypeOK
  <2>2. sheets' \in 0 .. MaxSheets \/ sheets' = sheets
    BY <1>3 DEF CreateJob, Accept
  <2>3. scanned' = scanned /\ calls' = calls /\ pc' # "post"
    BY <1>3 DEF CreateJob, Accept, Return
  <2>4. scanned + sheets' <= calls * MaxSheets
    BY <1>1, <2>1, <2>2 DEF TypeOK
  <2>. QED  BY <2>3, <2>4
<1>4. CASE GetJob \/ Download \/ EndOfListing \/ Deadline
  <2>1. pc # "post" /\ pc' # "post" /\ UNCHANGED <<sheets, scanned, calls>>
    BY <1>4 DEF GetJob, Download, EndOfListing, Deadline, Return
  <2>. QED  BY <2>1
<1>5. CASE TakeSheet
  BY <1>5 DEF TakeSheet, TypeOK
<1>6. CASE Settle \/ Complete
  BY <1>6 DEF Settle, Complete
<1>7. CASE CancelJob
  <2>1. sheets' = 0 /\ UNCHANGED <<pc, scanned, calls>>
    BY <1>7 DEF CancelJob
  <2>2. scanned <= (IF pc = "post" THEN calls - 1 ELSE calls) * MaxSheets
    BY <1>1 DEF TypeOK
  <2>. QED  BY <2>1, <2>2 DEF TypeOK
<1>8. CASE Finished \/ UNCHANGED vars
  BY <1>8 DEF Finished, vars
<1>. QED  BY <1>2, <1>3, <1>4, <1>5, <1>6, <1>7, <1>8 DEF Next, ClientStep

-----------------------------------------------------------------------------
(* The pages. *)

LEMMA JobSeqs ==
    ASSUME TypeOK
    PROVE  /\ scanned \in Nat /\ sheets \in Nat /\ 1 .. scanned \subseteq Int
           /\ ready \in Seq(Int) /\ stale \in Seq(Int) /\ pages \in Seq(Int)
           /\ returned \in Seq(Int) /\ listing.pre \in Seq(Int)
           /\ Len(ready) \in Nat /\ Len(stale) \in Nat /\ Len(pages) \in Nat
           /\ Len(returned) \in Nat /\ Len(listing.pre) \in Nat
           /\ LastOf(returned) \in Nat
<1>1. scanned \in Nat /\ sheets \in Nat /\ 1 .. scanned \subseteq Int
  BY DEF TypeOK
<1>2. /\ ready \in Seq(Int) /\ stale \in Seq(Int) /\ pages \in Seq(Int)
      /\ returned \in Seq(Int)
  BY <1>1, SeqMonotonic DEF TypeOK
<1>3. listing.pre \in Seq(1 .. scanned)
  BY TypeParts DEF Listings
<1>4. returned # << >> => returned[Len(returned)] \in 1 .. scanned
  BY EmptySeq, ElementOfSeq DEF TypeOK
<1>. QED  BY <1>1, <1>2, <1>3, <1>4, SeqMonotonic, LenProperties DEF LastOf

\* A listed page that the client does not have is the next one to upload.
LEMMA NextListed ==
    ASSUME TypeOK, Uploading, NEW pre \in Seq(Int), pre # << >>,
           Listed(pre, Len(pages), Sent, scanned)
    PROVE  LET p == Head(pre)
           IN  /\ p \in Got => Listed(Tail(pre), Len(pages), Sent, scanned)
               /\ p \notin Got =>
                    /\ ready # << >> /\ p = Head(ready) /\ p = Sent + 1
                    /\ Listed(Tail(pre), Len(pages) + 1, Sent + 1, scanned)
<1>. DEFINE p == Head(pre)
            rest == Tail(pre)
<1>1. PICK last \in 0 .. scanned :
          Run(pre, last) /\ last - Len(pre) \in Sent - Len(pages) .. Sent
  BY DEF Listed
<1>2. ready \in Seq(Int) /\ pages \in Seq(Int)
  BY JobSeqs
<1>3. /\ scanned \in Int /\ Len(ready) \in Int /\ Len(pages) \in Int /\ Len(pre) \in Nat
      /\ Sent \in Int /\ last \in Int /\ last <= scanned
      /\ last - Len(pre) >= Sent - Len(pages) /\ last - Len(pre) <= Sent
  BY <1>1, JobSeqs, LenProperties DEF Sent
<1>4. Len(pre) \in Nat \ {0} /\ Len(rest) = Len(pre) - 1
  BY EmptySeq, HeadTailProperties
<1>5. Run(rest, last) /\ p = last - Len(pre) + 1
  BY <1>1, <1>3, RunTail
<1>. HIDE DEF p, rest
<1>6. /\ p \in Int /\ p >= Sent - Len(pages) + 1 /\ p <= Sent + 1
      /\ p = last - Len(rest) /\ p <= scanned
  BY <1>3, <1>4, <1>5
<1>7. Run(pages, Sent) /\ Run(ready, scanned) /\ DOMAIN pages = 1 .. Len(pages)
  BY <1>2, LenProperties DEF Uploading
<1>8. /\ p <= Sent => Listed(rest, Len(pages), Sent, scanned)
      /\ p = Sent + 1 => Listed(rest, Len(pages) + 1, Sent + 1, scanned)
  <2>1. p <= Sent => last - Len(rest) \in Sent - Len(pages) .. Sent
    BY <1>3, <1>6
  <2>2. p = Sent + 1 => last - Len(rest) \in (Sent + 1) - (Len(pages) + 1) .. Sent + 1
    BY <1>3, <1>6
  <2>. QED  BY <1>1, <1>5, <2>1, <2>2 DEF Listed
<1>9. CASE p <= Sent
  <2>. DEFINE i == p - (Sent - Len(pages))
  <2>1. i \in 1 .. Len(pages)
    BY <1>3, <1>6, <1>9
  <2>2. pages[i] = Sent - Len(pages) + i
    BY <1>7, <2>1 DEF Run
  <2>3. Sent - Len(pages) + i = p
    BY <1>3, <1>6
  <2>4. p \in Got
    BY <1>7, <2>1, <2>2, <2>3 DEF Got
  <2>. QED  BY <1>8, <1>9, <2>4 DEF p, rest
<1>10. CASE ~(p <= Sent)
  <2>1. p = Sent + 1 /\ Len(ready) # 0
    BY <1>3, <1>6, <1>10 DEF Sent
  <2>2. ready # << >>
    BY <2>1, EmptySeq
  <2>3. Head(ready) = Sent + 1
    BY <1>2, <1>3, <1>7, <2>2, RunTail DEF Sent
  <2>4. p \notin Got
    <3>. SUFFICES ASSUME NEW i \in DOMAIN pages PROVE pages[i] # p
      BY DEF Got
    <3>1. i \in 1 .. Len(pages)
      BY <1>7
    <3>2. pages[i] = Sent - Len(pages) + i
      BY <1>7, <3>1 DEF Run
    <3>. QED  BY <1>3, <2>1, <3>1, <3>2
  <2>. QED  BY <1>8, <2>1, <2>2, <2>3, <2>4 DEF p, rest
<1>. QED  BY <1>9, <1>10

\* What the client holds is after everything that was returned.
LEMMA RunEnds ==
    ASSUME NEW s \in Seq(Int), s # << >>, NEW last \in Int, Run(s, last)
    PROVE  s[Len(s)] = last /\ s[1] = last - Len(s) + 1 /\ Run(s, s[Len(s)])
<1>1. Len(s) \in Nat \ {0}
  BY EmptySeq
<1>2. 1 \in 1 .. Len(s) /\ Len(s) \in 1 .. Len(s)
  BY <1>1
<1>3. \A i \in 1 .. Len(s) : s[i] = last - Len(s) + i
  BY DEF Run
<1>4. s[1] = last - Len(s) + 1 /\ s[Len(s)] = last
  BY <1>1, <1>2, <1>3
<1>. QED  BY <1>4

LEMMA JobRun == TypeOK /\ StateInv /\ RunInv /\ [Next]_vars => RunInv'
<1>. SUFFICES ASSUME TypeOK, StateInv, RunInv, [Next]_vars PROVE RunInv'
  OBVIOUS
<1>. USE DEF clientVars, printerVars
<1>1. /\ scanned \in Nat /\ sheets \in Nat
      /\ ready \in Seq(Int) /\ stale \in Seq(Int) /\ pages \in Seq(Int) /\ returned \in Seq(Int)
      /\ listing.pre \in Seq(Int)
      /\ Len(ready) \in Nat /\ Len(stale) \in Nat /\ Len(pages) \in Nat /\ LastOf(returned) \in Nat
      /\ Sent \in Int
  BY JobSeqs DEF Sent
<1>2. ASSUME ~Active', pages' = << >>, LastOf(returned') <= scanned' PROVE RunInv'
  BY <1>2 DEF RunInv
<1>3. ASSUME Return(<< >>), UNCHANGED scanned PROVE RunInv'
  <2>1. returned' = returned
    BY <1>1, <1>3, ConcatEmptySeq DEF Return
  <2>. QED  BY <1>2, <1>3, <2>1 DEF Return, Active, RunInv
<1>4. ASSUME Return(pages), UNCHANGED scanned PROVE RunInv'
  <2>1. LastOf(returned') = IF pages = << >> THEN LastOf(returned) ELSE pages[Len(pages)]
    BY <1>1, <1>4, LastOfConcat DEF Return
  <2>2. pages # << >> => pages[Len(pages)] \in 1 .. scanned
    BY EmptySeq, ElementOfSeq DEF TypeOK
  <2>3. LastOf(returned') <= scanned
    BY <1>1, <2>1, <2>2 DEF RunInv
  <2>. QED  BY <1>2, <1>4, <2>3 DEF Return, Active
<1>5. ASSUME NEW s \in Sources, Call(s) PROVE RunInv'
  BY <1>2, <1>5 DEF Call, Active, StateInv, RunInv
<1>6. CASE CreateJob
  <2>1. CASE Return(<< >>) /\ UNCHANGED scanned
    BY <1>3, <2>1
  <2>2. CASE Accept /\ pc' = "poll" /\ UNCHANGED <<pages, listing, returned>>
    <3>1. pages = << >> /\ listing = NoListing
      BY <1>6 DEF CreateJob, StateInv, Active
    <3>2. pages' = << >> /\ ready' = << >> /\ stale' = << >> /\ listing' = NoListing
          /\ scanned' = scanned /\ returned' = returned
      BY <2>2, <3>1 DEF Accept
    <3>3. Listed(NoListing.pre, 0, scanned, scanned) /\ Len(<< >>) = 0
      BY EmptySeq DEF Listed, NoListing
    <3>4. Run(<< >>, scanned)
      BY <3>3 DEF Run
    <3>5. Sent' = scanned
      BY <1>1, <3>2, <3>3 DEF Sent
    <3>6. LastOf(returned) <= scanned
      BY DEF RunInv
    <3>7. Uploading'
      BY <1>1, <3>2, <3>3, <3>4, <3>5, <3>6 DEF Uploading
    <3>. QED  BY <3>2, <3>6, <3>7 DEF RunInv
  <2>. QED  BY <1>6, <2>1, <2>2 DEF CreateJob, Accept
<1>7. CASE GetJob
  <2>1. CASE Return(<< >>)
    BY <1>3, <1>7, <2>1 DEF GetJob
  <2>2. CASE ~Return(<< >>)
    <3>1. listing'.pre = stale \o ready /\ pc' = "pages" /\ pc = "poll"
      BY <1>7, <2>2 DEF GetJob
    <3>2. UNCHANGED <<pages, returned, ready, stale, scanned, state>>
      BY <1>7, <2>2 DEF GetJob
    <3>3. ASSUME Uploading PROVE Uploading'
      <4>1. Run(stale, scanned - Len(ready)) /\ Run(ready, scanned) /\ Len(stale) <= Len(pages)
        BY <3>3 DEF Uploading, Sent
      <4>2. Run(stale \o ready, scanned) /\ Len(stale \o ready) = Len(stale) + Len(ready)
        BY <1>1, <4>1, RunConcat, ConcatProperties
      <4>3. scanned - (Len(stale) + Len(ready)) \in Sent - Len(pages) .. Sent /\ scanned \in 0 .. scanned
        BY <1>1, <4>1 DEF Sent
      <4>4. Listed(stale \o ready, Len(pages), Sent, scanned)
        BY <4>2, <4>3 DEF Listed
      <4>. QED  BY <3>1, <3>2, <3>3, <4>4 DEF Uploading, Sent
    <3>. QED  BY <3>1, <3>2, <3>3 DEF RunInv, Active
  <2>. QED  BY <2>1, <2>2
<1>8. CASE Download
  <2>. DEFINE p == Head(listing.pre)
              rest == Tail(listing.pre)
  <2>1. pc = "pages" /\ listing.pre # << >> /\ UNCHANGED <<sheets, state, scanned, calls>>
    BY <1>8 DEF Download
  <2>2. Uploading =>
          /\ p \in Got => Listed(rest, Len(pages), Sent, scanned)
          /\ p \notin Got => /\ ready # << >> /\ p = Head(ready) /\ p = Sent + 1
                             /\ Listed(rest, Len(pages) + 1, Sent + 1, scanned)
    <3>1. Uploading => Listed(listing.pre, Len(pages), Sent, scanned)
      BY DEF Uploading
    <3>. QED  BY <1>1, <2>1, <3>1, NextListed
  <2>3. listing' = [listing EXCEPT !.pre = Tail(@)] => listing'.pre = rest
    BY TypeParts DEF Listings
  <2>4. CASE Return(<< >>)
    BY <1>3, <2>1, <2>4
  <2>5. CASE p \in Got /\ ~Return(<< >>)
    <3>1. listing'.pre = rest /\ UNCHANGED <<pc, pages, returned, ready, stale>>
      BY <1>8, <2>3, <2>5 DEF Download
    <3>. HIDE DEF p, rest
    <3>2. Uploading => Uploading'
      BY <2>1, <2>2, <2>5, <3>1 DEF Uploading, Sent
    <3>. QED  BY <2>1, <3>1, <3>2 DEF RunInv, Active
  <2>6. CASE p \notin Got /\ ~Return(<< >>)
    <3>1. Upload(p) /\ pages' = Append(pages, p) /\ listing'.pre = rest
          /\ UNCHANGED <<pc, returned>>
      BY <1>8, <2>3, <2>6 DEF Download
    <3>. HIDE DEF p, rest
    <3>2. Uploading
      BY <2>1, <3>1 DEF Upload, RunInv, Active
    <3>3. ready # << >> /\ p = Head(ready) /\ p = Sent + 1
          /\ Listed(rest, Len(pages) + 1, Sent + 1, scanned)
      BY <2>2, <2>6, <3>2
    <3>4. ready' = Tail(ready) /\ stale' = Append(stale, p)
      BY <3>1, <3>3 DEF Upload
    <3>5. Run(ready', scanned) /\ Len(ready') = Len(ready) - 1
      BY <1>1, <3>2, <3>3, <3>4, RunTail, HeadTailProperties DEF Uploading
    <3>6. Run(stale', Sent + 1) /\ Len(stale') = Len(stale) + 1
      BY <1>1, <3>2, <3>3, <3>4, RunAppend, AppendProperties DEF Uploading
    <3>7. /\ Run(pages', Sent + 1) /\ Len(pages') = Len(pages) + 1
          /\ pages' \in Seq(Int) /\ pages' # << >>
      <4>1. pages' = Append(pages, Sent + 1) /\ Run(pages, Sent) /\ Sent + 1 \in Int
        BY <1>1, <3>1, <3>2, <3>3 DEF Uploading
      <4>2. Run(Append(pages, Sent + 1), Sent + 1)
        BY <1>1, <4>1, RunAppend
      <4>3. /\ Append(pages, Sent + 1) \in Seq(Int) /\ Append(pages, Sent + 1) # << >>
            /\ Len(Append(pages, Sent + 1)) = Len(pages) + 1
        BY <1>1, <4>1, AppendProperties
      <4>. QED  BY <4>1, <4>2, <4>3
    <3>8. Sent' = Sent + 1
      BY <1>1, <2>1, <3>5 DEF Sent
    <3>9. Len(stale) <= Len(pages) /\ LastOf(returned) <= Sent - Len(pages)
      BY <3>2 DEF Uploading
    <3>10. /\ Len(stale') <= Len(pages') /\ LastOf(returned') <= Sent' - Len(pages')
           /\ Listed(listing'.pre, Len(pages'), Sent', scanned')
      <4>1. Len(stale') <= Len(pages')
        BY <1>1, <3>6, <3>7, <3>9
      <4>2. returned' = returned
        BY <3>1
      <4>3. LastOf(returned) <= (Sent + 1) - (Len(pages) + 1)
        BY <1>1, <3>9
      <4>4. Listed(listing'.pre, Len(pages) + 1, Sent + 1, scanned)
        BY <3>1, <3>3
      <4>. QED  BY <2>1, <3>7, <3>8, <4>1, <4>2, <4>3, <4>4
    <3>11. Uploading'
      BY <2>1, <3>5, <3>6, <3>7, <3>8, <3>10 DEF Uploading
    <3>12. /\ pages'[1] = (Sent + 1) - Len(pages') + 1 /\ Run(pages', pages'[Len(pages')])
      <4>1. Sent + 1 \in Int
        BY <1>1
      <4>. QED  BY <3>7, <4>1, RunEnds
    <3>13. LastOf(returned') < pages'[1]
      <4>1. returned' = returned
        BY <3>1
      <4>2. LastOf(returned) < (Sent + 1) - (Len(pages) + 1) + 1
        BY <1>1, <3>9
      <4>3. pages'[1] = (Sent + 1) - (Len(pages) + 1) + 1
        BY <3>7, <3>12
      <4>. QED  BY <4>1, <4>2, <4>3
    <3>14. LastOf(returned') <= scanned'
      BY <2>1, <3>1 DEF RunInv
    <3>. QED  BY <3>11, <3>12, <3>13, <3>14 DEF RunInv
  <2>. QED  BY <2>4, <2>5, <2>6
<1>9. CASE EndOfListing
  <2>1. CASE JobFinished
    BY <1>4, <1>9, <2>1 DEF EndOfListing
  <2>2. CASE ~JobFinished
    <3>1. /\ pc = "pages" /\ pc' = "poll" /\ listing' = NoListing
          /\ UNCHANGED <<pages, returned, ready, stale, scanned, state>>
      BY <1>9, <2>2 DEF EndOfListing
    <3>2. Listed(NoListing.pre, Len(pages), Sent, scanned)
      BY DEF Listed, NoListing
    <3>3. Uploading => Uploading'
      BY <3>1, <3>2 DEF Uploading, Sent
    <3>. QED  BY <3>1, <3>3 DEF RunInv, Active
  <2>. QED  BY <2>1, <2>2
<1>10. CASE Deadline
  BY <1>4, <1>10 DEF Deadline
<1>11. CASE TakeSheet
  <2>1. /\ scanned' = scanned + 1 /\ ready' = Append(ready, scanned + 1)
        /\ UNCHANGED <<pc, pages, listing, stale, state, returned>>
    BY <1>11 DEF TakeSheet
  <2>2. Len(ready') = Len(ready) + 1
    BY <1>1, <2>1, AppendProperties
  <2>3. Sent' = Sent
    BY <1>1, <2>1, <2>2 DEF Sent
  <2>4. LastOf(returned) <= scanned'
    BY <1>1, <2>1 DEF RunInv
  <2>5. ASSUME Uploading PROVE Uploading'
    <3>1. Run(ready', scanned')
      BY <1>1, <2>1, <2>5, RunAppend DEF Uploading
    <3>2. 0 .. scanned \subseteq 0 .. scanned'
      BY <1>1, <2>1
    <3>3. Listed(listing'.pre, Len(pages'), Sent', scanned')
      BY <2>1, <2>3, <2>5, <3>2 DEF Uploading, Listed
    <3>. QED  BY <2>1, <2>3, <2>5, <3>1, <3>3 DEF Uploading
  <2>. QED  BY <2>1, <2>4, <2>5 DEF RunInv, Active
<1>12. CASE Settle
  <2>1. stale # << >> /\ stale' = Tail(stale) /\ UNCHANGED <<clientVars, ready, state, scanned, returned>>
    BY <1>12 DEF Settle
  <2>2. Len(stale') <= Len(stale) /\ Len(stale') \in Nat
    BY <1>1, <2>1, HeadTailProperties, LenProperties
  <2>3. ASSUME Uploading PROVE Uploading'
    <3>1. Run(stale', Sent)
      BY <1>1, <2>1, <2>3, RunTail DEF Uploading
    <3>2. Len(stale') <= Len(pages)
      BY <1>1, <2>2, <2>3 DEF Uploading
    <3>. QED  BY <2>1, <2>3, <3>1, <3>2 DEF Uploading, Sent
  <2>. QED  BY <2>1, <2>3 DEF RunInv, Active
<1>13. CASE Complete
  BY <1>13 DEF Complete, RunInv, Active, Uploading, Sent
<1>14. CASE CancelJob
  BY <1>14 DEF CancelJob, RunInv
<1>15. CASE Finished \/ UNCHANGED vars
  BY <1>15 DEF Finished, vars, RunInv, Active, Uploading, Sent
<1>. QED
  BY <1>5, <1>6, <1>7, <1>8, <1>9, <1>10, <1>11, <1>12, <1>13, <1>14, <1>15
  DEF Next, ClientStep

-----------------------------------------------------------------------------
(* The page of the glass, and the number of pages. *)

\* A page downloaded while the job goes on is the next one to upload.
LEMMA DownloadsNext ==
    ASSUME TypeOK, RunInv, Download, pages' # pages, ~Return(<< >>)
    PROVE  /\ state # "Canceled" /\ Uploading
           /\ ready # << >> /\ ready' = Tail(ready) /\ uploaded' = TRUE
           /\ pages' = Append(pages, Head(ready)) /\ idle' = 0
           /\ Len(ready') = Len(ready) - 1 /\ Len(pages') = Len(pages) + 1
<1>. DEFINE p == Head(listing.pre)
<1>1. /\ p \notin Got /\ Upload(p) /\ pages' = Append(pages, p) /\ idle' = 0
      /\ pc = "pages" /\ listing.pre # << >>
  BY DEF Download
<1>2. state # "Canceled" /\ Uploading
  BY <1>1 DEF Upload, RunInv, Active
<1>3. ready \in Seq(Int) /\ pages \in Seq(Int) /\ listing.pre \in Seq(Int)
  BY JobSeqs
<1>4. ready # << >> /\ p = Head(ready)
  <2>1. Listed(listing.pre, Len(pages), Sent, scanned)
    BY <1>2 DEF Uploading
  <2>. QED  BY <1>1, <1>2, <1>3, <2>1, NextListed
<1>. HIDE DEF p
<1>5. ready' = Tail(ready) /\ uploaded' = TRUE
  BY <1>1, <1>4 DEF Upload
<1>6. Len(ready') = Len(ready) - 1
  BY <1>3, <1>4, <1>5, HeadTailProperties
<1>7. Len(pages') = Len(pages) + 1
  <2>1. Head(ready) \in Int
    BY <1>3, <1>4, HeadTailProperties
  <2>. QED  BY <1>1, <1>3, <1>4, <2>1, AppendProperties
<1>. QED  BY <1>1, <1>2, <1>4, <1>5, <1>6, <1>7

LEMMA JobGlass == TypeOK /\ StateInv /\ RunInv /\ GlassInv /\ [Next]_vars => GlassInv'
<1>. SUFFICES ASSUME TypeOK, StateInv, RunInv, GlassInv, [Next]_vars PROVE GlassInv'
  OBVIOUS
<1>. USE DEF GlassInv, Active, clientVars, printerVars
<1>1. /\ sheets \in Nat /\ Len(ready) \in Nat /\ Len(pages) \in Nat /\ Len(<< >>) = 0
      /\ ready \in Seq(Int)
  BY JobSeqs, EmptySeq
<1>2. ASSUME pc' \in {"idle", "post"} PROVE GlassInv'
  BY <1>2
<1>3. ASSUME NEW s \in Sources, Call(s) PROVE GlassInv'
  BY <1>2, <1>3 DEF Call
<1>4. CASE CreateJob
  <2>1. CASE Accept /\ pc' = "poll" /\ UNCHANGED <<src, pages>>
    <3>1. pages' = << >> /\ ready' = << >> /\ (src = "flatbed" => sheets' = 1) /\ src' = src
      BY <1>4, <2>1 DEF CreateJob, Accept, StateInv
    <3>. QED  BY <1>1, <3>1
  <2>2. CASE pc' = "idle"
    BY <1>2, <2>2
  <2>. QED  BY <1>4, <2>1, <2>2 DEF CreateJob, Return
<1>5. CASE GetJob
  <2>1. CASE Return(<< >>)
    BY <1>2, <2>1 DEF Return
  <2>2. CASE ~Return(<< >>)
    <3>1. /\ listing'.uploaded = uploaded /\ pc' = "pages" /\ pc = "poll" /\ idle' = idle + 1
          /\ UNCHANGED <<src, pages, ready, sheets, uploaded>>
      BY <1>5, <2>2 DEF GetJob
    <3>. QED  BY <3>1
  <2>. QED  BY <2>1, <2>2
<1>6. CASE Download
  <2>1. CASE Return(<< >>)
    BY <1>2, <2>1 DEF Return
  <2>2. CASE ~Return(<< >>) /\ pages' = pages
    <3>1. Head(listing.pre) \in Got
      <4>1. Len(Append(pages, Head(listing.pre))) # Len(pages) \/ Head(listing.pre) \in Got
        <5>1. pages \in Seq(1 .. scanned) /\ Head(listing.pre) \in 1 .. scanned
          BY <1>6, TypeParts, HeadTailProperties DEF Download, PagesOK, Listings
        <5>2. Len(Append(pages, Head(listing.pre))) = Len(pages) + 1
          BY <5>1, AppendProperties
        <5>. QED  BY <1>1, <5>2
      <4>. QED  BY <1>6, <2>2, <4>1 DEF Download
    <3>2. /\ UNCHANGED <<pc, src, pages, idle, ready, uploaded, sheets>>
          /\ listing' = [listing EXCEPT !.pre = Tail(@)]
      BY <1>6, <2>2, <3>1 DEF Download
    <3>3. listing'.uploaded = listing.uploaded
      BY <3>2, TypeParts DEF Listings
    <3>. QED  BY <3>2, <3>3
  <2>3. CASE ~Return(<< >>) /\ pages' # pages
    <3>1. /\ uploaded' = TRUE /\ idle' = 0
          /\ Len(ready') = Len(ready) - 1 /\ Len(pages') = Len(pages) + 1
      BY <1>6, <2>3, DownloadsNext
    <3>2. UNCHANGED <<pc, src, sheets>>
      BY <1>6, <2>3 DEF Download
    <3>. QED  BY <1>1, <3>1, <3>2
  <2>. QED  BY <2>1, <2>2, <2>3
<1>7. CASE EndOfListing
  <2>1. CASE JobFinished
    BY <1>2, <1>7, <2>1 DEF EndOfListing, Return
  <2>2. CASE ~JobFinished
    BY <1>7, <2>2 DEF EndOfListing, JobFinished
  <2>. QED  BY <2>1, <2>2
<1>8. CASE Deadline
  BY <1>2, <1>8 DEF Deadline, Return
<1>9. CASE TakeSheet
  <2>1. Len(ready') = Len(ready) + 1
    BY <1>1, <1>9, AppendProperties, JobSeqs DEF TakeSheet
  <2>. QED  BY <1>1, <1>9, <2>1 DEF TakeSheet
<1>10. CASE Settle \/ Complete
  BY <1>10 DEF Settle, Complete
<1>11. CASE CancelJob
  <2>1. Len(ready') \in Nat /\ Len(ready') <= Len(ready)
    BY <1>1, <1>11 DEF CancelJob
  <2>2. sheets' = 0 /\ UNCHANGED <<clientVars, uploaded>>
    BY <1>11 DEF CancelJob
  <2>. QED  BY <1>1, <2>1, <2>2
<1>12. CASE Finished \/ UNCHANGED vars
  BY <1>12 DEF Finished, vars
<1>. QED
  BY <1>3, <1>4, <1>5, <1>6, <1>7, <1>8, <1>9, <1>10, <1>11, <1>12 DEF Next, ClientStep

LEMMA JobCount ==
    TypeOK /\ StateInv /\ RunInv /\ GlassInv /\ CountInv /\ [Next]_vars => CountInv'
<1>. SUFFICES ASSUME TypeOK, StateInv, RunInv, GlassInv, CountInv, [Next]_vars PROVE CountInv'
  OBVIOUS
<1>. USE DEF CountInv, Active, clientVars, printerVars
<1>1. /\ sheets \in Nat /\ scanned \in Nat /\ Len(ready) \in Nat /\ Len(pages) \in Nat
      /\ Len(returned) \in Nat /\ Len(<< >>) = 0
      /\ ready \in Seq(Int) /\ pages \in Seq(Int) /\ returned \in Seq(Int)
  BY JobSeqs, EmptySeq
<1>2. Len(returned \o pages) = Len(returned) + Len(pages) /\ returned \o << >> = returned
  BY <1>1, ConcatProperties, ConcatEmptySeq
<1>3. ASSUME hurt' PROVE CountInv'
  BY <1>3
<1>4. ASSUME NEW s \in Sources, Call(s) PROVE CountInv'
  BY <1>4 DEF Call, Goes
<1>5. CASE CreateJob
  <2>1. CASE Accept /\ pc' = "poll" /\ Goes /\ UNCHANGED <<pages, returned>>
    <3>1. ready' = << >> /\ scanned' = scanned /\ pages = << >> /\ pc = "post" /\ pc' = "poll"
          /\ pages' = pages /\ returned' = returned /\ hurt' = hurt
      BY <1>5, <2>1 DEF CreateJob, Accept, StateInv, Goes
    <3>. QED  BY <1>1, <3>1
  <2>2. CASE Wrong("net")
    BY <1>3, <2>2 DEF Wrong
  <2>. QED  BY <1>5, <2>1, <2>2 DEF CreateJob
<1>6. CASE GetJob
  <2>1. CASE Wrong("net")
    BY <1>3, <2>1 DEF Wrong
  <2>2. CASE ~Wrong("net")
    BY <1>6, <2>2 DEF GetJob, Goes
  <2>. QED  BY <2>1, <2>2
<1>7. CASE Download
  <2>1. CASE Return(<< >>)
    <3>1. state = "Canceled" \/ hurt'
      BY <1>7, <2>1 DEF Download, Wrong, Return
    <3>2. hurt => hurt'
      BY <1>7 DEF Download, Wrong, Goes
    <3>. QED  BY <1>3, <3>1, <3>2 DEF StateInv
  <2>2. CASE ~Return(<< >>) /\ pages' = pages
    <3>1. UNCHANGED <<pc, pages, returned, ready, sheets, scanned, hurt>>
      <4>1. pages \in Seq(1 .. scanned) /\ Head(listing.pre) \in 1 .. scanned
        BY <1>7, TypeParts, HeadTailProperties DEF Download, PagesOK, Listings
      <4>2. Len(Append(pages, Head(listing.pre))) = Len(pages) + 1
        BY <4>1, AppendProperties
      <4>3. Append(pages, Head(listing.pre)) # pages
        BY <1>1, <4>2
      <4>. QED  BY <1>7, <2>2, <4>3 DEF Download, Goes
    <3>. QED  BY <3>1
  <2>3. CASE ~Return(<< >>) /\ pages' # pages
    <3>1. Len(ready') = Len(ready) - 1 /\ Len(pages') = Len(pages) + 1
      BY <1>7, <2>3, DownloadsNext
    <3>2. /\ pc = "pages" /\ UNCHANGED <<pc, returned, sheets, scanned, hurt>>
      BY <1>7, <2>3 DEF Download, Goes
    <3>3. Len(returned') = Len(returned)
      BY <3>2
    <3>. QED  BY <1>1, <3>1, <3>2, <3>3
  <2>. QED  BY <2>1, <2>2, <2>3
<1>8. CASE EndOfListing
  <2>1. CASE JobFinished
    <3>1. /\ Return(pages) /\ pc = "pages" /\ UNCHANGED <<printerVars, hurt>>
      BY <1>8, <2>1 DEF EndOfListing, Goes
    <3>2. ASSUME ~hurt PROVE sheets = 0 /\ ready = << >>
      <4>1. CASE listing.over
        <5>1. state = "Completed"
          BY <3>2, <4>1 DEF StateInv, TypeOK
        <5>. QED  BY <5>1 DEF StateInv
      <4>2. CASE src = "flatbed" /\ pages # << >>
        <5>1. Len(pages) \in Nat \ {0} /\ Len(pages) + Len(ready) + sheets <= 1
          BY <1>1, <3>1, <4>2, EmptySeq DEF GlassInv
        <5>2. Len(ready) = 0 /\ sheets = 0
          BY <1>1, <5>1
        <5>. QED  BY <1>1, <5>2, EmptySeq
      <4>. QED  BY <2>1, <4>1, <4>2 DEF JobFinished
    <3>3. Len(returned') = Len(returned) + Len(pages) /\ Len(pages') = 0
      BY <1>1, <1>2, <3>1 DEF Return
    <3>4. ready' = ready /\ sheets' = sheets /\ scanned' = scanned /\ (hurt => hurt')
      BY <3>1
    <3>. QED  BY <1>1, <3>2, <3>3, <3>4
  <2>2. CASE ~JobFinished
    BY <1>8, <2>2 DEF EndOfListing, Goes
  <2>. QED  BY <2>1, <2>2
<1>9. CASE Deadline
  BY <1>3, <1>9 DEF Deadline
<1>10. CASE TakeSheet
  <2>1. Len(ready') = Len(ready) + 1
    BY <1>1, <1>10, AppendProperties DEF TakeSheet
  <2>2. /\ sheets > 0 /\ scanned' = scanned + 1
        /\ pc' = pc /\ pages' = pages /\ returned' = returned /\ hurt' = hurt
    BY <1>10 DEF TakeSheet, Goes
  <2>3. ~hurt => Active
    BY <1>1, <2>2
  <2>4. Len(returned') + Len(pages') + Len(ready') = Len(returned) + Len(pages) + Len(ready) + 1
    <3>1. Len(returned') = Len(returned) /\ Len(pages') = Len(pages)
      BY <2>2
    <3>. QED  BY <1>1, <2>1, <3>1
  <2>5. Active' <=> Active
    BY <2>2
  <2>. QED  BY <1>1, <2>2, <2>3, <2>4, <2>5
<1>11. CASE Settle \/ Complete
  BY <1>11 DEF Settle, Complete, Goes
<1>12. CASE CancelJob
  BY <1>3, <1>12 DEF CancelJob, Wrong
<1>13. CASE Finished \/ UNCHANGED vars
  BY <1>13 DEF Finished, vars
<1>. QED
  BY <1>4, <1>5, <1>6, <1>7, <1>8, <1>9, <1>10, <1>11, <1>12, <1>13 DEF Next, ClientStep

LEMMA JobInvAlways == Spec => []JobInv
<1>1. Init => JobInv
  BY JobInit
<1>2. JobInv /\ [Next]_vars => JobInv'
  BY JobType, JobState, JobBound, JobRun, JobGlass, JobCount DEF JobInv
<1>. QED  BY <1>1, <1>2, PTL DEF Spec

(* Type correctness of one client's calls of ScanPages and of the printer's  *)
(* jobs (ledm/scan.go), with failures.                                       *)
THEOREM LedmJobTypes == Spec => []TypeOK
BY JobInvAlways, PTL DEF JobInv

(* ScanPages does not stop at a listing that is ahead of the last page or    *)
(* behind it: when nothing fails a call returns every page of its job.       *)
THEOREM LedmAllPagesReturned == Spec => []AllPagesReturned
<1>1. JobInv => AllPagesReturned
  <2>. SUFFICES ASSUME JobInv, pc = "idle", ~hurt PROVE Len(returned) = scanned
    BY DEF AllPagesReturned
  <2>1. ready = << >> /\ pages = << >> /\ Len(returned) + Len(pages) + Len(ready) = scanned
    BY DEF JobInv, CountInv, StateInv, Active
  <2>2. Len(returned) \in Nat /\ Len(<< >>) = 0
    BY JobSeqs, EmptySeq DEF JobInv
  <2>. QED  BY <2>1, <2>2
<1>. QED  BY <1>1, JobInvAlways, PTL

(* jobFinished takes the listing after the page of a flatbed scan for the    *)
(* end of the job: the five minutes of the deadline never pass with the page *)
(* at hand, also when the firmware stays in Processing.                      *)
THEOREM LedmFlatbedNeedsNoDeadline == Spec => FlatbedNeedsNoDeadline
<1>1. JobInv => (Deadline => src = "feeder" \/ pages = << >>)
  <2>. SUFFICES ASSUME JobInv, Deadline, src # "feeder", pages # << >> PROVE FALSE
    OBVIOUS
  <2>1. src = "flatbed" /\ pc = "poll" /\ idle = IdlePolls
    BY DEF JobInv, TypeOK, Sources, Deadline
  <2>2. idle = 0
    BY <2>1 DEF JobInv, GlassInv, Active
  <2>. QED  BY <2>1, <2>2
<1>. QED  BY <1>1, JobInvAlways, PTL DEF Spec, FlatbedNeedsNoDeadline

-----------------------------------------------------------------------------
(* The refinement. *)

LEMMA ScannedBound ==
    ASSUME TypeOK, BoundInv
    PROVE  scanned <= MaxCalls * MaxSheets /\ MaxCalls * MaxSheets \in Nat
<1>1. \A a, b, c \in Int : a <= b /\ c >= 0 => a * c <= b * c
  OBVIOUS
<1>. DEFINE n == IF pc = "post" THEN calls - 1 ELSE calls
<1>2. n \in Int /\ n <= MaxCalls /\ scanned \in Nat /\ sheets \in Nat
  BY DEF TypeOK
<1>3. scanned + sheets <= n * MaxSheets
  BY DEF BoundInv
<1>. HIDE DEF n
<1>4. n * MaxSheets <= MaxCalls * MaxSheets
  BY <1>1, <1>2
<1>5. n * MaxSheets \in Int /\ MaxCalls * MaxSheets \in Nat
  BY <1>2
<1>. QED  BY <1>2, <1>3, <1>4, <1>5

\* What the client holds is what ScanCall allows a call to return.
LEMMA ReturnRun ==
    ASSUME TypeOK, BoundInv,
           NEW p \in Seq(1 .. scanned), p # << >>, Run(p, p[Len(p)]), LastOf(returned) < p[1],
           src = "flatbed" => Len(p) = 1,
           pc # "idle", pc' = "idle", src' = src, returned' = returned \o p
    PROVE  ScanPages!Next
<1>1. p \in Seq(Int) /\ Len(p) \in Nat \ {0} /\ p[1] \in 1 .. scanned /\ p[Len(p)] \in 1 .. scanned
  <2>1. 1 .. scanned \subseteq Int /\ scanned \in Nat
    BY DEF TypeOK
  <2>2. Len(p) \in Nat \ {0}
    BY EmptySeq
  <2>. QED  BY <2>1, <2>2, SeqMonotonic, ElementOfSeq
<1>2. p = [i \in 1 .. Len(p) |-> p[1] + i - 1] /\ p[1] = p[Len(p)] - Len(p) + 1
  BY <1>1, RunIsSegment
<1>3. Len(p) \in 1 .. MaxCalls * MaxSheets /\ p[1] \in 1 .. MaxCalls * MaxSheets
  <2>1. scanned \in Nat
    BY DEF TypeOK
  <2>. QED  BY <1>1, <1>2, <2>1, ScannedBound
<1>4. ScanPages!Return(p[1], Len(p))
  <2>1. returned' = returned \o [i \in 1 .. Len(p) |-> p[1] + i - 1]
    BY <1>2
  <2>2. p[1] > ScanPages!Last /\ Len(p) >= 1
    BY <1>1 DEF ScanPages!Last, LastOf
  <2>. QED  BY <2>1, <2>2 DEF ScanPages!Return
<1>. QED  BY <1>3, <1>4 DEF ScanPages!Next

LEMMA JobSteps ==
    ASSUME JobInv, [Next]_vars
    PROVE  [ScanPages!Next]_<<pc # "idle", src, returned>>
<1>. USE DEF clientVars, printerVars
<1>1. /\ TypeOK /\ StateInv /\ RunInv /\ BoundInv /\ GlassInv
      /\ returned \in Seq(Int) /\ returned \o << >> = returned
  BY JobSeqs, ConcatEmptySeq DEF JobInv
<1>2. ASSUME pc # "idle", pc' = "idle", UNCHANGED <<src, returned>> PROVE ScanPages!Next
  BY <1>2 DEF ScanPages!Next, ScanPages!Fail
<1>3. ASSUME pc # "idle", Return(<< >>) PROVE ScanPages!Next
  BY <1>1, <1>2, <1>3 DEF Return
<1>4. ASSUME Active, Return(pages) PROVE ScanPages!Next
  <2>1. CASE pages = << >>
    BY <1>3, <1>4, <2>1 DEF Active
  <2>2. CASE pages # << >>
    <3>1. Run(pages, pages[Len(pages)]) /\ LastOf(returned) < pages[1]
      BY <1>1, <2>2 DEF RunInv
    <3>2. pages \in Seq(1 .. scanned)
      BY <1>1 DEF TypeOK
    <3>3. src = "flatbed" => Len(pages) = 1
      <4>. SUFFICES ASSUME src = "flatbed" PROVE Len(pages) = 1
        OBVIOUS
      <4>1. Len(pages) \in Nat \ {0}
        BY <2>2, <3>2, EmptySeq
      <4>2. Len(ready) \in Nat /\ sheets \in Nat
        BY <1>1, JobSeqs
      <4>3. Len(pages) + Len(ready) + sheets <= 1
        BY <1>1, <1>4 DEF GlassInv
      <4>4. \A k, m, n \in Nat : k + m + n <= 1 /\ k # 0 => k = 1
        OBVIOUS
      <4>. QED  BY <4>1, <4>2, <4>3, <4>4
    <3>4. src' = src /\ pc' = "idle" /\ returned' = returned \o pages /\ pc # "idle"
      BY <1>4 DEF Return, Active
    <3>. QED  BY <1>1, <2>2, <3>1, <3>2, <3>3, <3>4, ReturnRun
  <2>. QED  BY <2>1, <2>2
<1>5. ASSUME NEW s \in Sources, Call(s) PROVE ScanPages!Next
  BY <1>5 DEF Call, Sources, ScanPages!Next, ScanPages!Call
<1>6. CASE CreateJob
  BY <1>3, <1>6 DEF CreateJob
<1>7. CASE GetJob
  BY <1>3, <1>7 DEF GetJob
<1>8. CASE Download
  <2>1. CASE Return(<< >>)
    BY <1>3, <1>8, <2>1 DEF Download
  <2>2. CASE ~Return(<< >>)
    BY <1>8, <2>2 DEF Download
  <2>. QED  BY <2>1, <2>2
<1>9. CASE EndOfListing
  <2>1. CASE JobFinished
    BY <1>4, <1>9, <2>1 DEF EndOfListing, Active
  <2>2. CASE ~JobFinished
    BY <1>9, <2>2 DEF EndOfListing
  <2>. QED  BY <2>1, <2>2
<1>10. CASE Deadline
  BY <1>4, <1>10 DEF Deadline, Active
<1>11. CASE TakeSheet \/ Settle \/ Complete \/ CancelJob
  BY <1>11 DEF TakeSheet, Settle, Complete, CancelJob
<1>12. CASE Finished \/ UNCHANGED vars
  BY <1>12 DEF Finished, vars
<1>. QED
  BY <1>5, <1>6, <1>7, <1>8, <1>9, <1>10, <1>11, <1>12 DEF Next, ClientStep

(* Though the listings are out of date and replies are lost, a call of       *)
(* ScanPages fails or returns pages the scanner took one after another since *)
(* the pages of the call before, and one from the glass.                     *)
THEOREM LedmReturnsScanned == Spec => ReturnsScanned
<1>1. Init => ScanPages!Init
  BY DEF Init, ScanPages!Init
<1>2. JobInv /\ [Next]_vars => [ScanPages!Next]_<<pc # "idle", src, returned>>
  BY JobSteps
<1>. QED  BY <1>1, <1>2, JobInvAlways, PTL DEF Spec, ReturnsScanned, ScanPages!Spec
=============================================================================
