-------------------------- MODULE LedmSessionProofs --------------------------
(***************************************************************************)
(* Proofs about LedmSession, for every failure limit and bound, and every  *)
(* set of faults a theorem does not name.                                  *)
(***************************************************************************)
EXTENDS LedmSession, DocumentsProofs

USE LedmAssumption

\* The session loops: it has read the table for the first time.
Running == pc \notin {"setup", "baseline", "teardown", "done"}

\* The stamps of the table only grow, and a stamp above 1 is an event of
\* this session's time, which a visit caused.
StampInv ==
    /\ posted >= 1 /\ seen <= posted
    /\ row.stamp # 0 => row.stamp \in seen .. posted
    /\ row.stamp >= 2 => row.visit >= 1
    /\ Running /\ row.stamp = 1 => seen = 1
    /\ pc \in {"setup", "baseline"} => seen = 0
    /\ panel # "idle" => visit >= 1

\* The resource is about the printer's last event, which is the one in the
\* table unless the table was emptied.
CompInv ==
    flavor # "WalkupScan" =>
        /\ row.stamp # 0 => row.stamp = comp.seq /\ row.visit = comp.visit
        /\ comp.seq <= posted
        /\ comp.seq >= 2 => comp.visit >= 1

\* The session acts on the event it remembers, and on no earlier one.
CurInv ==
    /\ pc \in {"dest", "comp"} => cur.seq = seen /\ cur.seq >= 2
    /\ pc = "comp" => flavor # "WalkupScan"
    /\ pc \in {"dest", "comp"} /\ flavor # "WalkupScan" => comp.seq >= cur.seq
    /\ pc \in {"dest", "comp", "wait", "job"} => cur.visit >= 1

\* The last event that was scanned for, if it was by its own stamp, is one
\* the session remembers; and what it asks about now is newer, or has been
\* scanned for by an older stamp only.
ScannedInv ==
    /\ flavor # "WalkupScan" => scanned.event <= comp.seq
    /\ flavor = "WalkupScan" \/ scanned.own => scanned.event <= seen
    /\ pc \in {"dest", "comp"} =>
          \/ scanned.event < cur.seq
          \/ scanned.event = cur.seq /\ ~scanned.own

EventInv == StampInv /\ CompInv /\ CurInv /\ ScannedInv

-----------------------------------------------------------------------------
(* Every variable of a session keeps its type: the session's own, those of  *)
(* the registrations, those of the panel, and the histories.                *)

\* A session that goes on may fail once more.
SessionTypes ==
    /\ pc \in {"setup", "baseline", "poll", "dest", "comp", "wait", "job", "tick", "teardown",
               "done"}
    /\ cur \in [fmt : Formats, visit : Nat, seq : Nat] /\ job \in [src : Sources, visit : Nat]
    /\ dest \in Nat /\ seen \in Nat /\ failures \in 0 .. PollFailLimit
    /\ pc \notin {"teardown", "done"} => failures < PollFailLimit

EntryTypes ==
    /\ flavor \in Flavors
    /\ ndest \in 0 .. MaxDests /\ dests \subseteq 1 .. ndest /\ orphans \subseteq 1 .. ndest

PanelTypes ==
    /\ row \in [stamp : Nat, dest : Nat, visit : Nat]
    /\ comp \in [type : {"host", "scan", "page", "complete"}, visit : Nat, seq : Nat]
    /\ panel \in {"idle", "menu", "scan", "prompt"} /\ panelDest \in Nat
    /\ panelFmt \in Formats /\ visit \in Nat /\ posted \in Nat

FlagTypes == cancelled \in BOOLEAN /\ hurt \in BOOLEAN /\ refs \in BOOLEAN

HistoryTypes == scanned \in [event : Nat, own : BOOLEAN] /\ blurred \subseteq Nat

TypeInv == SessionTypes /\ EntryTypes /\ PanelTypes /\ FlagTypes /\ HistoryTypes

LEMMA TypeParts == TypeInv => LedmTypeOK
BY Zenon DEF TypeInv, SessionTypes, EntryTypes, PanelTypes, FlagTypes, HistoryTypes, LedmTypeOK

LEMMA TypeInit == Init => TypeInv
<1> SUFFICES ASSUME Init PROVE TypeInv
  OBVIOUS
<1>1. HistoryTypes
  BY DEF Init, HistoryTypes, NoScan
<1>2. SessionTypes
  BY DEF Init, SessionTypes, NoEvent, NoJob, Formats, Sources
<1>3. EntryTypes
  BY DEF Init, EntryTypes
<1>4. PanelTypes
  BY DEF Init, PanelTypes, NoRow, NoComp, Formats
<1>5. FlagTypes
  BY DEF Init, FlagTypes
<1> QED
  BY <1>1, <1>2, <1>3, <1>4, <1>5 DEF TypeInv

\* What the actions that make a step leave alone.
LEMMA SessionAlone ==
  ASSUME PanelStep
  PROVE  UNCHANGED sessionVars
BY DEF PanelStep, SelectHost, PressStart, AddPage, PressDone, OtherScans, Leave, Forget,
       userUnchanged, sessionVars

LEMMA PanelAlone ==
  ASSUME [Next]_vars
  PROVE  UNCHANGED panelVars \/ PanelStep \/ \E n \in 1 .. MaxFeed : ScanDone(n)
BY DEF Next, SessionStep, Terminated, vars, Setup, Baseline, PollAnswered, PollFails, LoopEnds,
       Tick, GetDestination, GetCompEvent, ScanFails, Teardown, ScannerIdle, ExpireDocument,
       panelVars

LEMMA EntryAlone ==
  ASSUME [Next]_vars
  PROVE  UNCHANGED entryVars \/ Setup \/ GetDestination \/ Teardown \/ Forget
BY DEF Next, SessionStep, PanelStep, Terminated, vars, Baseline, PollAnswered, PollFails, LoopEnds,
       Tick, GetCompEvent, ScanFails, ScannerIdle, ScanDone, ExpireDocument, SelectHost,
       PressStart, AddPage, PressDone, OtherScans, Leave, entryVars, userUnchanged

LEMMA SessionTypesNext ==
  ASSUME TypeInv, [Next]_vars
  PROVE  SessionTypes'
<1> USE DEF TypeInv, SessionTypes, sessionVars, Goto, Returns, LoopReturns, Scans
<1>1. /\ NoEvent \in [fmt : Formats, visit : Nat, seq : Nat]
      /\ NoJob \in [src : Sources, visit : Nat]
  BY DEF NoEvent, NoJob, Formats, Sources
<1>2. CASE Setup
  BY <1>2 DEF Setup, Registered, RegisterFails, EntryTypes
<1>3. CASE GetDestination
  <2>1. dest' \in Nat
    BY <1>3 DEF GetDestination, Registered, RegisterFails, EntryTypes, entryVars
  <2>2. UNCHANGED <<seen, failures>> /\ job' \in {job, NoJob}
    BY <1>3 DEF GetDestination
  <2>3. cur' \in [fmt : Formats, visit : Nat, seq : Nat]
    BY <1>1, <1>3 DEF GetDestination, PanelTypes
  <2>4. pc = "dest" /\ pc' \in {"wait", "comp", "tick"}
    BY <1>3 DEF GetDestination
  <2> QED
    BY <1>1, <2>1, <2>2, <2>3, <2>4
<1>4. CASE Baseline
  BY <1>4 DEF Baseline, PanelTypes
<1>5. CASE PollAnswered
  <2>1. cur' \in [fmt : Formats, visit : Nat, seq : Nat]
    BY <1>5 DEF PollAnswered, PanelTypes
  <2>2. seen' \in Nat /\ pc' \in {"tick", "dest"} /\ failures' = 0 /\ UNCHANGED <<dest, job>>
    BY <1>5 DEF PollAnswered, PanelTypes
  <2>3. 0 \in 0 .. PollFailLimit /\ 0 < PollFailLimit
    OBVIOUS
  <2> QED
    BY <2>1, <2>2, <2>3
<1>6. CASE PollFails \/ LoopEnds \/ Tick \/ ExpireDocument
  BY <1>6 DEF PollFails, LoopEnds, Tick, ExpireDocument
<1>7. CASE GetCompEvent
  BY <1>1, <1>7 DEF GetCompEvent, PanelTypes
<1>8. CASE ScanFails \/ Teardown
  BY <1>1, <1>8 DEF ScanFails, Teardown
<1>9. ASSUME NEW s \in Sources, ScannerIdle(s) PROVE SessionTypes'
  BY <1>9 DEF ScannerIdle, WaitIdle, Settings, NoJob, PanelTypes
<1>10. ASSUME NEW n \in 1 .. MaxFeed, ScanDone(n) PROVE SessionTypes'
  BY <1>1, <1>10 DEF ScanDone
<1>11. CASE PanelStep \/ UNCHANGED vars
  <2>1. UNCHANGED sessionVars
    BY <1>11, SessionAlone DEF vars
  <2> QED
    BY <2>1
<1> QED
  BY <1>2, <1>3, <1>4, <1>5, <1>6, <1>7, <1>8, <1>9, <1>10, <1>11 DEF Next, SessionStep, Terminated

LEMMA EntryTypesNext ==
  ASSUME TypeInv, [Next]_vars
  PROVE  EntryTypes'
<1> USE DEF TypeInv, EntryTypes, entryVars
<1>1. CASE Setup \/ GetDestination
  BY <1>1 DEF Setup, GetDestination, Registered, RegisterFails
<1>2. CASE Teardown
  BY <1>2 DEF Teardown, DeleteDestination
<1>3. CASE Forget
  BY <1>3 DEF Forget
<1> QED
  BY <1>1, <1>2, <1>3, EntryAlone

LEMMA PostTypes ==
  ASSUME TypeInv, NEW type \in {"host", "scan", "page", "complete"}, NEW d \in Nat, NEW v \in Nat,
         Post(type, d, v)
  PROVE  /\ row' \in [stamp : Nat, dest : Nat, visit : Nat] /\ posted' \in Nat
         /\ comp' \in [type : {"host", "scan", "page", "complete"}, visit : Nat, seq : Nat]
<1>1. posted + 1 \in Nat
  BY DEF TypeInv, PanelTypes
<1> QED
  BY <1>1 DEF Post, TypeInv, PanelTypes

LEMMA PanelTypesNext ==
  ASSUME TypeInv, [Next]_vars
  PROVE  PanelTypes'
<1> USE DEF TypeInv, PanelTypes, LeavePanel
<1>1. ASSUME NEW n \in 1 .. MaxFeed, ScanDone(n) PROVE PanelTypes'
  <2>1. /\ UNCHANGED <<panelFmt, visit>>
        /\ panel' \in {panel, "idle", "prompt"} /\ panelDest' \in {panelDest, 0}
        /\ UNCHANGED <<row, comp, posted>> \/ Post("complete", panelDest, visit)
    BY <1>1 DEF ScanDone
  <2> QED
    BY <2>1, PostTypes
<1>2. ASSUME NEW d \in dests \cup {0}, SelectHost(d) PROVE PanelTypes'
  <2>1. d \in Nat /\ visit + 1 \in Nat
    BY DEF EntryTypes
  <2>2. UNCHANGED <<row, comp, posted>> \/ Post("host", d, visit + 1)
    BY <1>2 DEF SelectHost
  <2> QED
    BY <1>2, <2>1, <2>2, PostTypes DEF SelectHost
<1>3. ASSUME NEW fmt \in Formats, PressStart(fmt) PROVE PanelTypes'
  BY <1>3, PostTypes DEF PressStart
<1>4. CASE AddPage \/ PressDone
  BY <1>4, PostTypes DEF AddPage, PressDone
<1>5. CASE OtherScans
  <2>1. UNCHANGED <<row, comp, posted>> \/ Post("complete", 0, visit)
    BY <1>5 DEF OtherScans
  <2> QED
    BY <1>5, <2>1, PostTypes DEF OtherScans
<1>6. CASE Leave
  BY <1>6 DEF Leave
<1>7. CASE Forget
  BY <1>7 DEF Forget, NoRow
<1>8. CASE UNCHANGED panelVars
  BY <1>8 DEF panelVars
<1> QED
  BY <1>1, <1>2, <1>3, <1>4, <1>5, <1>6, <1>7, <1>8, PanelAlone DEF PanelStep

LEMMA FlagTypesNext ==
  ASSUME TypeInv, [Next]_vars
  PROVE  FlagTypes'
<1>1. UNCHANGED refs
  BY EntryAlone DEF entryVars, Setup, GetDestination, Registered, RegisterFails, Teardown, Forget
<1>2. cancelled' = cancelled \/ cancelled' = TRUE
  <2>1. CASE SessionStep \/ ExpireDocument
    BY <2>1 DEF SessionStep, Setup, Baseline, PollAnswered, PollFails, LoopEnds, Tick,
                GetDestination, GetCompEvent, ScanFails, Teardown, ScannerIdle, ScanDone,
                ExpireDocument, Goes, Wrong, CtxDone, NoReply, Registered, RegisterFails,
                DeleteDestination
  <2>2. CASE PanelStep
    BY <2>2, SessionAlone DEF sessionVars
  <2> QED
    BY <2>1, <2>2 DEF Next, Terminated, vars, sessionVars
<1>3. hurt' = hurt \/ hurt' = TRUE
  <2>1. CASE SessionStep \/ ExpireDocument
    BY <2>1 DEF SessionStep, Setup, Baseline, PollAnswered, PollFails, LoopEnds, Tick,
                GetDestination, GetCompEvent, ScanFails, Teardown, ScannerIdle, ScanDone,
                ExpireDocument, Goes, Wrong, CtxDone, NoReply, Registered, RegisterFails,
                DeleteDestination
  <2>2. CASE PanelStep
    BY <2>2 DEF PanelStep, SelectHost, PressStart, AddPage, PressDone, OtherScans, Leave, Forget,
                Wrong, userUnchanged
  <2> QED
    BY <2>1, <2>2 DEF Next, Terminated, vars
<1> QED
  BY <1>1, <1>2, <1>3, Zenon DEF TypeInv, FlagTypes

LEMMA HistoryTypesNext ==
  ASSUME TypeInv, DocTypeOK, [Next]_vars
  PROVE  HistoryTypes'
<1>1. scanned' \in [event : Nat, own : BOOLEAN]
  <2>1. scanned' \in {scanned, NoScan, [event |-> cur.seq, own |-> TRUE],
                      [event |-> comp.seq, own |-> comp.seq = cur.seq]}
    <3>1. CASE SessionStep \/ ExpireDocument
      BY <3>1 DEF SessionStep, Setup, Baseline, PollAnswered, PollFails, LoopEnds, Tick, Scans,
         GetDestination, GetCompEvent, ScanFails, Teardown, ScannerIdle, ScanDone, ExpireDocument,
         LoopReturns
    <3>2. CASE PanelStep \/ Terminated \/ UNCHANGED vars
      BY <3>2 DEF PanelStep, Terminated, vars, SelectHost, PressStart, AddPage,
         PressDone, OtherScans, Leave, Forget, userUnchanged
    <3> QED
      BY <3>1, <3>2 DEF Next
  <2>2. scanned \in [event : Nat, own : BOOLEAN] /\ cur.seq \in Nat /\ comp.seq \in Nat
    BY DEF TypeInv, HistoryTypes, SessionTypes, PanelTypes
  <2>3. \/ scanned' \in {scanned, NoScan}
        \/ scanned' = [event |-> cur.seq, own |-> TRUE]
        \/ scanned' = [event |-> comp.seq, own |-> TRUE]
        \/ scanned' = [event |-> comp.seq, own |-> FALSE]
    <3>1. CASE comp.seq = cur.seq
      BY <2>1, <3>1
    <3>2. CASE comp.seq # cur.seq
      <4>1. (comp.seq = cur.seq) = FALSE
        BY <3>2
      <4> QED
        BY <2>1, <4>1
    <3> QED
      BY <3>1, <3>2
  <2>4. \A e \in Nat : /\ [event |-> e, own |-> TRUE] \in [event : Nat, own : BOOLEAN]
                      /\ [event |-> e, own |-> FALSE] \in [event : Nat, own : BOOLEAN]
    OBVIOUS
  <2>5. NoScan \in [event : Nat, own : BOOLEAN]
    BY <2>4 DEF NoScan
  <2> QED
    BY <2>2, <2>3, <2>4, <2>5, Zenon
<1>2. blurred' \subseteq Nat
  <2>1. blurred \subseteq Nat /\ cur.visit \in Nat /\ visit \in Nat /\ comp.visit \in Nat
    BY DEF TypeInv, HistoryTypes, SessionTypes, PanelTypes
  <2>2. {owner[doc[i]] : i \in DOMAIN doc} \subseteq Nat
    <3> SUFFICES ASSUME NEW i \in DOMAIN doc PROVE owner[doc[i]] \in Nat
      OBVIOUS
    <3>1. doc[i] \in 1 .. Len(owner)
      BY DEF DocTypeOK, Pages
    <3> QED
      BY <3>1 DEF DocTypeOK
  <2>3. blurred' \in {blurred, blurred \cup {cur.visit, visit}, blurred \cup {comp.visit},
                      blurred \cup {owner[doc[i]] : i \in DOMAIN doc}}
    BY DEF Next, SessionStep, PanelStep, Terminated, vars, Setup, Baseline, PollAnswered, PollFails,
           LoopEnds, Tick, GetDestination, GetCompEvent, ScanFails, Teardown, ScannerIdle,
           ScanDone, ExpireDocument, SelectHost, PressStart, AddPage, PressDone,
           OtherScans, Leave, Forget, userUnchanged
  <2> QED
    BY <2>1, <2>2, <2>3
<1> QED
  BY <1>1, <1>2 DEF HistoryTypes

LEMMA TypeNext == TypeInv /\ DocInv /\ [Next]_vars => TypeInv'
BY SessionTypesNext, EntryTypesNext, PanelTypesNext, FlagTypesNext, HistoryTypesNext
   DEF TypeInv, DocInv

-----------------------------------------------------------------------------
(* What the session does with documents, it does through Documents.         *)
LEMMA LedmDocNext == DocInv /\ TypeInv /\ [Next]_vars => DocInv'
<1> SUFFICES ASSUME DocInv, TypeInv, [Next]_vars PROVE DocInv'
  OBVIOUS
<1>1. jpegPage \in Nat
  BY DEF DocInv, DocTypeOK
<1>2. CASE GetCompEvent
  <2>1. CASE UNCHANGED docVars
    BY <2>1, DocStutter
  <2>2. CASE (ScanRequested \/ PagesComplete) /\ UNCHANGED owner
    BY <2>2, FinishKeepsDocInv DEF ScanRequested, PagesComplete
  <2> QED
    BY <1>2, <2>1, <2>2 DEF GetCompEvent, docVars
<1>3. CASE ExpireDocument
  BY <1>1, <1>3, FinishKeepsDocInv DEF ExpireDocument
<1>4. CASE Teardown
  BY <1>1, <1>4, FinishKeepsDocInv DEF Teardown
<1>5. ASSUME NEW n \in 1 .. MaxFeed, ScanDone(n) PROVE DocInv'
  <2> DEFINE single == flavor = "WalkupScan" \/ job.src = "feeder"
  <2>1. n \in Nat /\ cur.visit \in Nat /\ single \in BOOLEAN
    BY DEF TypeInv, SessionTypes
  <2>2. FilePages(cur.fmt, n, cur.visit, single)
    BY <1>5 DEF ScanDone
  <2> QED
    BY <2>1, <2>2, FilePagesKeepsDocInv
<1>6. \/ GetCompEvent \/ ExpireDocument \/ Teardown \/ \E n \in 1 .. MaxFeed : ScanDone(n)
      \/ UNCHANGED docVars
  BY DEF Next, SessionStep, PanelStep, Terminated, vars, Setup, Baseline, PollAnswered, PollFails,
         LoopEnds, Tick, GetDestination, ScanFails, ScannerIdle, SelectHost, PressStart,
         AddPage, PressDone, OtherScans, Leave, Forget, userUnchanged
<1> QED
  BY <1>2, <1>3, <1>4, <1>5, <1>6, DocStutter

LEMMA LedmBase == Spec => [](TypeInv /\ DocInv)
<1>1. Init => TypeInv /\ DocInv
  BY TypeInit, DocInitInv DEF Init
<1>2. TypeInv /\ DocInv /\ [Next]_vars => (TypeInv /\ DocInv)'
  BY TypeNext, LedmDocNext
<1> QED
  BY <1>1, <1>2, PTL DEF Spec

(* TypeOK of the session, with the type of its documents.                   *)
THEOREM LedmTypes == Spec => []TypeOK
<1>1. TypeInv /\ DocInv => TypeOK
  BY TypeParts DEF TypeOK, DocInv
<1> QED
  BY <1>1, LedmBase, PTL

(* PagesConserved and PagesInOrder of an LEDM session: whatever becomes of  *)
(* events, reads, scans and writes, each page is in one place, in scanning  *)
(* order.                                                                   *)
THEOREM LedmDocuments == Spec => [](PagesConserved /\ PagesInOrder)
<1>1. DocInv => PagesConserved /\ PagesInOrder
  BY DEF DocInv
<1> QED
  BY <1>1, LedmBase, PTL

-----------------------------------------------------------------------------
(* The entries on the panel.                                                *)

\* Why no entry is forgotten: a registration makes the only entry, or takes
\* the place of one the printer dropped.
EntryInv ==
    /\ pc = "setup" => dests = {}
    /\ EntriesKnown

LEMMA EntryNext == TypeInv /\ EntryInv /\ [Next]_vars => EntryInv'
<1> SUFFICES ASSUME TypeInv, EntryInv, [Next]_vars PROVE EntryInv'
  OBVIOUS
<1> USE DEF EntryInv, EntriesKnown, entryVars, Goes, Wrong, Goto, Returns, LoopReturns, Scans
<1>1. CASE Setup
  BY <1>1 DEF Setup, Registered, RegisterFails, NoReply
<1>2. CASE GetDestination
  BY <1>2 DEF GetDestination, Registered, RegisterFails, NoReply
<1>3. CASE Teardown
  BY <1>3 DEF Teardown, DeleteDestination
<1>4. CASE Forget
  BY <1>4 DEF Forget, sessionVars
<1>5. CASE /\ UNCHANGED <<dests, orphans, dest>>
           /\ pc' \notin {"setup", "done"} \/ (pc' = pc /\ (hurt => hurt'))
  BY <1>5
<1>6. ASSUME PanelStep, ~Forget PROVE UNCHANGED <<dests, orphans, dest, pc>> /\ (hurt => hurt')
  BY <1>6 DEF PanelStep, SelectHost, PressStart, AddPage, PressDone, OtherScans, Leave,
              userUnchanged, sessionVars
<1>7. ASSUME SessionStep \/ ExpireDocument \/ UNCHANGED vars,
             ~Setup, ~GetDestination, ~Teardown
      PROVE  /\ UNCHANGED <<dests, orphans, dest>>
             /\ pc' \notin {"setup", "done"} \/ (pc' = pc /\ (hurt => hurt'))
  BY <1>7 DEF SessionStep, vars, sessionVars, Baseline, PollAnswered, PollFails, LoopEnds, Tick,
              GetCompEvent, ScanFails, ScannerIdle, ScanDone, ExpireDocument
<1> QED
  BY <1>1, <1>2, <1>3, <1>4, <1>5, <1>6, <1>7 DEF Next, Terminated

(* The panel offers no entry that the session does not take for its own,    *)
(* but those whose registration it never heard the answer of, and a session *)
(* that ended without mishap leaves none behind (EntriesKnown).             *)
THEOREM LedmEntriesKnown == Spec => []EntriesKnown
<1>1. Init => EntryInv
  BY DEF Init, EntryInv, EntriesKnown
<1>2. EntryInv => EntriesKnown
  BY DEF EntryInv
<1> QED
  BY <1>1, <1>2, EntryNext, LedmBase, PTL DEF Spec

-----------------------------------------------------------------------------
(* The events of the table and what the session makes of them.              *)

\* A step leaves the table and the resource alone, empties the table, or is
\* an event of a visit.
TableKept == UNCHANGED <<comp, posted>> /\ row' \in {row, NoRow}
TablePosted == \E type \in {"host", "scan", "page", "complete"}, d \in Nat, v \in Nat \ {0} :
                  Post(type, d, v)

LEMMA TableNext ==
  ASSUME TypeInv, StampInv, [Next]_vars
  PROVE  TableKept \/ TablePosted
<1> USE DEF TableKept, TablePosted, TypeInv, PanelTypes, StampInv
<1>1. ASSUME NEW n \in 1 .. MaxFeed, ScanDone(n) PROVE TableKept \/ TablePosted
  <2>1. CASE UNCHANGED <<row, comp, posted>>
    BY <2>1
  <2>2. CASE Watched /\ Post("complete", panelDest, visit)
    BY <2>2 DEF Watched
  <2> QED
    BY <1>1, <2>1, <2>2 DEF ScanDone
<1>2. ASSUME NEW d \in dests \cup {0}, SelectHost(d) PROVE TableKept \/ TablePosted
  <2>1. d \in Nat /\ visit + 1 \in Nat \ {0}
    BY DEF EntryTypes
  <2> QED
    BY <1>2, <2>1 DEF SelectHost
<1>3. ASSUME NEW fmt \in Formats, PressStart(fmt) PROVE TableKept \/ TablePosted
  BY <1>3 DEF PressStart
<1>4. CASE AddPage \/ PressDone
  BY <1>4 DEF AddPage, PressDone
<1>5. CASE OtherScans
  BY <1>5 DEF OtherScans
<1>6. CASE Leave \/ Forget
  BY <1>6 DEF Leave, Forget
<1>7. CASE UNCHANGED panelVars
  BY <1>7 DEF panelVars
<1> QED
  BY <1>1, <1>2, <1>3, <1>4, <1>5, <1>6, <1>7, PanelAlone DEF PanelStep

LEMMA StampNext == TypeInv /\ StampInv /\ [Next]_vars => StampInv'
<1> SUFFICES ASSUME TypeInv, StampInv, [Next]_vars PROVE StampInv'
  OBVIOUS
<1> USE DEF TypeInv, SessionTypes, PanelTypes
<1>1. /\ posted' \in Nat /\ posted' >= posted
      /\ row'.stamp = 0 \/ row'.stamp = posted' \/ row'.stamp = row.stamp
      /\ row'.stamp >= 2 => row'.visit >= 1
      /\ row'.stamp = 1 => row.stamp = 1
  BY TableNext DEF TableKept, TablePosted, Post, NoRow, StampInv
<1>2. \/ seen' = seen /\ (Running' => Running) /\ (pc' \in {"setup", "baseline"} => seen = 0)
      \/ /\ seen' = row.stamp /\ UNCHANGED <<row, posted>>
         /\ pc' \notin {"setup", "baseline"}
      \/ seen' = 0 /\ ~Running'
  <2>1. CASE Baseline \/ PollAnswered \/ PollFails \/ LoopEnds
    BY <2>1 DEF Baseline, PollAnswered, PollFails, LoopEnds, LoopReturns, Goto, panelVars, Running,
                StampInv
  <2>2. ASSUME SessionStep \/ ExpireDocument,
               ~Baseline, ~PollAnswered, ~PollFails, ~LoopEnds
        PROVE  seen' = seen /\ (Running' => Running) /\ (pc' \in {"setup", "baseline"} => seen = 0)
    BY <2>2 DEF SessionStep, Setup, Tick, GetDestination, GetCompEvent, ScanFails, Teardown,
                ScannerIdle, WaitIdle, ScanDone, ExpireDocument, Goto, Returns, Scans,
                Running, StampInv
  <2>3. ASSUME PanelStep \/ UNCHANGED vars PROVE UNCHANGED <<seen, pc>>
    BY <2>3, SessionAlone DEF sessionVars, vars
  <2> QED
    BY <2>1, <2>2, <2>3 DEF Next, Terminated, Running, StampInv
<1>3. panel' # "idle" => visit' >= 1
  BY PanelAlone DEF panelVars, PanelStep, SelectHost, PressStart, AddPage, PressDone, OtherScans,
                    Leave, Forget, ScanDone, Watched, LeavePanel, StampInv
<1>4. posted >= 1 /\ seen <= posted /\ (row.stamp # 0 => row.stamp >= seen /\ row.stamp <= posted)
  BY DEF StampInv
<1>5. posted' >= 1 /\ seen' <= posted'
      /\ (row'.stamp # 0 => row'.stamp >= seen' /\ row'.stamp <= posted')
  BY <1>1, <1>2, <1>4
<1>6. Running' /\ row'.stamp = 1 => seen' = 1
  BY <1>1, <1>2 DEF StampInv
<1>7. row'.stamp \in Nat /\ seen' \in Nat
  BY TypeNext, <1>1, <1>2
<1> QED
  BY <1>1, <1>2, <1>3, <1>5, <1>6, <1>7 DEF StampInv

LEMMA CompNext == TypeInv /\ StampInv /\ CompInv /\ [Next]_vars => CompInv'
<1> SUFFICES ASSUME TypeInv, StampInv, CompInv, [Next]_vars PROVE CompInv'
  OBVIOUS
<1> USE DEF TypeInv, PanelTypes, CompInv
<1>1. flavor' = flavor
  BY EntryAlone DEF entryVars, Setup, GetDestination, Registered, RegisterFails, Teardown, Forget
<1>2. CASE TableKept
  BY <1>1, <1>2 DEF TableKept, NoRow
<1>3. CASE TablePosted
  BY <1>1, <1>3 DEF TablePosted, Post
<1> QED
  BY <1>2, <1>3, TableNext

\* Where the session is in the handling of an event changes at these steps.
LEMMA CurKept ==
  ASSUME [Next]_vars, ~PollAnswered, ~GetDestination, ~GetCompEvent
  PROVE  \/ pc' \notin {"dest", "comp", "wait", "job"}
         \/ UNCHANGED <<pc, cur, seen>>
         \/ pc = "wait" /\ pc' = "job" /\ UNCHANGED <<cur, seen>>
<1>1. CASE SessionStep \/ ExpireDocument
  BY <1>1 DEF SessionStep, Setup, Baseline, PollFails, LoopEnds, LoopReturns, Tick, ScanFails,
              Teardown, ScannerIdle, WaitIdle, ScanDone, ExpireDocument, Goto, Returns
<1>2. CASE PanelStep \/ UNCHANGED vars
  BY <1>2, SessionAlone DEF sessionVars, vars
<1> QED
  BY <1>1, <1>2 DEF Next, Terminated

LEMMA CurNext == TypeInv /\ StampInv /\ CompInv /\ CurInv /\ [Next]_vars => CurInv'
<1> SUFFICES ASSUME TypeInv, StampInv, CompInv, CurInv, [Next]_vars PROVE CurInv'
  OBVIOUS
<1> USE DEF TypeInv, SessionTypes, PanelTypes
<1>1. flavor' = flavor
  BY EntryAlone DEF entryVars, Setup, GetDestination, Registered, RegisterFails, Teardown, Forget
<1>2. flavor = "WalkupScan" \/ (comp'.seq \in Nat /\ comp'.seq >= comp.seq)
  BY TableNext DEF TableKept, TablePosted, Post, CompInv
<1>3. CASE PollAnswered
  <2>1. CASE pc' = "tick"
    BY <2>1 DEF CurInv
  <2>2. CASE pc' = "dest"
    <3>1. /\ row.stamp \notin {0, seen} /\ seen' = row.stamp
          /\ cur'.seq = row.stamp /\ cur'.visit = row.visit /\ UNCHANGED <<comp, row>>
      BY <1>3, <2>2 DEF PollAnswered, Goto, panelVars
    <3>2. row.stamp >= 2 /\ row.visit >= 1
      BY <1>3, <3>1 DEF PollAnswered, StampInv, Running
    <3>3. flavor # "WalkupScan" => comp.seq = row.stamp
      BY <3>1 DEF CompInv
    <3> QED
      BY <1>1, <2>2, <3>1, <3>2, <3>3 DEF CurInv
  <2> QED
    BY <1>3, <2>1, <2>2 DEF PollAnswered, Goto
<1>4. CASE GetDestination
  <2>1. CASE pc' = "tick"
    BY <2>1 DEF CurInv
  <2>2. CASE pc' \in {"wait", "comp"}
    <3>1. /\ pc' = "comp" => cur'.seq = cur.seq /\ flavor # "WalkupScan"
          /\ cur'.visit = cur.visit /\ UNCHANGED <<seen, comp>> /\ pc = "dest"
      BY <1>4, <2>2 DEF GetDestination, Goto, Returns, Scans, panelVars
    <3> QED
      BY <1>1, <1>4, <2>2, <3>1 DEF CurInv, GetDestination
  <2> QED
    BY <1>4, <2>1, <2>2 DEF GetDestination, Goto, Returns, Scans
<1>5. CASE GetCompEvent
  <2>1. CASE pc' = "tick"
    BY <2>1 DEF CurInv
  <2>2. CASE pc' = "wait"
    <3>1. cur'.visit = comp.visit /\ pc = "comp"
      BY <1>5, <2>2 DEF GetCompEvent, Goto, Returns, Scans
    <3>2. comp.seq >= 2 /\ flavor # "WalkupScan"
      BY <3>1 DEF CurInv
    <3> QED
      BY <2>2, <3>1, <3>2 DEF CurInv, CompInv
  <2> QED
    BY <1>5, <2>1, <2>2 DEF GetCompEvent, Goto, Returns, Scans
<1>6. CASE ~PollAnswered /\ ~GetDestination /\ ~GetCompEvent
  <2>1. CASE pc' \notin {"dest", "comp", "wait", "job"}
    BY <2>1 DEF CurInv
  <2>2. CASE UNCHANGED <<pc, cur, seen>>
    BY <1>1, <1>2, <2>2 DEF CurInv
  <2>3. CASE pc = "wait" /\ pc' = "job" /\ UNCHANGED <<cur, seen>>
    BY <2>3 DEF CurInv
  <2> QED
    BY <1>6, <2>1, <2>2, <2>3, CurKept
<1> QED
  BY <1>3, <1>4, <1>5, <1>6

-----------------------------------------------------------------------------
(* One scan for one stamp, and none for old ones.                           *)

\* A scan follows what was asked about an event, and is noted.
LEMMA ScanBegins ==
  ASSUME [Next]_vars, pc' = "wait", pc # "wait"
  PROVE  GetDestination \/ GetCompEvent
BY CurKept DEF PollAnswered, Goto

\* Nobody else notes a scan, and what is noted is forgotten when loop returns.
LEMMA ScannedKept ==
  ASSUME [Next]_vars, ~GetDestination, ~GetCompEvent
  PROVE  scanned' = scanned \/ (scanned' = NoScan /\ pc' = "teardown")
<1>1. CASE SessionStep \/ ExpireDocument
  BY <1>1 DEF SessionStep, Setup, Baseline, PollAnswered, PollFails, LoopEnds, LoopReturns, Goto,
              Tick, ScanFails, Teardown, ScannerIdle, ScanDone, ExpireDocument
<1>2. CASE PanelStep \/ UNCHANGED vars
  BY <1>2 DEF PanelStep, vars, SelectHost, PressStart, AddPage, PressDone, OtherScans, Leave,
              Forget, userUnchanged
<1> QED
  BY <1>1, <1>2 DEF Next, Terminated

\* What is remembered only grows while loop runs.
LEMMA SeenGrows ==
  ASSUME TypeInv, StampInv, [Next]_vars
  PROVE  seen' \in Nat /\ (seen <= seen' \/ (scanned' = NoScan /\ pc' = "teardown"))
<1> USE DEF TypeInv, SessionTypes, PanelTypes
<1>1. CASE SessionStep \/ ExpireDocument
  <2>1. CASE Baseline \/ PollAnswered
    BY <2>1 DEF Baseline, PollAnswered, LoopReturns, Goto, StampInv
  <2>2. CASE PollFails \/ LoopEnds
    BY <2>2 DEF PollFails, LoopEnds, LoopReturns, Goto
  <2>3. CASE ~Baseline /\ ~PollAnswered /\ ~PollFails /\ ~LoopEnds
    <3>1. seen' = seen
      BY <1>1, <2>3 DEF SessionStep, Setup, Tick, GetDestination, GetCompEvent, ScanFails, Teardown,
                        ScannerIdle, ScanDone, ExpireDocument
    <3> QED
      BY <3>1
  <2> QED
    BY <2>1, <2>2, <2>3
<1>2. CASE PanelStep \/ UNCHANGED vars
  BY <1>2, SessionAlone DEF sessionVars, vars
<1> QED
  BY <1>1, <1>2 DEF Next, Terminated

\* Why a stamp makes no two scans: an event whose own stamp was acted on is
\* one the session remembers, and one that was read by an older stamp is not
\* older than any that the table can show after it.
LEMMA ScannedNext ==
  TypeInv /\ StampInv /\ CompInv /\ CurInv /\ ScannedInv /\ [Next]_vars => ScannedInv'
<1> SUFFICES ASSUME TypeInv, StampInv, CompInv, CurInv, ScannedInv, [Next]_vars PROVE ScannedInv'
  OBVIOUS
<1> USE DEF TypeInv, SessionTypes, PanelTypes, HistoryTypes
<1>1. flavor' = flavor
  BY EntryAlone DEF entryVars, Setup, GetDestination, Registered, RegisterFails, Teardown, Forget
<1>2. flavor = "WalkupScan" \/ (comp'.seq \in Nat /\ comp'.seq >= comp.seq)
  BY TableNext DEF TableKept, TablePosted, Post, CompInv
<1>3. seen' \in Nat /\ (seen <= seen' \/ (scanned' = NoScan /\ pc' = "teardown"))
  BY SeenGrows
<1>4. CASE GetDestination
  <2>1. UNCHANGED <<comp, seen>> /\ pc = "dest"
    BY <1>4 DEF GetDestination, panelVars
  <2>2. CASE scanned' = scanned
    <3>1. (pc' = "comp" /\ cur'.seq = cur.seq) \/ pc' \notin {"dest", "comp"}
      BY <1>4, <2>2 DEF GetDestination, Goto, Returns, Scans
    <3> QED
      BY <1>1, <2>1, <2>2, <3>1 DEF ScannedInv
  <2>3. CASE flavor = "WalkupScan" /\ Scans(cur.seq, cur.visit, panelFmt)
    BY <1>1, <2>1, <2>3 DEF ScannedInv, Scans, Goto, CurInv
  <2> QED
    BY <1>4, <2>2, <2>3 DEF GetDestination
<1>5. CASE GetCompEvent
  <2>1. UNCHANGED <<comp, seen>> /\ pc = "comp" /\ pc' \notin {"dest", "comp"}
    BY <1>5 DEF GetCompEvent, panelVars, Goto, Returns, Scans
  <2>2. CASE scanned' = scanned
    BY <1>1, <2>1, <2>2 DEF ScannedInv
  <2>3. CASE Scans(comp.seq, comp.visit, cur.fmt)
    <3>1. /\ scanned' = [event |-> comp.seq, own |-> comp.seq = cur.seq]
          /\ flavor # "WalkupScan" /\ cur.seq = seen
      BY <2>1, <2>3 DEF Scans, CurInv
    <3>2. scanned'.event = comp.seq /\ (scanned'.own => comp.seq = seen)
      BY <3>1
    <3> QED
      BY <1>1, <2>1, <3>1, <3>2 DEF ScannedInv
  <2> QED
    BY <1>5, <2>2, <2>3 DEF GetCompEvent
<1>6. CASE PollAnswered
  <2>1. UNCHANGED <<comp, row, scanned>>
    BY <1>6 DEF PollAnswered, panelVars
  <2>2. CASE pc' # "dest"
    <3>1. pc' = "tick"
      BY <1>6, <2>2 DEF PollAnswered, Goto
    <3> QED
      BY <1>1, <1>3, <2>1, <3>1 DEF ScannedInv
  <2>3. CASE pc' = "dest"
    <3>1. row.stamp \notin {0, seen} /\ seen' = row.stamp /\ cur'.seq = row.stamp
      BY <1>6, <2>3 DEF PollAnswered, Goto
    <3>2. seen < row.stamp /\ (flavor # "WalkupScan" => row.stamp = comp.seq)
      BY <3>1 DEF StampInv, CompInv
    <3> QED
      BY <1>1, <2>1, <2>3, <3>1, <3>2 DEF ScannedInv
  <2> QED
    BY <2>2, <2>3
<1>7. CASE ~GetDestination /\ ~GetCompEvent /\ ~PollAnswered
  <2>1. CASE scanned' = NoScan /\ pc' = "teardown"
    BY <1>1, <1>2, <1>3, <2>1 DEF ScannedInv, NoScan, CompInv
  <2>2. CASE scanned' = scanned /\ seen <= seen'
    <3>1. pc' \in {"dest", "comp"} => UNCHANGED <<pc, cur>>
      BY <1>7, CurKept
    <3> QED
      BY <1>1, <1>2, <1>3, <2>2, <3>1 DEF ScannedInv
  <2> QED
    BY <1>3, <1>7, <2>1, <2>2, ScannedKept
<1> QED
  BY <1>4, <1>5, <1>6, <1>7

LEMMA LedmEvents == Spec => [](TypeInv /\ DocInv /\ EventInv)
<1>1. Init => EventInv
  BY DEF Init, EventInv, StampInv, CompInv, CurInv, ScannedInv, Running, NoRow, NoComp, NoScan
<1>2. TypeInv /\ EventInv /\ [Next]_vars => EventInv'
  BY StampNext, CompNext, CurNext, ScannedNext DEF EventInv
<1> QED
  BY <1>1, <1>2, LedmBase, PTL DEF Spec

(* No stamp makes the session scan twice, and it never scans for an event   *)
(* that is older than one scanned for (OneScanPerStamp), however quick the  *)
(* users and whatever fails.                                                *)
THEOREM LedmOneScanPerStamp == Spec => OneScanPerStamp
<1>1. /\ TypeInv /\ DocInv /\ EventInv /\ [Next]_vars
      => [pc # "wait" /\ pc' = "wait" =>
            \/ scanned.event < cur.seq
            \/ scanned.event = cur.seq /\ ~scanned.own]_vars
  <2> SUFFICES ASSUME ScannedInv, [Next]_vars, pc # "wait", pc' = "wait"
               PROVE  \/ scanned.event < cur.seq
                      \/ scanned.event = cur.seq /\ ~scanned.own
    BY DEF EventInv
  <2>1. pc \in {"dest", "comp"}
    BY ScanBegins DEF GetDestination, GetCompEvent
  <2> QED
    BY <2>1 DEF ScannedInv
<1> QED
  BY <1>1, LedmEvents, PTL DEF Spec, OneScanPerStamp

(* Pages belong to visits of the session's own time: what was in the table  *)
(* before it began is not acted on, also when the printer's events refer to *)
(* no destination (OldEventsNotReplayed).                                   *)
THEOREM LedmOldEventsNotReplayed == Spec => []OldEventsNotReplayed
<1> DEFINE OwnVisits == \A i \in DOMAIN owner : owner[i] >= 1
<1>1. Init => OwnVisits
  BY EmptySeq DEF Init, DocInit
<1>2. TypeInv /\ DocInv /\ EventInv /\ OwnVisits /\ [Next]_vars => OwnVisits'
  <2> SUFFICES ASSUME TypeInv, DocInv, EventInv, OwnVisits, [Next]_vars PROVE OwnVisits'
    OBVIOUS
  <2>1. ASSUME NEW n \in 1 .. MaxFeed, ScanDone(n) PROVE OwnVisits'
    <3>1. cur.visit \in Nat /\ cur.visit >= 1 /\ n \in Nat
      BY <2>1 DEF ScanDone, EventInv, CurInv, TypeInv, SessionTypes
    <3>2. Arrive(n, cur.visit)
      BY <2>1 DEF ScanDone, FilePages, FilePdf, FileJpegs
    <3>3. \A p \in DOMAIN owner' :
             owner'[p] = cur.visit \/ (p \in DOMAIN owner /\ owner'[p] = owner[p])
      BY <3>1, <3>2, ArriveOwner DEF DocInv
    <3> QED
      BY <3>1, <3>3
  <2>2. (\E n \in 1 .. MaxFeed : ScanDone(n)) \/ UNCHANGED owner
    BY DEF Next, SessionStep, PanelStep, Terminated, vars, docVars, Setup, Baseline, PollAnswered,
           PollFails, LoopEnds, Tick, GetDestination, GetCompEvent, ScanFails, Teardown,
           ScannerIdle, ExpireDocument, SelectHost, PressStart, AddPage, PressDone,
           OtherScans, Leave, Forget, userUnchanged
  <2> QED
    BY <2>1, <2>2
<1>3. DocInv /\ OwnVisits => OldEventsNotReplayed
  BY DEF OldEventsNotReplayed, Range
<1> QED
  BY <1>1, <1>2, <1>3, LedmEvents, PTL DEF Spec

-----------------------------------------------------------------------------
(* Walkups: which visits the session may still scan for, and what is left   *)
(* of earlier ones in the document.  An event that was scanned for by an    *)
(* older stamp may be scanned for again, but that blurs its visit.          *)

\* The older printers have one kind of event.
EvType == IF flavor = "WalkupScan" THEN "scan" ELSE comp.type
Wants == EvType \in {"scan", "page"}
Live == pc \notin {"teardown", "done"}
Unseen == Live /\ row.stamp \notin {0, seen}
Asking == pc \in {"dest", "comp"}
Acting == pc \in {"wait", "job"}

\* The visit that is scanned for next, if what the session asks about is a
\* scan: the older printers' events are not read again.
Asked == IF flavor = "WalkupScan" THEN cur.visit ELSE comp.visit

\* The printer's last event was scanned for.
Twice == flavor # "WalkupScan" /\ comp.seq = scanned.event

\* Pages of x may join a document D, if those in B do not matter.
Only(D, B, x) == x \in B \/ D \ B \subseteq {x}

\* Everything is about visits that began, and a panel that waits for a scan
\* or for an answer shows the last event.
VisitInv ==
    /\ \A w \in Scanned : w <= visit
    /\ cur.visit <= visit /\ row.visit <= visit /\ comp.visit <= visit
    /\ flavor = "WalkupScan" => doc = << >> /\ panel # "prompt"
    /\ panel \in {"scan", "prompt"} /\ flavor # "WalkupScan" => comp.visit = visit /\ Wants

\* A visit presses start once: before its scan it has no pages.
FreshInv ==
    /\ Unseen /\ EvType = "scan" /\ ~Twice =>
          row.visit \notin Scanned /\ (Acting => cur.visit # row.visit)
    /\ Asking /\ EvType = "scan" /\ ~Twice => Asked \notin Scanned
    /\ Asking /\ flavor = "WalkupScan" /\ Unseen => cur.visit # row.visit
    /\ Acting /\ flavor = "WalkupScan" => cur.visit \notin Scanned
    /\ panel = "menu" =>
          /\ visit \notin Scanned
          /\ Acting => cur.visit # visit
          /\ Asking /\ Wants => Asked # visit
          /\ Unseen /\ Wants => row.visit # visit

\* A visit that may add a page finds no other's page in the document.
JoinInv ==
    /\ pc = "job" /\ job.visit # 0 => job.visit \in blurred \/ cur.visit = job.visit
    /\ panel = "prompt" =>
          /\ Only(InDoc, blurred, visit)
          /\ visit \in blurred \/ (~Acting /\ (Asking \/ Unseen => Twice))
    /\ Unseen /\ EvType = "page" /\ ~Twice =>
          Only(InDoc, blurred, row.visit) /\ (row.visit \in blurred \/ ~Acting)
    /\ Asking /\ EvType = "page" /\ ~Twice => Only(InDoc, blurred, Asked)
    /\ Acting => Only(InDoc, blurred, cur.visit)

\* What the session scans next, or is asked for next, may be part of w.
MayScan(w) ==
    \/ Acting /\ cur.visit = w
    \/ Asking /\ Wants /\ ~Twice /\ Asked = w
    \/ Unseen /\ Wants /\ ~Twice /\ row.visit = w
    \/ panel \in {"menu", "prompt"} /\ visit = w

\* A visit that has its PDF is over.
OverInv == pc # "done" => \A w \in Had \ blurred : ~MayScan(w)

KeptApart == Apart(owner, doc, files, blurred)

WalkupInv == VisitInv /\ FreshInv /\ JoinInv /\ OverInv /\ KeptApart

LEMMA ApartKeeps == KeptApart => WalkupsKeptApart
<1>1. \A f : Walkups(f) = Of(f.pages, owner)
  BY DEF Walkups, Of
<1> QED
  BY <1>1 DEF KeptApart, Apart, WalkupsKeptApart, Pdfs

\* The three things a step may do about documents.
Files(n) ==
    /\ ScanDone(n)
    /\ Scanned' \subseteq Scanned \cup {cur.visit}
    /\ InDoc' \subseteq InDoc \cup {cur.visit}
    /\ Had' \subseteq Had \cup (IF flavor = "WalkupScan" \/ job.src = "feeder"
                              THEN InDoc \cup {cur.visit} ELSE {})
    /\ flavor = "WalkupScan" /\ doc = << >> => doc' = << >>
Closes ==
    /\ Scanned' = Scanned /\ InDoc' = {} /\ doc' = << >>
    /\ \/ GetCompEvent /\ Had' \subseteq Had \cup InDoc
       \/ ExpireDocument /\ Had' \subseteq Had \cup InDoc /\ InDoc \subseteq blurred'
       \/ Teardown
Leaves == UNCHANGED <<Scanned, InDoc, Had, doc>>

LEMMA FinishCloses ==
  ASSUME FinishDocument, UNCHANGED owner, KeptApart, NEW B, blurred \subseteq B
  PROVE  /\ Apart(owner', doc', files', B)
         /\ Scanned' = Scanned /\ InDoc' = {} /\ Had' \subseteq Had \cup InDoc /\ doc' = << >>
<1>1. Apart(owner, doc, files, B)
  BY DEF KeptApart, Apart
<1>2. /\ Apart(owner', doc', files', B)
      /\ Of(doc', owner') = {}
      /\ Filed(files', owner') \subseteq Filed(files, owner) \cup Of(doc, owner)
  BY <1>1, FinishApart
<1>3. doc' = << >>
  BY DEF FinishDocument, SavePdf
<1>4. Scanned' = Scanned
  BY DEF Scanned
<1> QED
  BY <1>2, <1>3, <1>4 DEF InDoc, Had

LEMMA DocMoves ==
  ASSUME TypeInv, DocInv, JoinInv, OverInv, KeptApart, [Next]_vars
  PROVE  /\ KeptApart' /\ blurred \subseteq blurred'
         /\ (\E n \in 1 .. MaxFeed : Files(n)) \/ Closes \/ Leaves
<1>1. CASE UNCHANGED docVars /\ blurred \subseteq blurred'
  <2>1. Leaves
    BY <1>1 DEF Leaves, docVars, Scanned, InDoc, Had
  <2>2. Apart(owner, doc, files, blurred')
    BY <1>1 DEF KeptApart, Apart
  <2>3. KeptApart'
    BY <1>1, <2>2 DEF KeptApart, docVars
  <2> QED
    BY <1>1, <2>1, <2>3
<1>2. CASE GetCompEvent
  <2>1. owner' = owner /\ blurred \subseteq blurred'
    BY <1>2 DEF GetCompEvent
  <2>2. UNCHANGED docVars \/ FinishDocument
    BY <1>2 DEF GetCompEvent, ScanRequested, PagesComplete, docVars
  <2>3. CASE FinishDocument
    <3> DEFINE B == blurred'
    <3>1. blurred \subseteq B /\ B = blurred'
      BY <2>1
    <3> HIDE DEF B
    <3>2. /\ Apart(owner', doc', files', B)
          /\ Scanned' = Scanned /\ InDoc' = {} /\ Had' \subseteq Had \cup InDoc /\ doc' = << >>
      BY <2>1, <2>3, <3>1, FinishCloses
    <3> QED
      BY <1>2, <2>1, <3>1, <3>2 DEF Closes, KeptApart
  <2> QED
    BY <1>1, <2>1, <2>2, <2>3
<1>3. CASE ExpireDocument
  <2>1. /\ FinishDocument /\ owner' = owner
        /\ blurred' = blurred \cup {owner[doc[i]] : i \in DOMAIN doc}
    BY <1>3 DEF ExpireDocument
  <2> DEFINE B == blurred \cup {owner[doc[i]] : i \in DOMAIN doc}
  <2>2. /\ Apart(owner', doc', files', B)
        /\ Scanned' = Scanned /\ InDoc' = {} /\ Had' \subseteq Had \cup InDoc /\ doc' = << >>
    BY <2>1, FinishCloses
  <2>3. InDoc \subseteq B
    BY DEF InDoc, Of, Range
  <2>4. blurred \subseteq B /\ blurred' = B
    BY <2>1
  <2> HIDE DEF B
  <2> QED
    BY <1>3, <2>2, <2>3, <2>4 DEF Closes, KeptApart
<1>4. CASE Teardown
  <2>1. FinishDocument /\ owner' = owner /\ blurred' = blurred
    BY <1>4 DEF Teardown
  <2>2. /\ Apart(owner', doc', files', blurred)
        /\ Scanned' = Scanned /\ InDoc' = {} /\ Had' \subseteq Had \cup InDoc /\ doc' = << >>
    BY <2>1, FinishCloses
  <2> QED
    BY <1>4, <2>1, <2>2 DEF Closes, KeptApart
<1>5. ASSUME NEW n \in 1 .. MaxFeed, ScanDone(n)
      PROVE  KeptApart' /\ blurred \subseteq blurred' /\ Files(n)
  <2> DEFINE single == flavor = "WalkupScan" \/ job.src = "feeder"
  <2>1. n \in Nat /\ cur.visit \in Nat /\ single \in BOOLEAN
    BY DEF TypeInv, SessionTypes
  <2>2. FilePages(cur.fmt, n, cur.visit, single) /\ blurred' = blurred
    BY <1>5 DEF ScanDone
  <2>3. /\ Apart(owner, doc, files, blurred)
        /\ cur.visit \in blurred \/ Of(doc, owner) \ blurred \subseteq {cur.visit}
        /\ cur.visit \notin Filed(files, owner) \ blurred
    BY <1>5 DEF ScanDone, JoinInv, OverInv, MayScan, Acting, Only, InDoc, Had, KeptApart
  <2> HIDE DEF single
  <2>4. /\ Apart(owner', doc', files', blurred)
        /\ Range(owner') \subseteq Range(owner) \cup {cur.visit}
        /\ Of(doc', owner') \subseteq Of(doc, owner) \cup {cur.visit}
        /\ Filed(files', owner') \subseteq
              Filed(files, owner) \cup (IF single THEN Of(doc, owner) \cup {cur.visit} ELSE {})
    BY <2>1, <2>2, <2>3, FilePagesApart
  <2>5. flavor = "WalkupScan" /\ doc = << >> => doc' = << >>
    BY <2>2 DEF FilePages, FilePdf, FileJpegs, SavePdf, single
  <2> QED
    BY <1>5, <2>2, <2>4, <2>5 DEF Files, KeptApart, InDoc, Had, Scanned, single
<1>6. \/ GetCompEvent \/ ExpireDocument \/ Teardown \/ \E n \in 1 .. MaxFeed : ScanDone(n)
      \/ UNCHANGED docVars /\ blurred \subseteq blurred'
  BY DEF Next, SessionStep, PanelStep, Terminated, vars, Setup, Baseline, PollAnswered, PollFails,
         LoopEnds, Tick, GetDestination, ScanFails, ScannerIdle, SelectHost, PressStart,
         AddPage, PressDone, OtherScans, Leave, Forget, userUnchanged
<1> QED
  BY <1>1, <1>2, <1>3, <1>4, <1>5, <1>6

\* What an event of the printer changes.
LEMMA PostUnseen ==
  ASSUME TypeInv, StampInv, NEW type, NEW d, NEW v, Post(type, d, v), UNCHANGED flavor
  PROVE  /\ row'.visit = v
         /\ flavor = "WalkupScan" => comp' = comp /\ EvType' = EvType
         /\ flavor # "WalkupScan" => comp'.visit = v /\ EvType' = type
BY DEF TypeInv, SessionTypes, PanelTypes, StampInv, Post, EvType

\* The steps that do something about visits; [Next]_vars is one of them.
Quiet ==
    /\ UNCHANGED <<panelVars, flavor>>
    /\ UNCHANGED <<pc, cur, seen, job, scanned>> \/ ~Live'
       \/ (UNCHANGED scanned /\ Live /\ pc' \in {"baseline", "poll", "tick"})
    /\ Live' => seen' \in {seen, row.stamp}
    /\ cur'.visit <= visit
Asks ==
    /\ UNCHANGED <<panelVars, flavor, scanned>>
    /\ pc' = "dest" /\ seen' = row.stamp /\ cur'.visit = row.visit
    /\ row.stamp # 0 /\ Unseen /\ pc = "poll"
AsksOn ==
    /\ UNCHANGED <<panelVars, flavor, seen>>
    /\ pc = "dest" /\ cur'.visit = cur.visit
    /\ \/ flavor = "WalkupScan" /\ pc' = "wait"
       \/ flavor # "WalkupScan" /\ pc' = "comp" /\ UNCHANGED scanned
Acts ==
    /\ UNCHANGED <<panelVars, flavor, seen>>
    /\ pc = "comp" /\ pc' = "wait" /\ cur'.visit = comp.visit /\ scanned'.event = comp.seq
    /\ (comp.type = "page" /\ Had' = Had) \/ (comp.type = "scan" /\ InDoc' = {})
    /\ Twice => comp.visit \in blurred'
Starts ==
    /\ UNCHANGED <<panelVars, flavor, seen, cur, scanned>>
    /\ pc = "wait" /\ pc' = "job"
    /\ job'.visit = IF panel = "scan" /\ panelDest # 0 THEN visit ELSE 0
    /\ cur.visit = visit \/ {cur.visit, visit} \subseteq blurred'
Gone ==
    /\ UNCHANGED <<pc, cur, seen, job, flavor, comp, visit, scanned>>
    /\ panel' = "idle" /\ row' \in {row, NoRow}
PanelEvent ==
    /\ UNCHANGED <<pc, cur, seen, job, flavor, scanned>>
    /\ \/ \E d \in dests \cup {0} : SelectHost(d)
       \/ \E fmt \in Formats : PressStart(fmt)
       \/ AddPage \/ PressDone \/ OtherScans

LEMMA Moves ==
  ASSUME TypeInv, VisitInv, StampInv, [Next]_vars
  PROVE  \/ Quiet \/ Asks \/ AsksOn \/ Acts \/ Starts \/ Gone \/ PanelEvent
         \/ \E n \in 1 .. MaxFeed : ScanDone(n)
<1> USE DEF Goto, Returns, Live
<1>1. NoEvent.visit = 0 /\ 0 <= visit /\ cur.visit <= visit /\ row.visit <= visit
  BY DEF NoEvent, VisitInv, TypeInv, PanelTypes
<1>2. CASE Setup
  BY <1>1, <1>2 DEF Setup, Quiet, Registered, RegisterFails
<1>3. CASE Baseline \/ PollFails \/ LoopEnds \/ Tick \/ Teardown \/ ExpireDocument
  BY <1>1, <1>3 DEF Baseline, PollFails, LoopEnds, LoopReturns, Tick, Teardown, ExpireDocument,
                    Quiet, entryVars, panelVars
<1>4. CASE ScanFails
  BY <1>1, <1>4 DEF ScanFails, Quiet, entryVars
<1>5. CASE PollAnswered
  <2>1. CASE pc' = "tick"
    <3>1. /\ UNCHANGED <<panelVars, flavor, scanned>> /\ pc = "poll"
          /\ seen' \in {seen, row.stamp} /\ cur' = cur
      BY <1>5, <2>1 DEF PollAnswered, entryVars, panelVars
    <3> QED
      BY <1>1, <2>1, <3>1 DEF Quiet
  <2>2. CASE pc' = "dest"
    <3>1. /\ UNCHANGED <<panelVars, flavor, scanned>> /\ pc = "poll" /\ seen' = row.stamp
          /\ row.stamp \notin {0, seen} /\ cur'.visit = row.visit
      BY <1>5, <2>2 DEF PollAnswered, entryVars, TypeInv, SessionTypes
    <3> QED
      BY <2>2, <3>1 DEF Asks, Unseen
  <2> QED
    BY <1>5, <2>1, <2>2 DEF PollAnswered
<1>6. CASE GetDestination
  <2>1. UNCHANGED <<panelVars, flavor, seen>> /\ pc = "dest"
    BY <1>6 DEF GetDestination, entryVars, Registered, RegisterFails
  <2>2. CASE pc' = "tick"
    <3>1. scanned' = scanned /\ cur' = NoEvent
      BY <1>6, <2>2 DEF GetDestination, Scans
    <3> QED
      BY <1>1, <2>1, <2>2, <3>1 DEF Quiet
  <2>3. CASE pc' = "wait"
    <3>1. flavor = "WalkupScan" /\ cur'.visit = cur.visit
      BY <1>6, <2>3 DEF GetDestination, Scans
    <3> QED
      BY <2>1, <2>3, <3>1 DEF AsksOn
  <2>4. CASE pc' = "comp"
    <3>1. flavor # "WalkupScan" /\ cur' = [cur EXCEPT !.fmt = panelFmt] /\ UNCHANGED scanned
      BY <1>6, <2>4 DEF GetDestination, Scans
    <3>2. cur'.visit = cur.visit
      BY <3>1 DEF TypeInv, SessionTypes
    <3> QED
      BY <2>1, <2>4, <3>1, <3>2 DEF AsksOn
  <2> QED
    BY <1>6, <2>2, <2>3, <2>4 DEF GetDestination, Scans
<1>7. CASE GetCompEvent
  <2>1. UNCHANGED <<panelVars, flavor, seen>> /\ pc = "comp"
    BY <1>7 DEF GetCompEvent, entryVars
  <2>2. CASE pc' = "tick"
    <3>1. scanned' = scanned /\ cur' = NoEvent
      BY <1>7, <2>2 DEF GetCompEvent, Scans
    <3> QED
      BY <1>1, <2>1, <2>2, <3>1 DEF Quiet
  <2>3. CASE pc' # "tick"
    <3>1. /\ pc' = "wait" /\ comp.type \in {"scan", "page"}
          /\ Scans(comp.seq, comp.visit, cur.fmt)
          /\ comp.seq = scanned.event => comp.visit \in blurred'
          /\ comp.type = "scan" => FinishDocument /\ UNCHANGED owner
      BY <1>7, <2>3 DEF GetCompEvent, ScanRequested, Scans
    <3>2. cur'.visit = comp.visit /\ scanned'.event = comp.seq
      BY <3>1 DEF Scans
    <3>3. comp.type = "scan" => InDoc' = {}
      <4>1. comp.type = "scan" => doc' = << >>
        BY <3>1 DEF FinishDocument, SavePdf
      <4> QED
        BY <4>1 DEF InDoc, Of, Range
    <3>4. comp.type = "page" => Had' = Had
      BY <1>7 DEF GetCompEvent, Had
    <3>5. Twice => comp.visit \in blurred'
      BY <3>1 DEF Twice
    <3> QED
      BY <2>1, <3>1, <3>2, <3>3, <3>4, <3>5 DEF Acts
  <2> QED
    BY <2>2, <2>3
<1>8. ASSUME NEW s \in Sources, ScannerIdle(s) PROVE Starts
  <2>1. job'.visit = IF panel = "scan" /\ panelDest # 0 THEN visit ELSE 0
    BY <1>8 DEF ScannerIdle, Settings, NoJob
  <2> QED
    BY <1>8, <2>1 DEF ScannerIdle, WaitIdle, Starts, entryVars
<1>9. CASE Leave \/ Forget
  BY <1>9 DEF Leave, Forget, LeavePanel, Gone, sessionVars, entryVars
<1>10. CASE PanelStep /\ ~Leave /\ ~Forget
  <2>1. UNCHANGED <<pc, cur, seen, job, flavor, scanned>>
    BY <1>10 DEF PanelStep, SelectHost, PressStart, AddPage, PressDone, OtherScans, userUnchanged,
                 sessionVars, entryVars
  <2> QED
    BY <1>10, <2>1 DEF PanelStep, PanelEvent
<1>11. CASE UNCHANGED vars
  BY <1>1, <1>11 DEF vars, sessionVars, entryVars, Quiet
<1> QED
  BY <1>2, <1>3, <1>4, <1>5, <1>6, <1>7, <1>8, <1>9, <1>10, <1>11 DEF Next, SessionStep, Terminated

\* What is scanned for twice stays so while nothing happens.
LEMMA TwiceKept ==
  ASSUME UNCHANGED <<flavor, comp, scanned>>
  PROVE  Twice' = Twice
BY DEF Twice

\* A new event is the only one that is not scanned for.
LEMMA PostOnce ==
  ASSUME TypeInv, CompInv, ScannedInv, NEW type, NEW d, NEW v, Post(type, d, v),
         UNCHANGED <<flavor, scanned>>
  PROVE  ~Twice'
BY DEF TypeInv, PanelTypes, HistoryTypes, CompInv, ScannedInv, Post, Twice

LEMMA FlavorAlone ==
  ASSUME [Next]_vars
  PROVE  flavor' = flavor /\ (UNCHANGED comp => EvType' = EvType)
<1>1. flavor' = flavor
  BY EntryAlone DEF entryVars, Setup, GetDestination, Registered, RegisterFails, Teardown, Forget
<1> QED
  BY <1>1 DEF EvType

\* What the invariants below need of DocMoves, step by step.
LEMMA DocBounds ==
  ASSUME TypeInv, DocInv, JoinInv, OverInv, KeptApart, [Next]_vars
  PROVE  /\ \/ Scanned' = Scanned /\ InDoc' \subseteq InDoc /\ (doc = << >> => doc' = << >>)
            \/ \E n \in 1 .. MaxFeed : Files(n)
         /\ \A n \in 1 .. MaxFeed : ScanDone(n) =>
               /\ Scanned' \subseteq Scanned \cup {cur.visit}
               /\ InDoc' \subseteq InDoc \cup {cur.visit}
               /\ flavor = "WalkupScan" /\ doc = << >> => doc' = << >>
<1>1. ASSUME NEW n \in 1 .. MaxFeed, ScanDone(n) PROVE ~Closes
  BY <1>1 DEF ScanDone, Closes, GetCompEvent, ExpireDocument, Teardown
<1>2. Closes => Scanned' = Scanned /\ InDoc' \subseteq InDoc /\ doc' = << >>
  BY DEF Closes
<1>3. Leaves => Scanned' = Scanned /\ InDoc' \subseteq InDoc /\ doc' = doc
  BY DEF Leaves
<1>4. \A n : Files(n) => /\ Scanned' \subseteq Scanned \cup {cur.visit}
                         /\ InDoc' \subseteq InDoc \cup {cur.visit}
                         /\ flavor = "WalkupScan" /\ doc = << >> => doc' = << >>
  BY DEF Files
<1>5. (\E n \in 1 .. MaxFeed : Files(n)) \/ Closes \/ Leaves
  BY DocMoves
<1>6. \/ Scanned' = Scanned /\ InDoc' \subseteq InDoc /\ (doc = << >> => doc' = << >>)
      \/ \E n \in 1 .. MaxFeed : Files(n)
  BY <1>2, <1>3, <1>5
<1>7. ASSUME NEW n \in 1 .. MaxFeed, ScanDone(n)
      PROVE  /\ Scanned' \subseteq Scanned \cup {cur.visit}
             /\ InDoc' \subseteq InDoc \cup {cur.visit}
             /\ flavor = "WalkupScan" /\ doc = << >> => doc' = << >>
  <2>1. CASE Leaves
    BY <1>3, <2>1
  <2>2. CASE \E m \in 1 .. MaxFeed : Files(m)
    <3>1. PICK m \in 1 .. MaxFeed : Files(m)
      BY <2>2
    <3> QED
      BY <3>1 DEF Files
  <2> QED
    BY <1>1, <1>5, <1>7, <2>1, <2>2
<1> QED
  BY <1>6, <1>7

LEMMA VisitNext ==
  ASSUME TypeInv, DocInv, EventInv, WalkupInv, [Next]_vars
  PROVE  VisitInv'
<1> USE DEF TypeInv, SessionTypes, PanelTypes, EventInv, WalkupInv, Wants
<1>1. flavor' = flavor /\ (UNCHANGED comp => EvType' = EvType)
  BY FlavorAlone
<1>2. Scanned \subseteq Nat /\ cur.visit \in Nat /\ visit \in Nat
  BY WalkupSets
<1>3. \/ Scanned' = Scanned /\ (doc = << >> => doc' = << >>)
      \/ \E n \in 1 .. MaxFeed : Files(n)
  BY DocBounds
<1>4. \A w \in Scanned' : w <= visit
  <2>1. Scanned' \subseteq Scanned \cup {cur.visit}
    BY <1>3 DEF Files
  <2> QED
    BY <2>1 DEF VisitInv
<1>5. flavor = "WalkupScan" => doc' = << >>
  BY <1>3 DEF VisitInv, Files
<1>6. CASE Quiet \/ Asks \/ AsksOn \/ Acts \/ Starts
  <2>1. UNCHANGED <<row, comp, panel, visit, EvType>>
    BY <1>1, <1>6 DEF Quiet, Asks, AsksOn, Acts, Starts, panelVars
  <2>2. cur'.visit <= visit
    BY <1>6 DEF Quiet, Asks, AsksOn, Acts, Starts, VisitInv
  <2> QED
    BY <1>1, <1>4, <1>5, <2>1, <2>2 DEF VisitInv
<1>7. CASE Gone
  <2>1. UNCHANGED <<cur, comp, visit, EvType>> /\ panel' = "idle" /\ row' \in {row, NoRow}
    BY <1>1, <1>7 DEF Gone
  <2>2. row'.visit <= visit
    BY <2>1 DEF NoRow, VisitInv
  <2> QED
    BY <1>1, <1>4, <1>5, <2>1, <2>2 DEF VisitInv
<1>8. CASE PanelEvent
  <2>1. UNCHANGED cur
    BY <1>8 DEF PanelEvent
  <2>2. ASSUME NEW d \in dests \cup {0}, SelectHost(d) PROVE VisitInv'
    <3>1. /\ panel' = "menu" /\ visit' = visit + 1
          /\ row'.visit <= visit' /\ comp'.visit <= visit'
      <4>1. row.visit <= visit /\ comp.visit <= visit
        BY DEF VisitInv
      <4>2. CASE flavor = "WalkupScan"
        BY <2>2, <4>1, <4>2 DEF SelectHost
      <4>3. CASE flavor # "WalkupScan"
        BY <1>1, <2>2, <4>1, <4>3, PostUnseen DEF SelectHost
      <4> QED
        BY <2>2, <4>2, <4>3 DEF SelectHost
    <3>2. cur'.visit <= visit' /\ \A w \in Scanned' : w <= visit'
      <4>1. \A w \in Scanned' : w \in Nat
        BY <1>2, <1>3 DEF Files
      <4> QED
        BY <1>2, <1>4, <2>1, <3>1, <4>1 DEF VisitInv
    <3> QED
      BY <1>1, <1>5, <3>1, <3>2 DEF VisitInv
  <2>3. ASSUME NEW fmt \in Formats, PressStart(fmt) PROVE VisitInv'
    <3>1. panel' = "scan" /\ UNCHANGED visit /\ Post("scan", panelDest, visit)
      BY <2>3 DEF PressStart
    <3>2. /\ row'.visit = visit /\ EvType' = "scan" /\ comp'.visit <= visit
          /\ flavor # "WalkupScan" => comp'.visit = visit
      BY <1>1, <3>1, PostUnseen DEF VisitInv, EvType
    <3> QED
      BY <1>1, <1>4, <1>5, <2>1, <3>1, <3>2 DEF VisitInv
  <2>4. CASE AddPage
    <3>1. panel' = "scan" /\ UNCHANGED visit /\ Post("page", panelDest, visit) /\ panel = "prompt"
      BY <2>4 DEF AddPage
    <3>2. row'.visit = visit /\ EvType' = "page" /\ comp'.visit = visit
      BY <1>1, <3>1, PostUnseen DEF VisitInv
    <3> QED
      BY <1>1, <1>4, <1>5, <2>1, <3>1, <3>2 DEF VisitInv
  <2>5. CASE PressDone \/ OtherScans
    <3>1. panel' = "idle" /\ UNCHANGED visit
      BY <2>5 DEF PressDone, OtherScans, LeavePanel
    <3>2. row'.visit <= visit /\ comp'.visit <= visit
      <4>1. CASE UNCHANGED <<row, comp>>
        BY <4>1 DEF VisitInv
      <4>2. ASSUME NEW d, Post("complete", d, visit) PROVE row'.visit <= visit /\ comp'.visit <= visit
        BY <1>1, <4>2, PostUnseen DEF VisitInv
      <4> QED
        BY <2>5, <4>1, <4>2 DEF PressDone, OtherScans
    <3> QED
      BY <1>1, <1>4, <1>5, <2>1, <3>1, <3>2 DEF VisitInv
  <2> QED
    BY <1>8, <2>2, <2>3, <2>4, <2>5 DEF PanelEvent
<1>9. ASSUME NEW n \in 1 .. MaxFeed, ScanDone(n) PROVE VisitInv'
  <2>1. UNCHANGED visit /\ cur' = NoEvent
    BY <1>9 DEF ScanDone, Returns
  <2>2. /\ panel' \in {panel, "idle", "prompt"}
        /\ panel' = "prompt" => panel \in {"scan", "prompt"}
        /\ flavor = "WalkupScan" => panel' # "prompt"
    BY <1>9 DEF ScanDone, LeavePanel, Watched, VisitInv
  <2>3. cur'.visit <= visit
    BY <2>1 DEF NoEvent
  <2>4. CASE UNCHANGED <<row, comp, posted>>
    BY <1>1, <1>4, <1>5, <2>1, <2>2, <2>3, <2>4 DEF VisitInv
  <2>5. CASE Watched /\ job.src = "feeder" /\ Post("complete", panelDest, visit)
    <3>1. panel' = "idle"
      BY <1>9, <2>5 DEF ScanDone, LeavePanel
    <3>2. row'.visit = visit /\ comp'.visit <= visit
      BY <1>1, <2>5, PostUnseen DEF VisitInv
    <3> QED
      BY <1>1, <1>4, <1>5, <2>1, <2>3, <3>1, <3>2 DEF VisitInv
  <2> QED
    BY <1>9, <2>4, <2>5 DEF ScanDone
<1> QED
  BY <1>6, <1>7, <1>8, <1>9, Moves

\* What a new event may be: the first of a visit at the panel, the press of
\* start of a visit that has no pages, another page of a visit that the panel
\* asked about, or one that wants no scan.
PanelPosts ==
    \/ /\ panel' = "menu" /\ visit' = visit + 1
       /\ \/ flavor = "WalkupScan" /\ UNCHANGED <<row, comp, EvType>>
          \/ flavor # "WalkupScan" /\ EvType' = "host"
    \/ /\ panel = "menu" /\ panel' = "scan" /\ UNCHANGED visit
       /\ row'.visit = visit /\ ~Twice' /\ EvType' = "scan"
       /\ flavor = "WalkupScan" \/ comp'.visit = visit
    \/ /\ panel = "prompt" /\ panel' = "scan" /\ UNCHANGED visit /\ flavor # "WalkupScan"
       /\ row'.visit = visit /\ comp'.visit = visit /\ ~Twice' /\ EvType' = "page"
    \/ panel' = "idle" /\ UNCHANGED <<visit, row, comp, EvType>>
    \/ panel' = "idle" /\ UNCHANGED visit /\ flavor # "WalkupScan" /\ EvType' = "complete"

LEMMA PanelEventPosts ==
  ASSUME TypeInv, EventInv, VisitInv, [Next]_vars, PanelEvent
  PROVE  PanelPosts
<1> USE DEF EventInv
<1>1. flavor' = flavor /\ (UNCHANGED comp => EvType' = EvType) /\ UNCHANGED scanned
  BY FlavorAlone DEF PanelEvent
<1>2. ASSUME NEW d \in dests \cup {0}, SelectHost(d) PROVE PanelPosts
  <2>1. CASE flavor = "WalkupScan"
    BY <1>1, <1>2, <2>1 DEF SelectHost, PanelPosts
  <2>2. CASE flavor # "WalkupScan"
    <3>1. EvType' = "host"
      BY <1>1, <1>2, <2>2, PostUnseen DEF SelectHost
    <3> QED
      BY <1>2, <2>2, <3>1 DEF SelectHost, PanelPosts
  <2> QED
    BY <2>1, <2>2
<1>3. ASSUME NEW fmt \in Formats, PressStart(fmt) PROVE PanelPosts
  <2>1. panel = "menu" /\ panel' = "scan" /\ UNCHANGED visit /\ Post("scan", panelDest, visit)
    BY <1>3 DEF PressStart
  <2>2. /\ row'.visit = visit /\ EvType' = "scan" /\ ~Twice'
        /\ flavor # "WalkupScan" => comp'.visit = visit
    BY <1>1, <2>1, PostUnseen, PostOnce DEF EvType
  <2> QED
    BY <2>1, <2>2 DEF PanelPosts
<1>4. CASE AddPage
  <2>1. panel = "prompt" /\ panel' = "scan" /\ UNCHANGED visit /\ Post("page", panelDest, visit)
        /\ flavor # "WalkupScan"
    BY <1>4 DEF AddPage, VisitInv
  <2>2. row'.visit = visit /\ EvType' = "page" /\ ~Twice' /\ comp'.visit = visit
    BY <1>1, <2>1, PostUnseen, PostOnce
  <2> QED
    BY <2>1, <2>2 DEF PanelPosts
<1>5. CASE PressDone \/ OtherScans
  <2>1. panel' = "idle" /\ UNCHANGED visit
    BY <1>5 DEF PressDone, OtherScans, LeavePanel
  <2>2. CASE UNCHANGED <<row, comp, posted>>
    BY <1>1, <2>1, <2>2 DEF PanelPosts
  <2>3. ASSUME NEW d, flavor # "WalkupScan", Post("complete", d, visit) PROVE PanelPosts
    <3>1. EvType' = "complete"
      BY <1>1, <2>3, PostUnseen
    <3> QED
      BY <2>1, <2>3, <3>1 DEF PanelPosts
  <2> QED
    BY <1>5, <2>2, <2>3 DEF PressDone, OtherScans, VisitInv
<1> QED
  BY <1>2, <1>3, <1>4, <1>5 DEF PanelEvent

\* What the steps of the session change about events.
LEMMA QuietKeeps ==
  ASSUME TypeInv, Quiet, [Next]_vars
  PROVE  /\ UNCHANGED <<row, comp, panel, visit, EvType>>
         /\ Asking' \/ Acting' => UNCHANGED <<pc, cur, seen, job, scanned>>
         /\ Unseen' => Unseen /\ UNCHANGED scanned
<1> USE DEF Live, Unseen, Asking, Acting, Quiet
<1>1. UNCHANGED <<row, comp, panel, visit, EvType>>
  BY FlavorAlone DEF panelVars
<1>2. Asking' \/ Acting' => UNCHANGED <<pc, cur, seen, job, scanned>>
  OBVIOUS
<1>3. Unseen' => Unseen /\ UNCHANGED scanned
  BY <1>1
<1> QED
  BY <1>1, <1>2, <1>3

LEMMA AsksKeeps ==
  ASSUME TypeInv, EventInv, Asks, [Next]_vars
  PROVE  /\ UNCHANGED <<row, comp, panel, visit, EvType, Twice>>
         /\ cur'.visit = row.visit /\ Asked' = row.visit
         /\ Unseen /\ ~Unseen' /\ Asking' /\ ~Acting' /\ pc' # "job"
<1> USE DEF Live, Unseen, Asking, Acting, Asks, EventInv
<1>1. UNCHANGED <<row, comp, panel, visit, EvType>>
  BY FlavorAlone DEF panelVars
<1>2. Twice' = Twice
  BY <1>1, TwiceKept
<1>3. Asked' = row.visit
  BY <1>1 DEF Asked, CompInv
<1> QED
  BY <1>1, <1>2, <1>3

LEMMA AsksOnKeeps ==
  ASSUME TypeInv, AsksOn, [Next]_vars
  PROVE  /\ UNCHANGED <<row, comp, panel, visit, EvType, seen, Twice, Asked>>
         /\ cur'.visit = cur.visit /\ Unseen' = Unseen
         /\ Asking /\ ~Acting /\ pc' # "job"
         /\ Acting' => flavor = "WalkupScan" /\ EvType = "scan" /\ ~Twice /\ Asked = cur.visit
<1> USE DEF Live, Unseen, Asking, Acting, AsksOn
<1>1. UNCHANGED <<row, comp, panel, visit, EvType, seen, flavor>>
  BY FlavorAlone DEF panelVars
<1>2. Twice' = Twice
  BY <1>1, TwiceKept DEF Twice
<1>3. Asked' = Asked
  BY <1>1 DEF Asked
<1>4. Acting' => flavor = "WalkupScan" /\ EvType = "scan" /\ ~Twice /\ Asked = cur.visit
  BY DEF EvType, Twice, Asked
<1>5. Unseen' = Unseen
  BY <1>1
<1> QED
  BY <1>1, <1>2, <1>3, <1>4, <1>5

LEMMA ActsKeeps ==
  ASSUME TypeInv, EventInv, Acts, [Next]_vars
  PROVE  /\ UNCHANGED <<row, comp, panel, visit, EvType, seen>>
         /\ cur'.visit = comp.visit /\ Asked = comp.visit /\ EvType = comp.type
         /\ Asking /\ Wants /\ flavor # "WalkupScan" /\ Twice'
         /\ Unseen' = Unseen /\ ~Asking' /\ Acting' /\ pc' # "job"
<1> USE DEF Live, Unseen, Asking, Acting, Acts, EventInv
<1>1. UNCHANGED <<row, comp, panel, visit, EvType, seen, flavor>>
  BY FlavorAlone DEF panelVars
<1>2. flavor # "WalkupScan"
  BY DEF CurInv
<1>3. Twice'
  BY <1>1, <1>2 DEF Twice
<1>4. Asked = comp.visit /\ EvType = comp.type /\ Wants
  BY <1>2 DEF Asked, EvType, Wants
<1>5. Unseen' = Unseen
  BY <1>1
<1> QED
  BY <1>1, <1>2, <1>3, <1>4, <1>5

LEMMA StartsKeeps ==
  ASSUME TypeInv, Starts, [Next]_vars
  PROVE  /\ UNCHANGED <<row, comp, panel, visit, EvType, seen, cur, Twice>>
         /\ Unseen' = Unseen /\ Acting /\ ~Asking'
<1> USE DEF Live, Unseen, Asking, Acting, Starts
<1>1. UNCHANGED <<row, comp, panel, visit, EvType, seen, flavor>>
  BY FlavorAlone DEF panelVars
<1>2. Twice' = Twice
  BY <1>1, TwiceKept
<1>3. Unseen' = Unseen
  BY <1>1
<1> QED
  BY <1>1, <1>2, <1>3

LEMMA GoneKeeps ==
  ASSUME TypeInv, Gone, [Next]_vars
  PROVE  /\ UNCHANGED <<pc, cur, seen, job, comp, visit, EvType, Twice, Asked>>
         /\ UNCHANGED <<Asking, Acting>>
         /\ panel' = "idle" /\ (Unseen' => Unseen /\ row' = row)
<1> USE DEF Live, Unseen, Asking, Acting, Gone
<1>1. UNCHANGED <<pc, cur, seen, job, comp, visit, EvType, flavor>> /\ panel' = "idle"
  BY FlavorAlone
<1>2. Twice' = Twice /\ Asked' = Asked
  BY <1>1, TwiceKept DEF Asked
<1>3. Unseen' => Unseen /\ row' = row
  BY <1>1 DEF NoRow
<1>4. UNCHANGED <<Asking, Acting>>
  BY <1>1
<1> QED
  BY <1>1, <1>2, <1>3, <1>4

\* While events come and go, the session is where it was.
LEMMA PanelKeeps ==
  ASSUME TypeInv, PanelEvent, [Next]_vars
  PROVE  /\ UNCHANGED <<pc, cur, seen, job, flavor, scanned, Asking, Acting>>
         /\ flavor = "WalkupScan" => Asked' = Asked /\ ~Twice /\ ~Twice'
         /\ flavor # "WalkupScan" => Asked' = comp'.visit
         /\ UNCHANGED comp => UNCHANGED <<Twice, Asked>>
         /\ UNCHANGED row => UNCHANGED Unseen
<1>1. UNCHANGED <<pc, cur, seen, job, flavor, scanned, Asking, Acting>>
  BY DEF PanelEvent, Asking, Acting
<1>2. /\ flavor = "WalkupScan" => Asked' = Asked /\ ~Twice /\ ~Twice'
      /\ flavor # "WalkupScan" => Asked' = comp'.visit
      /\ UNCHANGED comp => UNCHANGED <<Twice, Asked>>
  BY <1>1 DEF Asked, Twice
<1>3. UNCHANGED row => UNCHANGED Unseen
  BY <1>1 DEF Unseen, Live
<1> QED
  BY <1>1, <1>2, <1>3

\* A scan ends: what the panel and the table make of it.
LEMMA DoneKeeps ==
  ASSUME TypeInv, EventInv, VisitInv, NEW n \in 1 .. MaxFeed, ScanDone(n), [Next]_vars
  PROVE  /\ pc = "job" /\ Acting /\ ~Asking /\ ~Asking' /\ ~Acting'
         /\ UNCHANGED <<visit, seen, blurred, scanned, flavor>>
         /\ panel' \in {panel, "idle", "prompt"}
         /\ panel' = "prompt" =>
               \/ panel = "prompt"
               \/ panel = "scan" /\ job.visit = visit /\ visit # 0
                  /\ flavor # "WalkupScan" /\ job.src # "feeder"
         /\ \/ UNCHANGED <<row, comp, EvType, Twice, Unseen>>
            \/ EvType' = "complete" /\ panel' = "idle" /\ flavor # "WalkupScan"
<1> USE DEF EventInv
<1>1. pc = "job" /\ pc' = "tick" /\ UNCHANGED <<visit, seen, blurred, scanned, flavor>>
  BY FlavorAlone DEF ScanDone, Returns, Goto
<1>2. /\ panel' \in {panel, "idle", "prompt"}
      /\ panel' = "prompt" =>
            \/ panel = "prompt"
            \/ panel = "scan" /\ job.visit = visit /\ flavor # "WalkupScan" /\ job.src # "feeder"
  BY DEF ScanDone, LeavePanel, Watched
<1>3. CASE UNCHANGED <<row, comp, posted>>
  <2>1. UNCHANGED <<EvType, Twice, Unseen>>
    BY <1>1, <1>3, FlavorAlone, TwiceKept DEF Unseen, Live
  <2> QED
    BY <1>1, <1>2, <1>3, <2>1 DEF Asking, Acting, StampInv
<1>4. CASE Watched /\ job.src = "feeder" /\ flavor # "WalkupScan"
           /\ Post("complete", panelDest, visit)
  <2>1. EvType' = "complete" /\ panel' = "idle"
    BY <1>1, <1>4, PostUnseen DEF ScanDone, LeavePanel
  <2> QED
    BY <1>1, <1>2, <1>4, <2>1 DEF Asking, Acting, StampInv
<1> QED
  BY <1>3, <1>4 DEF ScanDone

LEMMA FreshNext ==
  ASSUME TypeInv, DocInv, EventInv, WalkupInv, [Next]_vars
  PROVE  FreshInv'
<1>1. VisitInv /\ flavor' = flavor
  BY FlavorAlone DEF WalkupInv
<1>2. /\ cur.visit \in Nat /\ visit \in Nat /\ visit + 1 \notin Scanned
      /\ cur.visit <= visit /\ row.visit <= visit
  BY WalkupSets DEF VisitInv, WalkupInv, TypeInv, PanelTypes, SessionTypes
<1>3. flavor = "WalkupScan" => EvType = "scan" /\ EvType' = "scan" /\ ~Twice /\ ~Twice'
  BY <1>1 DEF EvType, Twice
<1>4. Scanned' = Scanned \/ \E n \in 1 .. MaxFeed : ScanDone(n)
  BY DocBounds DEF Files, WalkupInv
<1>5. FreshInv
  BY DEF WalkupInv
<1>6. CASE ~\E n \in 1 .. MaxFeed : ScanDone(n)
  <2>1. Scanned' = Scanned
    BY <1>4, <1>6
  <2>2. CASE Quiet
    <3>1. /\ UNCHANGED <<row, comp, panel, visit, EvType>>
          /\ Asking' \/ Acting' => UNCHANGED <<pc, cur, seen, job, scanned>>
          /\ Unseen' => Unseen /\ UNCHANGED scanned
      BY <2>2, QuietKeeps
    <3>2. /\ Asking' => Asking /\ UNCHANGED <<Twice, Asked>>
          /\ Acting' => Acting
          /\ Unseen' => UNCHANGED Twice
      BY <1>1, <3>1, TwiceKept DEF Asking, Acting, Asked
    <3> QED
      BY <1>1, <1>5, <2>1, <3>1, <3>2 DEF FreshInv, Wants
  <2>3. CASE Asks
    BY <1>1, <1>5, <2>1, <2>3, AsksKeeps DEF FreshInv, Wants
  <2>4. CASE AsksOn
    <3>1. Asking' => Asking
      BY <2>4, AsksOnKeeps
    <3> QED
      BY <1>1, <1>5, <2>1, <2>4, <3>1, AsksOnKeeps DEF FreshInv, Wants
  <2>5. CASE Acts
    BY <1>1, <1>5, <2>1, <2>5, ActsKeeps DEF FreshInv, Wants
  <2>6. CASE Starts
    BY <1>1, <1>5, <2>1, <2>6, StartsKeeps DEF FreshInv, Wants
  <2>7. CASE Gone
    BY <1>1, <1>5, <2>1, <2>7, GoneKeeps DEF FreshInv
  <2>8. CASE PanelEvent
    <3>1. PanelPosts
      BY <1>1, <2>8, PanelEventPosts
    <3>2. /\ UNCHANGED <<cur, flavor, Asking, Acting>>
          /\ flavor = "WalkupScan" => Asked' = Asked /\ Asked = cur.visit
          /\ flavor # "WalkupScan" => Asked' = comp'.visit
          /\ UNCHANGED <<row, comp>> => UNCHANGED <<Twice, Asked, Unseen>>
      BY <2>8, PanelKeeps DEF Asked
    <3>3. CASE panel' = "menu" /\ visit' = visit + 1
      <4>1. CASE flavor = "WalkupScan" /\ UNCHANGED <<row, comp, EvType>>
        BY <1>2, <1>3, <1>5, <2>1, <3>2, <3>3, <4>1 DEF FreshInv, TypeInv, PanelTypes
      <4>2. CASE flavor # "WalkupScan" /\ EvType' = "host"
        BY <1>2, <1>5, <2>1, <3>2, <3>3, <4>2 DEF FreshInv, Wants
      <4> QED
        BY <3>1, <3>3, <4>1, <4>2 DEF PanelPosts
    <3>4. CASE /\ panel = "menu" /\ panel' = "scan" /\ UNCHANGED visit
               /\ row'.visit = visit /\ ~Twice' /\ EvType' = "scan"
               /\ flavor = "WalkupScan" \/ comp'.visit = visit
      BY <1>3, <1>5, <2>1, <3>2, <3>4 DEF FreshInv, Wants
    <3>5. CASE panel' # "menu" /\ EvType' # "scan" /\ flavor # "WalkupScan"
      BY <2>1, <3>2, <3>5 DEF FreshInv
    <3>6. CASE panel' = "idle" /\ UNCHANGED <<visit, row, comp, EvType>>
      BY <1>5, <2>1, <3>2, <3>6 DEF FreshInv
    <3> QED
      BY <3>1, <3>3, <3>4, <3>5, <3>6 DEF PanelPosts
  <2> QED
    BY <1>1, <1>6, <2>2, <2>3, <2>4, <2>5, <2>6, <2>7, <2>8, Moves DEF EventInv
<1>7. ASSUME NEW n \in 1 .. MaxFeed, ScanDone(n) PROVE FreshInv'
  <2>1. Scanned' \subseteq Scanned \cup {cur.visit}
    BY <1>7, DocBounds DEF WalkupInv
  <2> QED
    BY <1>1, <1>5, <1>7, <2>1, DoneKeeps DEF FreshInv, Wants
<1> QED
  BY <1>6, <1>7

LEMMA JoinNext ==
  ASSUME TypeInv, DocInv, EventInv, WalkupInv, [Next]_vars
  PROVE  JoinInv'
<1>1. VisitInv /\ FreshInv /\ flavor' = flavor
  BY FlavorAlone DEF WalkupInv
<1>2. blurred \subseteq blurred'
  BY DocMoves DEF WalkupInv
<1>3. flavor = "WalkupScan" => /\ EvType = "scan" /\ EvType' = "scan" /\ InDoc = {}
                               /\ panel # "prompt"
  BY <1>1 DEF EvType, VisitInv, InDoc, Of, Range
<1> DEFINE May(x) == Only(InDoc, blurred, x)
           Later(x) == Only(InDoc', blurred', x)
<1>4. ASSUME ~\E n \in 1 .. MaxFeed : ScanDone(n) PROVE \A x : May(x) => Later(x)
  <2>1. InDoc' \subseteq InDoc
    BY <1>4, DocBounds DEF Files, WalkupInv
  <2> QED
    BY <1>2, <2>1 DEF Only
<1>5. /\ InDoc' = {} => \A x : Later(x)
      /\ InDoc = {} => \A x : May(x)
      /\ \A x \in blurred' : Later(x)
  BY DEF Only
<1> HIDE DEF May, Later
<1>6. /\ pc = "job" /\ job.visit # 0 => job.visit \in blurred \/ cur.visit = job.visit
      /\ panel = "prompt" =>
            May(visit) /\ (visit \in blurred \/ (~Acting /\ (Asking \/ Unseen => Twice)))
      /\ Unseen /\ EvType = "page" /\ ~Twice =>
            May(row.visit) /\ (row.visit \in blurred \/ ~Acting)
      /\ Asking /\ EvType = "page" /\ ~Twice => May(Asked)
      /\ Acting => May(cur.visit)
  BY DEF JoinInv, WalkupInv, May
<1>7. SUFFICES
        /\ pc' = "job" /\ job'.visit # 0 => job'.visit \in blurred' \/ cur'.visit = job'.visit
        /\ panel' = "prompt" =>
              /\ Later(visit')
              /\ visit' \in blurred' \/ (~Acting' /\ (Asking' \/ Unseen' => Twice'))
        /\ Unseen' /\ EvType' = "page" /\ ~Twice' =>
              Later(row'.visit) /\ (row'.visit \in blurred' \/ ~Acting')
        /\ Asking' /\ EvType' = "page" /\ ~Twice' => Later(Asked')
        /\ Acting' => Later(cur'.visit)
  BY DEF JoinInv, Later
<1>8. CASE ~\E n \in 1 .. MaxFeed : ScanDone(n)
  <2>1. \A x : May(x) => Later(x)
    BY <1>4, <1>8
  <2>2. CASE Quiet
    <3>1. /\ UNCHANGED <<row, comp, panel, visit, EvType>>
          /\ Asking' \/ Acting' => UNCHANGED <<pc, cur, seen, job, scanned>>
          /\ Unseen' => Unseen /\ UNCHANGED scanned
      BY <2>2, QuietKeeps
    <3>2. /\ Asking' => Asking /\ UNCHANGED <<Twice, Asked>>
          /\ Acting' => Acting
          /\ pc' = "job" => pc = "job" /\ UNCHANGED <<job, cur>>
          /\ Unseen' => UNCHANGED Twice
      BY <1>1, <3>1, TwiceKept DEF Asking, Acting, Asked
    <3> QED
      BY <1>2, <1>6, <2>1, <3>1, <3>2
  <2>3. CASE Asks
    BY <1>2, <1>6, <2>1, <2>3, AsksKeeps
  <2>4. CASE AsksOn
    <3>1. Acting' => Later(cur'.visit) /\ panel' # "prompt" /\ EvType' # "page"
      BY <1>3, <1>5, <2>1, <2>4, AsksOnKeeps
    <3> QED
      BY <1>2, <1>6, <2>1, <2>4, <3>1, AsksOnKeeps
  <2>5. CASE Acts
    <3>1. Later(comp.visit)
      <4>1. CASE Twice
        BY <1>5, <2>5, <4>1 DEF Acts
      <4>2. CASE ~Twice /\ comp.type = "page"
        BY <1>6, <2>1, <2>5, <4>2, ActsKeeps
      <4>3. CASE InDoc' = {}
        BY <1>5, <4>3
      <4> QED
        BY <2>5, <4>1, <4>2, <4>3 DEF Acts
    <3>2. panel' = "prompt" => visit' \in blurred'
      <4>1. panel = "prompt" => visit = comp.visit
        BY <1>1, <2>5, ActsKeeps DEF VisitInv
      <4>2. panel = "prompt" => visit \in blurred \/ Twice
        BY <1>6, <2>5, ActsKeeps
      <4>3. Twice => comp.visit \in blurred'
        BY <2>5 DEF Acts
      <4> QED
        BY <1>2, <2>5, <4>1, <4>2, <4>3, ActsKeeps
    <3> QED
      BY <1>5, <2>5, <3>1, <3>2, ActsKeeps
  <2>6. CASE Starts
    <3>1. /\ job'.visit = visit \/ job'.visit = 0
          /\ cur.visit = visit \/ visit \in blurred'
      BY <2>6 DEF Starts
    <3> QED
      BY <1>2, <1>6, <2>1, <2>6, <3>1, StartsKeeps
  <2>7. CASE Gone
    BY <1>2, <1>6, <2>1, <2>7, GoneKeeps
  <2>8. CASE PanelEvent
    <3>1. PanelPosts
      BY <1>1, <2>8, PanelEventPosts
    <3>2. /\ panel' # "prompt"
          /\ EvType' = "page" =>
                \/ UNCHANGED <<row, comp, EvType>>
                \/ panel = "prompt" /\ flavor # "WalkupScan" /\ UNCHANGED visit
                   /\ row'.visit = visit /\ comp'.visit = visit
      BY <1>3, <3>1 DEF PanelPosts
    <3> QED
      BY <1>2, <1>6, <2>1, <2>8, <3>2, PanelKeeps
  <2> QED
    BY <1>1, <1>8, <2>2, <2>3, <2>4, <2>5, <2>6, <2>7, <2>8, Moves DEF EventInv
<1>9. ASSUME NEW n \in 1 .. MaxFeed, ScanDone(n)
      PROVE  /\ ~Asking' /\ ~Acting' /\ pc' # "job"
             /\ panel' = "prompt" =>
                   Later(visit') /\ (visit' \in blurred' \/ (Unseen' => Twice'))
             /\ Unseen' /\ EvType' = "page" /\ ~Twice' => Later(row'.visit)
  <2>1. InDoc' \subseteq InDoc \cup {cur.visit} /\ blurred' = blurred
    BY <1>1, <1>9, DocBounds, DoneKeeps DEF WalkupInv
  <2>2. May(cur.visit)
    BY <1>1, <1>6, <1>9, DoneKeeps
  <2>3. Later(cur.visit) /\ \A x \in blurred : Later(x)
    BY <2>1, <2>2 DEF May, Later, Only
  <2>4. Unseen' /\ EvType' = "page" /\ ~Twice' => Later(row'.visit)
    BY <1>1, <1>6, <1>9, <2>3, DoneKeeps
  <2>5. panel' = "prompt" => visit \in blurred \/ cur.visit = visit
    BY <1>1, <1>6, <1>9, DoneKeeps
  <2>6. ASSUME panel' = "prompt", visit \notin blurred, Unseen', ~Twice' PROVE FALSE
    <3>1. panel = "scan" /\ flavor # "WalkupScan"
      BY <1>1, <1>6, <1>9, <2>6, DoneKeeps
    <3>2. UNCHANGED <<row, comp, EvType, Twice, Unseen>>
      BY <1>1, <1>9, <2>6, DoneKeeps
    <3>3. EvType \in {"scan", "page"} /\ comp.visit = visit
      BY <1>1, <3>1 DEF VisitInv, Wants
    <3>4. row.visit = visit
      BY <2>6, <3>1, <3>2, <3>3 DEF EventInv, CompInv, Unseen
    <3>5. EvType # "scan"
      BY <1>1, <1>9, <2>5, <2>6, <3>2, <3>4, DoneKeeps DEF FreshInv
    <3>6. EvType # "page"
      BY <1>1, <1>6, <1>9, <2>6, <3>2, <3>4, DoneKeeps
    <3> QED
      BY <3>3, <3>5, <3>6
  <2>7. ~Asking' /\ ~Acting' /\ pc' # "job" /\ visit' = visit
    BY <1>1, <1>9, DoneKeeps DEF Acting
  <2> QED
    BY <2>1, <2>3, <2>4, <2>5, <2>6, <2>7
<1> QED
  BY <1>8, <1>9

\* A session that ended stays so.
LEMMA DoneStays ==
  ASSUME [Next]_vars, pc = "done"
  PROVE  pc' = "done"
<1>1. ~SessionStep /\ ~ExpireDocument
  BY DEF SessionStep, Setup, Baseline, PollAnswered, PollFails, LoopEnds, Tick, GetDestination,
         GetCompEvent, ScanFails, Teardown, ScannerIdle, WaitIdle, ScanDone, ExpireDocument
<1>2. CASE PanelStep
  BY <1>2, SessionAlone DEF sessionVars
<1>3. CASE UNCHANGED vars
  BY <1>3 DEF vars, sessionVars
<1> QED
  BY <1>1, <1>2, <1>3 DEF Next, Terminated

LEMMA OverNext ==
  ASSUME TypeInv, DocInv, EventInv, WalkupInv, [Next]_vars
  PROVE  OverInv'
<1>1. VisitInv /\ FreshInv /\ JoinInv /\ flavor' = flavor
  BY FlavorAlone DEF WalkupInv
<1>2. SUFFICES ASSUME pc' # "done", NEW w \in Had', w \notin blurred' PROVE ~MayScan(w)'
  BY DEF OverInv
<1>3. /\ w \notin blurred /\ pc # "done"
      /\ (\E n \in 1 .. MaxFeed : Files(n)) \/ Closes \/ Leaves
  BY <1>2, DocMoves, DoneStays DEF WalkupInv
<1>4. w \in Scanned => w \in Nat /\ w <= visit
  BY <1>1, WalkupSets DEF VisitInv, TypeInv, PanelTypes
<1>5. CASE w \in Had /\ ~\E n \in 1 .. MaxFeed : ScanDone(n)
  <2>1. ~MayScan(w) /\ w \in Nat /\ w <= visit /\ visit \in Nat
    BY <1>3, <1>4, <1>5, WalkupSets DEF OverInv, WalkupInv, TypeInv, PanelTypes
  <2>2. CASE Quiet
    <3>1. /\ UNCHANGED <<row, comp, panel, visit, EvType>>
          /\ Asking' \/ Acting' => UNCHANGED <<pc, cur, seen, job, scanned>>
          /\ Unseen' => Unseen /\ UNCHANGED scanned
      BY <2>2, QuietKeeps
    <3>2. /\ Asking' => Asking /\ UNCHANGED <<Twice, Asked>>
          /\ Acting' => Acting
          /\ Unseen' => UNCHANGED Twice
      BY <1>1, <3>1, TwiceKept DEF Asking, Acting, Asked
    <3> QED
      BY <2>1, <3>1, <3>2 DEF MayScan, Wants
  <2>3. CASE Asks
    BY <1>1, <2>1, <2>3, AsksKeeps DEF MayScan, Wants
  <2>4. CASE AsksOn
    BY <1>1, <2>1, <2>4, AsksOnKeeps DEF MayScan, Wants
  <2>5. CASE Acts
    <3>1. comp.visit # w
      BY <1>2, <2>1, <2>5, ActsKeeps DEF MayScan, Acts
    <3> QED
      BY <1>1, <2>1, <2>5, <3>1, ActsKeeps DEF MayScan
  <2>6. CASE Starts
    BY <1>1, <2>1, <2>6, StartsKeeps DEF MayScan, Wants
  <2>7. CASE Gone
    BY <1>1, <2>1, <2>7, GoneKeeps DEF MayScan, Wants
  <2>8. CASE PanelEvent
    <3>1. PanelPosts
      BY <1>1, <2>8, PanelEventPosts
    <3>2. /\ UNCHANGED <<cur, flavor, Asking, Acting>>
          /\ flavor = "WalkupScan" => Asked' = Asked /\ EvType = "scan" /\ ~Twice
          /\ flavor # "WalkupScan" => Asked' = comp'.visit
          /\ UNCHANGED <<row, comp>> => UNCHANGED <<Twice, Asked, Unseen>>
      BY <2>8, PanelKeeps DEF EvType
    <3>3. ~(Acting' /\ cur'.visit = w)
      BY <2>1, <3>2 DEF MayScan
    <3>4. CASE panel' = "menu" /\ visit' = visit + 1
      BY <2>1, <3>1, <3>2, <3>3, <3>4 DEF MayScan, PanelPosts, Wants
    <3>5. CASE /\ panel \in {"menu", "prompt"} /\ panel' = "scan" /\ UNCHANGED visit
               /\ row'.visit = visit /\ (flavor = "WalkupScan" \/ comp'.visit = visit)
      BY <2>1, <3>2, <3>3, <3>5 DEF MayScan, Wants
    <3>6. CASE panel' = "idle" /\ (EvType' = "complete" \/ UNCHANGED <<visit, row, comp, EvType>>)
      BY <2>1, <3>2, <3>3, <3>6 DEF MayScan, Wants
    <3> QED
      BY <3>1, <3>4, <3>5, <3>6 DEF PanelPosts
  <2> QED
    BY <1>1, <1>5, <2>2, <2>3, <2>4, <2>5, <2>6, <2>7, <2>8, Moves DEF EventInv
<1>6. CASE Closes /\ w \notin Had
  <2>1. GetCompEvent /\ w \in InDoc
    BY <1>2, <1>6 DEF Closes, Teardown, Goto
  <2>2. /\ w \in Scanned /\ pc = "comp" /\ UNCHANGED <<panelVars, seen, flavor>>
        /\ flavor # "WalkupScan"
    BY <2>1, WalkupSets DEF GetCompEvent, entryVars, EventInv, CurInv
  <2>3. UNCHANGED <<row, comp, panel, visit, EvType>> /\ EvType = comp.type /\ Asked = comp.visit
    BY <1>1, <2>2, FlavorAlone DEF panelVars, EvType, Asked
  <2>4. ~(panel = "menu" /\ visit = w)
    BY <1>1, <2>2 DEF FreshInv
  <2>5. CASE comp.type = "complete"
    <3>1. panel # "prompt" /\ ~Wants'
      BY <1>1, <2>2, <2>3, <2>5 DEF VisitInv, Wants
    <3>2. pc' = "tick"
      BY <2>1, <2>5 DEF GetCompEvent, Returns, Goto
    <3> QED
      BY <2>3, <2>4, <3>1, <3>2 DEF MayScan, Acting
  <2>6. CASE comp.type = "scan" /\ Scans(comp.seq, comp.visit, cur.fmt)
    <3>1. /\ pc' = "wait" /\ cur'.visit = comp.visit /\ Twice' /\ ~Asking'
          /\ Twice => comp.visit \in blurred'
      <4>1. pc' = "wait" /\ cur'.visit = comp.visit /\ scanned'.event = comp.seq
        BY <2>6 DEF Scans, Goto
      <4>2. Twice' /\ ~Asking'
        BY <2>2, <2>3, <4>1 DEF Twice, Asking
      <4>3. comp.seq = scanned.event => comp.visit \in blurred'
        BY <2>1, <2>6, <4>1 DEF GetCompEvent, Returns, Goto
      <4> QED
        BY <4>1, <4>2, <4>3 DEF Twice
    <3>2. comp.visit # w
      BY <1>1, <1>2, <2>2, <2>3, <2>6, <3>1 DEF FreshInv, Asking
    <3>3. ~(panel = "prompt" /\ visit = w)
      BY <1>1, <1>3, <2>2, <3>2 DEF VisitInv
    <3> QED
      BY <2>3, <2>4, <3>1, <3>2, <3>3 DEF MayScan
  <2>7. comp.type = "page" => Had' = Had
    BY <2>1 DEF GetCompEvent, Had
  <2>8. CASE UNCHANGED docVars
    BY <1>2, <1>6, <2>8 DEF docVars, Had
  <2> QED
    BY <1>2, <1>6, <2>1, <2>5, <2>6, <2>7, <2>8 DEF GetCompEvent, docVars
<1>7. ASSUME NEW n \in 1 .. MaxFeed, ScanDone(n) PROVE ~MayScan(w)'
  <2>1. /\ pc = "job" /\ Acting /\ ~Asking' /\ ~Acting'
        /\ UNCHANGED <<visit, blurred>> /\ panel' \in {panel, "idle", "prompt"}
        /\ panel' = "prompt" =>
               \/ panel = "prompt"
               \/ panel = "scan" /\ job.visit = visit /\ visit # 0
                  /\ flavor # "WalkupScan" /\ job.src # "feeder"
        /\ \/ UNCHANGED <<row, comp, EvType, Twice, Unseen>>
           \/ EvType' = "complete" /\ panel' = "idle" /\ flavor # "WalkupScan"
    BY <1>1, <1>7, DoneKeeps
  <2>2. Unseen' /\ Wants' /\ ~Twice' => Unseen /\ Wants /\ ~Twice /\ UNCHANGED row
    BY <2>1 DEF Wants
  <2>3. panel' = "prompt" => panel = "prompt" \/ visit \in blurred \/ cur.visit = visit
    BY <1>1, <2>1 DEF JoinInv
  <2>4. CASE w \in Had
    <3>1. ~MayScan(w)
      BY <1>3, <2>4 DEF OverInv, WalkupInv
    <3> QED
      BY <1>3, <2>1, <2>2, <2>3, <3>1 DEF MayScan
  <2>5. CASE w \notin Had
    <3>1. /\ flavor = "WalkupScan" \/ job.src = "feeder"
          /\ w \in Scanned \/ w = cur.visit
      <4>1. \/ \E m \in 1 .. MaxFeed : Files(m)
            \/ Leaves
        BY <1>3, <1>7 DEF Closes, ScanDone, GetCompEvent, ExpireDocument, Teardown
      <4> QED
        BY <1>2, <2>5, <4>1, WalkupSets DEF Files, Leaves
    <3>2. panel' = "prompt" => panel = "prompt"
      BY <2>1, <3>1
    <3>3. ~(panel \in {"menu", "prompt"} /\ visit = w)
      BY <1>1, <1>3, <2>1, <3>1 DEF FreshInv, JoinInv
    <3>4. Unseen /\ Wants /\ ~Twice => row.visit # w
      BY <1>1, <1>3, <2>1, <3>1 DEF FreshInv, JoinInv, Wants
    <3> QED
      BY <2>1, <2>2, <3>2, <3>3, <3>4 DEF MayScan
  <2> QED
    BY <2>4, <2>5
<1> QED
  BY <1>3, <1>5, <1>6, <1>7 DEF Files, Leaves

LEMMA WalkupInit == Init => WalkupInv
<1> SUFFICES ASSUME Init PROVE WalkupInv
  OBVIOUS
<1>1. owner = << >> /\ doc = << >> /\ files = {} /\ pc = "setup" /\ panel = "idle"
  BY DEF Init, DocInit
<1>2. Scanned = {} /\ InDoc = {} /\ Had = {}
  BY <1>1 DEF Scanned, InDoc, Had, Filed, Of, Range
<1>3. VisitInv
  BY <1>1, <1>2 DEF Init, VisitInv, NoEvent, NoRow, NoComp
<1>4. FreshInv /\ JoinInv
  BY <1>1, <1>2 DEF FreshInv, JoinInv, Asking, Acting, Only
<1>5. OverInv
  BY <1>2 DEF OverInv
<1>6. KeptApart
  BY <1>1, <1>2 DEF KeptApart, Apart, InDoc, Had
<1> QED
  BY <1>3, <1>4, <1>5, <1>6 DEF WalkupInv

LEMMA WalkupNext ==
  ASSUME TypeInv, DocInv, EventInv, WalkupInv, [Next]_vars
  PROVE  WalkupInv'
<1>1. VisitInv' /\ FreshInv' /\ JoinInv' /\ OverInv'
  BY VisitNext, FreshNext, JoinNext, OverNext
<1>2. KeptApart'
  BY DocMoves DEF WalkupInv
<1> QED
  BY <1>1, <1>2 DEF WalkupInv

(* A PDF holds the pages of one walkup and a walkup has one PDF, apart from *)
(* walkups that were closed by their age, scanned for when left, or scanned *)
(* for twice (WalkupsKeptApart), however quick the users.                   *)
THEOREM LedmWalkupsKeptApart == Spec => []WalkupsKeptApart
<1>1. TypeInv /\ DocInv /\ EventInv /\ WalkupInv /\ [Next]_vars => WalkupInv'
  BY WalkupNext
<1>2. WalkupInv => WalkupsKeptApart
  BY ApartKeeps DEF WalkupInv
<1> QED
  BY <1>1, <1>2, WalkupInit, LedmEvents, PTL DEF Spec

-----------------------------------------------------------------------------
(* Page numbers.  A visit that may add a page finds the counter where its   *)
(* own pages left it.                                                       *)

Numbers(v) == jpegPage = Cardinality(Jpegs(files, owner, v))

NumberInv ==
    blurred = {} /\ lost = {} =>
        /\ Numbered(files, owner)
        /\ flavor = "WalkupScan" => jpegPage = 0
        /\ Acting => Numbers(cur.visit)
        /\ panel = "prompt" => Numbers(visit)
        /\ Unseen /\ EvType = "page" /\ ~Twice => Numbers(row.visit)
        /\ Asking /\ EvType = "page" /\ ~Twice => Numbers(Asked)

LEMMA NumberInit == Init => JpegInv /\ NumberInv
<1> SUFFICES ASSUME Init PROVE JpegInv /\ NumberInv
  OBVIOUS
<1>1. files = {} /\ jpegPage = 0 /\ pc = "setup" /\ panel = "idle"
  BY DEF Init, DocInit
<1>2. JpegInv
  BY <1>1, FS_EmptySet DEF JpegInv
<1>3. EvType # "page"
  BY DEF Init, EvType, NoComp
<1>4. Numbered(files, owner)
  BY <1>1 DEF Numbered
<1> QED
  BY <1>1, <1>2, <1>3, <1>4 DEF NumberInv, Acting, Asking

\* What a step does about the JPEG files, if it files no pages.
SameFiles ==
    /\ \A w : Jpegs(files', owner', w) = Jpegs(files, owner, w)
    /\ Numbered(files, owner) => Numbered(files', owner')
Counted ==
    \/ jpegPage' = jpegPage /\ (GetCompEvent => comp.type # "scan" \/ pc' = "tick")
    \/ GetCompEvent /\ jpegPage' = 0 /\ comp.type \in {"scan", "complete"}

LEMMA JpegMoves ==
  ASSUME TypeInv, DocInv, JpegInv, [Next]_vars
  PROVE  /\ JpegInv' /\ lost \subseteq lost'
         /\ (\E n \in 1 .. MaxFeed : ScanDone(n)) \/ (SameFiles /\ Counted)
<1>1. CASE UNCHANGED docVars /\ ~GetCompEvent
  BY <1>1 DEF docVars, JpegInv, SameFiles, Counted
<1>2. ASSUME FinishDocument, UNCHANGED owner PROVE JpegInv' /\ lost \subseteq lost' /\ SameFiles
  BY <1>2, FinishNumbered DEF SameFiles
<1>3. CASE GetCompEvent
  <2>1. CASE comp.type = "scan" /\ pc' # "tick"
    BY <1>2, <1>3, <2>1 DEF GetCompEvent, ScanRequested, Counted, Goto, Returns
  <2>2. CASE comp.type = "complete" /\ PagesComplete
    BY <1>2, <1>3, <2>2 DEF GetCompEvent, PagesComplete, Counted
  <2>3. CASE UNCHANGED <<docVars>> /\ (comp.type # "scan" \/ pc' = "tick")
    BY <1>3, <2>3 DEF docVars, JpegInv, SameFiles, Counted
  <2> QED
    BY <1>3, <2>1, <2>2, <2>3 DEF GetCompEvent, Goto, Returns, Scans, docVars
<1>4. CASE ExpireDocument \/ Teardown
  <2>1. FinishDocument /\ UNCHANGED <<owner, jpegPage>> /\ ~GetCompEvent
    BY <1>4 DEF ExpireDocument, Teardown, GetCompEvent
  <2> QED
    BY <1>2, <2>1 DEF Counted
<1>5. ASSUME NEW n \in 1 .. MaxFeed, ScanDone(n) PROVE JpegInv' /\ lost \subseteq lost'
  BY <1>5, FilePagesJpegInv DEF ScanDone
<1>6. \/ GetCompEvent \/ ExpireDocument \/ Teardown \/ \E n \in 1 .. MaxFeed : ScanDone(n)
      \/ UNCHANGED docVars
  BY DEF Next, SessionStep, PanelStep, Terminated, vars, Setup, Baseline, PollAnswered, PollFails,
         LoopEnds, Tick, GetDestination, ScanFails, ScannerIdle, SelectHost, PressStart,
         AddPage, PressDone, OtherScans, Leave, Forget, userUnchanged
<1> QED
  BY <1>1, <1>3, <1>4, <1>5, <1>6

LEMMA NumberNext ==
  ASSUME TypeInv, DocInv, EventInv, WalkupInv, JpegInv, NumberInv, [Next]_vars
  PROVE  NumberInv'
<1> DEFINE May(x) == Numbers(x)
           Later(x) == jpegPage' = Cardinality(Jpegs(files', owner', x))
<1>1. VisitInv /\ FreshInv /\ flavor' = flavor
  BY FlavorAlone DEF WalkupInv
<1>2. SUFFICES ASSUME blurred' = {}, lost' = {}
               PROVE  /\ Numbered(files', owner')
                      /\ flavor' = "WalkupScan" => jpegPage' = 0
                      /\ Acting' => Later(cur'.visit)
                      /\ panel' = "prompt" => Later(visit')
                      /\ Unseen' /\ EvType' = "page" /\ ~Twice' => Later(row'.visit)
                      /\ Asking' /\ EvType' = "page" /\ ~Twice' => Later(Asked')
  BY DEF NumberInv, Numbers
<1>3. blurred = {} /\ lost = {}
  BY <1>2, DocMoves, JpegMoves DEF WalkupInv
<1>4. /\ Numbered(files, owner)
      /\ flavor = "WalkupScan" => jpegPage = 0
      /\ Acting => May(cur.visit)
      /\ panel = "prompt" => May(visit)
      /\ Unseen /\ EvType = "page" /\ ~Twice => May(row.visit)
      /\ Asking /\ EvType = "page" /\ ~Twice => May(Asked)
  BY <1>3 DEF NumberInv
<1>5. flavor = "WalkupScan" => EvType = "scan" /\ EvType' = "scan" /\ panel # "prompt"
  BY <1>1 DEF EvType, VisitInv
<1>6. /\ panel = "prompt" => ~Acting /\ (Asking \/ Unseen => Twice)
      /\ Unseen /\ EvType = "page" /\ ~Twice => ~Acting
      /\ pc = "job" /\ job.visit # 0 => cur.visit = job.visit
  BY <1>3 DEF JoinInv, WalkupInv
<1>7. CASE SameFiles /\ Counted /\ ~\E n \in 1 .. MaxFeed : ScanDone(n)
  <2>1. Numbered(files', owner')
    BY <1>4, <1>7 DEF SameFiles
  <2>2. ASSUME jpegPage' = jpegPage PROVE \A x : May(x) => Later(x)
    BY <1>7, <2>2 DEF SameFiles, Numbers
  <2>3. ASSUME jpegPage' = 0, NEW x, x \notin Scanned PROVE Later(x)
    BY <1>7, <2>3, NoFiles DEF SameFiles
  <2> HIDE DEF May, Later
  <2>4. flavor = "WalkupScan" => jpegPage' = 0
    BY <1>4, <1>7 DEF Counted
  <2>5. CASE ~GetCompEvent
    <3>1. jpegPage' = jpegPage /\ \A x : May(x) => Later(x)
      BY <1>7, <2>2, <2>5 DEF Counted
    <3>2. CASE Quiet
      <4>1. /\ UNCHANGED <<row, comp, panel, visit, EvType>>
            /\ Asking' \/ Acting' => UNCHANGED <<pc, cur, seen, job, scanned>>
            /\ Unseen' => Unseen /\ UNCHANGED scanned
        BY <3>2, QuietKeeps
      <4>2. /\ Asking' => Asking /\ UNCHANGED <<Twice, Asked>>
            /\ Acting' => Acting
            /\ Unseen' => UNCHANGED Twice
        BY <1>1, <4>1, TwiceKept DEF Asking, Acting, Asked
      <4> QED
        BY <1>1, <1>4, <2>1, <2>4, <3>1, <4>1, <4>2 DEF Acting
    <3>3. CASE Asks
      BY <1>1, <1>4, <2>1, <2>4, <3>1, <3>3, AsksKeeps
    <3>4. CASE AsksOn
      <4>1. Acting' => Later(cur'.visit)
        BY <1>1, <2>3, <2>4, <3>4, AsksOnKeeps DEF FreshInv
      <4> QED
        BY <1>1, <1>4, <2>1, <2>4, <3>1, <3>4, <4>1, AsksOnKeeps
    <3>5. CASE Starts
      BY <1>1, <1>4, <2>1, <2>4, <3>1, <3>5, StartsKeeps
    <3>6. CASE Gone
      BY <1>1, <1>4, <2>1, <2>4, <3>1, <3>6, GoneKeeps
    <3>7. CASE PanelEvent
      <4>1. PanelPosts
        BY <1>1, <3>7, PanelEventPosts
      <4>2. /\ panel' # "prompt"
            /\ EvType' = "page" =>
                  \/ UNCHANGED <<row, comp, EvType>>
                  \/ panel = "prompt" /\ flavor # "WalkupScan" /\ UNCHANGED visit
                     /\ row'.visit = visit /\ comp'.visit = visit
        BY <1>5, <4>1 DEF PanelPosts
      <4> QED
        BY <1>1, <1>4, <2>1, <2>4, <3>1, <3>7, <4>2, PanelKeeps
    <3>8. ~Acts
      BY <2>5, ScanBegins DEF Acts, GetDestination
    <3> QED
      BY <1>1, <1>7, <3>2, <3>3, <3>4, <3>5, <3>6, <3>7, <3>8, Moves DEF EventInv
  <2>6. CASE GetCompEvent
    <3>1. /\ UNCHANGED <<row, comp, panel, visit, EvType, seen>> /\ Asking /\ pc = "comp"
          /\ flavor # "WalkupScan" /\ EvType = comp.type /\ Asked = comp.visit
          /\ pc' \in {"tick", "wait"} /\ ~Asking'
      BY <1>1, <2>6, FlavorAlone
         DEF GetCompEvent, panelVars, Goto, Returns, Scans, EvType, Asked, Asking, EventInv, CurInv
    <3>2. Unseen' = Unseen
      BY <3>1 DEF Unseen, Live
    <3>3. CASE pc' = "tick"
      <4>1. /\ UNCHANGED scanned
            /\ comp.type = "complete" \/ jpegPage' = jpegPage
        BY <2>6, <3>3 DEF GetCompEvent, Scans, Goto
      <4>2. Twice' = Twice
        BY <1>1, <3>1, <4>1, TwiceKept
      <4>3. comp.type = "complete" => panel # "prompt"
        BY <1>1, <3>1 DEF VisitInv, Wants
      <4>4. ~Acting'
        BY <3>3 DEF Acting
      <4> QED
        BY <1>1, <1>4, <2>1, <2>2, <3>1, <3>2, <4>1, <4>2, <4>3, <4>4
    <3>4. CASE pc' = "wait"
      <4>1. /\ comp.type \in {"scan", "page"} /\ cur'.visit = comp.visit
            /\ scanned'.event = comp.seq
            /\ comp.seq = scanned.event => comp.visit \in blurred'
        BY <2>6, <3>4 DEF GetCompEvent, Goto, Returns, Scans
      <4>2. ~Twice /\ Twice' /\ panel' # "prompt"
        BY <1>1, <1>2, <1>6, <3>1, <4>1 DEF Twice
      <4>3. Later(comp.visit)
        <5>1. CASE comp.type = "scan"
          <6>1. jpegPage' = 0 /\ comp.visit \notin Scanned
            BY <1>1, <1>7, <2>6, <3>1, <3>4, <4>2, <5>1 DEF Counted, FreshInv
          <6> QED
            BY <2>3, <6>1
        <5>2. CASE comp.type = "page"
          BY <1>4, <1>7, <2>2, <3>1, <4>2, <5>2 DEF Counted
        <5> QED
          BY <4>1, <5>1, <5>2
      <4> QED
        BY <1>1, <2>1, <2>4, <3>1, <4>1, <4>2, <4>3
    <3> QED
      BY <3>1, <3>3, <3>4
  <2> QED
    BY <2>5, <2>6
<1>8. ASSUME NEW n \in 1 .. MaxFeed, ScanDone(n)
      PROVE  /\ Numbered(files', owner')
             /\ flavor = "WalkupScan" => jpegPage' = 0
             /\ ~Asking' /\ ~Acting'
             /\ panel' = "prompt" => Later(visit')
             /\ ~(Unseen' /\ EvType' = "page" /\ ~Twice')
  <2> DEFINE single == flavor = "WalkupScan" \/ job.src = "feeder"
  <2>1. /\ pc = "job" /\ Acting /\ ~Asking' /\ ~Acting' /\ UNCHANGED visit
        /\ panel' = "prompt" => panel = "prompt" \/ (job.visit = visit /\ visit # 0 /\ ~single)
        /\ \/ UNCHANGED <<row, comp, EvType, Twice, Unseen>>
           \/ EvType' = "complete"
    BY <1>1, <1>8, DoneKeeps
  <2>2. n \in Nat /\ cur.visit \in Nat /\ single \in BOOLEAN
    BY DEF TypeInv, SessionTypes
  <2>3. FilePages(cur.fmt, n, cur.visit, single)
    BY <1>8 DEF ScanDone
  <2>4. jpegPage = Cardinality(Jpegs(files, owner, cur.visit))
    BY <1>4, <2>1 DEF Numbers
  <2>5. /\ Numbered(files', owner')
        /\ ~single => Later(cur.visit)
        /\ single /\ jpegPage = 0 => jpegPage' = 0
    <3> HIDE DEF single
    <3> QED
      BY <1>2, <1>4, <2>2, <2>3, <2>4, FilePagesNumbered
  <2>6. flavor = "WalkupScan" => jpegPage' = 0
    BY <1>4, <2>5
  <2>7. panel' = "prompt" => Later(visit')
    <3>1. panel' = "prompt" => cur.visit = visit /\ ~single
      BY <1>6, <2>1
    <3> QED
      BY <2>1, <2>5, <3>1
  <2>8. ~(Unseen' /\ EvType' = "page" /\ ~Twice')
    BY <1>6, <2>1
  <2> QED
    BY <2>1, <2>5, <2>6, <2>7, <2>8
<1> QED
  BY <1>1, <1>7, <1>8, JpegMoves

(* The JPEG pages of a walkup are numbered 1, 2, 3, ... (JpegNumbersRight), *)
(* however quick the users.                                                 *)
THEOREM LedmJpegNumbersRight == Spec => []JpegNumbersRight
<1>1. TypeInv /\ DocInv /\ EventInv /\ WalkupInv /\ [Next]_vars => WalkupInv'
  BY WalkupNext
<1>2. TypeInv /\ DocInv /\ JpegInv /\ [Next]_vars => JpegInv'
  BY JpegMoves, FilePagesJpegInv
<1>3. /\ TypeInv /\ DocInv /\ EventInv /\ WalkupInv /\ JpegInv /\ NumberInv
      /\ [Next]_vars
      => NumberInv'
  BY NumberNext
<1>4. NumberInv => JpegNumbersRight
  BY JpegsAreNumbered DEF NumberInv, JpegNumbersRight
<1> QED
  BY <1>1, <1>2, <1>3, <1>4, WalkupInit, NumberInit, LedmEvents, PTL DEF Spec
=============================================================================
