----------------------------- MODULE LedmSession -----------------------------
(***************************************************************************)
(* One LEDM session of the daemon with one printer (daemon/daemon.go,      *)
(* ledm/walkup.go).  There is one goroutine and no event queue: the        *)
(* printer has a table with the stamp of its last scan event, and one      *)
(* resource that says what the last scan event was.  The session polls the *)
(* table, and reads the destination and that resource when the stamp is    *)
(* new, each in an exchange of its own, while the user may go on.          *)
(*                                                                         *)
(* Rows of other categories are only remembered, and an ETag only spares   *)
(* the transfer of a table without news: both are left out.                *)
(***************************************************************************)
EXTENDS Documents

CONSTANTS
    PollFailLimit,  \* consecutive failed polls that end a session (5)
    MaxDests,       \* bound: registrations the printer ever accepts
    MaxVisits,      \* bound: visits of a user to the panel
    MaxPosts,       \* bound: no visit begins and no page is added after so many events
    MaxFeed         \* bound: sheets in the feeder

ASSUME LedmAssumption ==
    /\ PollFailLimit \in Nat \ {0} /\ MaxDests \in Nat \ {0}
    /\ MaxVisits \in Nat /\ MaxPosts \in Nat /\ MaxFeed \in Nat

VARIABLES
    \* the session
    pc,         \* where it is
    dest,       \* d.destURI; 0 is ""
    seen,       \* d.seen["ScanEvent"]; 0 is none
    cur,        \* the event it scans for: its shortcut (and, history, what it is)
    job,        \* its scan job: the source (and, history, the visit it is part of)
    failures,
    cancelled,  \* it has noticed that ctx is done
    \* the printer and its user
    flavor,     \* which of the two resource trees it has
    refs,       \* whether its events refer to a destination
    dests,      \* this computer's entries on the panel
    ndest,      \* the newest one it ever made
    row,        \* the ScanEvent row of the event table
    comp,       \* the WalkupScanToCompEvent resource
    panel,      \* what the panel shows
    panelDest,  \* the entry the user selected; 0 is another computer's
    panelFmt,   \* the shortcut of the last visit
    visit,      \* number of the current visit
    posted,     \* number of scan events so far
    \* history
    scanned,    \* the last event that a scan was made for, and if by its own stamp
    orphans,    \* entries whose Location never reached this computer
    blurred,    \* walkups closed by their age, scanned for when left, or scanned twice
    hurt        \* whether anything went wrong

sessionVars == <<pc, dest, seen, cur, job, failures, cancelled>>
entryVars == <<flavor, refs, dests, ndest, orphans>>
panelVars == <<row, comp, panel, panelDest, panelFmt, visit, posted>>
vars == <<sessionVars, entryVars, panelVars, scanned, blurred, hurt, docVars>>

\* What formatFor makes of a shortcut's name: the format of the file.
Formats == {"pdf", "jpeg"}
Sources == {"flatbed", "feeder"}
Flavors == {"WalkupScan", "WalkupScanToComp"}

\* A row's stamp is the number of its event; dest is what its payload refers
\* to.  The resource holds the type; its visit and number are history.  The
\* printer's first event was before the session began (visit 0).
NoRow == [stamp |-> 0, dest |-> 0, visit |-> 0]
NoEvent == [fmt |-> "pdf", visit |-> 0, seq |-> 0]
NoJob == [src |-> "flatbed", visit |-> 0]
NoComp == [type |-> "host", visit |-> 0, seq |-> 0]
NoScan == [event |-> 0, own |-> FALSE]

Init ==
    /\ pc = "setup" /\ dest = 0 /\ seen = 0 /\ failures = 0 /\ cancelled = FALSE
    /\ cur = NoEvent /\ job = NoJob
    /\ flavor \in Flavors /\ refs \in BOOLEAN
    /\ dests = {} /\ ndest = 0
    /\ posted = 1
    /\ \/ row = NoRow /\ comp = NoComp
       \/ /\ row = [stamp |-> 1, dest |-> 0, visit |-> 0]
          /\ comp = [type |-> "scan", visit |-> 0, seq |-> 1]
    /\ panel = "idle" /\ panelDest = 0 /\ panelFmt = "pdf" /\ visit = 0
    /\ scanned = NoScan /\ orphans = {} /\ blurred = {} /\ hurt = FALSE
    /\ DocInit

Goes == UNCHANGED <<cancelled, hurt>>
Wrong(fault) == fault \in Faults /\ hurt' = TRUE /\ UNCHANGED cancelled

\* The service is stopped, and this step is the first to fail because ctx is
\* done, or a later one.  Nothing but the session reads ctx, so when it was
\* cancelled before that makes no difference to anybody.
CtxDone ==
    /\ cancelled \/ "cancel" \in Faults
    /\ cancelled' = TRUE /\ UNCHANGED hurt

\* A request fails because of the network, or because ctx is done.
NoReply == CtxDone \/ Wrong("net")

Goto(l) == pc' = l
\* loop returns, and what it kept is of no use any more.
LoopReturns == Goto("teardown") /\ seen' = 0 /\ scanned' = NoScan
\* onScanEvent returns.
Returns == Goto("tick") /\ cur' = NoEvent /\ job' = NoJob

-----------------------------------------------------------------------------
(* Registration. *)

\* POST of the destination; the reply's Location becomes d.destURI.
Registered ==
    /\ ndest < MaxDests
    /\ ndest' = ndest + 1 /\ dests' = dests \cup {ndest + 1} /\ dest' = ndest + 1
    /\ UNCHANGED <<flavor, refs, orphans>> /\ Goes

\* It fails, or succeeds at the printer and the reply is lost.
RegisterFails ==
    /\ UNCHANGED <<dest, flavor, refs>>
    /\ \/ NoReply /\ UNCHANGED <<dests, ndest, orphans>>
       \/ /\ ndest < MaxDests /\ Wrong("reply")
          /\ ndest' = ndest + 1 /\ dests' = dests \cup {ndest + 1}
          /\ orphans' = orphans \cup {ndest + 1}

\* setup: Discover decides the flavor, then register.  An error ends the
\* session without a teardown.
Setup ==
    /\ pc = "setup"
    /\ \/ Registered /\ Goto("baseline")
       \/ RegisterFails /\ Goto("done")
    /\ UNCHANGED <<seen, cur, job, failures, panelVars, scanned, blurred, docVars>>

\* Mutant: whatever is wrong with the destination, it is registered again.
GetDestinationAnyError ==
    /\ pc = "dest"
    /\ \/ dest \in dests /\ cur' = [cur EXCEPT !.fmt = panelFmt]
          /\ Goto(IF flavor = "WalkupScan" THEN "wait" ELSE "comp")
          /\ Goes /\ UNCHANGED <<dest, entryVars, job>>
       \/ Wrong("net") /\ Returns /\ ndest < MaxDests
          /\ ndest' = ndest + 1 /\ dests' = dests \cup {ndest + 1} /\ dest' = ndest + 1
          /\ UNCHANGED <<flavor, refs, orphans>>
    /\ scanned' = scanned
    /\ UNCHANGED <<seen, failures, panelVars, blurred, docVars>>

\* onScanEvent goes on to scanPage, for event e of visit v.
Scans(e, v, fmt) ==
    /\ Goto("wait")
    /\ cur' = [fmt |-> fmt, visit |-> v, seq |-> 0]
    /\ scanned' = [event |-> e, own |-> e = cur.seq]

\* onScanEvent: GET of the destination.  404 registers again, which takes
\* the place of the event; the older printers have no type to read.
GetDestination ==
    /\ pc = "dest"
    /\ \/ /\ dest \in dests
          /\ \/ flavor = "WalkupScan" /\ Scans(cur.seq, cur.visit, panelFmt)
             \/ /\ flavor # "WalkupScan" /\ Goto("comp")
                /\ cur' = [cur EXCEPT !.fmt = panelFmt] /\ UNCHANGED scanned
          /\ Goes /\ UNCHANGED <<dest, entryVars, job>>
       \/ /\ dest \notin dests /\ Returns
          /\ Registered \/ RegisterFails
          /\ UNCHANGED scanned
       \/ /\ NoReply /\ Returns
          /\ UNCHANGED <<scanned, dest, entryVars>>
    /\ UNCHANGED <<seen, failures, panelVars, blurred, docVars>>

\* DELETE of the destination; it may be gone already (404 is success).
DeleteDestination ==
    \/ dests' = dests \ {dest} /\ Goes
    \/ Wrong("net") /\ UNCHANGED dests

\* teardown: the entry is deleted, best effort; then the open document.
Teardown ==
    /\ pc = "teardown"
    /\ DeleteDestination
    /\ FinishDocument
    /\ Goto("done")
    /\ UNCHANGED <<dest, seen, cur, job, failures, flavor, refs, ndest, orphans, panelVars,
                   scanned, blurred, owner, jpegPage>>

-----------------------------------------------------------------------------
(* The event loop. *)

\* Mutant: the stamps of the first table are not remembered.
BaselineForgets ==
    /\ pc = "baseline" /\ Goto("poll") /\ Goes
    /\ UNCHANGED <<seen, dest, cur, job, failures, entryVars, panelVars, scanned, blurred,
                   docVars>>

\* The first table: what is in it is not replayed.  An error ends loop.
Baseline ==
    /\ pc = "baseline"
    /\ \/ seen' = row.stamp /\ Goto("poll") /\ Goes /\ UNCHANGED scanned
       \/ NoReply /\ LoopReturns
    /\ UNCHANGED <<dest, cur, job, failures, entryVars, panelVars, blurred, docVars>>

\* Mutant: an event that refers to no destination is not ours.
ForMeStrict(r) == refs /\ r.dest = dest

\* An event that refers to no destination is ours.
ForMe(r) == ~refs \/ r.dest = dest

\* Mutant: the stamp is not remembered.
PollAnsweredUnseen ==
    /\ pc = "poll" /\ row.stamp \notin {0, seen}
    /\ cur' = [cur EXCEPT !.visit = row.visit, !.seq = row.stamp]
    /\ Goto(IF ForMe(row) THEN "dest" ELSE "tick")
    /\ Goes
    /\ UNCHANGED <<seen, failures, dest, job, entryVars, panelVars, scanned, blurred,
                   docVars>>

\* A poll is answered, and handleEvents looks at the ScanEvent row: an
\* unseen stamp is remembered before anything is done about it.
PollAnswered ==
    /\ pc = "poll" /\ ~cancelled
    /\ failures' = 0
    /\ \/ /\ row.stamp \in {0, seen}
          /\ Goto("tick") /\ UNCHANGED <<seen, cur>>
       \/ /\ row.stamp \notin {0, seen}
          /\ seen' = row.stamp
          /\ \/ /\ ForMe(row) /\ Goto("dest")
                /\ cur' = [cur EXCEPT !.visit = row.visit, !.seq = row.stamp]
             \/ ~ForMe(row) /\ Goto("tick") /\ UNCHANGED cur
    /\ Goes
    /\ UNCHANGED <<dest, job, entryVars, panelVars, scanned, blurred, docVars>>

\* Mutant: any number of polls may fail.
PollFailsUnlimited ==
    /\ pc = "poll" /\ Wrong("net")
    /\ failures' = failures + 1
    /\ UNCHANGED <<pc, dest, seen, cur, job, entryVars, panelVars, scanned, blurred,
                   docVars>>

\* A poll fails: three seconds later the next one, the limit ends loop.
PollFails ==
    /\ pc = "poll" /\ ~cancelled /\ Wrong("net")
    /\ failures' = failures + 1
    /\ IF failures + 1 >= PollFailLimit THEN LoopReturns
       ELSE Goto("poll") /\ UNCHANGED <<seen, scanned>>
    /\ UNCHANGED <<dest, cur, job, entryVars, panelVars, blurred, docVars>>

LoopEnds ==
    /\ pc = "poll" /\ CtxDone /\ LoopReturns
    /\ failures' = 0
    /\ UNCHANGED <<dest, cur, job, entryVars, panelVars, blurred, docVars>>

\* The end of an iteration of loop, with a document that is young enough ...
Tick ==
    /\ pc = "tick" /\ Goto("poll")
    /\ UNCHANGED <<dest, seen, cur, job, failures, cancelled, entryVars, panelVars, scanned,
                   blurred, hurt, docVars>>

\* Mutant: nothing happens to an old document.
ExpireNothing == FALSE /\ doc' = doc

\* ... or with one whose last page is older than page_timeout.
ExpireDocument ==
    /\ pc = "tick" /\ Goto("poll")
    /\ "expire" \in Faults /\ doc # << >>
    /\ blurred' = blurred \cup {owner[doc[i]] : i \in DOMAIN doc}
    /\ FinishDocument
    /\ UNCHANGED <<dest, seen, cur, job, failures, cancelled, entryVars, panelVars, scanned,
                   hurt, owner, jpegPage>>

\* Mutants: a new walkup does not close the document, forgets it unsaved, or
\* does not start the page numbers again.
ScanRequestedNoFinish == jpegPage' = 0 /\ UNCHANGED <<doc, files, lost>>
ScanRequestedDropsDoc == doc' = << >> /\ jpegPage' = 0 /\ UNCHANGED <<files, lost>>
ScanRequestedNoReset == FinishDocument /\ UNCHANGED jpegPage

\* ScanRequested begins a walkup, ScanPagesComplete ends one.
ScanRequested == FinishDocument /\ jpegPage' = 0
PagesComplete == FinishDocument /\ jpegPage' = 0

\* GetCompEvent, and what onScanEvent does about the type it reads, which is
\* the type of the printer's last event, whichever event made it ask.
GetCompEvent ==
    /\ pc = "comp"
    /\ \/ /\ comp.type \in {"scan", "page"}
          /\ IF comp.type = "scan" THEN ScanRequested ELSE UNCHANGED <<doc, files, lost, jpegPage>>
          /\ Scans(comp.seq, comp.visit, cur.fmt)
          /\ blurred' = blurred \cup (IF comp.seq = scanned.event THEN {comp.visit} ELSE {})
          /\ Goes /\ UNCHANGED job
       \/ /\ comp.type = "complete"
          /\ PagesComplete
          /\ Returns /\ Goes /\ UNCHANGED <<scanned, blurred>>
       \/ /\ (comp.type = "host" /\ Goes) \/ NoReply
          /\ Returns /\ UNCHANGED <<scanned, blurred, doc, files, lost, jpegPage>>
    /\ UNCHANGED <<dest, seen, failures, entryVars, panelVars, owner>>

\* WaitIdle returns without an error: a poll of the status found the scanner
\* idle while its context lasted.
WaitIdle == pc = "wait" /\ ~cancelled

\* settings for a source; resolution and size have no part in the session.
Settings(s) == [NoJob EXCEPT !.src = s]

\* scanPage: WaitIdle returns, the feeder has paper or not, a job starts.
ScannerIdle(s) ==
    /\ WaitIdle
    /\ job' = [Settings(s) EXCEPT !.visit = IF panel = "scan" /\ panelDest # 0 THEN visit ELSE 0]
    /\ blurred' = IF cur.visit = visit THEN blurred ELSE blurred \cup {cur.visit, visit}
    /\ Goto("job")
    /\ UNCHANGED <<dest, seen, cur, failures, cancelled, entryVars, panelVars, scanned,
                   hurt, docVars>>

\* WaitIdle or ScanPages fails; handleEvents logs it and goes on.
ScanFails ==
    /\ pc \in {"wait", "job"}
    /\ Wrong("scan") \/ CtxDone
    /\ Returns
    /\ UNCHANGED <<dest, seen, failures, entryVars, panelVars, scanned, blurred, docVars>>

Post(type, d, v) ==
    /\ posted' = posted + 1
    /\ row' = [stamp |-> posted + 1, dest |-> IF refs THEN d ELSE 0, visit |-> v]
    /\ comp' = IF flavor = "WalkupScan" THEN comp
               ELSE [type |-> type, visit |-> v, seq |-> posted + 1]

\* The panel shows its first page again.
LeavePanel == panel' = "idle" /\ panelDest' = 0

\* The panel waits for the job that is under way.
Watched == panel = "scan" /\ job.visit = visit

\* ScanPages returns n pages and scanPage files them.  The older flavor and
\* a feeder run close the document.  The panel asks about another page, but
\* not after a feeder run, which may have a last event or not.
ScanDone(n) ==
    /\ pc = "job"
    /\ job.src = "flatbed" => n = 1
    /\ LET single == flavor = "WalkupScan" \/ job.src = "feeder"
       IN  /\ FilePages(cur.fmt, n, cur.visit, single)
           /\ \/ ~Watched /\ UNCHANGED <<panel, panelDest>>
              \/ Watched /\ single /\ LeavePanel
              \/ Watched /\ ~single /\ panel' = "prompt" /\ UNCHANGED panelDest
           /\ \/ UNCHANGED <<row, comp, posted>>
              \/ /\ Watched /\ job.src = "feeder" /\ flavor # "WalkupScan"
                 /\ Post("complete", panelDest, visit)
    /\ Returns
    /\ UNCHANGED <<dest, seen, failures, cancelled, entryVars, panelFmt,
                   visit, scanned, blurred, hurt>>

-----------------------------------------------------------------------------
(* Everybody else. *)

\* The printer reboots, or drops this computer's destinations.
Forget ==
    /\ Wrong("forget") /\ dests # {} /\ ndest < MaxDests
    /\ dests' = {} /\ LeavePanel
    /\ row' \in {row, NoRow}
    /\ UNCHANGED <<sessionVars, flavor, refs, ndest, orphans, comp, panelFmt, visit, posted,
                   scanned, blurred, docVars>>

userUnchanged == <<sessionVars, entryVars, scanned, blurred, hurt, docVars>>

\* The user picks an entry, this computer's or another's ...
SelectHost(d) ==
    /\ panel = "idle" /\ d \in dests \cup {0}
    /\ visit < MaxVisits /\ posted < MaxPosts
    /\ panel' = "menu" /\ panelDest' = d /\ visit' = visit + 1
    /\ IF flavor = "WalkupScan" THEN UNCHANGED <<row, comp, posted>>
       ELSE Post("host", d, visit + 1)
    /\ UNCHANGED <<panelFmt, userUnchanged>>

\* ... and a shortcut.
PressStart(fmt) ==
    /\ panel = "menu"
    /\ panel' = "scan" /\ panelFmt' = fmt
    /\ Post("scan", panelDest, visit)
    /\ UNCHANGED <<panelDest, visit, userUnchanged>>

\* "Another page?" Yes, or no.
AddPage ==
    /\ panel = "prompt" /\ posted < MaxPosts
    /\ panel' = "scan"
    /\ Post("page", panelDest, visit)
    /\ UNCHANGED <<panelDest, panelFmt, visit, userUnchanged>>
PressDone ==
    /\ panel = "prompt"
    /\ LeavePanel
    /\ Post("complete", panelDest, visit)
    /\ UNCHANGED <<panelFmt, visit, userUnchanged>>

\* The other computer makes its scan.
OtherScans ==
    /\ panel = "scan" /\ panelDest = 0
    /\ LeavePanel
    /\ \/ UNCHANGED <<row, comp, posted>>
       \/ flavor # "WalkupScan" /\ Post("complete", 0, visit)
    /\ UNCHANGED <<panelFmt, visit, userUnchanged>>

\* The user walks away, and no event says so.
Leave ==
    /\ Wrong("leave") /\ panel # "idle"
    /\ LeavePanel
    /\ UNCHANGED <<row, comp, panelFmt, visit, posted, sessionVars, entryVars,
                   scanned, blurred, docVars>>

Terminated == pc = "done" /\ UNCHANGED vars

SessionStep ==
    \/ Setup \/ Baseline \/ PollAnswered \/ PollFails \/ LoopEnds \/ Tick
    \/ GetDestination \/ GetCompEvent \/ ScanFails \/ Teardown
    \/ \E s \in Sources : ScannerIdle(s)
    \/ \E n \in 1 .. MaxFeed : ScanDone(n)

PanelStep ==
    \/ \E d \in dests \cup {0} : SelectHost(d)
    \/ \E fmt \in Formats : PressStart(fmt)
    \/ AddPage \/ PressDone \/ OtherScans \/ Leave \/ Forget

Next == SessionStep \/ ExpireDocument \/ PanelStep \/ Terminated

Spec == Init /\ [][Next]_vars

\* The goroutine keeps running: every exchange has a deadline.  A document
\* that stays open is old at one of the iterations that keep coming.
FairSpec == Spec /\ WF_sessionVars(SessionStep) /\ SF_doc(ExpireDocument)

-----------------------------------------------------------------------------
LedmTypeOK ==
    /\ pc \in {"setup", "baseline", "poll", "dest", "comp", "wait", "job", "tick", "teardown",
               "done"}
    /\ cur \in [fmt : Formats, visit : Nat, seq : Nat] /\ job \in [src : Sources, visit : Nat]
    /\ dest \in Nat /\ seen \in Nat /\ failures \in 0 .. PollFailLimit
    /\ cancelled \in BOOLEAN /\ hurt \in BOOLEAN
    /\ flavor \in Flavors /\ refs \in BOOLEAN
    /\ ndest \in 0 .. MaxDests /\ dests \subseteq 1 .. ndest /\ orphans \subseteq 1 .. ndest
    /\ row \in [stamp : Nat, dest : Nat, visit : Nat]
    /\ comp \in [type : {"host", "scan", "page", "complete"}, visit : Nat, seq : Nat]
    /\ panel \in {"idle", "menu", "scan", "prompt"} /\ panelDest \in Nat
    /\ panelFmt \in Formats /\ visit \in Nat /\ posted \in Nat
    /\ scanned \in [event : Nat, own : BOOLEAN] /\ blurred \subseteq Nat

TypeOK == LedmTypeOK /\ DocTypeOK

(* No stamp makes the session scan twice, nor an event that is older than   *)
(* one scanned for.  The type that is read is not always "why a ScanEvent   *)
(* fired" (ledm/walkup.go:241): a user may press between the poll and the   *)
(* two exchanges that follow it.  Only such a press gets a second scan,     *)
(* when its own stamp is polled.                                            *)
OneScanPerStamp ==
    [][pc # "wait" /\ pc' = "wait" =>
         \/ scanned.event < cur.seq
         \/ scanned.event = cur.seq /\ ~scanned.own]_vars

(* A PDF holds the pages of one walkup, and a walkup has one PDF, unless    *)
(* its document grew old in between, a scan began when its user had left    *)
(* and the next had come, or a press got two scans - also when the event    *)
(* that ends a walkup is overwritten in the table before it was seen, and   *)
(* when scans or reads fail.                                                *)
WalkupsKeptApart ==
    \A f, g \in Pdfs : /\ \A v, w \in Walkups(f) \ blurred : v = w
                       /\ (Walkups(f) \cap Walkups(g)) \ blurred # {} => f = g

(* The JPEG pages of a walkup are numbered 1, 2, 3, ..., whatever became of *)
(* the events of the walkup before.                                         *)
JpegNumbersRight == blurred = {} /\ lost = {} => JpegsNumbered

(* An event that was in the table before the session began is not acted on, *)
(* also by a printer whose events refer to no destination.                  *)
OldEventsNotReplayed == 0 \notin Range(owner)

(* The panel offers the one entry whose events the session takes for its    *)
(* own, apart from entries whose registration it never heard the answer of; *)
(* and when nothing went wrong, a session that ended leaves none behind.    *)
EntriesKnown ==
    dests \subseteq orphans \cup (IF pc = "done" /\ ~hurt THEN {} ELSE {dest})

(* When nothing goes wrong, a scan asked for at the panel is made, once the *)
(* session has read the table for the first time.                           *)
ScanIsServed ==
    (/\ panel = "scan" /\ panelDest \in dests /\ pc \notin {"setup", "baseline"}
     /\ row.visit = visit /\ row.stamp # seen)
        ~> (panel # "scan" \/ hurt \/ cancelled)

(* An open document is saved in the end, also when the event that ends its  *)
(* walkup never arrives or the session ends.                                *)
DocumentIsClosed == []<>(doc = << >>)

(* "After a printer power cycle, registrations are lost; the daemon         *)
(* re-registers automatically on the next event or reconnect"               *)
(* (README.md:187-188).                                                     *)
EventRestoresEntry ==
    (pc = "poll" /\ dest \notin dests /\ row.stamp \notin {0, seen})
        ~> (dest \in dests \/ pc = "done")
=============================================================================
