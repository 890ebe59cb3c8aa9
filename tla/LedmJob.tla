------------------------------- MODULE LedmJob -------------------------------
(***************************************************************************)
(* The scan jobs of one LEDM client, one after another (ledm/scan.go:      *)
(* ScanPages, jobFinished, getJob, download).  The client polls a listing  *)
(* of the job, downloads the pages it lists as ready, and stops when the   *)
(* listing says so.  The listing is a snapshot: the job goes on while its  *)
(* pages are downloaded, and a page may still be listed as ready after it  *)
(* was uploaded.                                                           *)
(***************************************************************************)
EXTENDS Integers, Sequences

CONSTANTS
    IdlePolls,  \* listings without a new page that make up five minutes
    MaxCalls,   \* bound: calls of ScanPages
    MaxSheets,  \* bound: sheets in the feeder
    Faults      \* the failures an instance lets happen, by name

ASSUME LedmJobAssumption ==
    IdlePolls \in Nat \ {0, 1} /\ MaxCalls \in Nat /\ MaxSheets \in Nat

VARIABLES
    \* the client
    pc,         \* where ScanPages is
    src,        \* the source of its settings
    pages,      \* what it collected
    listing,    \* the listing it works through
    idle,       \* listings since the last page it received
    \* the printer
    sheets,     \* sheets the job has yet to take in
    ready,      \* pages to upload, in order
    stale,      \* uploaded pages that are still listed as ready, in order
    uploaded,   \* whether a page is listed as uploaded
    state,      \* the job's state
    scanned,    \* pages the printer ever took
    \* history
    calls,      \* calls of ScanPages
    returned,   \* the pages they returned
    hurt        \* whether anything went wrong

clientVars == <<pc, src, pages, listing, idle>>
printerVars == <<sheets, ready, stale, uploaded, state, scanned>>
vars == <<clientVars, printerVars, calls, returned, hurt>>

Sources == {"flatbed", "feeder"}
NoListing == [pre |-> << >>, uploaded |-> FALSE, over |-> FALSE]

Init ==
    /\ pc = "idle" /\ src = "flatbed" /\ pages = << >> /\ listing = NoListing /\ idle = 0
    /\ sheets = 0 /\ ready = << >> /\ stale = << >> /\ uploaded = FALSE
    /\ state = "Completed" /\ scanned = 0
    /\ calls = 0 /\ returned = << >> /\ hurt = FALSE

Goes == UNCHANGED hurt
Wrong(fault) == fault \in Faults /\ hurt' = TRUE

Return(got) ==
    /\ pc' = "idle" /\ pages' = << >> /\ listing' = NoListing
    /\ returned' = returned \o got
    /\ idle' = 0 /\ UNCHANGED src

-----------------------------------------------------------------------------
(* The client. *)

Call(s) ==
    /\ pc = "idle" /\ calls < MaxCalls
    /\ calls' = calls + 1
    /\ pc' = "post" /\ src' = s /\ UNCHANGED <<pages, listing, idle>>
    /\ Goes /\ UNCHANGED <<printerVars, returned>>

\* POST /Scan/Jobs, which replaces what was left of an earlier job.
Accept ==
    /\ \E n \in 1 .. MaxSheets : sheets' = n /\ (src = "flatbed" => n = 1)
    /\ ready' = << >> /\ stale' = << >> /\ uploaded' = FALSE /\ state' = "Processing"
    /\ UNCHANGED scanned

CreateJob ==
    /\ pc = "post"
    /\ \/ /\ Accept /\ pc' = "poll"
          /\ Goes /\ UNCHANGED <<src, pages, listing, idle, returned>>
       \/ /\ Accept \/ UNCHANGED printerVars
          /\ Wrong("net") /\ Return(<< >>)
    /\ UNCHANGED calls

\* Mutant: the deadline is moved on by every listing.
GetJobMovesDeadline ==
    /\ pc = "poll"
    /\ listing' = [pre |-> stale \o ready, uploaded |-> uploaded,
                   over |-> state \in {"Completed", "Canceled"}]
    /\ pc' = "pages"
    /\ Goes /\ UNCHANGED <<src, pages, idle, returned, printerVars, calls>>

\* Mutant: the deadline is looked at only when a page arrives.
GetJobPastDeadline ==
    /\ pc = "poll"
    /\ listing' = [pre |-> stale \o ready, uploaded |-> uploaded,
                   over |-> state \in {"Completed", "Canceled"}]
    /\ pc' = "pages" /\ idle' = idle + 1
    /\ Goes /\ UNCHANGED <<src, pages, returned, printerVars, calls>>

\* getJob, inside the deadline.  An error discards what was collected.
GetJob ==
    /\ pc = "poll" /\ idle < IdlePolls
    /\ \/ /\ listing' = [pre |-> stale \o ready, uploaded |-> uploaded,
                         over |-> state \in {"Completed", "Canceled"}]
          /\ pc' = "pages" /\ idle' = idle + 1
          /\ Goes /\ UNCHANGED <<src, pages, returned>>
       \/ Wrong("net") /\ Return(<< >>)
    /\ UNCHANGED <<printerVars, calls>>

\* Mutant: a page that is listed again is downloaded again.
GotNothing == {}

\* got: the pages downloaded so far.
Got == {pages[i] : i \in DOMAIN pages}

\* The page is at hand: ready, or uploaded before and not yet settled.
Upload(p) ==
    /\ state # "Canceled"
    /\ IF ready # << >> /\ p = Head(ready)
       THEN ready' = Tail(ready) /\ stale' = Append(stale, p) /\ uploaded' = TRUE
       ELSE UNCHANGED <<ready, stale, uploaded>>

\* The next page of the listing: skipped if the client has it, or downloaded.
\* An error, or a reply lost on the way, discards what was collected.
Download ==
    /\ pc = "pages" /\ listing.pre # << >>
    /\ LET p == Head(listing.pre)
       IN \/ /\ p \in Got
             /\ listing' = [listing EXCEPT !.pre = Tail(@)]
             /\ Goes /\ UNCHANGED <<pc, src, pages, idle, returned, ready, stale, uploaded>>
          \/ /\ p \notin Got /\ Upload(p)
             /\ pages' = Append(pages, p) /\ idle' = 0
             /\ listing' = [listing EXCEPT !.pre = Tail(@)]
             /\ Goes /\ UNCHANGED <<pc, src, returned>>
          \/ /\ p \notin Got
             /\ \/ Upload(p) /\ Wrong("net")
                \/ Wrong("net") /\ UNCHANGED <<ready, stale, uploaded>>
                \/ state = "Canceled" /\ Goes /\ UNCHANGED <<ready, stale, uploaded>>
             /\ Return(<< >>)
    /\ UNCHANGED <<sheets, state, scanned, calls>>

\* Mutants of jobFinished: a page is enough for any source; the firmware
\* that stays in Processing is not thought of.
JobFinishedWithAPage == listing.over \/ (pages # << >> /\ listing.uploaded)
JobFinishedWhenOver == listing.over

\* jobFinished: the job says that it is over, or a flatbed job has delivered
\* its page (some firmwares leave those in Processing for good).
JobFinished ==
    listing.over \/ (src = "flatbed" /\ pages # << >> /\ listing.uploaded)

\* The end of the listing.
EndOfListing ==
    /\ pc = "pages" /\ listing.pre = << >>
    /\ IF JobFinished THEN Return(pages)
       ELSE pc' = "poll" /\ listing' = NoListing /\ UNCHANGED <<src, pages, idle, returned>>
    /\ Goes /\ UNCHANGED <<printerVars, calls>>

\* Five minutes went by without a page: those received are kept.
Deadline ==
    /\ pc = "poll" /\ idle = IdlePolls
    /\ hurt' = TRUE /\ Return(pages)
    /\ UNCHANGED <<printerVars, calls>>

-----------------------------------------------------------------------------
(* The printer. *)

TakeSheet ==
    /\ sheets > 0 /\ state = "Processing"
    /\ sheets' = sheets - 1 /\ scanned' = scanned + 1 /\ ready' = Append(ready, scanned + 1)
    /\ Goes /\ UNCHANGED <<clientVars, stale, uploaded, state, calls, returned>>

\* The listing catches up with an upload.
Settle ==
    /\ stale # << >> /\ stale' = Tail(stale)
    /\ Goes
    /\ UNCHANGED <<clientVars, sheets, ready, uploaded, state, scanned, calls, returned>>

\* The job is over when its last page was uploaded.
Complete ==
    /\ state = "Processing" /\ sheets = 0 /\ ready = << >>
    /\ state' = "Completed"
    /\ Goes
    /\ UNCHANGED <<clientVars, sheets, ready, stale, uploaded, scanned, calls, returned>>

\* Paper jams or the user cancels at the panel; pages may stay listed.
CancelJob ==
    /\ Wrong("cancel") /\ state = "Processing"
    /\ state' = "Canceled" /\ sheets' = 0
    /\ ready' \in {ready, << >>}
    /\ UNCHANGED <<clientVars, stale, uploaded, scanned, calls, returned>>

Finished == pc = "idle" /\ calls = MaxCalls /\ UNCHANGED vars

ClientStep == CreateJob \/ GetJob \/ Download \/ EndOfListing \/ Deadline

Next ==
    \/ ClientStep \/ \E s \in Sources : Call(s)
    \/ TakeSheet \/ Settle \/ Complete \/ CancelJob
    \/ Finished

Spec == Init /\ [][Next]_vars

\* The client goes on; nothing is assumed of the printer.
FairSpec == Spec /\ WF_vars(ClientStep)

-----------------------------------------------------------------------------
TypeOK ==
    /\ pc \in {"idle", "post", "poll", "pages"} /\ src \in Sources
    /\ pages \in Seq(1 .. scanned)
    /\ listing \in [pre : Seq(1 .. scanned), uploaded : BOOLEAN, over : BOOLEAN]
    /\ idle \in 0 .. IdlePolls /\ sheets \in 0 .. MaxSheets /\ ready \in Seq(1 .. scanned) /\ stale \in Seq(1 .. scanned)
    /\ uploaded \in BOOLEAN /\ state \in {"Processing", "Completed", "Canceled"}
    /\ scanned \in Nat /\ calls \in 0 .. MaxCalls /\ returned \in Seq(1 .. scanned)
    /\ hurt \in BOOLEAN

ScanPages == INSTANCE ScanCall WITH busy <- pc # "idle", MaxPage <- MaxCalls * MaxSheets

(* A call returns pages that were scanned one after another, none twice,    *)
(* though the listings it works through are out of date.                    *)
ReturnsScanned == ScanPages!Spec

(* When nothing goes wrong, a call returns every page of its job: it does   *)
(* not stop at a listing that is ahead of the last page, or behind it.      *)
AllPagesReturned == pc = "idle" /\ ~hurt => Len(returned) = scanned

(* A flatbed scan whose page has arrived is over without the five minutes  *)
(* of the deadline, also with a firmware that stays in Processing.          *)
FlatbedNeedsNoDeadline == [][Deadline => src = "feeder" \/ pages = << >>]_vars

(* Every call ends, whatever the printer does.                              *)
CallEnds == (pc # "idle") ~> (pc = "idle")
=============================================================================
