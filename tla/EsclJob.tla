------------------------------- MODULE EsclJob -------------------------------
(***************************************************************************)
(* The scan jobs of one eSCL client, one after another (escl/client.go:    *)
(* ScanPages, createJob, nextDocument, deleteJob).  A job is a queue of    *)
(* documents on the printer: the client fetches until 404, except that it  *)
(* leaves a flatbed job open after its one page, because a DELETE would    *)
(* tell the panel that the user cancelled.                                 *)
(***************************************************************************)
EXTENDS Integers, Sequences

CONSTANTS
    MaxRetries, \* repeated POSTs after 503 (5 in the source)
    MaxCalls,   \* bound: calls of ScanPages
    MaxSheets,  \* bound: sheets in the feeder
    Faults      \* the failures an instance lets happen, by name

ASSUME EsclJobAssumption == MaxRetries \in Nat /\ MaxCalls \in Nat /\ MaxSheets \in Nat

VARIABLES
    \* the client
    pc,         \* where ScanPages is
    src,        \* the source of its settings
    attempt,
    pages,      \* what it collected
    \* the printer
    njobs,      \* jobs it ever accepted
    sheets,     \* sheets the last job has yet to take in
    queue,      \* pages the last job has ready
    open,       \* the last job is still Processing
    settling,   \* the scanner is finishing with the last page
    scanned,    \* pages it ever took
    \* history
    calls,      \* calls of ScanPages
    returned,   \* the pages they returned
    cancelled,  \* jobs recorded as JobCanceledByUser
    hurt        \* whether anything went wrong

clientVars == <<pc, src, attempt, pages>>
printerVars == <<njobs, sheets, queue, open, settling, scanned>>
vars == <<clientVars, printerVars, calls, returned, cancelled, hurt>>

Sources == {"flatbed", "feeder"}

Init ==
    /\ pc = "idle" /\ src = "flatbed" /\ attempt = 0 /\ pages = << >>
    /\ njobs = 0 /\ sheets = 0 /\ queue = << >> /\ open = FALSE /\ settling = FALSE
    /\ scanned = 0
    /\ calls = 0 /\ returned = << >> /\ cancelled = {} /\ hurt = FALSE

Goes == UNCHANGED hurt
Wrong(fault) == fault \in Faults /\ hurt' = TRUE

\* ScanPages returns what it collected; without a page that is an error.
Return(got) ==
    /\ pc' = "idle" /\ pages' = << >> /\ returned' = returned \o got
    /\ UNCHANGED <<src, attempt>>

-----------------------------------------------------------------------------
(* The client. *)

Call(s) ==
    /\ pc = "idle" /\ calls < MaxCalls
    /\ calls' = calls + 1
    /\ pc' = "post" /\ src' = s /\ attempt' = 0 /\ UNCHANGED pages
    /\ Goes /\ UNCHANGED <<printerVars, returned, cancelled>>

\* A scanner with pages nobody fetched, or still at work, answers 503.
Busy == sheets > 0 \/ queue # << >> \/ settling

\* The printer accepts POST /ScanJobs.  A job that was left open is over.
\* The feeder may turn out to be empty.
Accept ==
    /\ ~Busy
    /\ njobs' = njobs + 1 /\ open' = TRUE
    /\ \E n \in 0 .. MaxSheets : sheets' = n /\ (src = "flatbed" => n = 1)
    /\ UNCHANGED <<queue, settling, scanned>>

\* Mutant: an error is taken for 503.
CreateJobRetriesErrors ==
    /\ pc = "post" /\ UNCHANGED <<calls, cancelled>>
    /\ \/ /\ Accept /\ pc' = "next"
          /\ Goes /\ UNCHANGED <<src, attempt, pages, returned>>
       \/ /\ Accept \/ UNCHANGED printerVars
          /\ Wrong("reply") /\ attempt < MaxRetries
          /\ attempt' = attempt + 1 /\ UNCHANGED <<pc, src, pages, returned>>

\* Mutant: 503 is repeated for ever.
CreateJobUnlimited ==
    /\ pc = "post" /\ UNCHANGED <<calls, cancelled>>
    /\ \/ Accept /\ pc' = "next" /\ UNCHANGED attempt
       \/ Busy /\ attempt' = attempt + 1 /\ UNCHANGED <<pc, printerVars>>
    /\ Goes /\ UNCHANGED <<src, pages, returned>>

\* createJob: 503 is repeated up to MaxRetries times, an error is not: the
\* printer may have accepted the job and the reply may be lost.
CreateJob ==
    /\ pc = "post" /\ UNCHANGED <<calls, cancelled>>
    /\ \/ /\ Accept /\ pc' = "next"
          /\ Goes /\ UNCHANGED <<src, attempt, pages, returned>>
       \/ /\ Busy /\ attempt < MaxRetries
          /\ attempt' = attempt + 1
          /\ Goes /\ UNCHANGED <<pc, src, pages, returned, printerVars>>
       \/ /\ Busy /\ attempt = MaxRetries
          /\ Return(<< >>) /\ Goes /\ UNCHANGED printerVars
       \/ /\ Accept /\ Wrong("reply") /\ Return(<< >>)
       \/ /\ Wrong("net") /\ Return(<< >>) /\ UNCHANGED printerVars

\* Mutant: a flatbed job is deleted like any other.
NextDocumentThenDelete ==
    /\ pc = "next" /\ queue # << >>
    /\ queue' = Tail(queue) /\ pages' = Append(pages, Head(queue))
    /\ settling' = (sheets = 0) /\ pc' = IF src = "flatbed" THEN "delete" ELSE pc
    /\ Goes
    /\ UNCHANGED <<src, attempt, njobs, sheets, open, scanned, calls, returned, cancelled>>

\* NextDocument answers 200 with a page; from the glass there is one.
NextDocument ==
    /\ pc = "next" /\ queue # << >>
    /\ queue' = Tail(queue)
    /\ settling' = (sheets = 0)
    /\ IF src = "flatbed" THEN Return(Append(pages, Head(queue)))
       ELSE /\ pages' = Append(pages, Head(queue))
            /\ UNCHANGED <<pc, src, attempt, returned>>
    /\ Goes
    /\ UNCHANGED <<njobs, sheets, open, scanned, calls, cancelled>>

\* Mutant: 503 is taken for 404.
NoMoreDocumentsYet ==
    /\ pc = "next" /\ queue = << >>
    /\ pc' = "delete"
    /\ Goes
    /\ UNCHANGED <<src, attempt, pages, printerVars, calls, returned, cancelled>>

\* NextDocument answers 404 (410, or 200 with nothing in it): no page left.
NoMoreDocuments ==
    /\ pc = "next" /\ ~open
    /\ pc' = "delete"
    /\ Goes
    /\ UNCHANGED <<src, attempt, pages, printerVars, calls, returned, cancelled>>

\* Mutant: the client asks for the next page after an error.
InterruptedGoesOn ==
    /\ pc = "next" /\ queue # << >> /\ Wrong("reply") /\ queue' = Tail(queue)
    /\ UNCHANGED <<clientVars, njobs, sheets, open, settling, scanned, calls, returned, cancelled>>

\* NextDocument fails: no connection, a page lost with its reply, or 503 for
\* five minutes.  The pages received are kept, and the job is left alone.
Interrupted ==
    /\ pc = "next"
    /\ \/ Wrong("net") /\ UNCHANGED queue
       \/ queue # << >> /\ Wrong("reply") /\ queue' = Tail(queue)
       \/ queue = << >> /\ open /\ hurt' = TRUE /\ UNCHANGED queue
    /\ Return(pages)
    /\ UNCHANGED <<njobs, sheets, open, settling, scanned, calls, cancelled>>

\* The deferred deleteJob, best effort, and the return.
DeleteJob ==
    /\ pc = "delete"
    /\ \/ /\ cancelled' = IF open THEN cancelled \cup {njobs} ELSE cancelled
          /\ open' = FALSE /\ Goes
       \/ /\ Wrong("net") /\ UNCHANGED <<open, cancelled>>
    /\ Return(pages)
    /\ UNCHANGED <<njobs, sheets, queue, settling, scanned, calls>>

-----------------------------------------------------------------------------
(* The printer. *)

TakeSheet ==
    /\ sheets > 0
    /\ sheets' = sheets - 1 /\ scanned' = scanned + 1 /\ queue' = Append(queue, scanned + 1)
    /\ Goes
    /\ UNCHANGED <<clientVars, njobs, open, settling, calls, returned, cancelled>>

Settle ==
    /\ settling /\ settling' = FALSE
    /\ Goes
    /\ UNCHANGED <<clientVars, njobs, sheets, queue, open, scanned, calls, returned, cancelled>>

\* A feeder job ends with its last page, a flatbed job when the panel is done.
EndJob ==
    /\ open /\ sheets = 0 /\ queue = << >>
    /\ open' = FALSE
    /\ Goes
    /\ UNCHANGED <<clientVars, njobs, sheets, queue, settling, scanned, calls, returned, cancelled>>

\* Paper jams, or the printer tires of a job nobody fetches.
AbortJob ==
    /\ Wrong("abort") /\ open
    /\ open' = FALSE /\ sheets' = 0 /\ queue' = << >>
    /\ UNCHANGED <<clientVars, njobs, settling, scanned, calls, returned, cancelled>>

Finished == pc = "idle" /\ calls = MaxCalls /\ UNCHANGED vars

ClientStep == CreateJob \/ NextDocument \/ NoMoreDocuments \/ Interrupted \/ DeleteJob

Next ==
    \/ ClientStep \/ \E s \in Sources : Call(s)
    \/ TakeSheet \/ Settle \/ EndJob \/ AbortJob
    \/ Finished

Spec == Init /\ [][Next]_vars

-----------------------------------------------------------------------------
TypeOK ==
    /\ pc \in {"idle", "post", "next", "delete"} /\ src \in Sources
    /\ attempt \in 0 .. MaxRetries /\ pages \in Seq(1 .. scanned)
    /\ njobs \in Nat /\ sheets \in 0 .. MaxSheets /\ queue \in Seq(1 .. scanned)
    /\ open \in BOOLEAN /\ settling \in BOOLEAN /\ scanned \in Nat
    /\ calls \in 0 .. MaxCalls /\ returned \in Seq(1 .. scanned)
    /\ cancelled \subseteq 1 .. njobs /\ hurt \in BOOLEAN

ScanPages == INSTANCE ScanCall WITH busy <- pc # "idle", MaxPage <- MaxCalls * MaxSheets

(* A call returns pages that were scanned one after another, none twice and *)
(* none of an earlier job, whatever replies are lost and jobs abandoned.    *)
ReturnsScanned == ScanPages!Spec

(* Nothing the client does makes the printer record a job as cancelled by   *)
(* the user: DELETE meets finished jobs only.                               *)
NothingCancelled == cancelled = {}

(* When nothing goes wrong, every page the scanner takes is returned.       *)
AllPagesReturned == pc = "idle" /\ ~hurt => Len(returned) = scanned

(* A lost reply never makes the printer scan twice: there is at most one    *)
(* job for each call.                                                       *)
OneJobPerCall == njobs <= calls
=============================================================================
