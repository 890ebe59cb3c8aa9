----------------------------- MODULE EsclSession -----------------------------
(***************************************************************************)
(* One eSCL session of the daemon with one printer (daemon/escl.go,        *)
(* escl/walkup.go): the handler goroutine esclLoop and the poller goroutine*)
(* esclPoll, the channel and the subscription they share, and a printer    *)
(* with a user at its panel.                                               *)
(*                                                                         *)
(* The HTTP exchanges are steps of their own, so a poll, a registration or *)
(* a scan job can be under way when anything else happens.  A scan job is  *)
(* one step here; EsclJob models what it consists of.                      *)
(***************************************************************************)
EXTENDS Documents

CONSTANTS
    ChanCap,        \* capacity of the events channel (8 in the source)
    PollFailLimit,  \* consecutive failed polls that end a session (5)
    MaxSubs,        \* bound: registrations the printer ever accepts
    MaxVisits,      \* bound: visits of a user to the panel
    MaxPosts,       \* bound: events the panel posts while the user goes on
    MaxFeed         \* bound: sheets in the feeder

ASSUME EsclAssumption ==
    /\ ChanCap \in Nat \ {0} /\ PollFailLimit \in Nat \ {0}
    /\ MaxSubs \in Nat \ {0} /\ MaxVisits \in Nat /\ MaxPosts \in Nat /\ MaxFeed \in Nat

VARIABLES
    \* the handler (serveOne, esclLoop, onESCLEvent, esclScan, esclTeardown)
    hpc,        \* where it is
    cur,        \* the event it is scanning for
    job,        \* its scan job: the ContextID it quotes and its source
    tdsub,      \* the subscription esclTeardown took out of d.esub
    \* the poller (esclPoll)
    ppc,        \* where it is; "exit" also before it is started
    psub,       \* the subscription of its request
    pev,        \* the event it wants to send
    failures,
    \* what they share
    events,     \* the channel
    pollErr,    \* the fatal error channel holds an error
    esub,       \* d.esub; 0 is nil
    cancelled,  \* ctx is done
    \* the printer and its user
    subs,       \* this computer's entries on the panel
    nsubs,      \* the newest entry the printer ever made
    wedged,     \* entries whose Event resource answers 503 for good
    pend,       \* pend[s]: events of entry s nobody has polled yet
    panel,      \* what the panel shows
    panelSub,   \* the entry the user selected
    panelFmt,   \* the shortcut the user pressed
    visit,      \* number of the current visit
    posted      \* number of events the panel has posted (history)

handlerVars == <<hpc, cur, job, tdsub>>
pollerVars == <<ppc, psub, pev, failures>>
sharedVars == <<events, pollErr, esub, cancelled>>
entryVars == <<subs, nsubs, wedged, pend>>
panelVars == <<panel, panelSub, panelFmt, visit, posted>>
vars == <<handlerVars, pollerVars, sharedVars, entryVars, panelVars, docVars>>

\* What formatFor makes of a shortcut's name: the format of the file.
Formats == {"pdf", "jpeg"}
Sources == {"flatbed", "feeder"}

\* A WalkupEvent.  sub is the entry its ResourceURI names; the visit and
\* the number are not in the event (history).
Event == [type : {"host", "scan", "complete"}, fmt : Formats, sub : Nat, visit : Nat, seq : Nat]
NoEvent == [type |-> "host", fmt |-> "pdf", sub |-> 0, visit |-> 0, seq |-> 0]
\* The settings of a scan job: its ContextID and its source.
Job == [ctx : Nat, src : Sources]
NoJob == [ctx |-> 0, src |-> "flatbed"]

\* pollCtx is a child of ctx that esclLoop cancels when it returns.
PollCtxDone == cancelled \/ hpc \in {"teardown", "unsub", "done"}

Ended == hpc = "done" /\ ppc = "exit"

Init ==
    /\ hpc = "setup" /\ cur = NoEvent /\ job = NoJob /\ tdsub = 0
    /\ ppc = "exit" /\ psub = 0 /\ pev = NoEvent /\ failures = 0
    /\ events = << >> /\ pollErr = FALSE /\ esub = 0 /\ cancelled = FALSE
    /\ subs = {} /\ nsubs = 0 /\ wedged = {} /\ pend = [s \in 1 .. MaxSubs |-> << >>]
    /\ panel = "idle" /\ panelSub = 0 /\ panelFmt = "pdf" /\ visit = 0 /\ posted = 0
    /\ DocInit

-----------------------------------------------------------------------------
(* The printer. *)

\* POST /WalkupSubscriptions makes a new entry.
Enter ==
    /\ nsubs < MaxSubs
    /\ nsubs' = nsubs + 1
    /\ subs' = subs \cup {nsubs + 1}
    /\ UNCHANGED <<wedged, pend>>

\* Entry s disappears, with the events nobody polled and the visit using it:
\* what Client.Unsubscribe brings about (404 is success), and an eviction.
Forget(s) ==
    /\ subs' = subs \ {s}
    /\ wedged' = wedged \ {s}
    /\ pend' = [t \in 1 .. MaxSubs |-> IF t = s THEN << >> ELSE pend[t]]
    /\ panel' = IF panelSub = s THEN "idle" ELSE panel
    /\ UNCHANGED <<nsubs, panelSub, panelFmt, visit, posted>>

Post(type, fmt, s, v) ==
    /\ posted' = posted + 1
    /\ pend' = [pend EXCEPT ![s] = Append(@, [type |-> type, fmt |-> fmt, sub |-> s,
                                              visit |-> v, seq |-> posted + 1])]

-----------------------------------------------------------------------------
(* The handler. *)

\* esclSetup: capabilities and registration; then esclLoop starts the poller.
\* An error, which may have swallowed the reply to an accepted registration,
\* ends the session without a teardown.
Setup ==
    /\ hpc = "setup"
    /\ \/ /\ Enter
          /\ esub' = nsubs + 1 /\ hpc' = "select" /\ ppc' = "poll"
       \/ /\ "reply" \in Faults \/ cancelled
          /\ Enter
          /\ hpc' = "done" /\ UNCHANGED <<esub, ppc>>
       \/ /\ "net" \in Faults \/ cancelled
          /\ hpc' = "done" /\ UNCHANGED <<esub, ppc, entryVars>>
    /\ UNCHANGED <<cur, job, tdsub, psub, pev, failures, events, pollErr, cancelled,
                   panelVars, docVars>>

\* onESCLEvent on ScanPagesComplete.
PagesCompleteNoFinish == jpegPage' = 0 /\ UNCHANGED <<doc, files, lost>>      \* mutant
PagesCompleteNoReset == FinishDocument /\ UNCHANGED jpegPage                 \* mutant
PagesComplete == FinishDocument /\ jpegPage' = 0

\* The events case of esclLoop's select, and onESCLEvent up to the scan.
TakeEvent ==
    /\ hpc = "select" /\ events # << >>
    /\ events' = Tail(events)
    /\ \/ /\ Head(events).type = "host"
          /\ UNCHANGED <<hpc, cur, docVars>>
       \/ /\ Head(events).type = "scan"
          /\ hpc' = "wait" /\ cur' = Head(events)
          /\ UNCHANGED docVars
       \/ /\ Head(events).type = "complete"
          /\ PagesComplete
          /\ UNCHANGED <<hpc, cur, owner>>
    /\ UNCHANGED <<job, tdsub, pollerVars, pollErr, esub, cancelled, entryVars, panelVars>>

\* The idle tick of the select, when it finds the open document's last page
\* older than page_timeout.  It fires only while the channel is empty.
ExpireDocument ==
    /\ "expire" \in Faults
    /\ hpc = "select" /\ events = << >> /\ doc # << >>
    /\ FinishDocument
    /\ UNCHANGED <<owner, jpegPage, handlerVars, pollerVars, sharedVars, entryVars, panelVars>>

\* The ctx.Done and pollErr cases of the select.
LoopEnds ==
    /\ hpc = "select" /\ (cancelled \/ pollErr)
    /\ hpc' = "teardown"
    /\ UNCHANGED <<cur, job, tdsub, pollerVars, sharedVars, entryVars, panelVars, docVars>>

\* WaitIdle returns without an error: a poll of the status found the scanner
\* idle while its context lasted.
WaitIdle == hpc = "wait" /\ ~cancelled

\* esclSettings for a source; resolution and size have no part in the session.
EsclSettings(src) == [NoJob EXCEPT !.src = src]

\* esclScan once WaitIdle returned: it picks the source by the feeder's
\* state and quotes the subscription d.esub holds now.
ScannerIdle(src) ==
    /\ WaitIdle
    /\ hpc' = "job" /\ job' = [EsclSettings(src) EXCEPT !.ctx = esub]
    /\ UNCHANGED <<cur, tdsub, pollerVars, sharedVars, entryVars, panelVars, docVars>>

\* WaitIdle or ScanPages returns an error; esclLoop logs it and goes on.
ScanFails ==
    /\ hpc \in {"wait", "job"} /\ ("scan" \in Faults \/ cancelled)
    /\ hpc' = "select"
    /\ UNCHANGED <<cur, job, tdsub, pollerVars, sharedVars, entryVars, panelVars, docVars>>

\* ScanPages returns n pages and esclScan files them.  The panel asks about
\* another page if the job named the visit it is showing and took its page
\* from the glass; a feeder run ends the visit, with a last event or without.
ScanDone(n) ==
    /\ hpc = "job"
    /\ job.src = "flatbed" => n = 1
    /\ FilePages(cur.fmt, n, cur.visit, job.src = "feeder")
    /\ hpc' = "select"
    /\ \/ /\ panel = "scan" /\ job.ctx = panelSub /\ job.src = "flatbed"
          /\ panel' = "prompt" /\ UNCHANGED <<pend, posted>>
       \/ /\ panel = "scan" /\ job.ctx = panelSub /\ job.src = "feeder"
          /\ panel' = "idle"
          /\ UNCHANGED <<pend, posted>> \/ Post("complete", panelFmt, panelSub, visit)
       \/ /\ panel # "scan" \/ job.ctx # panelSub
          /\ UNCHANGED <<panel, pend, posted>>
    /\ UNCHANGED <<cur, job, tdsub, pollerVars, sharedVars, subs, nsubs, wedged,
                   panelSub, panelFmt, visit>>

\* Mutant: d.esub is cleared before it is copied.
TakeSubLate ==
    /\ hpc = "teardown"
    /\ tdsub' = 0 /\ esub' = 0 /\ hpc' = "unsub"
    /\ UNCHANGED <<cur, job, pollerVars, events, pollErr, cancelled, entryVars, panelVars, docVars>>

\* esclTeardown takes d.esub under the lock ...
TakeSub ==
    /\ hpc = "teardown"
    /\ tdsub' = esub /\ esub' = 0 /\ hpc' = "unsub"
    /\ UNCHANGED <<cur, job, pollerVars, events, pollErr, cancelled, entryVars, panelVars, docVars>>

\* Mutant: the open document is dropped.
UnsubscribeOnly ==
    /\ hpc = "unsub"
    /\ Forget(tdsub)
    /\ hpc' = "done"
    /\ UNCHANGED <<docVars, cur, job, tdsub, pollerVars, sharedVars>>

\* ... deletes it on the printer, best effort, and finishes the document.
Unsubscribe ==
    /\ hpc = "unsub"
    /\ \/ Forget(tdsub)
       \/ "net" \in Faults /\ UNCHANGED <<entryVars, panelVars>>
    /\ FinishDocument
    /\ hpc' = "done"
    /\ UNCHANGED <<owner, jpegPage, cur, job, tdsub, pollerVars, sharedVars>>

-----------------------------------------------------------------------------
(* The poller. *)

\* The top of esclPoll's loop: NextEvent on the subscription of the moment.
PollStart ==
    /\ ppc = "poll" /\ ~PollCtxDone
    /\ psub' = esub /\ ppc' = "get"
    /\ UNCHANGED <<pev, failures, handlerVars, sharedVars, entryVars, panelVars, docVars>>

\* Mutant: the send has no ctx.Done case.
PollExitNotInSend ==
    /\ ppc = "poll" /\ PollCtxDone
    /\ ppc' = "exit"
    /\ UNCHANGED <<psub, pev, failures, handlerVars, sharedVars, entryVars, panelVars, docVars>>

\* It sees ctx done at the top of the loop, in a sleep or when sending.
PollExit ==
    /\ ppc \in {"poll", "send"} /\ PollCtxDone
    /\ ppc' = "exit"
    /\ UNCHANGED <<psub, pev, failures, handlerVars, sharedVars, entryVars, panelVars, docVars>>

\* The context ends the request under way, and with it the entry's Event
\* resource (walkup.go:231-233).
AbandonPoll ==
    /\ ppc = "get" /\ PollCtxDone
    /\ ppc' = "exit" /\ wedged' = wedged \cup ({psub} \cap subs)
    /\ UNCHANGED <<psub, pev, failures, handlerVars, sharedVars, subs, nsubs, pend,
                   panelVars, docVars>>

\* 204: nothing happened.
AnswerNothing ==
    /\ ppc = "get" /\ psub \in subs \ wedged /\ pend[psub] = << >>
    /\ ppc' = "poll" /\ failures' = 0
    /\ UNCHANGED <<psub, pev, handlerVars, sharedVars, entryVars, panelVars, docVars>>

\* Mutant: the event stays with the printer.
AnswerEventAgain ==
    /\ ppc = "get" /\ psub \in subs \ wedged /\ pend[psub] # << >>
    /\ ppc' = "send" /\ failures' = 0 /\ pev' = Head(pend[psub])
    /\ UNCHANGED <<psub, handlerVars, sharedVars, entryVars, panelVars, docVars>>

\* 200 with the next event.
AnswerEvent ==
    /\ ppc = "get" /\ psub \in subs \ wedged /\ pend[psub] # << >>
    /\ ppc' = "send" /\ failures' = 0
    /\ pev' = Head(pend[psub]) /\ pend' = [pend EXCEPT ![psub] = Tail(@)]
    /\ UNCHANGED <<psub, handlerVars, sharedVars, subs, nsubs, wedged, panelVars, docVars>>

\* Mutant: any bad answer is taken for a forgotten subscription.
AnswerGoneOrNot ==
    /\ ppc = "get"
    /\ ppc' = "reg"
    /\ UNCHANGED <<psub, pev, failures, handlerVars, sharedVars, entryVars, panelVars, docVars>>

\* Mutant: 404 is taken for "no event".
AnswerGoneIgnored ==
    /\ ppc = "get" /\ psub \notin subs
    /\ ppc' = "poll"
    /\ UNCHANGED <<psub, pev, failures, handlerVars, sharedVars, entryVars, panelVars, docVars>>

\* 404: the printer forgot the subscription, so the poller registers again.
AnswerGone ==
    /\ ppc = "get" /\ psub \notin subs
    /\ ppc' = "reg"
    /\ UNCHANGED <<psub, pev, failures, handlerVars, sharedVars, entryVars, panelVars, docVars>>

\* Mutant: a failed poll is not counted.
CountFailureNever == ppc' = "poll" /\ UNCHANGED <<failures, pollErr>>

\* Unless the context ended, a failure counts, and the limit is fatal.
CountFailure ==
    \/ /\ ~PollCtxDone /\ failures + 1 < PollFailLimit
       /\ failures' = failures + 1 /\ ppc' = "poll" /\ UNCHANGED pollErr
    \/ /\ ~PollCtxDone /\ failures + 1 >= PollFailLimit
       /\ failures' = failures + 1 /\ ppc' = "exit" /\ pollErr' = TRUE
    \/ /\ PollCtxDone
       /\ ppc' = "exit" /\ UNCHANGED <<failures, pollErr>>

\* A poll without an answer: no connection, a lost reply (and the event in
\* it), 503 from a wedged entry, or the client's own 30 s deadline, which
\* abandons the request.
PollFails ==
    /\ ppc = "get"
    /\ \/ "net" \in Faults /\ UNCHANGED <<pend, wedged>>
       \/ psub \in wedged /\ UNCHANGED <<pend, wedged>>
       \/ /\ "reply" \in Faults /\ psub \in subs \ wedged /\ pend[psub] # << >>
          /\ pend' = [pend EXCEPT ![psub] = Tail(@)] /\ UNCHANGED wedged
       \/ /\ "timeout" \in Faults /\ psub \in subs
          /\ wedged' = wedged \cup {psub} /\ UNCHANGED pend
    /\ CountFailure
    /\ UNCHANGED <<psub, pev, handlerVars, events, esub, cancelled, subs, nsubs, panelVars, docVars>>

\* esclRegister in the poller: the printer makes the entry ...
Register ==
    /\ ppc = "reg"
    /\ Enter
    /\ psub' = nsubs + 1 /\ ppc' = "store"
    /\ UNCHANGED <<pev, failures, handlerVars, sharedVars, panelVars, docVars>>

\* ... and its reply makes the poller replace d.esub, even after a teardown.
StoreSub ==
    /\ ppc = "store"
    /\ esub' = psub /\ ppc' = "poll"
    /\ UNCHANGED <<psub, pev, failures, handlerVars, events, pollErr, cancelled,
                   entryVars, panelVars, docVars>>

\* The registration fails, before the printer made the entry or after.
RegisterFails ==
    /\ \/ ppc = "reg" /\ ("net" \in Faults \/ PollCtxDone)
       \/ ppc = "store" /\ ("reply" \in Faults \/ PollCtxDone)
    /\ ppc' = "exit" /\ pollErr' = TRUE
    /\ UNCHANGED <<psub, pev, failures, handlerVars, events, esub, cancelled,
                   entryVars, panelVars, docVars>>

\* Mutant: the event is dropped if the channel is full.
SendEventOrDrop ==
    /\ ppc = "send"
    /\ events' = IF Len(events) < ChanCap THEN Append(events, pev) ELSE events
    /\ ppc' = "poll"
    /\ UNCHANGED <<psub, pev, failures, handlerVars, pollErr, esub, cancelled,
                   entryVars, panelVars, docVars>>

\* The poller's blocking send.
SendEvent ==
    /\ ppc = "send" /\ Len(events) < ChanCap
    /\ events' = Append(events, pev) /\ ppc' = "poll"
    /\ UNCHANGED <<psub, pev, failures, handlerVars, pollErr, esub, cancelled,
                   entryVars, panelVars, docVars>>

-----------------------------------------------------------------------------
(* Everybody else. *)

\* The service is stopped.
Cancel ==
    /\ "cancel" \in Faults /\ ~cancelled
    /\ cancelled' = TRUE
    /\ UNCHANGED <<handlerVars, pollerVars, events, pollErr, esub, entryVars, panelVars, docVars>>

\* The printer reboots, or needs the entry for another computer.
Evict(s) ==
    /\ "evict" \in Faults /\ s \in subs /\ nsubs < MaxSubs
    /\ Forget(s)
    /\ UNCHANGED <<handlerVars, pollerVars, sharedVars, docVars>>

\* The user picks this computer, then a shortcut.
SelectHost(s) ==
    /\ panel = "idle" /\ s \in subs /\ visit < MaxVisits /\ posted < MaxPosts
    /\ panel' = "menu" /\ panelSub' = s /\ visit' = visit + 1
    /\ Post("host", "pdf", s, visit + 1)
    /\ UNCHANGED <<panelFmt, subs, nsubs, wedged, handlerVars, pollerVars, sharedVars, docVars>>

PressStart(fmt) ==
    /\ panel = "menu" /\ posted < MaxPosts
    /\ panel' = "scan" /\ panelFmt' = fmt
    /\ Post("scan", fmt, panelSub, visit)
    /\ UNCHANGED <<panelSub, visit, subs, nsubs, wedged, handlerVars, pollerVars, sharedVars, docVars>>

\* "Another page": the printer reuses ScanRequested (escl.go:190-193).
AddPage ==
    /\ panel = "prompt" /\ posted < MaxPosts
    /\ panel' = "scan"
    /\ Post("scan", panelFmt, panelSub, visit)
    /\ UNCHANGED <<panelSub, panelFmt, visit, subs, nsubs, wedged, handlerVars, pollerVars,
                   sharedVars, docVars>>

\* "Done": ScanPagesComplete.
PressDone ==
    /\ panel = "prompt"
    /\ panel' = "idle"
    /\ Post("complete", panelFmt, panelSub, visit)
    /\ UNCHANGED <<panelSub, panelFmt, visit, subs, nsubs, wedged, handlerVars, pollerVars,
                   sharedVars, docVars>>

\* The user walks away or cancels, and no event says so.
Leave ==
    /\ "leave" \in Faults /\ panel # "idle"
    /\ panel' = "idle"
    /\ UNCHANGED <<panelSub, panelFmt, visit, posted, entryVars, handlerVars, pollerVars, sharedVars, docVars>>

Terminated == Ended /\ UNCHANGED vars

HandlerStep ==
    \/ Setup \/ TakeEvent \/ LoopEnds \/ ScanFails \/ TakeSub \/ Unsubscribe
    \/ \E src \in Sources : ScannerIdle(src)
    \/ \E n \in 1 .. MaxFeed : ScanDone(n)

PollerStep ==
    \/ PollStart \/ PollExit \/ AbandonPoll \/ AnswerNothing \/ AnswerEvent \/ AnswerGone
    \/ PollFails \/ Register \/ StoreSub \/ RegisterFails \/ SendEvent

PanelStep ==
    \/ \E s \in subs : SelectHost(s) \/ Evict(s)
    \/ \E fmt \in Formats : PressStart(fmt)
    \/ AddPage \/ PressDone \/ Leave

Next == HandlerStep \/ PollerStep \/ PanelStep \/ ExpireDocument \/ Cancel \/ Terminated

Spec == Init /\ [][Next]_vars

\* Both goroutines keep running: every HTTP exchange has a deadline, the
\* handler's select always has a ready case within a second, and time passes
\* (the idle tick).  Nothing is assumed of the user or of other computers.
FairSpec ==
    /\ Spec
    /\ WF_vars(HandlerStep)
    /\ WF_vars(PollerStep)
    /\ WF_vars(ExpireDocument)

-----------------------------------------------------------------------------
SessionTypeOK ==
    /\ hpc \in {"setup", "select", "wait", "job", "teardown", "unsub", "done"}
    /\ cur \in Event
    /\ job \in Job
    /\ ppc \in {"poll", "get", "reg", "store", "send", "exit"}
    /\ pev \in Event
    /\ tdsub \in Nat /\ psub \in Nat /\ esub \in Nat /\ failures \in Nat
    /\ nsubs \in Nat /\ nsubs <= MaxSubs
    /\ panelSub \in Nat /\ visit \in Nat /\ posted \in Nat
    /\ events \in Seq(Event) /\ Len(events) <= ChanCap
    /\ pollErr \in BOOLEAN /\ cancelled \in BOOLEAN
    /\ subs \subseteq 1 .. nsubs /\ wedged \subseteq subs
    /\ pend \in [1 .. MaxSubs -> Seq(Event)]
    /\ panel \in {"idle", "menu", "scan", "prompt"} /\ panelFmt \in Formats

TypeOK == SessionTypeOK /\ DocTypeOK

(* The panel offers this computer at most once, and under its newest entry: *)
(* an entry is replaced only after the printer said it has forgotten it,    *)
(* whatever polls, registrations, teardowns and lost replies overlap.       *)
OneEntryOnPanel == subs \subseteq {nsubs}

(* No request of the poller is about an entry that was replaced: the        *)
(* subscription it read before the exchange is still the newest one when    *)
(* the answer comes.                                                        *)
PollsNewestEntry == ppc = "get" => psub = nsubs

(* A session that ends takes the entry it uses off the panel, if the printer *)
(* hears the DELETE.  An entry can stay only if the poller was registering  *)
(* it and d.esub did not name it yet: esclTeardown does not wait for the    *)
(* poller.                                                                  *)
TeardownClearsPanel ==
    [][hpc = "unsub" /\ hpc' = "done" /\ tdsub \notin subs'
          => tdsub # 0 /\ subs' \subseteq {psub} \ {tdsub}]_vars

\* What is under way from the panel to the handler, oldest first.
Undelivered ==
    events \o (IF ppc = "send" THEN <<pev>> ELSE << >>)
           \o (IF ppc = "exit" \/ nsubs = 0 THEN << >> ELSE pend[nsubs])

Queue == INSTANCE EventQueue WITH queue <- Undelivered

(* The channel, the poller and the printer together are one queue: events   *)
(* reach the handler in the order of the user's actions, none twice, none   *)
(* made up; polling and registering again can only lose some.               *)
DeliversInOrder == Queue!Spec

(* When nothing goes wrong, a scan the user asks for at the panel happens:  *)
(* the panel never waits for good for a job of this computer.               *)
ScanIsServed == (panel = "scan") ~> (panel # "scan")

(* A computer the printer forgot puts itself on the panel again, or the     *)
(* session ends (and the supervisor starts another).                        *)
ForgottenIsRestored ==
    (hpc = "select" /\ subs = {}) ~> (subs # {} \/ hpc = "done")

(* An entry whose event channel an abandoned poll wedged is not polled for  *)
(* ever: the failing polls end the session.                                 *)
WedgedEndsSession ==
    \A s \in 1 .. MaxSubs : (s \in wedged) ~> (s \notin wedged \/ hpc = "done")

(* An open document is always saved in the end, also when the panel never   *)
(* says that the walkup is complete or the session ends first.              *)
DocumentIsClosed == (doc # << >>) ~> (doc = << >>)

(* "That id is what a scan job quotes as its ContextID to say which walkup  *)
(* session it belongs to" (escl.go:165-166, 232-236): a scan job quotes the *)
(* entry at which the user pressed the button it is made for.               *)
JobNamesItsSession == hpc = "job" => job.ctx = cur.sub

(* Stopping the service stops both goroutines, wherever they are.           *)
CancelEndsSession == cancelled ~> Ended
=============================================================================
