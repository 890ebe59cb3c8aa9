# A TLA+ model of hpscan

hpscan makes the "Scan to Computer" button of HP printers work: a daemon
registers the computer on the panel of each printer, waits for the user to
press scan, pulls the pages over HTTP and saves them as PDF or JPEG.  This
directory models the part of it where things happen at the same time or fail
half way: the sessions with a printer, the scan jobs, the output folder, the
supervisor that keeps sessions alive and finds printers again, and the commands
that change the configuration and control the service.  TLC checks the models
on small instances; TLAPS proves the most important invariants for all of them.

Paths like `daemon.go:357` are under `src/internal/<package>/`, those of
`main.go` and `printers.go` under `src/cmd/hpscan/`.

## 1. The system

### Components

| Component (source) | State it keeps | Operations | Modelled in |
|---|---|---|---|
| Supervisor (`daemon/daemon.go:59-305`) | a loop for each target: address, backoff | resolve targets, connect, look up with mDNS, serve one session, wait | `Supervisor` |
| mDNS discovery (`discover/mdns.go`, `discover/legacy.go`) | the records of one browse | multicast browse, legacy queries in two rounds, merge, filter | `Discovery` |
| eSCL session (`daemon/escl.go`, `escl/walkup.go`) | `d.esub`, the `events` channel, failure count, fatal error | register, poll, deliver, handle, scan, re-register, tear down | `EsclSession`, `EventQueue` |
| LEDM session (`daemon/daemon.go:307-517`, `ledm/walkup.go`) | `d.destURI`, `d.seen`, failure count | register, first table, poll, read destination and event type, scan, re-register, tear down | `LedmSession` |
| Documents (`daemon/daemon.go:474-587`, `daemon/escl.go:258-287`) | `d.doc`, `d.jpegPage` | append, finish, expire, save JPEGs | `Documents` |
| Output folder (`daemon/daemon.go:574-639`) | the files | reserve a name, write the part file, rename | `OutputFolder`, `AtomicStore` |
| eSCL scan job (`escl/client.go:515-659`) | pages, attempt, job URL | POST, GET NextDocument, DELETE | `EsclJob`, `ScanCall` |
| LEDM scan job (`ledm/scan.go`) | pages, `got`, deadline | POST, GET of the job, download | `LedmJob`, `ScanCall` |
| Configuration (`config/config.go`) | the YAML file | load, validate, set, sample | `Config` |
| Service manager, pidfile (`service/*.go`) | the service's state, its process, the pidfile | start, stop, restart, status, write and remove the pidfile | `Service` |
| Command line (`main.go`, `printers.go`) | what a command is about to do | run, config init, config set, printer add and remove, start, stop, restart | `Service` |
| Protocol clients, capabilities (`escl/client.go`, `ledm/client.go`) | none | HTTP, XML | outcomes only |
| Scan settings (`escl.go:291`, `daemon.go:530`, `walkup.go:282`) | none | clamp, overlay | no |
| PDF writer (`pdf/pdf.go`) | none | encode | outcome only |

### How they interact

`Run` starts one goroutine for each target (`runLoop`).  It serves one session
after another (`runOnce`, `serveOne`).  An LEDM session is that goroutine alone.
An eSCL session adds a poller goroutine: the two share a channel of events, a
channel for a fatal error, a cancelled context, and `d.esub` under a mutex.
Both kinds ask a job client (`ScanPages`) for pages and give them to the same
document code, which saves through `outputPath` and `writeAtomic`.  Sessions of
different printers share nothing but the output folder.

The command line and the daemon are different processes that never talk to each
other.  They meet in the configuration file, which commands rewrite and a daemon
reads once, when it starts; in the service manager, which commands ask to stop
and start the daemon; and, where there is no manager, in the pidfile.

The other side is a printer: its list of computers, its queue or table of
events, its scanner, and a user at the panel who does things in an order of his
own.  Requests reach it or do not; replies come back or do not.

### What is hard

* The poller registers again, the handler scans, the session ends: all of them
  read or write the subscription, with requests under way.
* A press is a chain of separate requests (event, destination, event type,
  status, job), and the user or the printer may go on between any two of them.
* Replies are lost after the printer acted: an event is taken off its queue, an
  entry exists that nobody knows, a job runs that nobody fetches.
* Documents end by an event that may never come, so they also end by age, by a
  feeder run, by the next walkup (LEDM), and by the end of the session.
* Printers forget computers, move to other addresses, and reject requests while
  busy; two sessions save in the same second; the process may be killed.
* A browse hears what reaches it: a printer may be found without its address,
  twice, or not at all.
* A stop takes as long as a teardown, during which other commands start, stop
  and rewrite the file; a daemon may load the file in between.

### What correct means

* **Documents**: a page is in exactly one place, in scan order; a PDF is one
  walkup; JPEG pages are numbered from 1.
* **Sessions**: one entry on the panel, events handled once and in order, every
  scan the panel waits for is made, the session ends when it is told to and
  leaves nothing open.
* **Jobs**: pages in order, none twice, none of another job; no second job for
  one press; nothing cancelled that the user did not cancel.
* **Folder**: complete files only, nobody's scan replaced, no rubbish left.
* **Supervisor**: the right printer, by one loop, again and again.
* **Commands**: the file is always one a daemon can load; what a command changed
  reaches the daemon; what was running runs again; the pidfile is right.

`PROJECT.json` lists under "hazards" where the code could fail these, line by
line, with the properties that watch each line.

## 2. The modules

Every module names steps after the source.  An HTTP exchange that matters is a
step of its own, so that anything can happen between two of them; code between
two exchanges that touches only local state is one step.  What may go wrong in
an instance is listed in its constant `Faults`; "history" variables record what
the program does not know (which walkup a page belongs to) and are read by
properties only, or by the actions of the user.

**`Documents`** has the state both protocols share: `doc` (`d.doc.pages`),
`jpegPage`, the saved `files`, the `lost` pages.  A page is the number of its
arrival.  `FilePages` is the end of `scanPage` and `esclScan`; `FinishDocument`
is `finishDocument`, which forgets the document before it writes it.

**`EsclSession`** extends it.  `hpc` is where the handler is (`esclSetup`,
`esclLoop`'s select, waiting for the scanner, in a job, the two halves of
`esclTeardown`), `ppc` where the poller is (top of its loop, request under way,
registering, storing `d.esub`, sending to the channel).  The printer has
entries `subs`, for each a queue `pend`, and `wedged` entries: an abandoned poll
makes an entry answer 503 for good (`walkup.go:231-233`).  The panel's
protocol (`SelectHost`, `PressStart`, `AddPage`, `PressDone`) follows
`escl.go:189-196` and the event types of `walkup.go`.  A scan job is one step
here.

**`EventQueue`** is the abstract queue that channel, poller and printer
implement together: events come out in the order they were posted, none twice.

**`LedmSession`** is one goroutine, with the printer's `ScanEvent` row, its
event-type resource `comp`, its destinations, and both flavors of walkup.  `pc`
tells the exchanges apart: the poll, the GET of the destination, the GET of the
event type, the wait for the scanner, the job; user, printer and other computers
may act between any two of them.  `scanned` (history) is the event the last scan
was made for, and whether its own stamp asked for it.  Only the session reads
ctx, so a stop of the service is part of the first step that fails because of it
(`CtxDone`): a request, a wait, a job, or the loop's condition.

**`OutputFolder`** has the final names (`fs`) and the part files (`tmp`), any
number of sessions, and a crash.  A path is a rendered name (a *stem*) and the
number `outputPath` appends.  **`AtomicStore`** is the folder as a watcher
should see it: scans appear whole, and only the user takes them away.  The
empty file that reserves a name counts as no scan (`Complete`), although a
watcher sees it for the moment of a save, or for good after a crash.

**`EsclJob`** and **`LedmJob`** are `ScanPages` of the two clients, with a
scanner that takes sheets, is busy, is stuck in Processing, lists pages again
that it already delivered, or aborts.  **`ScanCall`** is what both promise: a
call returns consecutive fresh pages, or fails.  The sessions use exactly that
promise as their `ScanDone`/`ScanFails` steps.

**`Discovery`** says what a browse may return of one printer: the multicast
browse or nothing, the legacy browse with its two rounds of questions (`First`,
`Second`, `Missing`), each of which may lose records, the union of the two
(`Merge`), the filter for HP and the address that is used.  The operators are
about one printer, because the collector files every record by name and merge
compares hosts: printers do not meet.  *Terse* printers answer only what they
are asked, and as `missing` does not ask for the A record of a host it has not
heard of, the legacy browse never finds their address.

**`Supervisor`** extends it.  It has a loop for each target, printers that move
between addresses, and an operating system that resolves Bonjour names or not
(`dns`) and leaves port 5353 to others or not.  `hears` holds what a browse may
find of each printer on that system; it is a function of the instance that does
not change.  A session is one state; nothing in it identifies the printer, so it
goes on with whoever has the address (`SessionPasses`).  `home` (the first
printer that had an address) and `late` (other printers that were given an
address a target uses, while it used it) are history.  `Wait` starts the backoff
again or not: an attempt that took over a minute does (`daemon.go:238`), and how
long attempts take is not expressed.

**`Config`** is the file as a function from the keys it has to their values,
with `Load` as a daemon reads it and `SetAccepts` as `config set` judges it:
the two fill in different things.

**`Service`** extends it with commands, daemons and a manager.  A command that
changes the file is a chain of steps (read and check, open, write, ask for the
status, stop, wait, start), any of which another command, a daemon or a crash
may come between.  `unit` and `main` are the manager's view of the service,
`proc` where each process is, `pidfile` what is in that file.  One module has
the four kinds of manager, because the callers do not distinguish them: only
`Status`, `CanStop`, `Waits` and `Starts` do.  `config init` looks for a file in
one step and opens it in another, and a daemon writes its pidfile before it
installs the signal handler.  Two overlapping writes may leave a
file that is no YAML (`Garbled`).  `behind` (daemons that loaded an older list
of printers), `up` (the service ought to run) and `mixed` (daemons were run
side by side by hand) are history.

Definitions marked *mutant* are wrong variants of the definition that follows
them; nothing uses them.  They are kept to show that each property notices the
mistake it is meant for: replacing the definition by its mutant makes TLC find
the property violated.

## 3. What the runs show

| Run | Instance | Result |
|---|---|---|
| `escl_healthy` | 3 visits, 8 events, feeder of 3, channel of 2, a printer and users that never fail | `OneWalkupPerPdf`, `JpegsNumbered`, `ScanIsServed` hold |
| `escl_faults` | every fault, 3 registrations, 1 visit, 3 events before the last page, channel of 1, limit of 2 failed polls | `PagesConserved`, `OneEntryOnPanel`, `DeliversInOrder` (refinement of `EventQueue`), `ForgottenIsRestored`, `DocumentIsClosed`, `CancelEndsSession`, `TeardownClearsPanel`, `WedgedEndsSession` hold |
| `ledm_session` | both flavors, with and without references in events, 2 visits, none of which begins or goes on after the 5th event, users as quick as they like, every fault but failing saves | `PagesConserved`, `OneScanPerStamp`, `WalkupsKeptApart`, `JpegNumbersRight`, `OldEventsNotReplayed`, `EntriesKnown`, `ScanIsServed`, `DocumentIsClosed` hold |
| `output_folder` | 2 sessions, 3 saves under one stem, failures, a crash | `FolderIsAtomic` (refinement of `AtomicStore`), `NoClobber`, `NoOrphanPlaceholder` hold |
| `escl_job` | 3 calls, up to 3 sheets, one 503 retry | `ReturnsScanned` (refinement of `ScanCall`), `NothingCancelled`, `AllPagesReturned`, `OneJobPerCall` hold |
| `ledm_job` | 3 calls, up to 3 sheets, deadline of 2 empty listings | `ReturnsScanned`, `AllPagesReturned`, `FlatbedNeedsNoDeadline`, `CallEnds` hold |
| `supervisor` | 2 printers, one terse, 3 addresses, 2 kinds of system, 2 moves or failures, addresses that pass from one to the other, found / named / mixed targets | `NeverSubstitutes`, `ServedOnce`, `NamedIsServed` hold |
| `service` | 2 command lines, 3 commands, 2 processes, 4 kinds of manager, a crash or an interrupted command | `FileStaysLoadable`, `PrinterListApplied`, `StatusFindsDaemon`, `RestartServes` hold |
| `config_empty` | the same, with an empty name to set | `FileStaysLoadable` is violated |
| `printer_restart` | no service manager | `PrinterRestarts` is violated |
| `ledm_reregister` | a power cycle, then another computer's event | `EventRestoresEntry` is violated |
| `supervisor_dhcp` | a printer pinned to an address moves | `MovedIsServed` is violated |

`TypeOK` of `EsclJob`, `LedmJob` and `LedmSession` is checked in the runs, too;
that of every session, job, folder, supervisor and service module is proved (section 4).

### The four disagreements

* **`config_empty`**: "new value rejected" (`config.go:199`) and "so validation
  sees defaults" (`config.go:226`): `Set` checks the file with every empty value
  replaced by its default, but writes, and `Load` reads, the empty value.
  `hpscan config set name ""` succeeds, and no daemon starts any more.  Without
  empty values the file stays one that loads: theorem `FileStaysLoadableAlways`.
* **`printer_restart`**: "the service restarts by itself" (`src/README.md:67`,
  `printers.go:200`).  Without a manager, `Status` finds the daemon by its
  pidfile, `Stop` ends it, and `Start` can only return an error
  (`service_unix.go:81`).
* **`ledm_reregister`**: `src/README.md:187-188` promises to register again "on
  the next event"; only an event that refers to the lost entry, or to none, gets
  as far as noticing that the entry is gone (`daemon.go:408`).
* **`supervisor_dhcp`**: `daemon.go:266-267`, `config.yaml:9-10` and
  `src/README.md:29-30,99` promise that a pinned address that went stale is
  repaired by mDNS.  `rediscoverTarget` compares the browse results with that
  very address (`daemon.go:217`), so it can only find a printer that never
  moved.  A Bonjour name works (`NamedIsServed`), also on a computer that cannot
  resolve one by itself.

Two more that a reader can reproduce with a changed configuration:

* *The job's walkup.*  `JobNamesItsSession` as an `INVARIANT` of
  `EsclFaults.cfg`: the job's ContextID is said to name "which walkup session it
  belongs to" (`escl.go:165-166`), but is taken from `d.esub` when the scan
  starts (`escl.go:237`); if the printer evicted the entry after the press and
  the poller registered again, the job names the new entry.
* *A reservation that fails.*  `"reserve"` among the `Faults` of
  `OutputFolder.cfg` violates `NoClobber`: "reserved with O_EXCL ... cannot
  clobber it" (`daemon.go:591-592`) does not hold on the path
  `daemon.go:633-635`, which goes on with a name it could not reserve.

And two that the models contain, so that the properties are stated accordingly:

* *A quick user.*  The type `GetCompEvent` reads is meant to be "why a ScanEvent
  fired" (`ledm/walkup.go:241-242`) and is why the *last* one fired.  If the user
  presses start between the poll that saw `HostSelected` and the read of the
  type, a scan is made, and when the stamp of that press is polled, another one:
  the second closes the document of the first, starts the numbers of its JPEG
  pages again, and may be the only one in the format the user chose.  Nothing
  bounds that gap (`daemon.go:403-449`: two requests with deadlines of their
  own), and the event that is read may by then be another computer's.  So one
  scan for a press cannot be promised; `OneScanPerStamp` says what can be: a
  *stamp* never has two, an event is never scanned for after a later one, and
  the second scan of a press is the one its own stamp asks for, so there is no
  third.  Such a walkup is *blurred*.  With printers whose events refer to no
  destination (`refs` false) another computer's press is scanned for, which is
  what `forMe` says (`daemon.go:418-432`).
* *An address that passes on.*  `rediscoverTarget` "never substitutes a different
  printer" (`daemon.go:200-202`), but what it returns is an address, and
  `daemon.go:271-276` connects to it without looking who answers.  The lookup
  returns a1, p1 goes off, p2 is given a1, and p2 is served as if it were p1, as
  long as it answers; p1 is not looked up again meanwhile.  A target pinned to an
  address is served by whoever has it.  So `NeverSubstitutes` says: the printer a
  target stands for, or one that was given the very address after the lookup of
  this attempt (`late`).  Matching a wrong browse result, or going on with an
  address of an earlier attempt, would violate it.

### Bounds, and why they are enough

A channel of one event fills as the real one of eight does, with fewer events;
a failure limit of two tells "in a row" from "in all" as five does.  Two or
three visits let the end of a walkup meet the start of the next; the faults of
`escl_faults` concern one walkup and one session, so there is one visit there
(what a lost event does to the next walkup is the printer's protocol, see
section 5).  Three registrations let an eviction happen during a
re-registration and during a teardown.  Three saves
under one stem by two sessions make the second name collide, too.  Three calls
let a job meet what two earlier ones left at the scanner.  Two printers and
three addresses let one move away while the other stays, and the address left
free be none of theirs.  Two troubles are what it takes for a move between the
lookup and the connection, or a failure on the way back from one.  In
`Supervisor` the first wait is 20 s rather than 5 s: it saves two doublings.
One of its printers is terse and not called "hp", so that it is recognised only
by its TXT record; the two systems are one that does everything and one that
does nothing.  In `Service` three commands are what it takes for one to come
between the stop and the start of another while a third changes the file, and
two processes for a daemon that ends beside its successor.

In `LedmSession` a walkup whose document grew too old, whose user left and was
followed by another before the scanner was ready, or whose press was scanned for
twice, is *blurred*: the program cannot tell its pages apart, and the two
properties about walkups exclude it.  `MaxPosts` stops visits from beginning and
pages from being added, so that every visit it lets begin can be finished.
`ServedOnce` excludes two loops one of which got its printer through an address
that passed on.  `NamedIsServed` excludes a printer whose address never comes, on
a system that does not resolve its name, and one whose session a late printer
keeps going.  `StatusFindsDaemon` is about daemons run one after
the other, and `PrinterListApplied` about launchd and systemd: Windows reports a
service that is starting as not running, and so does a pidfile that is not yet
written.

### Fairness, and why the code justifies it

* Goroutines keep running: every HTTP exchange has a deadline (10 s to 5 min),
  every wait has a timer, and every `select` contains one.  Hence weak fairness
  of the handler, of the poller, of the session, of the job client and of each
  loop, each as a whole: nothing is said about which outcome an exchange has.
* Time passes: `ExpireDocument` is weakly fair in `EsclSession` (a tick of one
  second that sees a document of growing age) and strongly fair in
  `LedmSession` (the check at the end of each iteration, between polls).  A
  session's step that changes none of its own variables would not count
  (`WF_sessionVars`); there is none.
* In `Service` each command and each daemon keeps running, a teardown has a
  deadline (10 s), and so has the manager's delay before it starts a process
  again.  `Stop` waits longer than a teardown may take for a managed service
  (15 s, and 90 s in systemd), so that wait never gives up; `killPid` waits no
  longer than a teardown may take, so it may.
* Nothing is assumed of users, printers, or routers.

`CHECK_DEADLOCK` is on everywhere; ended sessions, finished calls and a
returned `Run` stutter by an action of their own.

## 4. What is proved

All proofs are checked by TLAPS to the last leaf, for every value of the
constants that satisfies the module's ASSUME.

| Theorem | Statement |
|---|---|
| `DocumentsProofs!FilePagesKeepsDocInv` | `FilePages` keeps types, conservation and order of pages |
| `EsclSessionProofs!SessionDocuments` | `Spec => [](TypeOK /\ PagesConserved /\ PagesInOrder)` |
| `EsclSessionProofs!SessionEntries` | `Spec => [](OneEntryOnPanel /\ PollsNewestEntry)` |
| `EsclSessionProofs!SessionDeliversInOrder` | `Spec => DeliversInOrder` (refinement of `EventQueue`) |
| `EsclSessionProofs!SessionTeardown` | `Spec => TeardownClearsPanel` |
| `EsclSessionProofs!SessionOneWalkupPerPdf` | `Spec => []OneWalkupPerPdf`, if `EventsTellAll` |
| `EsclSessionProofs!SessionJpegsNumbered` | `Spec => []JpegsNumbered`, if `EventsTellAll` and no save fails |
| `LedmSessionProofs!LedmTypes` | `Spec => []TypeOK` |
| `LedmSessionProofs!LedmDocuments` | `Spec => [](PagesConserved /\ PagesInOrder)` |
| `LedmSessionProofs!LedmEntriesKnown` | `Spec => []EntriesKnown` |
| `LedmSessionProofs!LedmOldEventsNotReplayed` | `Spec => []OldEventsNotReplayed` |
| `LedmSessionProofs!LedmOneScanPerStamp` | `Spec => OneScanPerStamp` |
| `LedmSessionProofs!LedmWalkupsKeptApart` | `Spec => []WalkupsKeptApart` |
| `LedmSessionProofs!LedmJpegNumbersRight` | `Spec => []JpegNumbersRight` |
| `EsclJobProofs!EsclJobTypes` | `Spec => []TypeOK` |
| `EsclJobProofs!EsclOneJobPerCall` | `Spec => []OneJobPerCall` |
| `EsclJobProofs!EsclNothingCancelled` | `Spec => []NothingCancelled` |
| `EsclJobProofs!EsclAllPagesReturned` | `Spec => []AllPagesReturned` |
| `EsclJobProofs!EsclReturnsScanned` | `Spec => ReturnsScanned` (refinement of `ScanCall`) |
| `LedmJobProofs!LedmJobTypes` | `Spec => []TypeOK` |
| `LedmJobProofs!LedmAllPagesReturned` | `Spec => []AllPagesReturned` |
| `LedmJobProofs!LedmFlatbedNeedsNoDeadline` | `Spec => FlatbedNeedsNoDeadline` |
| `LedmJobProofs!LedmReturnsScanned` | `Spec => ReturnsScanned` (refinement of `ScanCall`) |
| `OutputFolderProofs!FolderTyped` | `Spec => []TypeOK` |
| `OutputFolderProofs!FolderAtomic` | `SureReserve /\ Spec => FolderIsAtomic` |
| `OutputFolderProofs!FolderKeepsScans` | `SureReserve /\ Spec => NoClobber` |
| `OutputFolderProofs!FolderNoOrphans` | `Spec => []NoOrphanPlaceholder` |
| `ServiceProofs!FileStaysLoadableAlways` | `NothingEmpty /\ Spec => []FileStaysLoadable` |
| `ServiceProofs!ServiceTypes` | `Spec => []TypeOK` |
| `ServiceProofs!PrinterListIsApplied` | `Spec => []PrinterListApplied` |
| `ServiceProofs!StatusFindsTheDaemon` | `Spec => []StatusFindsDaemon` |
| `SupervisorProofs!SupervisorTypes` | `Spec => []TypeOK` |
| `SupervisorProofs!SubstitutesNever` | `Spec => []NeverSubstitutes` |
| `SupervisorProofs!ServedOnceAlways` | `Spec => []ServedOnce` |

With these, every safety property that a passing run checks is a theorem; "if",
`SureReserve` and `NothingEmpty` are hypotheses about constants, explained below.

*Documents.*  Types, conservation and order together (`DocInv`) are inductive:
the types say that every page in use is one that arrived, so a new page is in
no other place.  Lemmas about ranges and increasing sequences come first;
`FilePages` and `FinishDocument` then keep `DocInv`, and every step of a session
that touches documents does so through these two.  So the session's proof is
one step per action, nearly all of them `UNCHANGED docVars`.

*The panel's entries.*  `OneEntryOnPanel` is not inductive: that the panel has
only the newest entry depends on when the poller registers.  `EntryInv` adds
that there is neither an entry nor a poller during setup, that the panel is
empty when the poller is about to register, that what it is about to store is
the newest entry, and that otherwise `d.esub` holds the newest entry until the
teardown takes it.

*Events.*  The refinement of `EventQueue` is one lemma for each kind of step: a
post appends to `Undelivered`, the handler takes its head, the steps in between
(printer to poller, poller to channel) leave it alone, and what a lost reply, an
eviction or the end of the poller takes away is one run of it (`RunLost`).  Each
is a fact about concatenations.  `PanelInv` is needed to know that a new entry
starts with no events.

*The teardown.*  `LeftoverInv` says that until the DELETE the panel has at most
one entry, which is `d.esub` (or what the teardown copied from it), or the one
the poller just made and did not store yet.

*Walkups of an eSCL session.*  The program has no notion of a walkup; that its
documents are walkups follows from the panel's protocol.  The panel posts
"complete", "host", "scan" in this order (`Script`), and waits in between, so
the events under way are at any time the last of what was posted up to the
panel's state (`Flows`, `Stage`).  Hence a scan that is made is one of the visit
the panel shows (`FlowInv`), and it is known whether the event that ends the
last visit is still under way (`Closing`).  `VisitInv` says what the open
document may hold in each case, and `Counted` what `jpegPage` is.  All this is
so while the session is `Live`: it has a poller, or the last event is a scan
that it has not finished.  Afterwards documents are only finished, which keeps
them apart.  `EventsTellAll` excludes the four faults by which the session loses
an event or closes a document by itself: a lost reply, an eviction, a user who
leaves, an expired document.  TLC finds `OneWalkupPerPdf` violated under each of
them alone (one at a time as `Faults` of `EsclHealthy.cfg`, with `MaxSubs` of 2
for the eviction), so the hypothesis cannot be dropped.  Failing requests, scans
and saves, abandoned polls and a stop of the service are allowed.

*The LEDM session.*  Types are `TypeInv` (five parts, one for each kind of
variable), documents are as in `EsclSession`.  `EntriesKnown` needs only that
there is no entry during setup.  `EventInv` relates the stamps in the table, in
`d.seen` and in the event-type resource: what is acted on is newer than what was
in the table at the start, from which `OldEventsNotReplayed`.  `ScannedInv`,
a part of it, says that the event scanned for last is not newer than the one in
the resource, that the stamp remembered is not older than it if its own stamp
asked for that scan, and that the event the session is about to act on is newer,
or the same one and not scanned for by its own stamp; from which
`OneScanPerStamp`.

`WalkupsKeptApart` is about a table that forgets: the event that ends a visit may
be overwritten before it is polled, and the one that begins it be read before it
is polled.  `FreshInv` says that a visit whose start is still to be acted on has
no pages, unless it was scanned for already (`Twice`); `JoinInv` that a visit
that may add a page finds no other's in the document; `OverInv` that a visit that
has its PDF will not be scanned again; each for every place where such an event
can be (the panel, the table, the session).  `NumberInv` adds that `jpegPage` is
the number of files of the visit that may go on.  Steps are first classified by
what they do to the documents (`Files`, `Closes`, `Leaves`) and to events
(`Quiet`, `Asks`, ...), and the invariants are then kept kind by kind.

*The jobs.*  In both clients what the client holds, what the printer has ready
and what was returned are consecutive runs of the pages scanned (`RunInv`), from
which each step of the call is a step or a stutter of `ScanCall`.  `CountInv`
counts them, without a fault: nothing is missing when the call is over.  In
`EsclJob`, `OpenInv` says that DELETE is only sent for a job that is over; that
is `NothingCancelled` and `OneJobPerCall`.  In `LedmJob`, a listing may be behind
the uploads and name pages again that the client has: `Listed` says that it does
not begin after the next page to upload, which is what makes counting pages
(`got`) a correct way to skip the old ones.  `GlassInv` says that the glass has
one page and that after its upload the next listing ends the call.

*The output folder.*  `FolderInv` adds to the types: `Reserved` (a session
between its reservation and its rename owns the empty file under its name, and
no two own one), `Filled` (its part file holds its own scan when it renames),
`Fresh` (a scan that is being saved is not in the folder yet), and `Whole` (a
final name never holds a part).  From `Reserved` a rename replaces an empty
file only, which is both refinement steps (`Publish`) and `NoClobber`.
`SureReserve` says that the exclusive create fails only on existing files; it is
needed (section 3).  `NoOrphanPlaceholder` does not need it: `HolderInv` says that an
empty file belongs to a session that will remove or replace it, also when two
share its name.

*The file.*  That the file loads is not inductive: a command that has checked a
content may write it much later.  `FileInv` says of every command that waits to
write that its content loads (`Pending`), and of one that waits to read that the
value it brings is not empty.  The lemma behind it is about `Config`: for a file
that loads and a value that is not empty, what `Set` checks (empty values filled
in) and what `Load` checks are the same.

*Daemons.*  `DaemonInv` adds to the types: `UnitInv` (under launchd and systemd
the only process is the manager's, and a service that is being stopped has one
that was told to end), `BehindInv` (a daemon with an older list is ending, or a
printer command still is before its stop), `PidInv` (there is one daemon at a
time, the pidfile names the one that serves or is about to, and `killPid` waits
for no other).
`PrinterListApplied` follows from the second and `StatusFindsDaemon` from the
third.

*The supervisor.*  `SupervisorInv` adds to `NeverSubstitutes`: `NetInv` (no two
printers have one address, and until the loops begin `home` is who has it),
`PinnedInv` and `HostInv` (whoever has the address a target uses, the configured
one or one a lookup returned, is its printer or late), `LoopInv` (only sessions
serve), `SingleInv` (a browse returns one address of a printer at most, from
lemmas about `Merge` and both browses) and `OnceInv` (the targets that a browse
returned stand for different printers).  `LoopEffect` is what any step of a loop
does to whom it serves and to what it looked up; `late` is forgotten only where
the loop serves nobody and has dropped the address.

*Only model-checked*: everything under fairness, that is `ScanIsServed`,
`ForgottenIsRestored`, `DocumentIsClosed`, `CancelEndsSession`,
`WedgedEndsSession`, `CallEnds`, `NamedIsServed` and `RestartServes`: liveness and
`ENABLED` are out of this prover's reach.  The four properties that do not hold
are refuted by TLC.

## 5. What is not modelled

* HTTP, XML, TLS, URL joining (`abs`), capability parsing: each exchange is one
  of its outcomes.
* Scan settings (`esclSettings`, `settings`, `Apply`): functions of the
  configuration, the capabilities and the event, without state.  Reading them
  showed that `Apply` overrides the resolution after it was clamped, that a
  resolution below the maximum need not be one the source lists, that `Duplex`
  is sent without a look at `AdfDuplex`, and that `scanOnceLEDM`
  (`main.go:376-396`) returns the configured resolution as the one used.  In the
  models the panel's shortcut is the format, "pdf" or "jpeg"; a shortcut with
  another name takes the configured one, which is one of the two.
* Time: deadlines and timers are steps that may happen when they could.  Rates
  (the 5 s poll interval, a printer without ETag that is polled at full speed)
  are not expressed.
* Walkups that an eSCL session cannot tell apart: when the user leaves, or
  `ScanPagesComplete` is lost, the next walkup joins the open document until
  `page_timeout` closes it.  `OneWalkupPerPdf` is checked and proved without such
  losses.
* `ScanNewPageRequested` of eSCL is handled like `ScanRequested` and does not
  occur on this interface (`escl.go:190-193`).
* Services: install and uninstall (so also `installLaunchd`, which boots the old
  agent out without waiting for its teardown, `service_unix.go:181`), logs, a
  daemon run in the foreground beside a managed one, a pid that another program
  got.
* Configuration: comments, letter case and the order of keys, values of a wrong
  type (refused like those out of range).
* Command line: `discover`, `probe`, `scan`, the prompts.  `printer add` with an
  explicit host does not look at the list; the same host added twice is served
  twice, and nothing promises otherwise.
* Discovery's packets and the deadline of a browse: what arrives in time is what
  is not lost.
* Printers whose event stamps start again after a reboot (`daemon.go:400`): the
  stamps of the model never repeat.
* The PDF encoder, but for its failure.

## 6. Plan

Done, in this order: `Documents`, `EsclSession` (with `EventQueue`) and its
proofs, `OutputFolder` (with `AtomicStore`) and its proofs, `LedmSession`,
`EsclJob` and `LedmJob` (with `ScanCall`), `Supervisor`, `Config` and `Service`
and their proofs, `Discovery`, the proofs of `Supervisor`, of the event queue
and the walkups of `EsclSession`, of both jobs, and of `LedmSession`.

Next:

1. Sessions in a row (`Supervisor` over `EsclSession`): the entries that a
   registration whose reply was lost leaves behind.
2. Proofs: what the walkup theorems say when one event is lost (the pages of
   two visits at most share a PDF); what a browse returns (`Discovery`) as
   theorems of its own.
3. The stamps of a printer that was rebooted.
