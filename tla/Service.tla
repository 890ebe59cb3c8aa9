------------------------------- MODULE Service --------------------------------
(***************************************************************************)
(* The commands of `hpscan` that change the configuration file or control  *)
(* the service, several of them at the same time, and the daemons they     *)
(* start and stop (cmd/hpscan/main.go, printers.go; service/service.go,    *)
(* service_unix.go, service_windows.go; config/config.go).                 *)
(*                                                                         *)
(* The service manager is launchd, systemd or the one of Windows; where    *)
(* there is none, people run daemons themselves and a pidfile stands for   *)
(* the service.  A command that is given wrong arguments does nothing.     *)
(***************************************************************************)
EXTENDS Config

CONSTANTS
    Commands,   \* command lines that may be under way at the same time
    Pids,       \* process ids, used again
    None,       \* no process
    Hosts,      \* printers that are added and removed
    Names,      \* what `config set name` is given
    Resolutions,\* what `config set resolution` is given
    Kinds,      \* what Manager.Kind returns
    MaxCommands,\* bound: commands in all
    MaxFaults   \* bound: daemons killed and commands interrupted

ASSUME ServiceAssumption ==
    /\ ConfigAssumption
    /\ None \notin Pids /\ Pids # {}
    /\ Kinds \subseteq {"launchd", "systemd", "windows", "pidfile"}
    /\ MaxCommands \in Nat /\ MaxFaults \in Nat

VARIABLES
    kind,       \* what runs services on this computer
    file,       \* the configuration file
    cmd,        \* the commands
    unit,       \* the service: "off", "on", or "stopping"
    main,       \* the process the manager runs for it
    proc,       \* where a daemon is; "none" if there is no such process
    pidfile,
    left, faults,
    behind,     \* history: daemons that loaded an older list of printers
    up,         \* history: the service ought to run
    mixed       \* history: a daemon was run while another one ran or was stopped

unitVars == <<unit, main, proc, pidfile>>
ghosts == <<behind, up, mixed>>
vars == <<kind, file, cmd, unitVars, left, faults, ghosts>>

\* A command that waits at "read" is going to set key to value, one at "open" or
\* "write" to write content, one at "wait" waits for target to end.
NoCommand ==
    [pc |-> "idle", op |-> "none", key |-> "", value |-> "", content |-> Empty, target |-> None]

\* A file somebody wrote by hand, or none.  The service
\* may have been installed, which needs a file that loads.
Init ==
    /\ kind \in Kinds
    /\ file \in {NoFile} \cup {[printer |-> <<h>>, paper |-> "a4"] : h \in Hosts}
    /\ cmd = [c \in Commands |-> NoCommand]
    /\ unit \in {"off"} \cup (IF Loads(file) /\ kind # "pidfile" THEN {"on"} ELSE {})
    /\ main = None /\ proc = [i \in Pids |-> "none"] /\ pidfile = None
    /\ left = MaxCommands /\ faults = 0
    /\ behind = {} /\ up = (unit = "on") /\ mixed = FALSE

Goto(c, l) == cmd' = [cmd EXCEPT ![c].pc = l]
Return(c) == cmd' = [cmd EXCEPT ![c] = NoCommand]
Alive(i) == i # None /\ proc[i] # "none"

-----------------------------------------------------------------------------
(* The file: config init, config set, and the change of the printer list.  *)

Launch(c, command) ==
    /\ cmd[c].pc = "idle" /\ left > 0 /\ left' = left - 1
    /\ cmd' = [cmd EXCEPT ![c] = command]

\* config init, if there is no file, writes the sample with the printer it found;
\* by the time it opens the file there may be one.
ConfigInit(c) ==
    /\ file = NoFile
    /\ \E list \in {<< >>} \cup {<<h>> : h \in Hosts} :
          Launch(c, [NoCommand EXCEPT !.pc = "open", !.op = "init", !.content = Sample(list)])
    /\ UNCHANGED <<kind, file, unitVars, faults, ghosts>>

Sets(c, o, k, v) ==
    Launch(c, [NoCommand EXCEPT !.pc = "read", !.op = o, !.key = k, !.value = v])

ConfigSet(c) ==
    /\ \/ \E n \in Names : Sets(c, "set", "name", n)
       \/ \E r \in Resolutions : Sets(c, "set", "resolution", r)
    /\ UNCHANGED <<kind, file, unitVars, faults, ghosts>>

\* printer add and remove load the file and make the new list, with a host that
\* is given or picked from what a browse finds.  Set reads the file again later.
PrinterAdd(c) ==
    /\ Loads(file)
    /\ \E h \in Hosts : Sets(c, "printer", "printer", Append(Load(file).printer, h))
    /\ UNCHANGED <<kind, file, unitVars, faults, ghosts>>

PrinterRemove(c) ==
    /\ Loads(file)
    /\ \E h \in Hosts :
          LET list == Load(file).printer
              kept == SelectSeq(list, LAMBDA p : p # h)
          IN kept # list /\ Sets(c, "printer", "printer", kept)
    /\ UNCHANGED <<kind, file, unitVars, faults, ghosts>>

\* Set: read, change and check; open the file, which empties it; write it.  The
\* last two are WriteFile, which config init calls too.
SetReads(c) ==
    /\ cmd[c].pc = "read"
    /\ IF SetAccepts(file, cmd[c].key, cmd[c].value)
       THEN cmd' = [cmd EXCEPT ![c].pc = "open",
                               ![c].content = Put(file, cmd[c].key, cmd[c].value)]
       ELSE Return(c)
    /\ UNCHANGED <<kind, file, unitVars, left, faults, ghosts>>

SetOpens(c) ==
    /\ cmd[c].pc = "open" /\ Goto(c, "write") /\ file' = Empty
    /\ UNCHANGED <<kind, unitVars, left, faults, ghosts>>

\* If another command wrote since, the end of a longer text stays behind this one.
SetWrites(c) ==
    /\ cmd[c].pc = "write"
    /\ file' \in {cmd[c].content} \cup (IF file # Empty THEN {Garbled} ELSE {})
    /\ IF cmd[c].op = "printer"
       THEN /\ cmd' = [cmd EXCEPT ![c] = [NoCommand EXCEPT !.pc = "status", !.op = "printer"]]
            /\ behind' = {i \in Pids : proc[i] \notin {"none", "start"}}
       ELSE Return(c) /\ UNCHANGED behind
    /\ UNCHANGED <<kind, unitVars, left, faults, up, mixed>>

-----------------------------------------------------------------------------
(* The daemons. *)

\* A process ends.  If it is the service's, launchd and systemd start another
\* one, unless the service is being stopped.
Ends(i) ==
    /\ proc' = [proc EXCEPT ![i] = "none"] /\ behind' = behind \ {i}
    /\ main' = IF main = i THEN None ELSE main
    /\ unit' = IF main = i /\ (unit = "stopping" \/ kind = "windows") THEN "off" ELSE unit

StaysUp == up /\ kind \in {"launchd", "systemd"}

\* The manager has one process for the service; which number it gets does not matter.
FreePid == CHOOSE i \in Pids : proc[i] = "none"
ManagerLaunches ==
    /\ unit = "on" /\ main = None
    /\ main' = FreePid /\ proc' = [proc EXCEPT ![FreePid] = "start"]
    /\ UNCHANGED <<kind, file, cmd, unit, pidfile, left, faults, ghosts>>

\* Without a manager: somebody types `hpscan run &`.
RunByHand(i) ==
    /\ kind = "pidfile" /\ proc[i] = "none" /\ left > 0 /\ left' = left - 1
    /\ proc' = [proc EXCEPT ![i] = "start"]
    /\ mixed' = (mixed \/ (\E j \in Pids : Alive(j)) \/ (\E c \in Commands : cmd[c].pc = "wait"))
    /\ UNCHANGED <<kind, file, cmd, unit, main, pidfile, faults, behind, up>>

\* run: load the configuration, or give up ...
DaemonLoads(i) ==
    /\ proc[i] = "start"
    /\ IF Loads(file)
       THEN proc' = [proc EXCEPT ![i] = "loaded"] /\ UNCHANGED <<unit, main, behind, up>>
       ELSE Ends(i) /\ up' = StaysUp
    /\ UNCHANGED <<kind, file, cmd, pidfile, left, faults, mixed>>

\* Mutant: run leaves a pidfile alone that is there.
DaemonKeepsPid(i) ==
    /\ proc[i] = "loaded" /\ proc' = [proc EXCEPT ![i] = "named"]
    /\ pidfile' = (IF pidfile = None THEN i ELSE pidfile)
    /\ UNCHANGED <<kind, file, cmd, unit, main, left, faults, ghosts>>

\* ... then write the pidfile ...
DaemonWritesPid(i) ==
    /\ proc[i] = "loaded" /\ proc' = [proc EXCEPT ![i] = "named"] /\ pidfile' = i
    /\ UNCHANGED <<kind, file, cmd, unit, main, left, faults, ghosts>>

\* ... install the signal handler and serve.
DaemonServes(i) ==
    /\ proc[i] = "named" /\ proc' = [proc EXCEPT ![i] = "serve"]
    /\ up' = (up \/ kind = "pidfile")
    /\ UNCHANGED <<kind, file, cmd, unit, main, pidfile, left, faults, behind, mixed>>

\* After SIGTERM: the teardown, and RemovePid, whatever is in the file; or,
\* before there was a handler, nothing.
DaemonEnds(i) ==
    /\ proc[i] \in {"stop", "term"} /\ Ends(i)
    /\ pidfile' = IF proc[i] = "stop" THEN None ELSE pidfile
    /\ UNCHANGED <<kind, file, cmd, left, faults, up, mixed>>

\* A daemon is killed, or fails.
Crash(i) ==
    /\ Alive(i) /\ faults < MaxFaults /\ faults' = faults + 1
    /\ Ends(i) /\ up' = StaysUp
    /\ UNCHANGED <<kind, file, cmd, pidfile, left, mixed>>

-----------------------------------------------------------------------------
(* start, stop, restart, and the end of printer add and remove. *)

Control(c) ==
    /\ \E o \in {"start", "stop", "restart"} :
          Launch(c, [NoCommand EXCEPT !.pc = IF o = "start" THEN "start" ELSE "stop", !.op = o])
    /\ UNCHANGED <<kind, file, unitVars, faults, ghosts>>

ServiceServes == unit = "on" /\ main # None /\ proc[main] = "serve"

\* Mutant: the service runs when it serves.
StatusServing == {IF kind = "pidfile" THEN Alive(pidfile) ELSE ServiceServes}

\* Manager.Status.  An agent that is being unloaded may be running or not.
Status ==
    CASE kind = "launchd" -> {main # None} \cup (IF unit = "stopping" THEN {FALSE} ELSE {})
      [] kind = "systemd" -> {unit = "on" /\ main # None}
      [] kind = "windows" -> {ServiceServes}
      [] kind = "pidfile" -> {Alive(pidfile)}

\* savePrinters restarts the service if it is running.
AsksStatus(c) ==
    /\ cmd[c].pc = "status"
    /\ \E running \in Status : IF running THEN Goto(c, "stop") ELSE Return(c)
    /\ UNCHANGED <<kind, file, unitVars, left, faults, ghosts>>

\* What follows Stop, also if it failed: restart and savePrinters ignore that.
AfterStop(c) == IF cmd[c].op = "stop" THEN Return(c) ELSE Goto(c, "start")

\* The process that Stop is about, and whether it is told to end: launchd and
\* Windows refuse while they stop it, Windows also while it starts.
StopTarget == IF kind = "pidfile" THEN pidfile ELSE main
CanStop ==
    CASE kind = "launchd" -> unit = "on"
      [] kind = "systemd" -> TRUE
      [] kind = "windows" -> ServiceServes
      [] kind = "pidfile" -> Alive(pidfile)

SendStop ==
    /\ unit' = IF unit # "on" THEN unit ELSE IF main = None THEN "off" ELSE "stopping"
    /\ proc' = IF Alive(StopTarget)
               THEN [proc EXCEPT ![StopTarget] = IF @ \in {"serve", "stop"} THEN "stop" ELSE "term"]
               ELSE proc

\* Mutant: Stop does not wait.
StopsAtOnce(c) ==
    /\ cmd[c].pc = "stop" /\ AfterStop(c)
    /\ up' = (up /\ cmd[c].op # "stop")
    /\ IF CanStop THEN SendStop ELSE UNCHANGED <<unit, proc>>
    /\ UNCHANGED <<kind, file, main, pidfile, left, faults, behind, mixed>>

Stops(c) ==
    /\ cmd[c].pc = "stop"
    /\ up' = (up /\ cmd[c].op # "stop")
    /\ IF CanStop
       THEN SendStop /\ cmd' = [cmd EXCEPT ![c].pc = "wait", ![c].target = StopTarget]
       ELSE AfterStop(c) /\ UNCHANGED <<unit, proc>>
    /\ UNCHANGED <<kind, file, main, pidfile, left, faults, behind, mixed>>

\* It waits until the service is unloaded.  killPid waits for the process and
\* removes the pidfile, or gives up after as long as a teardown may take.
Waits(c) ==
    /\ cmd[c].pc = "wait" /\ AfterStop(c)
    /\ \/ kind # "pidfile" /\ unit # "stopping" /\ UNCHANGED pidfile
       \/ kind = "pidfile" /\ ~Alive(cmd[c].target) /\ pidfile' = None
       \/ kind = "pidfile" /\ Alive(cmd[c].target) /\ UNCHANGED pidfile
    /\ UNCHANGED <<kind, file, unit, main, proc, left, faults, ghosts>>

\* Start: nothing if the service runs, an error without a manager; only systemd
\* starts again what is still being stopped.
Starts(c) ==
    /\ cmd[c].pc = "start" /\ Return(c)
    /\ unit' = IF kind = "systemd" \/ (kind # "pidfile" /\ unit = "off") THEN "on" ELSE unit
    /\ up' = (up \/ (unit' = "on" /\ \A d \in Commands : cmd[d].op # "stop"))
    /\ UNCHANGED <<kind, file, main, proc, pidfile, left, faults, behind, mixed>>

\* A command is interrupted, wherever it is; what it was to restart is not.
Interrupt(c) ==
    /\ cmd[c].pc # "idle" /\ faults < MaxFaults /\ faults' = faults + 1
    /\ Return(c) /\ up' = (up /\ cmd[c].pc \notin {"wait", "start"}) /\ behind' = {}
    /\ UNCHANGED <<kind, file, unitVars, left, mixed>>

\* Nobody types anything any more.
Idle ==
    /\ \A c \in Commands : cmd[c].pc = "idle"
    /\ UNCHANGED vars

Begin(c) == ConfigInit(c) \/ ConfigSet(c) \/ PrinterAdd(c) \/ PrinterRemove(c) \/ Control(c)
Step(c) ==
    SetReads(c) \/ SetOpens(c) \/ SetWrites(c) \/ AsksStatus(c) \/ Stops(c) \/ Waits(c) \/ Starts(c)
Daemon(i) == DaemonLoads(i) \/ DaemonWritesPid(i) \/ DaemonServes(i) \/ DaemonEnds(i)

Next ==
    \/ \E c \in Commands : Begin(c) \/ Step(c) \/ Interrupt(c)
    \/ ManagerLaunches
    \/ \E i \in Pids : RunByHand(i) \/ Daemon(i) \/ Crash(i)
    \/ Idle

Spec == Init /\ [][Next]_vars

\* Programs run, their teardown has a deadline, and so has the manager's delay.
FairSpec ==
    /\ Spec
    /\ WF_vars(ManagerLaunches)
    /\ \A c \in Commands : WF_vars(Step(c))
    /\ \A i \in Pids : WF_vars(Daemon(i))

-----------------------------------------------------------------------------
(* Types, and the process of the service exists.                            *)
TypeOK ==
    /\ kind \in Kinds
    /\ \A c \in Commands :
          /\ cmd[c].pc \in {"idle", "read", "open", "write", "status", "stop", "wait", "start"}
          /\ cmd[c].op \in {"none", "init", "set", "printer", "start", "stop", "restart"}
          /\ cmd[c].target \in Pids \cup {None}
    /\ unit \in {"off", "on", "stopping"}
    /\ main \in Pids \cup {None} /\ pidfile \in Pids \cup {None}
    /\ proc \in [Pids -> {"none", "start", "loaded", "named", "serve", "stop", "term"}]
    /\ main # None => Alive(main)
    /\ left \in 0 .. MaxCommands /\ faults \in 0 .. MaxFaults
    /\ behind \subseteq Pids /\ up \in BOOLEAN /\ mixed \in BOOLEAN

(* "new value rejected" (config.go:199): what Set accepts, a daemon can     *)
(* start with, however many commands change the file at the same time or   *)
(* are interrupted.  Only two writes at the same moment make it unreadable. *)
FileStaysLoadable == file \in {NoFile, Garbled} \/ Loads(file)

(* "restarts the service if it is running" (printers.go:200): a daemon that *)
(* loaded the list of printers before it was changed does not go on with    *)
(* it, once no command is under way that is going to restart it.            *)
PrinterListApplied ==
    kind \in {"launchd", "systemd"} =>
        \A i \in behind : \/ proc[i] \in {"stop", "term"}
                          \/ \E c \in Commands : cmd[c].op = "printer"

Serving == \E i \in Pids : proc[i] = "serve"

(* Restarting does not race the teardown (service_unix.go:99-100): however *)
(* restarts, starts, printer commands and crashes meet, the service serves  *)
(* again unless somebody stops it, or it has no file it can read.           *)
RestartServes ==
    (up /\ kind # "pidfile") ~> (Serving \/ ~up \/ file \in {NoFile, Garbled})

(* "a pidfile written by hpscan run lets stop/status still work"            *)
(* (service.go:4-5): also after a crash that left one, the pidfile names    *)
(* the daemon that serves, if daemons are run one after the other.          *)
StatusFindsDaemon ==
    (kind = "pidfile" /\ ~mixed) => \A i \in Pids : proc[i] = "serve" => pidfile = i

(* "restarts the service if it is running" (printers.go:200), "the service  *)
(* restarts by itself" (README.md:67), also without a service manager: what *)
(* was running when a printer command stopped it runs again.                *)
PrinterRestarts == up ~> (Serving \/ ~up \/ file \in {NoFile, Garbled})
===============================================================================
