---------------------------- MODULE ServiceProofs -----------------------------
(***************************************************************************)
(* Two results about the service, for any number of commands, processes,   *)
(* interruptions and crashes.  First, the configuration file stays one     *)
(* that a daemon can start with as long as nothing set is empty: with an   *)
(* empty value it does not, see ConfigEmpty.cfg.  Second, the processes:   *)
(* there is one at most, a stop that is under way is under way in the      *)
(* process, a list of printers that is no longer the one in the file is on *)
(* its way out, and the pidfile is right.                                  *)
(***************************************************************************)
EXTENDS Service, TLAPS

\* What `config set` is given is neither "" nor 0.
NothingEmpty == "" \notin Names /\ 0 \notin Resolutions

Checked == {"format", "color_mode", "paper", "resolution", "name", "filename", "page_timeout"}

Usable(f) == f \in {NoFile, Garbled} \/ Loads(f)

-----------------------------------------------------------------------------
(* Validate looks at the values of seven keys only.                         *)
LEMMA ValidateChecked ==
    ASSUME NEW c, NEW d, Validate(c), \A k \in Checked : d[k] = c[k]
    PROVE  Validate(d)
<1>1. /\ d.format = c.format /\ d.color_mode = c.color_mode /\ d.paper = c.paper
      /\ d.resolution = c.resolution /\ d.name = c.name /\ d.filename = c.filename
      /\ d.page_timeout = c.page_timeout
  BY DEF Checked
<1>. QED  BY <1>1, ZenonT(60) DEF Validate

LEMMA KeysAre ==
    Keys = {"printer", "port", "name", "output_dir", "format", "resolution", "color_mode",
            "paper", "filename", "page_timeout", "log_level", "log_file"}
BY DEF Keys, Defaults

LEMMA ValidateNonZero ==
    ASSUME ConfigAssumption, NEW c, Validate(c), NEW k \in Checked
    PROVE  c[k] # Zero(k)
<1>1. CASE k = "resolution"
  <2>1. c.resolution \in 75 .. 1200
    BY DEF Validate
  <2>2. c.resolution # 0
    BY <2>1
  <2>3. Zero("resolution") = 0
    BY DEF Zero
  <2>. QED  BY <1>1, <2>2, <2>3
<1>2. CASE k # "resolution"
  <2>1. c.page_timeout # ""
    BY DEF Validate, ConfigAssumption
  <2>2. c.format # "" /\ c.color_mode # "" /\ c.paper # "" /\ c.name # "" /\ c.filename # ""
    BY DEF Validate
  <2>3. Zero(k) = ""
    BY <1>2 DEF Zero, Checked
  <2>. QED  BY <1>2, <2>1, <2>2, <2>3 DEF Checked
<1>. QED  BY <1>1, <1>2

(* A file that loads has no empty value under a key that is checked.        *)
LEMMA LoadsNonZero ==
    ASSUME ConfigAssumption, NEW f, Loads(f), NEW k \in Checked, k \in DOMAIN f
    PROVE  f[k] # Zero(k)
<1>1. Load(f)[k] = f[k] /\ Validate(Load(f))
  BY KeysAre DEF Load, Loads, Checked
<1>. QED  BY <1>1, ValidateNonZero

(* What `config set` accepts for a file that loads, and is not empty, gives *)
(* a file that loads: Set and Load judge it alike.                          *)
LEMMA SetKeepsLoadable ==
    ASSUME ConfigAssumption, NEW f, Loads(f), NEW k, NEW v,
           SetAccepts(f, k, v), k \in Checked => v # Zero(k)
    PROVE  Validate(Load(Put(f, k, v)))
<1>. DEFINE g == Put(f, k, v)
            m == Merge(Defaults, Parsed(g))
<1>1. Validate(m)
  BY DEF SetAccepts
<1>2. ASSUME NEW x \in Checked  PROVE Load(g)[x] = m[x]
  <2>1. x \in Keys /\ x \notin {"printer", "output_dir", "log_file"}
    BY KeysAre DEF Checked
  <2>2. CASE x \in DOMAIN g
    <3>1. g[x] # Zero(x)
      BY <2>2, LoadsNonZero DEF Put
    <3>2. Parsed(g)[x] = g[x] /\ Load(g)[x] = g[x]
      BY <2>1, <2>2 DEF Parsed, Load
    <3>. QED  BY <2>1, <3>1, <3>2 DEF Merge
  <2>3. CASE x \notin DOMAIN g
    <3>1. Parsed(g)[x] = Zero(x) /\ Load(g)[x] = Defaults[x]
      BY <2>1, <2>3 DEF Parsed, Load
    <3>. QED  BY <2>1, <3>1 DEF Merge
  <2>. QED  BY <2>2, <2>3
<1>. QED  BY <1>1, <1>2, ValidateChecked

(* Defaults are valid, so an empty file loads ...                           *)
LEMMA DefaultsValid == ASSUME ConfigAssumption PROVE Validate(Defaults)
<1>1. Defaults.page_timeout \in Durations
  <2>1. Defaults.page_timeout = "120s"
    BY DEF Defaults
  <2>. QED  BY <2>1 DEF ConfigAssumption
<1>2. Defaults.name # "" /\ Defaults.filename # ""
  <2>1. Defaults.name = Hostname
    BY DEF Defaults
  <2>2. Defaults.filename = "scan_{date}_{time}"
    BY DEF Defaults
  <2>. QED  BY <2>1, <2>2 DEF ConfigAssumption
<1>3. /\ Defaults.format \in {"pdf", "jpeg"} /\ Defaults.color_mode \in {"color", "gray"}
      /\ Defaults.paper \in {"a4", "letter"}
  BY DEF Defaults
<1>4. Defaults.resolution = 300
  BY DEF Defaults
<1>5. Defaults.resolution \in 75 .. 1200
  BY <1>4
<1>. QED  BY <1>1, <1>2, <1>3, <1>5 DEF Validate

LEMMA EmptyUsable == ASSUME ConfigAssumption PROVE Usable(Empty)
<1>1. \A k \in Checked : Load(Empty)[k] = Defaults[k]
  BY KeysAre DEF Load, Empty, Checked
<1>. QED  BY <1>1, DefaultsValid, ValidateChecked DEF Usable, Loads

(* ... and so do what `config init` writes and what somebody wrote by hand. *)
LEMMA SampleUsable == ASSUME ConfigAssumption, NEW list PROVE Usable(Sample(list))
<1>1. \A k \in Keys \ {"printer"} : Sample(list)[k] = Defaults[k] /\ k \in DOMAIN Sample(list)
  BY DEF Sample, Keys
<1>2. \A k \in Checked : Load(Sample(list))[k] = Defaults[k]
  BY <1>1, KeysAre DEF Load, Checked
<1>. QED  BY <1>2, DefaultsValid, ValidateChecked DEF Usable, Loads

LEMMA HandmadeUsable ==
    ASSUME ConfigAssumption, NEW list PROVE Usable([printer |-> list, paper |-> "a4"])
<1>. DEFINE f == [printer |-> list, paper |-> "a4"]
<1>1. DOMAIN f = {"printer", "paper"} /\ f["paper"] = "a4"
  OBVIOUS
<1>2. Defaults["paper"] = "a4"
  BY DEF Defaults
<1>3. \A k \in Checked : Load(f)[k] = Defaults[k]
  BY <1>1, <1>2, KeysAre DEF Load, Checked
<1>. QED  BY <1>3, DefaultsValid, ValidateChecked DEF Usable, Loads

-----------------------------------------------------------------------------
(* The records of the commands, and how one of them changes.                *)
Fields == {"pc", "op", "key", "value", "content", "target"}
CmdType == DOMAIN cmd = Commands /\ \A c \in Commands : DOMAIN cmd[c] = Fields

\* Only the record of c changes.
Frame(c) == CmdType' /\ \A d \in Commands \ {c} : cmd'[d] = cmd[d]

LEMMA NoCommandFields ==
    DOMAIN NoCommand = Fields /\ NoCommand.pc = "idle" /\ NoCommand.op = "none"
BY DEF NoCommand, Fields

LEMMA LaunchFrame ==
    ASSUME CmdType, NEW c \in Commands, NEW r, DOMAIN r = Fields, Launch(c, r)
    PROVE  Frame(c) /\ cmd'[c] = r /\ cmd[c].pc = "idle" /\ left > 0 /\ left' = left - 1
BY DEF CmdType, Launch, Frame

LEMMA GotoFrame ==
    ASSUME CmdType, NEW c \in Commands, NEW l, Goto(c, l)
    PROVE  /\ Frame(c) /\ cmd'[c].pc = l
           /\ \A f \in Fields \ {"pc"} : cmd'[c][f] = cmd[c][f]
BY DEF CmdType, Goto, Frame, Fields

LEMMA ReturnFrame ==
    ASSUME CmdType, NEW c \in Commands, Return(c)
    PROVE  Frame(c) /\ cmd'[c] = NoCommand
BY NoCommandFields DEF CmdType, Return, Frame

LEMMA AfterStopFrame ==
    ASSUME CmdType, NEW c \in Commands, AfterStop(c)
    PROVE  Frame(c) /\ cmd'[c].pc \in {"idle", "start"} /\ cmd'[c].op \in {"none", cmd[c].op}
<1>1. CASE cmd[c].op = "stop"
  <2>1. Frame(c) /\ cmd'[c] = NoCommand
    BY <1>1, ReturnFrame DEF AfterStop
  <2>. QED  BY <2>1, NoCommandFields
<1>2. CASE cmd[c].op # "stop"
  BY <1>2, GotoFrame DEF AfterStop, Fields
<1>. QED  BY <1>1, <1>2

-----------------------------------------------------------------------------
(* A command under way is going to set something that is not empty, or to  *)
(* write a file that loads.                                                *)
Pending(r) ==
    /\ r.pc = "read" => (r.key \in Checked => r.value # Zero(r.key))
    /\ r.pc \in {"open", "write"} => Usable(r.content)

FileInv == CmdType /\ Usable(file) /\ \A c \in Commands : Pending(cmd[c])

LEMMA FileFrame ==
    ASSUME FileInv, NEW c \in Commands, Frame(c), Pending(cmd'[c]), Usable(file')
    PROVE  FileInv'
<1>1. \A d \in Commands : Pending(cmd'[d])
  BY DEF FileInv, Frame
<1>. QED  BY <1>1 DEF FileInv, Frame, Pending, Usable

LEMMA SetsPending ==
    ASSUME CmdType, NEW c \in Commands, NEW o, NEW k, NEW v, Sets(c, o, k, v),
           k \in Checked => v # Zero(k)
    PROVE  Frame(c) /\ Pending(cmd'[c]) /\ cmd'[c].pc = "read" /\ cmd'[c].op = o
<1>. DEFINE r == [NoCommand EXCEPT !.pc = "read", !.op = o, !.key = k, !.value = v]
<1>1. DOMAIN r = Fields /\ r.pc = "read" /\ r.op = o /\ r.key = k /\ r.value = v
  BY DEF NoCommand, Fields
<1>2. Launch(c, r)
  BY DEF Sets
<1>3. Frame(c) /\ cmd'[c] = r
  BY <1>1, <1>2, LaunchFrame
<1>. QED  BY <1>1, <1>3 DEF Pending

(* An action that leaves the file alone and changes no command but c, which *)
(* it does not bring to one of the three steps of a change of the file.     *)
LEMMA FileUntouched ==
    ASSUME FileInv, NEW c \in Commands, Frame(c), UNCHANGED file,
           cmd'[c].pc \notin {"read", "open", "write"}
    PROVE  FileInv'
<1>1. Pending(cmd'[c])
  BY DEF Pending
<1>2. Usable(file')
  BY DEF FileInv
<1>. QED  BY <1>1, <1>2, FileFrame

LEMMA ReturnUntouched ==
    ASSUME FileInv, NEW c \in Commands, Return(c), UNCHANGED file
    PROVE  FileInv'
<1>1. Frame(c) /\ cmd'[c] = NoCommand
  BY ReturnFrame DEF FileInv
<1>. QED  BY <1>1, NoCommandFields, FileUntouched

LEMMA GotoUntouched ==
    ASSUME FileInv, NEW c \in Commands, NEW l, Goto(c, l), UNCHANGED file,
           l \notin {"read", "open", "write"}
    PROVE  FileInv'
<1>1. Frame(c) /\ cmd'[c].pc = l
  BY GotoFrame DEF FileInv
<1>. QED  BY <1>1, FileUntouched

LEMMA AfterStopUntouched ==
    ASSUME FileInv, NEW c \in Commands, AfterStop(c), UNCHANGED file
    PROVE  FileInv'
<1>1. Frame(c) /\ cmd'[c].pc \in {"idle", "start"}
  BY AfterStopFrame DEF FileInv
<1>. QED  BY <1>1, FileUntouched

LEMMA NothingUntouched == ASSUME FileInv, UNCHANGED <<file, cmd>> PROVE FileInv'
BY DEF FileInv, CmdType, Usable, Pending

-----------------------------------------------------------------------------
(* The steps that change the file or prepare a change.                      *)

LEMMA ConfigInitFile ==
    ASSUME ServiceAssumption, FileInv, NEW c \in Commands, ConfigInit(c)
    PROVE  FileInv'
<1>1. PICK list : Launch(c, [NoCommand EXCEPT !.pc = "open", !.op = "init", !.content = Sample(list)])
  BY DEF ConfigInit
<1>. DEFINE r == [NoCommand EXCEPT !.pc = "open", !.op = "init", !.content = Sample(list)]
<1>2. DOMAIN r = Fields /\ r.pc = "open" /\ r.content = Sample(list)
  BY DEF NoCommand, Fields
<1>3. Frame(c) /\ cmd'[c] = r
  BY <1>1, <1>2, LaunchFrame DEF FileInv
<1>4. Pending(cmd'[c])
  BY <1>2, <1>3, SampleUsable DEF Pending, ServiceAssumption
<1>5. Usable(file')
  BY DEF ConfigInit, FileInv
<1>. QED  BY <1>3, <1>4, <1>5, FileFrame

LEMMA SetsFile ==
    ASSUME FileInv, NEW c \in Commands, NEW o, NEW k, NEW v, Sets(c, o, k, v),
           k \in Checked => v # Zero(k), UNCHANGED file
    PROVE  FileInv'
<1>1. Frame(c) /\ Pending(cmd'[c])
  BY SetsPending DEF FileInv
<1>2. Usable(file')
  BY DEF FileInv
<1>. QED  BY <1>1, <1>2, FileFrame

LEMMA ConfigSetFile ==
    ASSUME NothingEmpty, FileInv, NEW c \in Commands, ConfigSet(c)
    PROVE  FileInv'
<1>1. UNCHANGED file
  BY DEF ConfigSet
<1>2. CASE \E n \in Names : Sets(c, "set", "name", n)
  <2>1. PICK n \in Names : Sets(c, "set", "name", n)
    BY <1>2
  <2>2. n # Zero("name")
    BY DEF NothingEmpty, Zero
  <2>. QED  BY <1>1, <2>1, <2>2, SetsFile
<1>3. CASE \E r \in Resolutions : Sets(c, "set", "resolution", r)
  <2>1. PICK r \in Resolutions : Sets(c, "set", "resolution", r)
    BY <1>3
  <2>2. r # Zero("resolution")
    BY DEF NothingEmpty, Zero
  <2>. QED  BY <1>1, <2>1, <2>2, SetsFile
<1>. QED  BY <1>2, <1>3 DEF ConfigSet

LEMMA PrinterFile ==
    ASSUME FileInv, NEW c \in Commands, PrinterAdd(c) \/ PrinterRemove(c)
    PROVE  FileInv'
<1>1. UNCHANGED file
  BY DEF PrinterAdd, PrinterRemove
<1>2. PICK list : Sets(c, "printer", "printer", list)
  BY DEF PrinterAdd, PrinterRemove
<1>3. "printer" \notin Checked
  BY DEF Checked
<1>. QED  BY <1>1, <1>2, <1>3, SetsFile

LEMMA SetReadsFile ==
    ASSUME ServiceAssumption, FileInv, NEW c \in Commands, SetReads(c)
    PROVE  FileInv'
<1>1. UNCHANGED file
  BY DEF SetReads
<1>2. CASE SetAccepts(file, cmd[c].key, cmd[c].value)
  <2>. DEFINE g == Put(file, cmd[c].key, cmd[c].value)
  <2>1. cmd' = [cmd EXCEPT ![c].pc = "open", ![c].content = g]
    BY <1>2 DEF SetReads
  <2>2. Frame(c) /\ cmd'[c].pc = "open" /\ cmd'[c].content = g
    BY <2>1 DEF FileInv, CmdType, Frame, Fields
  <2>3. Loads(file)
    BY <1>2 DEF FileInv, Usable, SetAccepts, IsMapping
  <2>4. Validate(Load(g))
    BY <1>2, <2>3, SetKeepsLoadable DEF FileInv, Pending, SetReads, ServiceAssumption
  <2>5. Usable(g)
    BY <2>4 DEF Usable, Loads
  <2>6. Pending(cmd'[c]) /\ Usable(file')
    BY <1>1, <2>2, <2>5 DEF Pending, FileInv
  <2>. QED  BY <2>2, <2>6, FileFrame
<1>3. CASE ~SetAccepts(file, cmd[c].key, cmd[c].value)
  <2>1. Return(c)
    BY <1>3 DEF SetReads
  <2>. QED  BY <1>1, <2>1, ReturnUntouched
<1>. QED  BY <1>2, <1>3

LEMMA SetOpensFile ==
    ASSUME ServiceAssumption, FileInv, NEW c \in Commands, SetOpens(c)
    PROVE  FileInv'
<1>1. Frame(c) /\ cmd'[c].pc = "write" /\ cmd'[c].content = cmd[c].content
  BY GotoFrame DEF SetOpens, FileInv, Fields
<1>2. Pending(cmd'[c])
  BY <1>1 DEF SetOpens, FileInv, Pending
<1>3. Usable(file')
  BY EmptyUsable DEF SetOpens, ServiceAssumption
<1>. QED  BY <1>1, <1>2, <1>3, FileFrame

LEMMA SetWritesFile ==
    ASSUME FileInv, NEW c \in Commands, SetWrites(c)
    PROVE  FileInv'
<1>1. Usable(file')
  BY DEF SetWrites, FileInv, Pending, Usable
<1>2. CASE cmd[c].op = "printer"
  <2>. DEFINE r == [NoCommand EXCEPT !.pc = "status", !.op = "printer"]
  <2>1. DOMAIN r = Fields /\ r.pc = "status"
    BY DEF NoCommand, Fields
  <2>2. cmd' = [cmd EXCEPT ![c] = r]
    BY <1>2 DEF SetWrites
  <2>3. Frame(c) /\ cmd'[c] = r
    BY <2>1, <2>2 DEF Frame, FileInv, CmdType
  <2>4. Pending(cmd'[c])
    BY <2>1, <2>3 DEF Pending
  <2>. QED  BY <1>1, <2>3, <2>4, FileFrame
<1>3. CASE cmd[c].op # "printer"
  <2>1. Frame(c) /\ cmd'[c] = NoCommand
    BY <1>3, ReturnFrame DEF SetWrites, FileInv
  <2>2. Pending(cmd'[c])
    BY <2>1, NoCommandFields DEF Pending
  <2>. QED  BY <1>1, <2>1, <2>2, FileFrame
<1>. QED  BY <1>2, <1>3

LEMMA ControlFile ==
    ASSUME FileInv, NEW c \in Commands, Control(c)
    PROVE  FileInv'
<1>1. PICK o : Launch(c, [NoCommand EXCEPT !.pc = IF o = "start" THEN "start" ELSE "stop", !.op = o])
  BY DEF Control
<1>. DEFINE r == [NoCommand EXCEPT !.pc = IF o = "start" THEN "start" ELSE "stop", !.op = o]
<1>2. DOMAIN r = Fields /\ r.pc \in {"start", "stop"}
  BY DEF NoCommand, Fields
<1>3. Frame(c) /\ cmd'[c] = r
  BY <1>1, <1>2, LaunchFrame DEF FileInv
<1>. QED  BY <1>2, <1>3, FileUntouched DEF Control

-----------------------------------------------------------------------------
LEMMA FileInit == ASSUME ServiceAssumption, Init PROVE FileInv
<1>1. CmdType /\ \A c \in Commands : Pending(cmd[c])
  BY NoCommandFields DEF Init, CmdType, Pending
<1>2. Usable(file)
  BY HandmadeUsable DEF Init, Usable, ServiceAssumption
<1>. QED  BY <1>1, <1>2 DEF FileInv

LEMMA FileNext ==
    ASSUME ServiceAssumption, NothingEmpty, FileInv, [Next]_vars
    PROVE  FileInv'
<1>1. ASSUME NEW c \in Commands, Begin(c)  PROVE FileInv'
  BY <1>1, ConfigInitFile, ConfigSetFile, PrinterFile, ControlFile DEF Begin
<1>2. ASSUME NEW c \in Commands, SetReads(c) \/ SetOpens(c) \/ SetWrites(c)  PROVE FileInv'
  BY <1>2, SetReadsFile, SetOpensFile, SetWritesFile
<1>3. ASSUME NEW c \in Commands, AsksStatus(c)  PROVE FileInv'
  <2>1. UNCHANGED file /\ (Goto(c, "stop") \/ Return(c))
    BY <1>3 DEF AsksStatus
  <2>. QED  BY <2>1, GotoUntouched, ReturnUntouched
<1>4. ASSUME NEW c \in Commands, Stops(c)  PROVE FileInv'
  <2>1. UNCHANGED file
    BY <1>4 DEF Stops
  <2>2. CASE CanStop
    <3>1. cmd' = [cmd EXCEPT ![c].pc = "wait", ![c].target = StopTarget]
      BY <1>4, <2>2 DEF Stops
    <3>2. Frame(c) /\ cmd'[c].pc = "wait"
      BY <3>1 DEF Frame, FileInv, CmdType, Fields
    <3>. QED  BY <2>1, <3>2, FileUntouched
  <2>3. CASE ~CanStop
    BY <1>4, <2>1, <2>3, AfterStopUntouched DEF Stops
  <2>. QED  BY <2>2, <2>3
<1>5. ASSUME NEW c \in Commands, Waits(c)  PROVE FileInv'
  BY <1>5, AfterStopUntouched DEF Waits
<1>6. ASSUME NEW c \in Commands, Starts(c) \/ Interrupt(c)  PROVE FileInv'
  BY <1>6, ReturnUntouched DEF Starts, Interrupt
<1>7. CASE ManagerLaunches
  BY <1>7, NothingUntouched DEF ManagerLaunches
<1>8. ASSUME NEW i \in Pids, RunByHand(i) \/ Daemon(i) \/ Crash(i)  PROVE FileInv'
  BY <1>8, NothingUntouched DEF RunByHand, Daemon, DaemonLoads, DaemonWritesPid, DaemonServes, DaemonEnds, Crash
<1>9. CASE Idle \/ UNCHANGED vars
  BY <1>9, NothingUntouched DEF Idle, vars
<1>. QED  BY <1>1, <1>2, <1>3, <1>4, <1>5, <1>6, <1>7, <1>8, <1>9 DEF Next, Step

(* "new value rejected" (config.go:199): with no empty value given, the file *)
(* is one a daemon can start with in every reachable state, unless there is *)
(* none or two commands wrote it at the same moment.                        *)
THEOREM FileStaysLoadableAlways == NothingEmpty /\ Spec => []FileStaysLoadable
<1>. SUFFICES ASSUME NothingEmpty PROVE Spec => []FileStaysLoadable
  OBVIOUS
<1>1. Init => FileInv
  BY ServiceAssumption, FileInit
<1>2. FileInv /\ [Next]_vars => FileInv'
  BY ServiceAssumption, FileNext
<1>3. FileInv => FileStaysLoadable
  BY DEF FileInv, Usable, FileStaysLoadable
<1>. QED  BY <1>1, <1>2, <1>3, PTL DEF Spec

-----------------------------------------------------------------------------
(* The processes.                                                           *)

Managed == kind # "pidfile"
Going == {"stop", "term"}

UnitInv ==
    /\ kind = "pidfile" => unit = "off" /\ main = None
    /\ Managed => \A i \in Pids : Alive(i) => main = i
    /\ Managed /\ unit = "off" => main = None
    /\ unit = "stopping" => main # None /\ proc[main] \in Going

\* A command is going to restart what goes on with an older list.
Restarting == \E c \in Commands : cmd[c].op = "printer" /\ cmd[c].pc \in {"status", "stop"}

BehindInv ==
    \A i \in behind :
        /\ proc[i] \notin {"none", "start"}
        /\ kind \in {"launchd", "systemd"} => proc[i] \in Going \/ Restarting

PidInv ==
    (kind = "pidfile" /\ ~mixed) =>
        /\ \A i, j \in Pids : Alive(i) /\ Alive(j) => i = j
        /\ \A i \in Pids : proc[i] \in {"named", "serve"} => pidfile = i
        /\ \A c \in Commands : cmd[c].pc = "wait" => \A i \in Pids : Alive(i) => i = cmd[c].target

Labels == {"idle", "read", "open", "write", "status", "stop", "wait", "start"}
Ops == {"none", "init", "set", "printer", "start", "stop", "restart"}
RecordOK(r) == r.pc \in Labels /\ r.op \in Ops /\ r.target \in Pids \cup {None}
CmdOK == CmdType /\ \A c \in Commands : RecordOK(cmd[c])

BoundOK == left \in 0 .. MaxCommands /\ faults \in 0 .. MaxFaults

VarsOK ==
    /\ kind \in Kinds
    /\ unit \in {"off", "on", "stopping"}
    /\ main \in Pids \cup {None} /\ pidfile \in Pids \cup {None}
    /\ proc \in [Pids -> {"none", "start", "loaded", "named", "serve", "stop", "term"}]
    /\ main # None => Alive(main)
    /\ behind \subseteq Pids /\ up \in BOOLEAN /\ mixed \in BOOLEAN

DaemonInv == CmdOK /\ BoundOK /\ VarsOK /\ UnitInv /\ BehindInv /\ PidInv

LEMMA DaemonInvSuffices == ASSUME DaemonInv
    PROVE TypeOK /\ PrinterListApplied /\ StatusFindsDaemon
<1>1. TypeOK
  BY DEF DaemonInv, CmdOK, RecordOK, Labels, Ops, BoundOK, VarsOK, TypeOK
<1>2. PrinterListApplied
  BY DEF DaemonInv, BehindInv, Restarting, Going, PrinterListApplied
<1>3. StatusFindsDaemon
  BY DEF DaemonInv, PidInv, StatusFindsDaemon
<1>. QED  BY <1>1, <1>2, <1>3

-----------------------------------------------------------------------------
(* The bounds: Launch, RunByHand, Crash and Interrupt count.                *)

LEMMA BoundNext == ASSUME ServiceAssumption, BoundOK, [Next]_vars PROVE BoundOK'
<1>1. left' = left \/ (left > 0 /\ left' = left - 1)
  BY DEF Next, Begin, Step, Daemon, ConfigInit, ConfigSet, PrinterAdd, PrinterRemove, Control,
         Sets, Launch, SetReads, SetOpens, SetWrites, AsksStatus, Stops, Waits, Starts,
         Interrupt, ManagerLaunches, RunByHand, DaemonLoads, DaemonWritesPid, DaemonServes, DaemonEnds, Crash,
         Idle, vars
<1>2. faults' = faults \/ (faults < MaxFaults /\ faults' = faults + 1)
  BY DEF Next, Begin, Step, Daemon, ConfigInit, ConfigSet, PrinterAdd, PrinterRemove, Control,
         SetReads, SetOpens, SetWrites, AsksStatus, Stops, Waits, Starts,
         Interrupt, ManagerLaunches, RunByHand, DaemonLoads, DaemonWritesPid, DaemonServes, DaemonEnds, Crash,
         Idle, vars
<1>. QED  BY <1>1, <1>2 DEF BoundOK, ServiceAssumption

-----------------------------------------------------------------------------
(* The commands.                                                            *)

LEMMA NoCommandOK == RecordOK(NoCommand)
BY DEF NoCommand, RecordOK, Labels, Ops

LEMMA CmdFrame ==
    ASSUME CmdOK, NEW c \in Commands, Frame(c), RecordOK(cmd'[c])
    PROVE  CmdOK'
<1>1. \A d \in Commands : RecordOK(cmd'[d])
  BY DEF CmdOK, Frame
<1>. QED  BY <1>1 DEF CmdOK, Frame, RecordOK

LEMMA ReturnOK ==
    ASSUME CmdOK, NEW c \in Commands, Return(c)
    PROVE  Frame(c) /\ cmd'[c] = NoCommand /\ CmdOK'
<1>1. Frame(c) /\ cmd'[c] = NoCommand
  BY ReturnFrame DEF CmdOK
<1>. QED  BY <1>1, NoCommandOK, CmdFrame

LEMMA GotoOK ==
    ASSUME CmdOK, NEW c \in Commands, NEW l \in Labels, Goto(c, l)
    PROVE  Frame(c) /\ cmd'[c].pc = l /\ cmd'[c].op = cmd[c].op /\ CmdOK'
<1>1. /\ Frame(c) /\ cmd'[c].pc = l
      /\ cmd'[c].op = cmd[c].op /\ cmd'[c].target = cmd[c].target
  BY GotoFrame DEF CmdOK, Fields
<1>2. RecordOK(cmd'[c])
  BY <1>1 DEF CmdOK, RecordOK
<1>. QED  BY <1>1, <1>2, CmdFrame

LEMMA AfterStopOK ==
    ASSUME CmdOK, NEW c \in Commands, AfterStop(c)
    PROVE  Frame(c) /\ cmd'[c].pc \in {"idle", "start"} /\ CmdOK'
<1>1. Return(c) \/ Goto(c, "start")
  BY DEF AfterStop
<1>. QED  BY <1>1, ReturnOK, GotoOK, NoCommandFields DEF Labels

\* A command begins, or changes the file: nothing that this is about.
Quiet(c) ==
    /\ Frame(c) /\ CmdOK'
    /\ cmd[c].pc \notin {"status", "stop"} /\ cmd'[c].pc # "wait"
    /\ UNCHANGED <<kind, unitVars, ghosts>>

LEMMA LaunchQuiet ==
    ASSUME CmdOK, NEW c \in Commands, NEW r, DOMAIN r = Fields, RecordOK(r), r.pc # "wait",
           Launch(c, r), UNCHANGED <<kind, unitVars, ghosts>>
    PROVE  Quiet(c)
<1>1. Frame(c) /\ cmd'[c] = r /\ cmd[c].pc = "idle"
  BY LaunchFrame DEF CmdOK
<1>2. CmdOK'
  BY <1>1, CmdFrame
<1>. QED  BY <1>1, <1>2 DEF Quiet

LEMMA ConfigInitQuiet ==
    ASSUME CmdOK, NEW c \in Commands, ConfigInit(c) PROVE Quiet(c)
<1>1. PICK list : Launch(c, [NoCommand EXCEPT !.pc = "open", !.op = "init", !.content = Sample(list)])
  BY DEF ConfigInit
<1>. DEFINE r == [NoCommand EXCEPT !.pc = "open", !.op = "init", !.content = Sample(list)]
<1>2. DOMAIN r = Fields /\ r.pc = "open" /\ r.op = "init" /\ r.target = None
  BY DEF NoCommand, Fields
<1>3. RecordOK(r)
  BY <1>2 DEF RecordOK, Labels, Ops
<1>. QED  BY <1>1, <1>2, <1>3, LaunchQuiet DEF ConfigInit

LEMMA SetsQuiet ==
    ASSUME CmdOK, NEW c \in Commands, ConfigSet(c) \/ PrinterAdd(c) \/ PrinterRemove(c)
    PROVE  Quiet(c)
<1>1. UNCHANGED <<kind, unitVars, ghosts>>
  BY DEF ConfigSet, PrinterAdd, PrinterRemove
<1>2. PICK o \in {"set", "printer"} : \E k, v : Sets(c, o, k, v)
  BY DEF ConfigSet, PrinterAdd, PrinterRemove
<1>3. PICK k, v : Sets(c, o, k, v)
  BY <1>2
<1>. DEFINE r == [NoCommand EXCEPT !.pc = "read", !.op = o, !.key = k, !.value = v]
<1>4. DOMAIN r = Fields /\ r.pc = "read" /\ r.op = o /\ r.target = None
  BY DEF NoCommand, Fields
<1>5. RecordOK(r)
  BY <1>4 DEF RecordOK, Labels, Ops
<1>6. Launch(c, r)
  BY <1>3 DEF Sets
<1>. QED  BY <1>1, <1>4, <1>5, <1>6, LaunchQuiet

LEMMA ControlQuiet ==
    ASSUME CmdOK, NEW c \in Commands, Control(c) PROVE Quiet(c)
<1>1. PICK o \in {"start", "stop", "restart"} :
         Launch(c, [NoCommand EXCEPT !.pc = IF o = "start" THEN "start" ELSE "stop", !.op = o])
  BY DEF Control
<1>. DEFINE r == [NoCommand EXCEPT !.pc = IF o = "start" THEN "start" ELSE "stop", !.op = o]
<1>2. DOMAIN r = Fields /\ r.pc \in {"start", "stop"} /\ r.op = o /\ r.target = None
  BY DEF NoCommand, Fields
<1>3. RecordOK(r)
  BY <1>2 DEF RecordOK, Labels, Ops
<1>. QED  BY <1>1, <1>2, <1>3, LaunchQuiet DEF Control

LEMMA SetReadsQuiet ==
    ASSUME CmdOK, NEW c \in Commands, SetReads(c) PROVE Quiet(c)
<1>1. UNCHANGED <<kind, unitVars, ghosts>> /\ cmd[c].pc = "read"
  BY DEF SetReads
<1>2. CASE SetAccepts(file, cmd[c].key, cmd[c].value)
  <2>. DEFINE g == Put(file, cmd[c].key, cmd[c].value)
  <2>1. cmd' = [cmd EXCEPT ![c].pc = "open", ![c].content = g]
    BY <1>2 DEF SetReads
  <2>2. /\ Frame(c) /\ cmd'[c].pc = "open"
        /\ cmd'[c].op = cmd[c].op /\ cmd'[c].target = cmd[c].target
    BY <2>1 DEF CmdOK, CmdType, Frame, Fields
  <2>3. RecordOK(cmd'[c])
    BY <2>2 DEF CmdOK, RecordOK, Labels
  <2>4. CmdOK'
    BY <2>2, <2>3, CmdFrame
  <2>. QED  BY <1>1, <2>2, <2>4 DEF Quiet
<1>3. CASE Return(c)
  BY <1>1, <1>3, ReturnOK, NoCommandFields DEF Quiet
<1>. QED  BY <1>2, <1>3 DEF SetReads

LEMMA SetOpensQuiet ==
    ASSUME CmdOK, NEW c \in Commands, SetOpens(c) PROVE Quiet(c)
<1>1. Goto(c, "write") /\ cmd[c].pc = "open" /\ UNCHANGED <<kind, unitVars, ghosts>>
  BY DEF SetOpens
<1>2. Frame(c) /\ cmd'[c].pc = "write" /\ CmdOK'
  BY <1>1, GotoOK DEF Labels
<1>. QED  BY <1>1, <1>2 DEF Quiet

LEMMA QuietKeeps ==
    ASSUME DaemonInv, NEW c \in Commands, Quiet(c)
    PROVE  (CmdOK /\ VarsOK /\ UnitInv /\ BehindInv /\ PidInv)'
<1>. USE DEF DaemonInv
<1>1. CmdOK' /\ UNCHANGED <<kind, unit, main, proc, pidfile, behind, up, mixed>>
  BY DEF Quiet, unitVars, ghosts
<1>2. VarsOK' /\ UnitInv'
  BY <1>1 DEF VarsOK, UnitInv, Alive, Managed
<1>3. Restarting => Restarting'
  BY DEF Restarting, Quiet, Frame
<1>4. BehindInv'
  BY <1>1, <1>3 DEF BehindInv
<1>5. \A d \in Commands : cmd'[d].pc = "wait" => cmd'[d] = cmd[d]
  BY DEF Quiet, Frame
<1>6. PidInv'
  BY <1>1, <1>5 DEF PidInv, Alive
<1>. QED  BY <1>1, <1>2, <1>4, <1>6

-----------------------------------------------------------------------------
(* The other steps of the commands. *)
Keeps == (CmdOK /\ VarsOK /\ UnitInv /\ BehindInv /\ PidInv)'

\* The processes of the service do not change, and nobody starts to wait.
LEMMA UnitUntouched ==
    ASSUME DaemonInv, UNCHANGED <<kind, unit, main, proc, pidfile>>,
           up' \in BOOLEAN, UNCHANGED mixed,
           \A d \in Commands : cmd'[d].pc = "wait" => cmd'[d] = cmd[d]
    PROVE  (UnitInv /\ PidInv)' /\ (behind' \subseteq Pids => VarsOK')
<1>1. VarsOK /\ UnitInv /\ PidInv
  BY DEF DaemonInv
<1>2. UnitInv'
  BY <1>1 DEF UnitInv, Alive, Managed
<1>3. PidInv'
  BY <1>1 DEF PidInv, Alive
<1>4. behind' \subseteq Pids => VarsOK'
  BY <1>1 DEF VarsOK, Alive
<1>. QED  BY <1>2, <1>3, <1>4

LEMMA FrameWaits ==
    ASSUME NEW c \in Commands, Frame(c), cmd'[c].pc # "wait"
    PROVE  \A d \in Commands : cmd'[d].pc = "wait" => cmd'[d] = cmd[d]
BY DEF Frame

LEMMA SetWritesKeeps ==
    ASSUME DaemonInv, NEW c \in Commands, SetWrites(c) PROVE Keeps
<1>1. UNCHANGED <<kind, unit, main, proc, pidfile, up, mixed>> /\ up' \in BOOLEAN
  BY DEF SetWrites, unitVars, DaemonInv, VarsOK
<1>2. CmdOK /\ cmd[c].pc = "write"
  BY DEF SetWrites, DaemonInv
<1>3. CASE cmd[c].op = "printer"
  <2>. DEFINE r == [NoCommand EXCEPT !.pc = "status", !.op = "printer"]
  <2>1. DOMAIN r = Fields /\ r.pc = "status" /\ r.op = "printer" /\ r.target = None
    BY DEF NoCommand, Fields
  <2>2. cmd' = [cmd EXCEPT ![c] = r] /\ behind' = {i \in Pids : proc[i] \notin {"none", "start"}}
    BY <1>3 DEF SetWrites
  <2>3. Frame(c) /\ cmd'[c] = r
    BY <1>2, <2>1, <2>2 DEF Frame, CmdOK, CmdType
  <2>4. RecordOK(r)
    BY <2>1 DEF RecordOK, Labels, Ops
  <2>5. CmdOK'
    BY <1>2, <2>3, <2>4, CmdFrame
  <2>6. Restarting'
    BY <2>1, <2>3 DEF Restarting
  <2>7. BehindInv'
    BY <1>1, <2>2, <2>6 DEF BehindInv
  <2>8. \A d \in Commands : cmd'[d].pc = "wait" => cmd'[d] = cmd[d]
    BY <2>1, <2>3, FrameWaits
  <2>. QED  BY <1>1, <2>2, <2>5, <2>7, <2>8, UnitUntouched DEF Keeps
<1>4. CASE cmd[c].op # "printer"
  <2>1. Return(c) /\ behind' = behind
    BY <1>4 DEF SetWrites
  <2>2. Frame(c) /\ cmd'[c].pc = "idle" /\ CmdOK'
    BY <1>2, <2>1, ReturnOK, NoCommandFields
  <2>3. Restarting => Restarting'
    BY <1>2, <2>2 DEF Restarting, Frame
  <2>4. BehindInv'
    BY <1>1, <2>1, <2>3 DEF BehindInv, DaemonInv
  <2>5. \A d \in Commands : cmd'[d].pc = "wait" => cmd'[d] = cmd[d]
    BY <2>2, FrameWaits
  <2>6. behind' \subseteq Pids
    BY <2>1 DEF DaemonInv, VarsOK
  <2>. QED  BY <1>1, <2>2, <2>4, <2>5, <2>6, UnitUntouched DEF Keeps
<1>. QED  BY <1>3, <1>4

\* Under launchd and systemd, what is behind while no command is going to
\* restart it is stopped already if the service is not on.
LEMMA BehindStopped ==
    ASSUME DaemonInv, kind \in {"launchd", "systemd"}, NEW i \in behind
    PROVE  main = i /\ main # None /\ (unit # "on" => proc[i] \in Going)
<1>1. i \in Pids /\ Alive(i)
  BY ServiceAssumption DEF DaemonInv, VarsOK, BehindInv, Alive, ServiceAssumption
<1>2. main = i /\ main # None
  BY <1>1 DEF DaemonInv, UnitInv, Managed, Alive
<1>. QED  BY <1>2 DEF DaemonInv, UnitInv, VarsOK, Managed

LEMMA AsksStatusKeeps ==
    ASSUME ServiceAssumption, DaemonInv, NEW c \in Commands, AsksStatus(c) PROVE Keeps
<1>1. /\ UNCHANGED <<kind, unit, main, proc, pidfile, behind, up, mixed>>
      /\ cmd[c].pc = "status" /\ up' \in BOOLEAN /\ behind' \subseteq Pids
  BY DEF AsksStatus, unitVars, ghosts, DaemonInv, VarsOK
<1>2. PICK running \in Status : IF running THEN Goto(c, "stop") ELSE Return(c)
  BY DEF AsksStatus
<1>3. CASE running
  <2>1. Frame(c) /\ cmd'[c].pc = "stop" /\ cmd'[c].op = cmd[c].op /\ CmdOK'
    BY <1>2, <1>3, GotoOK DEF Labels, DaemonInv
  <2>2. Restarting => Restarting'
    BY <2>1 DEF Restarting, Frame
  <2>3. BehindInv'
    BY <1>1, <2>2 DEF BehindInv, DaemonInv
  <2>. QED  BY <1>1, <2>1, <2>3, FrameWaits, UnitUntouched DEF Keeps
<1>4. CASE ~running
  <2>1. Frame(c) /\ cmd'[c].pc = "idle" /\ CmdOK'
    BY <1>2, <1>4, ReturnOK, NoCommandFields DEF DaemonInv
  <2>2. ASSUME NEW i \in behind, kind \in {"launchd", "systemd"}  PROVE proc[i] \in Going
    <3>1. main # None /\ (unit # "on" => proc[i] \in Going)
      BY <2>2, BehindStopped
    <3>2. CASE kind = "launchd"
      <4>1. Status = {main # None} \cup (IF unit = "stopping" THEN {FALSE} ELSE {})
        BY <3>2 DEF Status
      <4>. QED  BY <1>2, <1>4, <3>1, <4>1
    <3>3. CASE kind = "systemd"
      <4>1. Status = {unit = "on" /\ main # None}
        BY <3>3 DEF Status
      <4>. QED  BY <1>2, <1>4, <3>1, <4>1
    <3>. QED  BY <2>2, <3>2, <3>3
  <2>3. BehindInv'
    BY <1>1, <2>2 DEF BehindInv, DaemonInv
  <2>. QED  BY <1>1, <2>1, <2>3, FrameWaits, UnitUntouched DEF Keeps
<1>. QED  BY <1>2, <1>3, <1>4

LEMMA WaitsKeeps ==
    ASSUME DaemonInv, NEW c \in Commands, Waits(c) PROVE Keeps
<1>1. /\ UNCHANGED <<kind, unit, main, proc, behind, up, mixed>>
      /\ cmd[c].pc = "wait" /\ AfterStop(c)
  BY DEF Waits, ghosts
<1>2. Frame(c) /\ cmd'[c].pc \in {"idle", "start"} /\ CmdOK'
  BY <1>1, AfterStopOK DEF DaemonInv
<1>3. Restarting => Restarting'
  BY <1>1, <1>2 DEF Restarting, Frame
<1>4. BehindInv' /\ UnitInv'
  BY <1>1, <1>3 DEF BehindInv, UnitInv, Managed, Alive, DaemonInv
<1>5. VarsOK'
  BY <1>1 DEF Waits, VarsOK, Alive, DaemonInv
<1>6. PidInv'
  <2>. SUFFICES ASSUME kind = "pidfile", ~mixed
                PROVE  /\ \A i, j \in Pids : Alive(i) /\ Alive(j) => i = j
                       /\ \A i \in Pids : proc[i] \in {"named", "serve"} => pidfile' = i
                       /\ \A d \in Commands : cmd'[d].pc = "wait" =>
                             \A i \in Pids : Alive(i) => i = cmd'[d].target
    BY <1>1 DEF PidInv, Alive
  <2>1. \A i \in Pids : Alive(i) => i = cmd[c].target
    BY <1>1 DEF PidInv, DaemonInv
  <2>2. \A i \in Pids : proc[i] \in {"named", "serve"} => pidfile' = i
    <3>1. CASE UNCHANGED pidfile
      BY <3>1 DEF PidInv, DaemonInv
    <3>2. CASE ~Alive(cmd[c].target)
      <4>1. \A i \in Pids : ~Alive(i)
        BY <2>1, <3>2
      <4>2. \A i \in Pids : i # None
        BY ServiceAssumption DEF ServiceAssumption
      <4>. QED  BY <4>1, <4>2 DEF Alive
    <3>. QED  BY <3>1, <3>2 DEF Waits
  <2>3. \A d \in Commands : cmd'[d].pc = "wait" => cmd'[d] = cmd[d]
    BY <1>2, FrameWaits
  <2>. QED  BY <2>2, <2>3 DEF PidInv, DaemonInv
<1>. QED  BY <1>2, <1>4, <1>5, <1>6 DEF Keeps

LEMMA StartsKeeps ==
    ASSUME DaemonInv, NEW c \in Commands, Starts(c) PROVE Keeps
<1>1. /\ UNCHANGED <<kind, main, proc, pidfile, behind, mixed>>
      /\ cmd[c].pc = "start" /\ Return(c) /\ up' \in BOOLEAN
      /\ unit' \in {unit, "on"} /\ (kind = "pidfile" => unit' = unit)
  BY DEF Starts, DaemonInv, VarsOK
<1>2. Frame(c) /\ cmd'[c].pc = "idle" /\ CmdOK'
  BY <1>1, ReturnOK, NoCommandFields DEF DaemonInv
<1>3. Restarting => Restarting'
  BY <1>1, <1>2 DEF Restarting, Frame
<1>4. BehindInv'
  BY <1>1, <1>3 DEF BehindInv, DaemonInv
<1>5. VarsOK'
  BY <1>1 DEF VarsOK, Alive, DaemonInv
<1>6. UnitInv'
  BY <1>1 DEF UnitInv, Managed, Alive, DaemonInv
<1>7. \A d \in Commands : cmd'[d].pc = "wait" => cmd'[d] = cmd[d]
  BY <1>2, FrameWaits
<1>8. PidInv'
  BY <1>1, <1>7 DEF PidInv, Alive, DaemonInv
<1>. QED  BY <1>2, <1>4, <1>5, <1>6, <1>8 DEF Keeps

LEMMA InterruptKeeps ==
    ASSUME DaemonInv, NEW c \in Commands, Interrupt(c) PROVE Keeps
<1>1. /\ UNCHANGED <<kind, unit, main, proc, pidfile, mixed>>
      /\ Return(c) /\ up' \in BOOLEAN /\ behind' = {}
  BY DEF Interrupt, unitVars, DaemonInv, VarsOK
<1>2. Frame(c) /\ cmd'[c].pc = "idle" /\ CmdOK'
  BY <1>1, ReturnOK, NoCommandFields DEF DaemonInv
<1>3. BehindInv'
  BY <1>1 DEF BehindInv
<1>. QED  BY <1>1, <1>2, <1>3, FrameWaits, UnitUntouched DEF Keeps

(* What SendStop does to the processes: those that live go on living, and   *)
(* the one it is about, if it lives, is on its way out.                      *)
LEMMA SendStopProc ==
    ASSUME DaemonInv, SendStop
    PROVE  /\ proc' \in [Pids -> {"none", "start", "loaded", "named", "serve", "stop", "term"}]
           /\ \A i \in Pids : proc'[i] = proc[i] \/ (proc[i] # "none" /\ proc'[i] \in Going)
           /\ Alive(StopTarget) => proc'[StopTarget] \in Going
           /\ StopTarget \in Pids \cup {None}
<1>1. StopTarget \in Pids \cup {None}
  BY DEF StopTarget, DaemonInv, VarsOK
<1>2. CASE ~Alive(StopTarget)
  BY <1>1, <1>2 DEF SendStop, DaemonInv, VarsOK
<1>3. CASE Alive(StopTarget)
  <2>1. PICK g \in Going : proc' = [proc EXCEPT ![StopTarget] = g]
    BY <1>3 DEF SendStop, Going
  <2>. QED  BY <1>1, <1>3, <2>1 DEF Alive, DaemonInv, VarsOK, Going
<1>. QED  BY <1>2, <1>3

LEMMA StopsKeeps ==
    ASSUME ServiceAssumption, DaemonInv, NEW c \in Commands, Stops(c) PROVE Keeps
<1>1. /\ UNCHANGED <<kind, main, pidfile, behind, mixed>>
      /\ cmd[c].pc = "stop" /\ up' \in BOOLEAN
  BY DEF Stops, DaemonInv, VarsOK
<1>2. CASE CanStop
  <2>1. SendStop /\ cmd' = [cmd EXCEPT ![c].pc = "wait", ![c].target = StopTarget]
    BY <1>2 DEF Stops
  <2>2. /\ Frame(c) /\ cmd'[c].pc = "wait" /\ cmd'[c].target = StopTarget
        /\ cmd'[c].op = cmd[c].op
    BY <2>1 DEF DaemonInv, CmdOK, CmdType, Frame, Fields
  <2>3. RecordOK(cmd'[c])
    BY <2>1, <2>2, SendStopProc DEF DaemonInv, CmdOK, RecordOK, Labels
  <2>4. CmdOK'
    BY <2>2, <2>3, CmdFrame DEF DaemonInv
  <2>5. /\ proc' \in [Pids -> {"none", "start", "loaded", "named", "serve", "stop", "term"}]
        /\ \A i \in Pids : proc'[i] = proc[i] \/ (proc[i] # "none" /\ proc'[i] \in Going)
        /\ Alive(StopTarget) => proc'[StopTarget] \in Going
    BY <2>1, SendStopProc
  <2>6. unit' = IF unit # "on" THEN unit ELSE IF main = None THEN "off" ELSE "stopping"
    BY <2>1 DEF SendStop
  <2>7. VarsOK'
    BY <1>1, <2>5, <2>6 DEF VarsOK, Alive, DaemonInv, Going
  <2>8. main # None /\ Managed => proc'[main] \in Going
    BY <2>5 DEF StopTarget, Managed, DaemonInv, VarsOK
  <2>9. UnitInv'
    BY <1>1, <2>5, <2>6, <2>8 DEF UnitInv, VarsOK, Alive, Managed, DaemonInv, Going
  <2>10. BehindInv'
    <3>1. ASSUME NEW i \in behind, kind \in {"launchd", "systemd"}  PROVE proc'[i] \in Going
      BY <2>8, <3>1, BehindStopped DEF Managed
    <3>2. ASSUME NEW i \in behind  PROVE proc'[i] \notin {"none", "start"}
      BY <2>5 DEF BehindInv, DaemonInv, VarsOK, Going
    <3>. QED  BY <1>1, <3>1, <3>2 DEF BehindInv
  <2>11. PidInv'
    <3>. SUFFICES ASSUME kind = "pidfile", ~mixed
                  PROVE  /\ \A i, j \in Pids : Alive(i)' /\ Alive(j)' => i = j
                         /\ \A i \in Pids : proc'[i] \in {"named", "serve"} => pidfile' = i
                         /\ \A d \in Commands : cmd'[d].pc = "wait" =>
                               \A i \in Pids : Alive(i)' => i = cmd'[d].target
      BY <1>1 DEF PidInv
    <3>1. \A i \in Pids : (Alive(i)' => Alive(i)) /\ (proc'[i] \in {"named", "serve"} => proc[i] = proc'[i])
      BY <2>5 DEF Alive, Going
    <3>2. StopTarget = pidfile /\ Alive(pidfile) /\ pidfile \in Pids
      BY <1>2 DEF CanStop, StopTarget, Alive, DaemonInv, VarsOK
    <3>3. \A i \in Pids : Alive(i) => i = StopTarget
      BY <3>2 DEF PidInv, DaemonInv
    <3>4. ASSUME NEW d \in Commands, cmd'[d].pc = "wait", NEW i \in Pids, Alive(i)'
          PROVE  i = cmd'[d].target
      <4>1. CASE d = c
        BY <2>2, <3>1, <3>3, <3>4, <4>1
      <4>2. CASE d # c
        BY <2>2, <3>1, <3>4, <4>2 DEF Frame, PidInv, DaemonInv
      <4>. QED  BY <4>1, <4>2
    <3>. QED  BY <1>1, <3>1, <3>4 DEF PidInv, DaemonInv
  <2>. QED  BY <2>4, <2>7, <2>9, <2>10, <2>11 DEF Keeps
<1>3. CASE ~CanStop
  <2>1. AfterStop(c) /\ UNCHANGED <<unit, proc>>
    BY <1>3 DEF Stops
  <2>2. Frame(c) /\ cmd'[c].pc \in {"idle", "start"} /\ CmdOK'
    BY <2>1, AfterStopOK DEF DaemonInv
  <2>3. ASSUME NEW i \in behind, kind \in {"launchd", "systemd"}  PROVE proc[i] \in Going
    <3>1. CASE kind = "launchd"
      BY <1>3, <2>3, <3>1, BehindStopped DEF CanStop
    <3>2. CASE kind = "systemd"
      BY <1>3, <3>2 DEF CanStop
    <3>. QED  BY <2>3, <3>1, <3>2
  <2>4. BehindInv'
    BY <1>1, <2>1, <2>3 DEF BehindInv, DaemonInv
  <2>5. behind' \subseteq Pids
    BY <1>1 DEF DaemonInv, VarsOK
  <2>. QED  BY <1>1, <2>1, <2>2, <2>4, <2>5, FrameWaits, UnitUntouched DEF Keeps
<1>. QED  BY <1>2, <1>3

-----------------------------------------------------------------------------
(* The steps of the manager and of the daemons leave the commands alone.    *)

LEMMA CmdUntouched ==
    ASSUME CmdOK, UNCHANGED cmd PROVE CmdOK' /\ (Restarting => Restarting')
BY DEF CmdOK, CmdType, RecordOK, Restarting

LEMMA ManagerLaunchesKeeps ==
    ASSUME ServiceAssumption, DaemonInv, ManagerLaunches PROVE Keeps
<1>1. /\ UNCHANGED <<kind, cmd, unit, pidfile, behind, up, mixed>>
      /\ unit = "on" /\ main = None
  BY DEF ManagerLaunches, ghosts
<1>2. kind # "pidfile"
  BY <1>1 DEF DaemonInv, UnitInv
<1>3. \A i \in Pids : proc[i] = "none" /\ i # None
  BY <1>1, <1>2, ServiceAssumption DEF DaemonInv, UnitInv, Managed, Alive, ServiceAssumption
<1>4. FreePid \in Pids
  BY <1>3, ServiceAssumption DEF FreePid, ServiceAssumption
<1>5. main' = FreePid /\ proc' = [proc EXCEPT ![FreePid] = "start"]
  BY DEF ManagerLaunches
<1>6. VarsOK'
  BY <1>1, <1>3, <1>4, <1>5 DEF VarsOK, Alive, DaemonInv
<1>7. UnitInv'
  BY <1>1, <1>2, <1>3, <1>4, <1>5 DEF UnitInv, Managed, Alive, DaemonInv, VarsOK
<1>8. behind = {}
  BY <1>3 DEF BehindInv, DaemonInv, VarsOK
<1>9. BehindInv' /\ PidInv'
  BY <1>1, <1>2, <1>8 DEF BehindInv, PidInv
<1>. QED  BY <1>1, <1>6, <1>7, <1>9, CmdUntouched DEF Keeps, DaemonInv

LEMMA RunByHandKeeps ==
    ASSUME ServiceAssumption, DaemonInv, NEW i \in Pids, RunByHand(i) PROVE Keeps
<1>1. /\ UNCHANGED <<kind, cmd, unit, main, pidfile, behind, up>>
      /\ kind = "pidfile" /\ proc[i] = "none" /\ proc' = [proc EXCEPT ![i] = "start"]
  BY DEF RunByHand
<1>2. mixed' \in BOOLEAN
  BY DEF RunByHand
<1>3. ~mixed' => ~mixed /\ (\A j \in Pids : ~Alive(j)) /\ (\A c \in Commands : cmd[c].pc # "wait")
  BY DEF RunByHand
<1>4. VarsOK' /\ UnitInv'
  BY <1>1, <1>2 DEF VarsOK, UnitInv, Managed, Alive, DaemonInv
<1>5. BehindInv'
  BY <1>1 DEF BehindInv, DaemonInv, VarsOK
<1>6. PidInv'
  BY <1>1, <1>3, ServiceAssumption DEF PidInv, Alive, DaemonInv, VarsOK, ServiceAssumption
<1>. QED  BY <1>1, <1>4, <1>5, <1>6, CmdUntouched DEF Keeps, DaemonInv

\* A process gets on, from "start" to "loaded", to "named", to "serve".
LEMMA DaemonGetsOn ==
    ASSUME ServiceAssumption, DaemonInv, NEW i \in Pids, i # None, NEW l \in {"loaded", "named", "serve"},
           UNCHANGED <<kind, cmd, unit, main, behind, mixed>>, up' \in BOOLEAN,
           proc[i] \in {"start", "loaded", "named"}, proc' = [proc EXCEPT ![i] = l],
           l = "serve" => proc[i] = "named",
           l = "named" => pidfile' = i, l # "named" => pidfile' = pidfile
    PROVE  Keeps
<1>1. /\ \A j \in Pids : Alive(j)' <=> Alive(j)
      /\ main # None => (Alive(main)' <=> Alive(main))
  BY DEF Alive, DaemonInv, VarsOK
<1>2. VarsOK' /\ UnitInv'
  BY <1>1 DEF VarsOK, UnitInv, Managed, DaemonInv, Going
<1>3. BehindInv'
  <2>1. Restarting => Restarting'
    BY CmdUntouched DEF DaemonInv
  <2>. QED  BY <2>1 DEF BehindInv, DaemonInv, VarsOK, Going
<1>4. PidInv'
  <2>1. CASE kind = "pidfile" /\ ~mixed
    <3>1. \A j \in Pids : proc'[j] \in {"named", "serve"} => j = i
      BY <2>1 DEF PidInv, Alive, DaemonInv, VarsOK, ServiceAssumption
    <3>. QED  BY <1>1, <2>1, <3>1 DEF PidInv, DaemonInv, VarsOK
  <2>. QED  BY <2>1 DEF PidInv
<1>. QED  BY <1>2, <1>3, <1>4, CmdUntouched DEF Keeps, DaemonInv

\* A process ends.
LEMMA EndsKeeps ==
    ASSUME DaemonInv, NEW i \in Pids, Ends(i), UNCHANGED <<kind, cmd, mixed>>, up' \in BOOLEAN,
           Alive(i), pidfile' \in {pidfile, None}, pidfile' # pidfile => proc[i] # "serve"
    PROVE  Keeps
<1>1. /\ proc' = [proc EXCEPT ![i] = "none"] /\ behind' = behind \ {i}
      /\ main' = IF main = i THEN None ELSE main
      /\ unit' = IF main = i /\ (unit = "stopping" \/ kind = "windows") THEN "off" ELSE unit
  BY DEF Ends
<1>2. VarsOK'
  BY <1>1 DEF VarsOK, Alive, DaemonInv
<1>3. UnitInv'
  BY <1>1 DEF UnitInv, VarsOK, Managed, Alive, DaemonInv, Going
<1>4. BehindInv'
  <2>1. Restarting => Restarting'
    BY CmdUntouched DEF DaemonInv
  <2>. QED  BY <1>1, <2>1 DEF BehindInv, DaemonInv, VarsOK
<1>5. PidInv'
  BY <1>1 DEF PidInv, Alive, DaemonInv, VarsOK
<1>. QED  BY <1>2, <1>3, <1>4, <1>5, CmdUntouched DEF Keeps, DaemonInv

LEMMA DaemonKeeps ==
    ASSUME ServiceAssumption, DaemonInv, NEW i \in Pids, Daemon(i) \/ Crash(i) PROVE Keeps
<1>1. i # None
  BY ServiceAssumption DEF ServiceAssumption
<1>2. CASE DaemonLoads(i) /\ Loads(file)
  BY <1>1, <1>2, DaemonGetsOn DEF DaemonLoads, DaemonInv, VarsOK
<1>3. CASE DaemonLoads(i) /\ ~Loads(file)
  <2>1. Alive(i) /\ Ends(i) /\ UNCHANGED <<kind, cmd, mixed, pidfile>> /\ up' \in BOOLEAN
    BY <1>1, <1>3 DEF DaemonLoads, Alive, StaysUp, DaemonInv, VarsOK
  <2>. QED  BY <2>1, EndsKeeps
<1>4. CASE DaemonWritesPid(i) \/ DaemonServes(i)
  BY <1>1, <1>4, DaemonGetsOn DEF DaemonWritesPid, DaemonServes, ghosts, DaemonInv, VarsOK
<1>5. CASE DaemonEnds(i)
  <2>1. Alive(i) /\ Ends(i) /\ UNCHANGED <<kind, cmd, mixed>> /\ up' \in BOOLEAN
    BY <1>1, <1>5 DEF DaemonEnds, Alive, DaemonInv, VarsOK
  <2>2. pidfile' \in {pidfile, None} /\ (pidfile' # pidfile => proc[i] # "serve")
    BY <1>5 DEF DaemonEnds
  <2>. QED  BY <2>1, <2>2, EndsKeeps
<1>6. CASE Crash(i)
  <2>1. Alive(i) /\ Ends(i) /\ UNCHANGED <<kind, cmd, mixed, pidfile>> /\ up' \in BOOLEAN
    BY <1>6 DEF Crash, StaysUp, DaemonInv, VarsOK
  <2>. QED  BY <2>1, EndsKeeps
<1>. QED  BY <1>2, <1>3, <1>4, <1>5, <1>6 DEF Daemon

-----------------------------------------------------------------------------
LEMMA DaemonInit == ASSUME ServiceAssumption, Init PROVE DaemonInv
<1>1. CmdOK
  BY NoCommandFields, NoCommandOK DEF Init, CmdOK, CmdType
<1>2. BoundOK
  BY ServiceAssumption DEF Init, BoundOK, ServiceAssumption
<1>3. VarsOK /\ UnitInv
  BY DEF Init, VarsOK, UnitInv, Alive, Managed
<1>4. BehindInv /\ PidInv
  BY NoCommandFields DEF Init, BehindInv, PidInv, Alive
<1>. QED  BY <1>1, <1>2, <1>3, <1>4 DEF DaemonInv

LEMMA DaemonNext ==
    ASSUME ServiceAssumption, DaemonInv, [Next]_vars PROVE DaemonInv'
<1>1. SUFFICES Keeps
  BY BoundNext DEF Keeps, DaemonInv
<1>2. ASSUME NEW c \in Commands, Begin(c) \/ SetReads(c) \/ SetOpens(c)  PROVE Keeps
  <2>1. Quiet(c)
    BY <1>2, ConfigInitQuiet, SetsQuiet, ControlQuiet, SetReadsQuiet, SetOpensQuiet
    DEF Begin, DaemonInv
  <2>. QED  BY <2>1, QuietKeeps DEF Keeps
<1>3. ASSUME NEW c \in Commands, Step(c) \/ Interrupt(c)  PROVE Keeps
  BY <1>2, <1>3, SetWritesKeeps, AsksStatusKeeps, StopsKeeps, WaitsKeeps, StartsKeeps,
     InterruptKeeps DEF Step
<1>4. CASE ManagerLaunches
  BY <1>4, ManagerLaunchesKeeps
<1>5. ASSUME NEW i \in Pids, RunByHand(i) \/ Daemon(i) \/ Crash(i)  PROVE Keeps
  BY <1>5, RunByHandKeeps, DaemonKeeps
<1>6. CASE Idle \/ UNCHANGED vars
  <2>1. UNCHANGED <<kind, cmd, unit, main, proc, pidfile, behind, up, mixed>>
    BY <1>6 DEF Idle, vars, unitVars, ghosts
  <2>2. UnitInv' /\ VarsOK' /\ PidInv'
    BY <2>1 DEF UnitInv, VarsOK, PidInv, Alive, Managed, DaemonInv
  <2>3. CmdOK' /\ (Restarting => Restarting')
    BY <2>1, CmdUntouched DEF DaemonInv
  <2>4. BehindInv'
    BY <2>1, <2>3 DEF BehindInv, DaemonInv
  <2>. QED  BY <2>2, <2>3, <2>4 DEF Keeps
<1>. QED  BY <1>2, <1>3, <1>4, <1>5, <1>6 DEF Next

LEMMA DaemonInvAlways == Spec => []DaemonInv
<1>1. Init => DaemonInv
  BY ServiceAssumption, DaemonInit
<1>2. DaemonInv /\ [Next]_vars => DaemonInv'
  BY ServiceAssumption, DaemonNext
<1>. QED  BY <1>1, <1>2, PTL DEF Spec

(* Types; and the process the manager has for the service exists.           *)
THEOREM ServiceTypes == Spec => []TypeOK
<1>1. DaemonInv => TypeOK
  BY DaemonInvSuffices
<1>. QED  BY <1>1, DaemonInvAlways, PTL

(* "restarts the service if it is running" (printers.go:200): under launchd *)
(* and systemd no daemon goes on with a list of printers that is no longer  *)
(* the one in the file, unless the command that changed it was interrupted. *)
THEOREM PrinterListIsApplied == Spec => []PrinterListApplied
<1>1. DaemonInv => PrinterListApplied
  BY DaemonInvSuffices
<1>. QED  BY <1>1, DaemonInvAlways, PTL

(* "a pidfile written by hpscan run lets stop/status still work"            *)
(* (service.go:4-5): it names the daemon that serves, whatever crashed      *)
(* before, as long as daemons are run one after the other.                  *)
THEOREM StatusFindsTheDaemon == Spec => []StatusFindsDaemon
<1>1. DaemonInv => StatusFindsDaemon
  BY DaemonInvSuffices
<1>. QED  BY <1>1, DaemonInvAlways, PTL
===============================================================================
