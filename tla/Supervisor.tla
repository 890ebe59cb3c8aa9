----------------------------- MODULE Supervisor ------------------------------
(***************************************************************************)
(* Which printers the daemon serves, and how it comes back to them         *)
(* (daemon/daemon.go: Run, resolveTargets, runLoop, runOnce, serveOne,     *)
(* rediscoverTarget).  Every target has a loop of its own: connect, look   *)
(* the printer up with mDNS if nothing answers, serve one session, wait,   *)
(* again.  Meanwhile printers go off, come back, and get new addresses.    *)
(*                                                                         *)
(* A target is a printer (its Bonjour name, which the operating system     *)
(* resolves at each connection) or an address.  A session is one state;    *)
(* LedmSession and EsclSession model what happens in it; Discovery, what a *)
(* browse finds.                                                           *)
(***************************************************************************)
EXTENDS Discovery, Naturals, FiniteSets

CONSTANTS
    Printers,   \* HP printers; as targets, their names
    Addrs,      \* addresses the router hands out; as targets, pinned ones
    None,       \* no printer, or no address
    Systems,    \* operating systems, as subsets of {"dns", "multicast"}: whether it
                \* resolves Bonjour names, and whether it leaves port 5353 to others
    Configs,    \* the values of the setting "printer", as sets of targets
    FirstWait,  \* seconds before the first attempt to reconnect (5)
    LongWait,   \* a wait of this many seconds is not doubled any more (60)
    MaxTrouble, \* bound: moves and failures in all
    Faults      \* what an instance lets happen, by name

ASSUME SupervisorAssumption ==
    /\ None \notin Printers \cup Addrs /\ Printers \cap Addrs = {}
    /\ Systems \subseteq SUBSET {"dns", "multicast"}
    /\ Configs \subseteq SUBSET (Printers \cup Addrs)
    /\ FirstWait \in Nat /\ LongWait \in Nat /\ MaxTrouble \in Nat

Targets == Printers \cup Addrs

VARIABLES
    config,     \* cfg.Printer; {} is "", every printer found at the start
    dns,        \* whether the operating system resolves Bonjour names
    hears,      \* what a browse may find of each printer, and if nothing is lost
    found,      \* resolveTargets has returned
    pc,         \* where the loop of a target is; "none" if it has none
    host,       \* what a lookup returned, None for what is configured
    serves,     \* the printer at the other end of its session, or None
    backoff,
    cancelled,  \* ctx is done
    addr,       \* addr[p]: the address of printer p, None while it is off
    home,       \* history: the printer that had an address when the loops began,
                \* or was the first to get it after that
    late,       \* history: other printers that got the address a target uses, the
                \* configured one since then, a looked-up one since its lookup
    trouble     \* moves and failures so far

loopVars == <<pc, host, serves, backoff>>
netVars == <<addr, home, late>>
setVars == <<config, dns, hears>>
vars == <<setVars, found, loopVars, cancelled, netVars, trouble>>

Init ==
    /\ config \in Configs
    /\ \E s \in Systems :
          /\ dns = ("dns" \in s)
          /\ hears = [p \in Printers |->
                        [may |-> Browse(p, "multicast" \in s), all |-> BrowseAll(p, "multicast" \in s)]]
    /\ found = FALSE
    /\ pc = [t \in Targets |-> "none"] /\ host = [t \in Targets |-> None]
    /\ serves = [t \in Targets |-> None] /\ backoff = [t \in Targets |-> FirstWait]
    /\ cancelled = FALSE /\ trouble = 0 /\ late = [t \in Targets |-> {}]
    /\ home \in [Addrs -> Printers \cup {None}]
    /\ addr \in [Printers -> Addrs \cup {None}]
    /\ \A p \in Printers : addr[p] # None => home[addr[p]] = p
    /\ \A a \in Addrs : home[a] # None => addr[home[a]] = a

Goes == UNCHANGED trouble
Trouble(fault) == fault \in Faults /\ trouble < MaxTrouble /\ trouble' = trouble + 1

Goto(t, l) == pc' = [pc EXCEPT ![t] = l]

-----------------------------------------------------------------------------
(* The daemon. *)

\* A browse finds nothing of a printer that is off.  Losing something of what
\* the others send is trouble.
Browses ==
    {f \in [Printers -> SUBSET {"ip", "host"}] :
        \A p \in Printers : IF addr[p] = None THEN f[p] = {} ELSE f[p] \in hears[p].may}
Heard(f) ==
    IF \A p \in Printers : addr[p] # None => f[p] = hears[p].all THEN Goes ELSE Trouble("miss")

\* An address a browse returned for printer p.
Host(p, address) == IF address = "ip" THEN addr[p] ELSE p

\* Run: resolveTargets, and a loop for each target.  Without a setting the
\* targets are the addresses of a browse that found something.
StartLoops(targets) ==
    /\ found' = (targets # {})
    /\ pc' = [t \in Targets |-> IF t \in targets THEN "connect" ELSE "none"]

ResolveTargets ==
    /\ ~found /\ ~cancelled
    /\ \/ config # {} /\ StartLoops(config) /\ Goes
       \/ /\ config = {}
          /\ \E f \in Browses :
                Heard(f) /\ StartLoops(UNION {{Host(p, s) : s \in f[p]} : p \in Printers})
    /\ UNCHANGED <<setVars, host, serves, backoff, cancelled, netVars>>

\* A request to target t, or to an address, reaches the printer that is there.
At(a) == {p \in Printers : addr[p] = a /\ a # None}
Reached(t) == IF t \in Printers THEN {p \in {t} : dns /\ addr[p] # None} ELSE At(t)

\* serveOne up to the session, with the printers that can be reached.
\* Without one, or with an LEDM printer that fails in setup, it is
\* errNoScanInterface; an eSCL printer that fails in esclSetup is another error.
ServeOne(t, reached, noInterface) ==
    \/ \E p \in reached : serves' = [serves EXCEPT ![t] = p] /\ Goto(t, "session") /\ Goes
    \/ reached = {} /\ Goto(t, noInterface) /\ Goes /\ UNCHANGED serves
    \/ /\ reached # {} /\ Trouble("setup")
       /\ Goto(t, noInterface) \/ Goto(t, "wait")
       /\ UNCHANGED serves

\* runOnce with the configured address ...
Connect(t) ==
    /\ pc[t] = "connect"
    /\ ServeOne(t, Reached(t), "lookup")
    /\ UNCHANGED <<setVars, found, host, backoff, cancelled, netVars>>

\* Mutants: any HP printer will do; or only one that has kept its address.
MatchesAny(t, p, s) == TRUE
MatchesAddress(t, p, s) == s = "ip" /\ addr[p] = t

\* The browse results rediscoverTarget accepts for target t: by name, or by
\* the address the target is pinned to.
Matches(t, p, s) == p = t \/ (s = "ip" /\ addr[p] = t)

\* ... and, when nothing answers there, the lookup with mDNS ...
Lookup(t) ==
    /\ pc[t] = "lookup"
    /\ \E f \in Browses :
          /\ Heard(f)
          /\ \/ \E p \in Printers : \E s \in f[p] :
                   /\ Matches(t, p, s) /\ Goto(t, "again")
                   /\ host' = [host EXCEPT ![t] = Host(p, s)]
             \/ /\ ~\E p \in Printers : \E s \in f[p] : Matches(t, p, s)
                /\ Goto(t, "wait") /\ UNCHANGED host
    /\ UNCHANGED <<setVars, found, serves, backoff, cancelled, netVars>>

\* ... and the address that returned, for one session.
ConnectAgain(t) ==
    /\ pc[t] = "again"
    /\ ServeOne(t, Reached(host[t]), "wait")
    /\ UNCHANGED <<setVars, found, host, backoff, cancelled, netVars>>

\* The address a session was begun with; None is what is configured.
Peers(t) == Reached(IF host[t] = None THEN t ELSE host[t])

\* Its printer cannot be reached any more, or something else ends a session.
SessionEnds(t) ==
    /\ pc[t] = "session"
    /\ (serves[t] \notin Peers(t) /\ Goes) \/ Trouble("session")
    /\ serves' = [serves EXCEPT ![t] = None]
    /\ Goto(t, "wait")
    /\ UNCHANGED <<setVars, found, host, backoff, cancelled, netVars>>

\* Or another printer has its address, and answers the session's requests.
SessionPasses(t) ==
    /\ pc[t] = "session" /\ serves[t] \notin Peers(t)
    /\ \E p \in Peers(t) : serves' = [serves EXCEPT ![t] = p]
    /\ Goes /\ UNCHANGED <<setVars, found, pc, host, backoff, cancelled, netVars>>

\* runLoop waits, then starts from the configured target.  After an attempt
\* that took over a minute the backoff starts again.
Wait(t) ==
    /\ pc[t] = "wait" /\ ~cancelled
    /\ Goto(t, "connect") /\ host' = [host EXCEPT ![t] = None]
    /\ late' = [late EXCEPT ![t] = IF t \in Printers THEN {} ELSE @]
    /\ \E b \in {backoff[t], FirstWait} :
          backoff' = [backoff EXCEPT ![t] = IF b < LongWait THEN 2 * b ELSE b]
    /\ Goes /\ UNCHANGED <<setVars, found, serves, cancelled, addr, home>>

\* Wherever the loop is, a cancelled ctx ends what it does, and runLoop.
Stop(t) ==
    /\ cancelled /\ pc[t] \notin {"none", "done"} /\ Goto(t, "done")
    /\ serves' = [serves EXCEPT ![t] = None]
    /\ Goes /\ UNCHANGED <<setVars, found, host, backoff, cancelled, netVars>>

-----------------------------------------------------------------------------
(* Everybody else. *)

Cancel ==
    /\ "cancel" \in Faults /\ ~cancelled /\ cancelled' = TRUE
    /\ Goes /\ UNCHANGED <<setVars, found, loopVars, netVars>>

\* A printer is switched off.
SwitchOff(p) ==
    /\ addr[p] # None /\ Trouble("off")
    /\ addr' = [addr EXCEPT ![p] = None]
    /\ UNCHANGED <<setVars, found, loopVars, cancelled, home, late>>

\* The printer a target stands for, and the address its requests go to, if
\* it is not a name.
Meant(t) == IF t \in Addrs THEN home[t] ELSE t
Uses(t) == IF t \in Addrs THEN t ELSE host[t]

\* It is switched on, or its lease is renewed: it gets a free address.
GetAddress(p, a) ==
    /\ addr[p] # a /\ At(a) = {} /\ Trouble("move")
    /\ addr' = [addr EXCEPT ![p] = a]
    /\ home' = IF found /\ home[a] # None THEN home ELSE [home EXCEPT ![a] = p]
    /\ late' = [t \in Targets |->
                  late[t] \cup {q \in {p} : pc[t] # "none" /\ Uses(t) = a /\ Meant(t) \notin {None, p}}]
    /\ UNCHANGED <<setVars, found, loopVars, cancelled>>

\* Run returns.
Returned ==
    /\ cancelled /\ \A t \in Targets : pc[t] \in {"none", "done"}
    /\ UNCHANGED vars

Loop(t) ==
    \/ Connect(t) \/ Lookup(t) \/ ConnectAgain(t)
    \/ SessionEnds(t) \/ SessionPasses(t) \/ Wait(t) \/ Stop(t)

Next ==
    \/ ResolveTargets \/ \E t \in Targets : Loop(t)
    \/ Cancel
    \/ \E p \in Printers : SwitchOff(p) \/ \E a \in Addrs : GetAddress(p, a)
    \/ Returned

Spec == Init /\ [][Next]_vars

\* The goroutines keep running: requests and browses have deadlines.
FairSpec == Spec /\ WF_vars(ResolveTargets) /\ \A t \in Targets : WF_vars(Loop(t))

-----------------------------------------------------------------------------
TypeOK ==
    /\ config \in Configs /\ dns \in BOOLEAN
    /\ hears \in [Printers -> [may : SUBSET SUBSET {"ip", "host"}, all : SUBSET {"ip", "host"}]]
    /\ found \in BOOLEAN /\ cancelled \in BOOLEAN
    /\ pc \in [Targets -> {"none", "connect", "lookup", "again", "session", "wait", "done"}]
    /\ host \in [Targets -> Targets \cup {None}]
    /\ serves \in [Targets -> Printers \cup {None}]
    /\ backoff \in [Targets -> 0 .. FirstWait + 2 * LongWait]
    /\ addr \in [Printers -> Addrs \cup {None}] /\ home \in [Addrs -> Printers \cup {None}]
    /\ late \in [Targets -> SUBSET Printers] /\ trouble \in 0 .. MaxTrouble

(* "It never substitutes a different printer" (daemon.go:200-202), said of  *)
(* the lookup, holds of the session after it (daemon.go:271-276) up to what *)
(* no identity check can make up for: a target is served by the printer it  *)
(* stands for, or by one that was given the very address after the lookup   *)
(* of this attempt had returned it, or after a pinned target was started.   *)
NeverSubstitutes ==
    \A t \in Targets : serves[t] # None => serves[t] \in {Meant(t)} \cup late[t]

(* A printer the setting names is served again whenever it is there, after  *)
(* moves, failed lookups and failed sessions, also by a computer whose      *)
(* operating system does not resolve Bonjour names: unless its address      *)
(* never comes, because missing (legacy.go:114) does not ask for it, or     *)
(* another printer that has got the address keeps the session going.        *)
NamedIsServed ==
    \A p \in Printers :
        (p \in config /\ addr[p] # None /\ (dns \/ hears[p].all = {"ip"}))
            ~> (serves[p] \in {p} \cup late[p] \/ addr[p] = None \/ cancelled)

(* "The pinned address may be stale (DHCP gave the printer a new IP): look  *)
(* for the same printer via mDNS" (daemon.go:266-267; also config.yaml:9-10 *)
(* and README.md:29-30, 99): the printer a target's address was given to is *)
(* found again at another one.                                              *)
MovedIsServed ==
    \A t \in Addrs, p \in Printers :
        (pc[t] = "wait" /\ home[t] = p /\ addr[p] # None)
            ~> (serves[t] = p \/ addr[p] = None \/ cancelled)

(* "every HP scanner found via mDNS, each in its own loop" (daemon.go:130): *)
(* a printer that both browses found, one with and one without its address, *)
(* is served by one loop, also after it moved, unless it got the address of *)
(* another target.                                                          *)
ServedOnce ==
    config = {} =>
        \A t, u \in Targets :
            serves[t] # None /\ serves[t] = serves[u] => t = u \/ serves[t] \in late[t] \cup late[u]
=============================================================================
