--------------------------- MODULE SupervisorProofs ---------------------------
(***************************************************************************)
(* Whom the loops of Supervisor serve, for any printers, addresses, moves  *)
(* and lost packets: the printer a target stands for, and in automatic     *)
(* mode no printer in two loops, but for printers that were given the      *)
(* address of a target too late for anybody to tell.                       *)
(***************************************************************************)
EXTENDS Supervisor, TLAPS

\* Whom target t may be served by.
Rightful(t) == {Meant(t)} \cup late[t]

\* Two printers have two addresses.  The one that had an address first is
\* known, and before the loops begin it is the one that has it.
NetInv ==
    /\ \A p, q \in Printers : addr[p] # None /\ addr[p] = addr[q] => p = q
    /\ \A p \in Printers : addr[p] # None => home[addr[p]] # None
    /\ ~found => \A p \in Printers : addr[p] # None => home[addr[p]] = p

\* Whoever has the address of a pinned target since its loop began is either
\* its printer or late.
PinnedInv ==
    \A t \in Targets \cap Addrs : \A p \in Printers :
        pc[t] # "none" /\ addr[p] = t => p \in Rightful(t)

\* A lookup returned the pinned address itself, or the name, or an address
\* of the named printer, and whoever got that since is late.
HostInv ==
    \A t \in Targets :
        host[t] # None =>
            /\ pc[t] # "none"
            /\ t \in Addrs => host[t] = t
            /\ t \in Printers /\ host[t] \in Printers => host[t] = t
            /\ t \in Printers /\ host[t] \in Addrs =>
                  \A p \in Printers : addr[p] = host[t] => p \in Rightful(t)

\* Only a session serves, and there is no loop before the targets are known.
LoopInv ==
    /\ \A t \in Targets : pc[t] # "session" => serves[t] = None
    /\ ~found => \A t \in Targets : pc[t] = "none"

\* A browse returns one address of a printer at most: merge keeps one scanner.
SingleInv == \A p \in Printers : \A f \in hears[p].may : \A s, r \in f : s = r

\* The targets that a browse returned stand for different printers.
OnceInv ==
    config = {} =>
        \A t, u \in Targets :
            pc[t] # "none" /\ pc[u] # "none" =>
                Meant(t) # None /\ (Meant(t) = Meant(u) => t = u)

SupervisorInv ==
    TypeOK /\ NetInv /\ PinnedInv /\ HostInv /\ NeverSubstitutes /\ LoopInv /\ SingleInv /\ OnceInv

-----------------------------------------------------------------------------
(* What a browse returns. *)

Names == {"ip", "host"}

\* A set with one element at most.
One(s) == \A x, y \in s : x = y

LEMMA AddressesOfOne ==
    ASSUME NEW p, NEW s, s \subseteq Scanner
    PROVE  /\ AllAddresses(p, s) \subseteq Names
           /\ One(s) => One(AllAddresses(p, s))
<1>1. AllAddresses(p, s) \subseteq Names
  BY DEF AllAddresses, Address, Names
<1>2. ASSUME One(s), NEW x \in AllAddresses(p, s), NEW y \in AllAddresses(p, s)
      PROVE  x = y
  <2>1. PICK a \in s : x = Address(a)
    BY DEF AllAddresses, AllHP
  <2>2. PICK b \in s : y = Address(b)
    BY DEF AllAddresses, AllHP
  <2>3. a = b
    BY <1>2 DEF One
  <2> QED BY <2>1, <2>2, <2>3
<1> QED BY <1>1, <1>2 DEF One

LEMMA ScannersOfOne ==
    ASSUME NEW c
    PROVE  Scanners(c) \subseteq Scanner /\ One(Scanners(c))
<1> DEFINE s == [ip |-> "A" \in c, txt |-> "TXT" \in c]
<1>1. s \in Scanner
  <2>1. ("A" \in c) \in BOOLEAN /\ ("TXT" \in c) \in BOOLEAN
    OBVIOUS
  <2> QED BY <2>1, Zenon DEF Scanner
<1>2. Scanners(c) \in {{s}, {}}
  BY DEF Scanners
<1> HIDE DEF s
<1> QED BY <1>1, <1>2 DEF One

LEMMA LegacyOfOne ==
    ASSUME NEW p, NEW s \in BrowseLegacy(p)
    PROVE  s \subseteq Scanner /\ One(s)
<1>1. PICK first \in First(p) : s \in {Scanners(c) : c \in Second(p, first)}
  BY DEF BrowseLegacy
<1>2. PICK c \in Second(p, first) : s = Scanners(c)
  BY <1>1
<1> QED BY <1>2, ScannersOfOne

LEMMA MulticastOfOne ==
    ASSUME NEW s \in BrowseMulticast
    PROVE  s \subseteq Scanner /\ One(s)
BY DEF BrowseMulticast, One

LEMMA BrowseOfOne ==
    ASSUME NEW p, NEW multicast \in BOOLEAN, NEW f \in Browse(p, multicast)
    PROVE  f \subseteq Names /\ One(f)
<1>1. PICK m \in (IF multicast THEN BrowseMulticast ELSE {{}}), l \in BrowseLegacy(p) :
        f = AllAddresses(p, Merge(m, l))
  BY DEF Browse
<1>2. m \subseteq Scanner /\ One(m)
  <2>1. CASE multicast
    BY <2>1, MulticastOfOne
  <2>2. CASE ~multicast
    <3>1. m = {}
      BY <2>2
    <3> QED BY <3>1 DEF One
  <2> QED BY <2>1, <2>2
<1>3. l \subseteq Scanner /\ One(l)
  BY LegacyOfOne
<1>4. Merge(m, l) \subseteq Scanner /\ One(Merge(m, l))
  BY <1>2, <1>3 DEF Merge
<1> QED BY <1>1, <1>4, AddressesOfOne

LEMMA BrowseAllTyped ==
    ASSUME NEW p, NEW multicast \in BOOLEAN
    PROVE  BrowseAll(p, multicast) \subseteq Names
<1> DEFINE m == IF multicast THEN {[ip |-> TRUE, txt |-> TRUE]} ELSE {}
<1>1. m \subseteq Scanner
  <2>1. [ip |-> TRUE, txt |-> TRUE] \in Scanner
    BY Zenon DEF Scanner
  <2> QED BY <2>1
<1>2. AllLegacy(p) \subseteq Scanner
  BY ScannersOfOne DEF AllLegacy
<1>3. Merge(m, AllLegacy(p)) \subseteq Scanner
  BY <1>1, <1>2 DEF Merge
<1> QED BY <1>3, AddressesOfOne DEF BrowseAll

-----------------------------------------------------------------------------
(* The initial states. *)

LEMMA InitInv == Init => SupervisorInv
<1> SUFFICES ASSUME Init PROVE SupervisorInv
  OBVIOUS
<1> USE SupervisorAssumption
<1>1. PICK s \in Systems :
        hears = [p \in Printers |->
                    [may |-> Browse(p, "multicast" \in s), all |-> BrowseAll(p, "multicast" \in s)]]
  BY DEF Init
<1>2. ("multicast" \in s) \in BOOLEAN
  OBVIOUS
<1>3. SingleInv
  BY <1>1, <1>2, BrowseOfOne DEF SingleInv, One
<1>4. hears \in [Printers -> [may : SUBSET SUBSET {"ip", "host"}, all : SUBSET {"ip", "host"}]]
  <2>1. \A p \in Printers : Browse(p, "multicast" \in s) \in SUBSET SUBSET {"ip", "host"}
    BY <1>2, BrowseOfOne DEF Names
  <2>2. \A p \in Printers : BrowseAll(p, "multicast" \in s) \in SUBSET {"ip", "host"}
    BY <1>2, BrowseAllTyped DEF Names
  <2>3. \A p \in Printers :
          [may |-> Browse(p, "multicast" \in s), all |-> BrowseAll(p, "multicast" \in s)]
            \in [may : SUBSET SUBSET {"ip", "host"}, all : SUBSET {"ip", "host"}]
    BY <2>1, <2>2, Zenon
  <2> QED BY <1>1, <2>3, Zenon
<1>5. TypeOK
  <2>1. dns \in BOOLEAN
    BY DEF Init
  <2>2. backoff \in [Targets -> 0 .. FirstWait + 2 * LongWait]
    <3>1. FirstWait \in 0 .. FirstWait + 2 * LongWait
      BY DEF SupervisorAssumption
    <3> QED BY <3>1 DEF Init
  <2>3. trouble \in 0 .. MaxTrouble
    BY DEF Init, SupervisorAssumption
  <2> QED BY <1>4, <2>1, <2>2, <2>3 DEF Init, TypeOK, Targets
<1>6. NetInv
  <2>1. ASSUME NEW p \in Printers, addr[p] # None PROVE home[addr[p]] = p
    BY <2>1 DEF Init
  <2> QED BY <2>1, SupervisorAssumption DEF NetInv
<1>7. PinnedInv /\ HostInv /\ NeverSubstitutes /\ LoopInv /\ OnceInv
  BY DEF Init, PinnedInv, HostInv, NeverSubstitutes, LoopInv, OnceInv, Targets
<1> QED BY <1>3, <1>5, <1>6, <1>7 DEF SupervisorInv

-----------------------------------------------------------------------------
(* The loops. *)

PCs == {"none", "connect", "lookup", "again", "session", "wait", "done"}

\* What a step of the loop of t leaves alone.
OthersStay(t) ==
    \A u \in Targets \ {t} : pc'[u] = pc[u] /\ host'[u] = host[u] /\ serves'[u] = serves[u]

LEMMA GoesOrTrouble ==
    ASSUME TypeOK, NEW fault, Goes \/ Trouble(fault)
    PROVE  trouble' \in 0 .. MaxTrouble
BY SupervisorAssumption DEF TypeOK, Goes, Trouble

LEMMA GotoTyped ==
    ASSUME TypeOK, NEW t \in Targets, NEW l \in PCs \ {"none"}, Goto(t, l)
    PROVE  /\ pc' \in [Targets -> PCs] /\ pc'[t] = l
           /\ \A u \in Targets \ {t} : pc'[u] = pc[u]
BY DEF TypeOK, Goto, PCs

\* Whoever answers at a target, or where a lookup for it led, may serve it.
LEMMA ReachedMayServe ==
    ASSUME SupervisorInv, NEW t \in Targets, pc[t] # "none",
           NEW x \in {t, host[t]}, NEW p \in Reached(x)
    PROVE  p \in Printers \cap Rightful(t)
<1> USE DEF SupervisorInv
<1>1. p \in Printers
  BY DEF Reached, At
<1>2. CASE x \in Printers
  <2>1. p = x
    BY <1>2 DEF Reached
  <2>2. x = t
    BY <1>2, SupervisorAssumption DEF HostInv, Targets
  <2> QED BY <1>1, <1>2, <2>1, <2>2, SupervisorAssumption DEF Rightful, Meant
<1>3. CASE x \notin Printers
  <2>1. addr[p] = x /\ x # None
    BY <1>3 DEF Reached, At
  <2>2. x \in Addrs
    BY <1>1, <2>1 DEF TypeOK
  <2>3. CASE t \in Addrs
    <3>1. x = t
      BY <2>1, <2>3 DEF HostInv
    <3> QED BY <1>1, <2>1, <2>3, <3>1 DEF PinnedInv
  <2>4. CASE t \in Printers
    <3>1. x = host[t]
      BY <2>2, <2>4, SupervisorAssumption
    <3> QED BY <1>1, <2>1, <2>2, <2>4, <3>1 DEF HostInv
  <2> QED BY <2>3, <2>4 DEF Targets
<1> QED BY <1>2, <1>3

LEMMA ServeOneServes ==
    ASSUME TypeOK, NEW t \in Targets, serves[t] = None, NEW R \in SUBSET Printers,
           NEW l \in {"lookup", "wait"}, ServeOne(t, R, l)
    PROVE  /\ pc' \in [Targets -> PCs] /\ pc'[t] # "none"
           /\ serves' \in [Targets -> Printers \cup {None}]
           /\ serves'[t] # None => serves'[t] \in R /\ pc'[t] = "session"
           /\ \A u \in Targets \ {t} : pc'[u] = pc[u] /\ serves'[u] = serves[u]
           /\ trouble' \in 0 .. MaxTrouble
<1>1. CASE \E p \in R : serves' = [serves EXCEPT ![t] = p] /\ Goto(t, "session") /\ Goes
  <2>1. PICK p \in R : serves' = [serves EXCEPT ![t] = p] /\ Goto(t, "session") /\ Goes
    BY <1>1
  <2> QED BY <2>1, GotoTyped, GoesOrTrouble DEF TypeOK, PCs
<1>2. CASE Goto(t, l) /\ UNCHANGED serves /\ (Goes \/ Trouble("setup"))
  BY <1>2, GotoTyped, GoesOrTrouble DEF TypeOK, PCs
<1>3. CASE Goto(t, "wait") /\ UNCHANGED serves /\ Trouble("setup")
  BY <1>3, GotoTyped, GoesOrTrouble DEF TypeOK, PCs
<1> QED BY <1>1, <1>2, <1>3 DEF ServeOne

\* What a lookup for t returns leads to the printer of t.
LEMMA HostFound ==
    ASSUME TypeOK, NetInv, NEW t \in Targets, NEW f \in Browses,
           NEW p \in Printers, NEW s \in f[p], Matches(t, p, s)
    PROVE  /\ Host(p, s) \in Targets
           /\ t \in Addrs => Host(p, s) = t
           /\ t \in Printers /\ Host(p, s) \in Printers => Host(p, s) = t
           /\ t \in Printers /\ Host(p, s) \in Addrs =>
                 \A q \in Printers : addr[q] = Host(p, s) => q = t
<1>1. addr[p] # None /\ addr[p] \in Addrs
  BY DEF Browses, TypeOK
<1>2. Host(p, s) \in Targets
  BY <1>1 DEF Host, Targets
<1>3. ASSUME t \in Addrs PROVE Host(p, s) = t
  BY <1>1, <1>3, SupervisorAssumption DEF Host, Matches
<1>4. ASSUME t \in Printers PROVE p = t
  BY <1>1, <1>4, SupervisorAssumption DEF Matches
<1>5. ASSUME t \in Printers, Host(p, s) \in Printers PROVE Host(p, s) = t
  BY <1>1, <1>4, <1>5, SupervisorAssumption DEF Host
<1>6. ASSUME t \in Printers, Host(p, s) \in Addrs, NEW q \in Printers, addr[q] = Host(p, s)
      PROVE  q = t
  <2>1. Host(p, s) = addr[p]
    BY <1>6, SupervisorAssumption DEF Host
  <2> QED BY <1>1, <1>4, <1>6, <2>1 DEF NetInv
<1> QED BY <1>2, <1>3, <1>5, <1>6

\* What a step of the loop of t does to the rest of its state: it serves
\* whom it may, and forgets who is late only when it serves nobody and has
\* nothing looked up.
HostStays(t) == host'[t] = host[t] /\ late' = late
HostLooked(t) ==
    /\ late' = late
    /\ t \in Addrs => host'[t] = t
    /\ t \in Printers /\ host'[t] \in Printers => host'[t] = t
    /\ t \in Printers /\ host'[t] \in Addrs =>
          \A q \in Printers : addr[q] = host'[t] => q = t
HostCleared(t) ==
    /\ host'[t] = None /\ serves'[t] = None
    /\ late' = [late EXCEPT ![t] = IF t \in Printers THEN {} ELSE @]

LoopEffect(t) ==
    /\ UNCHANGED <<setVars, found, addr, home>> /\ OthersStay(t)
    /\ pc[t] # "none" /\ pc'[t] # "none"
    /\ pc'[t] # "session" => serves'[t] = None
    /\ serves'[t] # None => serves'[t] \in Rightful(t) /\ late' = late
    /\ HostStays(t) \/ HostLooked(t) \/ HostCleared(t)
    /\ TypeOK'

LEMMA ServeOneEffect ==
    ASSUME SupervisorInv, NEW t \in Targets, pc[t] # "none", pc[t] # "session",
           NEW x \in {t, host[t]}, NEW l \in {"lookup", "wait"}, ServeOne(t, Reached(x), l),
           UNCHANGED <<setVars, found, host, backoff, cancelled, netVars>>
    PROVE  LoopEffect(t)
<1> USE DEF SupervisorInv
<1>1. Reached(x) \in SUBSET Printers
  BY ReachedMayServe
<1>2. serves[t] = None
  BY DEF LoopInv
<1>3. /\ pc' \in [Targets -> PCs] /\ pc'[t] # "none"
      /\ serves' \in [Targets -> Printers \cup {None}] /\ trouble' \in 0 .. MaxTrouble
      /\ serves'[t] # None => serves'[t] \in Reached(x) /\ pc'[t] = "session"
      /\ \A u \in Targets \ {t} : pc'[u] = pc[u] /\ serves'[u] = serves[u]
  BY <1>1, <1>2, ServeOneServes
<1>4. serves'[t] # None => serves'[t] \in Rightful(t)
  BY <1>3, ReachedMayServe
<1>5. OthersStay(t)
  BY <1>3 DEF OthersStay
<1>6. TypeOK'
  BY <1>3 DEF TypeOK, PCs, setVars, netVars
<1> QED BY <1>3, <1>4, <1>5, <1>6 DEF LoopEffect, HostStays, netVars

LEMMA LoopStep ==
    ASSUME SupervisorInv, NEW t \in Targets, Loop(t)
    PROVE  LoopEffect(t)
<1> USE DEF SupervisorInv
<1>a. pc[t] # "session" => serves[t] = None
  BY DEF LoopInv
<1>1. CASE Connect(t)
  <2>1. /\ pc[t] = "connect" /\ ServeOne(t, Reached(t), "lookup")
        /\ UNCHANGED <<setVars, found, host, backoff, cancelled, netVars>>
    BY <1>1 DEF Connect
  <2> QED BY <2>1, ServeOneEffect
<1>2. CASE Lookup(t)
  <2>1. PICK f \in Browses :
          /\ Heard(f)
          /\ \/ \E p \in Printers : \E s \in f[p] :
                   /\ Matches(t, p, s) /\ Goto(t, "again")
                   /\ host' = [host EXCEPT ![t] = Host(p, s)]
             \/ Goto(t, "wait") /\ UNCHANGED host
    BY <1>2 DEF Lookup
  <2>2. pc[t] = "lookup" /\ UNCHANGED <<setVars, found, serves, backoff, cancelled, netVars>>
    BY <1>2 DEF Lookup
  <2>3. trouble' \in 0 .. MaxTrouble
    BY <2>1, GoesOrTrouble DEF Heard
  <2>4. /\ pc' \in [Targets -> PCs] /\ pc'[t] # "none"
        /\ \A u \in Targets \ {t} : pc'[u] = pc[u]
    BY <2>1, GotoTyped DEF PCs
  <2>5. \/ UNCHANGED host
        \/ \E x \in Targets :
              /\ host' = [host EXCEPT ![t] = x]
              /\ t \in Addrs => x = t
              /\ t \in Printers /\ x \in Printers => x = t
              /\ t \in Printers /\ x \in Addrs => \A q \in Printers : addr[q] = x => q = t
    BY <2>1, HostFound
  <2>6. /\ host' \in [Targets -> Targets \cup {None}]
        /\ HostStays(t) \/ HostLooked(t)
        /\ \A u \in Targets \ {t} : host'[u] = host[u]
    BY <2>2, <2>5 DEF TypeOK, HostStays, HostLooked, netVars
  <2>7. OthersStay(t)
    BY <2>2, <2>4, <2>6 DEF OthersStay
  <2>8. TypeOK'
    BY <2>2, <2>3, <2>4, <2>6 DEF TypeOK, PCs, setVars, netVars
  <2> QED BY <2>2, <2>4, <2>6, <2>7, <2>8, <1>a DEF LoopEffect, netVars
<1>3. CASE ConnectAgain(t)
  <2>1. /\ pc[t] = "again" /\ ServeOne(t, Reached(host[t]), "wait")
        /\ UNCHANGED <<setVars, found, host, backoff, cancelled, netVars>>
    BY <1>3 DEF ConnectAgain
  <2> QED BY <2>1, ServeOneEffect
<1>4. CASE SessionEnds(t)
  <2>1. /\ pc[t] = "session" /\ Goto(t, "wait")
        /\ serves' = [serves EXCEPT ![t] = None]
        /\ UNCHANGED <<setVars, found, host, backoff, cancelled, netVars>>
    BY <1>4 DEF SessionEnds
  <2>2. trouble' \in 0 .. MaxTrouble
    BY <1>4, GoesOrTrouble DEF SessionEnds
  <2>3. /\ pc' \in [Targets -> PCs] /\ pc'[t] = "wait"
        /\ \A u \in Targets \ {t} : pc'[u] = pc[u]
    BY <2>1, GotoTyped DEF PCs
  <2>4. /\ serves' \in [Targets -> Printers \cup {None}] /\ serves'[t] = None
        /\ \A u \in Targets \ {t} : serves'[u] = serves[u]
    BY <2>1 DEF TypeOK
  <2>5. OthersStay(t)
    BY <2>1, <2>3, <2>4 DEF OthersStay
  <2>6. TypeOK'
    BY <2>1, <2>2, <2>3, <2>4 DEF TypeOK, PCs, setVars, netVars
  <2> QED BY <2>1, <2>3, <2>4, <2>5, <2>6 DEF LoopEffect, HostStays, netVars
<1>5. CASE SessionPasses(t)
  <2>1. PICK p \in Peers(t) :
          /\ pc[t] = "session" /\ serves' = [serves EXCEPT ![t] = p]
          /\ Goes /\ UNCHANGED <<setVars, found, pc, host, backoff, cancelled, netVars>>
    BY <1>5 DEF SessionPasses
  <2>2. p \in Printers \cap Rightful(t)
    BY <2>1, ReachedMayServe DEF Peers
  <2>3. trouble' \in 0 .. MaxTrouble
    BY <2>1, GoesOrTrouble
  <2>4. /\ serves' \in [Targets -> Printers \cup {None}] /\ serves'[t] = p
        /\ \A u \in Targets \ {t} : serves'[u] = serves[u]
    BY <2>1, <2>2 DEF TypeOK
  <2>5. OthersStay(t)
    BY <2>1, <2>4 DEF OthersStay
  <2>6. TypeOK'
    BY <2>1, <2>3, <2>4 DEF TypeOK, setVars, netVars
  <2> QED BY <2>1, <2>2, <2>4, <2>5, <2>6 DEF LoopEffect, HostStays, netVars
<1>6. CASE Wait(t)
  <2>1. /\ pc[t] = "wait" /\ Goto(t, "connect")
        /\ host' = [host EXCEPT ![t] = None]
        /\ late' = [late EXCEPT ![t] = IF t \in Printers THEN {} ELSE @]
        /\ Goes /\ UNCHANGED <<setVars, found, serves, cancelled, addr, home>>
    BY <1>6 DEF Wait
  <2>2. PICK b \in {backoff[t], FirstWait} :
          backoff' = [backoff EXCEPT ![t] = IF b < LongWait THEN 2 * b ELSE b]
    BY <1>6 DEF Wait
  <2>3. trouble' \in 0 .. MaxTrouble
    BY <2>1, GoesOrTrouble
  <2>4. /\ pc' \in [Targets -> PCs] /\ pc'[t] = "connect"
        /\ \A u \in Targets \ {t} : pc'[u] = pc[u]
    BY <2>1, GotoTyped DEF PCs
  <2>5. backoff' \in [Targets -> 0 .. FirstWait + 2 * LongWait]
    <3>1. b \in 0 .. FirstWait + 2 * LongWait
      BY SupervisorAssumption DEF TypeOK
    <3>2. b < LongWait => 2 * b \in 0 .. FirstWait + 2 * LongWait
      BY <3>1, SupervisorAssumption
    <3> QED BY <2>2, <3>1, <3>2 DEF TypeOK
  <2>6. /\ host' \in [Targets -> Targets \cup {None}] /\ host'[t] = None
        /\ \A u \in Targets \ {t} : host'[u] = host[u]
    BY <2>1 DEF TypeOK
  <2>7. late' \in [Targets -> SUBSET Printers]
    BY <2>1 DEF TypeOK
  <2>8. OthersStay(t)
    BY <2>1, <2>4, <2>6 DEF OthersStay
  <2>9. TypeOK'
    BY <2>1, <2>3, <2>4, <2>5, <2>6, <2>7 DEF TypeOK, PCs, setVars
  <2> QED BY <2>1, <2>4, <2>6, <2>8, <2>9, <1>a DEF LoopEffect, HostCleared
<1>7. CASE Stop(t)
  <2>1. /\ pc[t] # "none" /\ Goto(t, "done")
        /\ serves' = [serves EXCEPT ![t] = None]
        /\ Goes /\ UNCHANGED <<setVars, found, host, backoff, cancelled, netVars>>
    BY <1>7 DEF Stop
  <2>2. trouble' \in 0 .. MaxTrouble
    BY <2>1, GoesOrTrouble
  <2>3. /\ pc' \in [Targets -> PCs] /\ pc'[t] = "done"
        /\ \A u \in Targets \ {t} : pc'[u] = pc[u]
    BY <2>1, GotoTyped DEF PCs
  <2>4. /\ serves' \in [Targets -> Printers \cup {None}] /\ serves'[t] = None
        /\ \A u \in Targets \ {t} : serves'[u] = serves[u]
    BY <2>1 DEF TypeOK
  <2>5. OthersStay(t)
    BY <2>1, <2>3, <2>4 DEF OthersStay
  <2>6. TypeOK'
    BY <2>1, <2>2, <2>3, <2>4 DEF TypeOK, PCs, setVars, netVars
  <2> QED BY <2>1, <2>3, <2>4, <2>5, <2>6 DEF LoopEffect, HostStays, netVars
<1> QED BY <1>1, <1>2, <1>3, <1>4, <1>5, <1>6, <1>7 DEF Loop

-----------------------------------------------------------------------------
(* Every step. *)

LEMMA LoopKeeps ==
    ASSUME SupervisorInv, NEW t \in Targets, Loop(t)
    PROVE  SupervisorInv'
<1> USE DEF SupervisorInv
<1>1. /\ UNCHANGED <<setVars, found, addr, home>>
      /\ \A u \in Targets \ {t} : pc'[u] = pc[u] /\ host'[u] = host[u] /\ serves'[u] = serves[u]
      /\ pc[t] # "none" /\ pc'[t] # "none"
      /\ pc'[t] # "session" => serves'[t] = None
      /\ serves'[t] # None => serves'[t] \in Rightful(t) /\ late' = late
      /\ TypeOK'
  BY LoopStep DEF LoopEffect, OthersStay
<1>2. HostStays(t) \/ HostLooked(t) \/ HostCleared(t)
  BY LoopStep DEF LoopEffect
<1>3. \A x : Meant(x)' = Meant(x)
  BY <1>1 DEF Meant
<1>4. \A u \in Targets : u # t \/ t \notin Printers => late'[u] = late[u]
  BY <1>2 DEF HostStays, HostLooked, HostCleared, TypeOK
<1>5. NetInv'
  BY <1>1 DEF NetInv
<1>6. PinnedInv'
  <2>1. SUFFICES ASSUME NEW u \in Targets \cap Addrs, NEW p \in Printers, pc'[u] # "none", addr[p] = u
                 PROVE  p \in {Meant(u)} \cup late'[u]
    BY <1>1, <1>3 DEF PinnedInv, Rightful
  <2>2. pc[u] # "none"
    BY <1>1, <2>1
  <2>3. p \in {Meant(u)} \cup late[u]
    BY <2>1, <2>2 DEF PinnedInv, Rightful
  <2> QED BY <1>4, <2>3, SupervisorAssumption
<1>7. HostInv'
  <2>1. SUFFICES ASSUME NEW u \in Targets, host'[u] # None
                 PROVE  /\ pc'[u] # "none"
                        /\ u \in Addrs => host'[u] = u
                        /\ u \in Printers /\ host'[u] \in Printers => host'[u] = u
                        /\ u \in Printers /\ host'[u] \in Addrs =>
                              \A p \in Printers : addr[p] = host'[u] => p \in {Meant(u)} \cup late'[u]
    BY <1>1, <1>3 DEF HostInv, Rightful
  <2>2. CASE u # t \/ HostStays(t)
    <3>1. late'[u] = late[u]
      BY <1>4, <2>2 DEF HostStays
    <3>2. host'[u] = host[u] /\ (pc[u] # "none" => pc'[u] # "none")
      BY <1>1, <2>2 DEF HostStays
    <3> QED BY <2>1, <3>1, <3>2 DEF HostInv, Rightful
  <2>3. CASE u = t /\ HostLooked(t)
    <3>1. t \in Printers => Meant(t) = t
      BY SupervisorAssumption DEF Meant
    <3> QED BY <1>1, <2>3, <3>1 DEF HostLooked
  <2>4. CASE u = t /\ HostCleared(t)
    BY <2>1, <2>4 DEF HostCleared
  <2> QED BY <1>2, <2>2, <2>3, <2>4
<1>8. NeverSubstitutes'
  <2>1. SUFFICES ASSUME NEW u \in Targets, serves'[u] # None
                 PROVE  serves'[u] \in {Meant(u)} \cup late'[u]
    BY <1>3 DEF NeverSubstitutes
  <2>2. CASE u = t
    BY <1>1, <2>1, <2>2 DEF Rightful
  <2>3. CASE u # t
    BY <1>1, <1>4, <2>1, <2>3 DEF NeverSubstitutes
  <2> QED BY <2>2, <2>3
<1>9. LoopInv'
  BY <1>1 DEF LoopInv
<1>10. SingleInv'
  BY <1>1 DEF SingleInv, setVars
<1>11. OnceInv'
  BY <1>1, <1>3 DEF OnceInv, setVars
<1> QED BY <1>1, <1>5, <1>6, <1>7, <1>8, <1>9, <1>10, <1>11

\* The targets a browse at the start returns stand for different printers.
LEMMA FoundHaveOwners ==
    ASSUME TypeOK, NetInv, SingleInv, ~found, NEW f \in Browses,
           NEW p \in Printers, NEW s \in f[p]
    PROVE  /\ Host(p, s) \in Targets /\ Meant(Host(p, s)) = p
           /\ \A r \in f[p] : r = s
<1>1. addr[p] # None /\ f[p] \in hears[p].may
  BY DEF Browses
<1>2. addr[p] \in Addrs /\ home[addr[p]] = p
  BY <1>1 DEF TypeOK, NetInv
<1>3. Host(p, s) \in Targets /\ Meant(Host(p, s)) = p
  BY <1>2, SupervisorAssumption DEF Host, Targets, Meant
<1> QED BY <1>1, <1>3 DEF SingleInv

LEMMA ResolveKeeps ==
    ASSUME SupervisorInv, ResolveTargets
    PROVE  SupervisorInv'
<1> USE DEF SupervisorInv
<1>1. ~found /\ UNCHANGED <<setVars, host, serves, backoff, cancelled, netVars>>
  BY DEF ResolveTargets
<1>2. trouble' \in 0 .. MaxTrouble
  BY GoesOrTrouble DEF ResolveTargets, Heard
<1>3. PICK targets :
        /\ StartLoops(targets)
        /\ config = {} =>
              \E f \in Browses : targets = UNION {{Host(p, s) : s \in f[p]} : p \in Printers}
  BY DEF ResolveTargets
<1>4. /\ found' = (targets # {})
      /\ pc' = [u \in Targets |-> IF u \in targets THEN "connect" ELSE "none"]
  BY <1>3 DEF StartLoops
<1>5. \A u \in Targets : pc[u] = "none" /\ serves[u] = None /\ host[u] = None
  BY <1>1 DEF LoopInv, HostInv
<1>6. TypeOK'
  <2>1. found' \in BOOLEAN
    BY <1>4
  <2>2. pc' \in [Targets -> PCs]
    BY <1>4 DEF PCs
  <2> QED BY <1>1, <1>2, <2>1, <2>2 DEF TypeOK, PCs, setVars, netVars
<1>7. NetInv' /\ SingleInv'
  BY <1>1 DEF NetInv, SingleInv, setVars, netVars
<1>8. HostInv' /\ NeverSubstitutes'
  BY <1>1, <1>5 DEF HostInv, NeverSubstitutes
<1>9. PinnedInv'
  BY <1>1, SupervisorAssumption DEF PinnedInv, NetInv, Rightful, Meant, netVars
<1>10. LoopInv'
  <2>1. ASSUME ~found' PROVE \A u \in Targets : pc'[u] = "none"
    BY <2>1, <1>4
  <2> QED BY <1>1, <1>5, <2>1 DEF LoopInv
<1>11. OnceInv'
  <2>1. SUFFICES ASSUME config = {}, NEW t \in Targets, NEW u \in Targets,
                        pc'[t] # "none", pc'[u] # "none"
                 PROVE  Meant(t) # None /\ (Meant(t) = Meant(u) => t = u)
    BY <1>1 DEF OnceInv, Meant, setVars, netVars
  <2>2. PICK f \in Browses : targets = UNION {{Host(p, s) : s \in f[p]} : p \in Printers}
    BY <2>1, <1>3
  <2>3. t \in targets /\ u \in targets
    BY <2>1, <1>4
  <2>4. PICK p \in Printers : \E s \in f[p] : t = Host(p, s)
    BY <2>2, <2>3
  <2>5. PICK s \in f[p] : t = Host(p, s)
    BY <2>4
  <2>6. PICK q \in Printers : \E r \in f[q] : u = Host(q, r)
    BY <2>2, <2>3
  <2>7. PICK r \in f[q] : u = Host(q, r)
    BY <2>6
  <2>8. Meant(t) = p /\ Meant(u) = q
    BY <1>1, <2>5, <2>7, FoundHaveOwners
  <2>9. p = q => r = s
    BY <1>1, <2>5, <2>7, FoundHaveOwners
  <2> QED BY <2>5, <2>7, <2>8, <2>9, SupervisorAssumption
<1> QED BY <1>6, <1>7, <1>8, <1>9, <1>10, <1>11

\* An address that passes to another printer makes it late for the targets
\* that use the address.
LEMMA GetAddressKeeps ==
    ASSUME SupervisorInv, NEW p \in Printers, NEW a \in Addrs, GetAddress(p, a)
    PROVE  SupervisorInv'
<1> USE DEF SupervisorInv
<1>1. /\ \A q \in Printers : addr[q] # a
      /\ addr' = [addr EXCEPT ![p] = a]
      /\ UNCHANGED <<setVars, found, loopVars, cancelled>>
  BY SupervisorAssumption DEF GetAddress, At
<1>2. home' = IF found /\ home[a] # None THEN home ELSE [home EXCEPT ![a] = p]
  BY DEF GetAddress
<1>3. late' = [t \in Targets |->
                 late[t] \cup {q \in {p} : pc[t] # "none" /\ Uses(t) = a /\ Meant(t) \notin {None, p}}]
  BY DEF GetAddress
<1>4. trouble' \in 0 .. MaxTrouble
  BY GoesOrTrouble DEF GetAddress
<1>5. TypeOK'
  <2>1. late' \in [Targets -> SUBSET Printers]
    BY <1>3 DEF TypeOK
  <2>2. home' \in [Addrs -> Printers \cup {None}] /\ addr' \in [Printers -> Addrs \cup {None}]
    BY <1>1, <1>2 DEF TypeOK
  <2> QED BY <1>1, <1>4, <2>1, <2>2 DEF TypeOK, setVars, loopVars
<1>6. \A t \in Targets : late[t] \subseteq late'[t]
  BY <1>3
<1>7. found => \A t : Meant(t) # None => Meant(t)' = Meant(t)
  <2>1. ASSUME found, NEW t \in Addrs, home[t] # None PROVE home'[t] = home[t]
    BY <1>2, <2>1 DEF TypeOK
  <2> QED BY <2>1 DEF Meant
<1>8. home'[a] # None /\ (~found => home'[a] = p)
  BY <1>2, SupervisorAssumption DEF TypeOK
<1>9. \A b \in Addrs : b # a => home'[b] = home[b]
  BY <1>2 DEF TypeOK
\* The new holder of an address is rightful for whoever uses the address.
<1>10. ASSUME NEW t \in Targets, pc[t] # "none", Uses(t) = a
       PROVE  p \in {Meant(t)'} \cup late'[t]
  <2>1. found
    BY <1>10 DEF LoopInv
  <2>2. CASE Meant(t) = None
    <3>1. t \in Addrs /\ home[t] = None
      BY <2>2, SupervisorAssumption DEF Meant, Targets
    <3>2. t = a
      BY <1>10, <3>1 DEF Uses
    <3> QED BY <1>2, <3>1, <3>2 DEF Meant, TypeOK
  <2>3. CASE Meant(t) = p
    BY <1>7, <2>1, <2>3, SupervisorAssumption
  <2>4. CASE Meant(t) \notin {None, p}
    BY <1>3, <1>10, <2>4
  <2> QED BY <2>2, <2>3, <2>4
\* Whoever was rightful is so still, but for a first holder that is none.
<1>11. ASSUME NEW t \in Targets, found, NEW q \in Printers, q \in Rightful(t)
       PROVE  q \in {Meant(t)'} \cup late'[t]
  BY <1>6, <1>7, <1>11, SupervisorAssumption DEF Rightful
<1>12. NetInv'
  <2>1. ASSUME NEW q \in Printers, NEW r \in Printers, addr'[q] # None, addr'[q] = addr'[r]
        PROVE  q = r
    BY <1>1, <2>1 DEF NetInv, TypeOK
  <2>2. ASSUME NEW q \in Printers, addr'[q] # None
        PROVE  home'[addr'[q]] # None /\ (~found => home'[addr'[q]] = q)
    <3>1. CASE q = p
      BY <1>1, <1>8, <3>1 DEF TypeOK
    <3>2. CASE q # p
      <4>1. addr'[q] = addr[q] /\ addr[q] \in Addrs /\ addr[q] # a
        BY <1>1, <2>2, <3>2 DEF TypeOK
      <4> QED BY <1>9, <2>2, <4>1 DEF NetInv
    <3> QED BY <3>1, <3>2
  <2>3. found' = found
    BY <1>1
  <2> QED BY <2>1, <2>2, <2>3 DEF NetInv
<1>13. PinnedInv'
  <2>1. SUFFICES ASSUME NEW t \in Targets \cap Addrs, NEW q \in Printers, pc[t] # "none", addr'[q] = t
                 PROVE  q \in {Meant(t)'} \cup late'[t]
    BY <1>1 DEF PinnedInv, Rightful, loopVars
  <2>2. CASE q = p
    <3>1. Uses(t) = a
      BY <1>1, <2>1, <2>2 DEF Uses, TypeOK
    <3> QED BY <1>10, <2>1, <2>2, <3>1
  <2>3. CASE q # p
    <3>1. addr[q] = t /\ found
      BY <1>1, <2>1, <2>3 DEF TypeOK, LoopInv
    <3> QED BY <1>11, <2>1, <3>1 DEF PinnedInv
  <2> QED BY <2>2, <2>3
<1>14. HostInv'
  <2>1. SUFFICES ASSUME NEW t \in Targets, host[t] # None, t \in Printers, host[t] \in Addrs,
                        NEW q \in Printers, addr'[q] = host[t]
                 PROVE  q \in {Meant(t)'} \cup late'[t]
    BY <1>1 DEF HostInv, Rightful, loopVars
  <2>2. pc[t] # "none" /\ found
    BY <2>1 DEF HostInv, LoopInv
  <2>3. CASE q = p
    <3>1. Uses(t) = a
      BY <1>1, <2>1, <2>3, SupervisorAssumption DEF Uses, TypeOK
    <3> QED BY <1>10, <2>2, <2>3, <3>1
  <2>4. CASE q # p
    <3>1. addr[q] = host[t]
      BY <1>1, <2>1, <2>4 DEF TypeOK
    <3> QED BY <1>11, <2>1, <2>2, <3>1 DEF HostInv
  <2> QED BY <2>3, <2>4
<1>15. NeverSubstitutes'
  <2>1. SUFFICES ASSUME NEW t \in Targets, serves[t] # None
                 PROVE  serves[t] \in {Meant(t)'} \cup late'[t]
    BY <1>1 DEF NeverSubstitutes, loopVars
  <2>2. found /\ serves[t] \in Printers /\ serves[t] \in Rightful(t)
    BY <2>1 DEF LoopInv, NeverSubstitutes, Rightful, TypeOK
  <2> QED BY <1>11, <2>2
<1>16. LoopInv' /\ SingleInv'
  BY <1>1 DEF LoopInv, SingleInv, setVars, loopVars
<1>17. OnceInv'
  <2>1. SUFFICES ASSUME config = {}, NEW t \in Targets, NEW u \in Targets,
                        pc[t] # "none", pc[u] # "none"
                 PROVE  Meant(t)' # None /\ (Meant(t)' = Meant(u)' => t = u)
    BY <1>1 DEF OnceInv, setVars, loopVars
  <2>2. Meant(t) # None /\ Meant(u) # None /\ (Meant(t) = Meant(u) => t = u)
    BY <2>1 DEF OnceInv
  <2>3. found
    BY <2>1 DEF LoopInv
  <2> QED BY <2>2, <2>3, <1>7
<1> QED BY <1>5, <1>12, <1>13, <1>14, <1>15, <1>16, <1>17

LEMMA OthersKeep ==
    ASSUME SupervisorInv,
           Cancel \/ Returned \/ (\E p \in Printers : SwitchOff(p)) \/ UNCHANGED vars
    PROVE  SupervisorInv'
<1> USE DEF SupervisorInv
<1>1. /\ UNCHANGED <<setVars, found, loopVars, home, late>>
      /\ cancelled' \in BOOLEAN /\ trouble' \in 0 .. MaxTrouble
      /\ addr' \in [Printers -> Addrs \cup {None}]
      /\ \A p \in Printers : addr'[p] # None => addr'[p] = addr[p]
  <2>1. CASE Cancel
    BY <2>1, GoesOrTrouble DEF Cancel, TypeOK, netVars
  <2>2. CASE UNCHANGED vars
    BY <2>2 DEF vars, TypeOK, netVars
  <2>3. ASSUME NEW p \in Printers, SwitchOff(p)
        PROVE  /\ UNCHANGED <<setVars, found, loopVars, home, late>>
               /\ cancelled' \in BOOLEAN /\ trouble' \in 0 .. MaxTrouble
               /\ addr' \in [Printers -> Addrs \cup {None}]
               /\ \A q \in Printers : addr'[q] # None => addr'[q] = addr[q]
    BY <2>3, GoesOrTrouble DEF SwitchOff, TypeOK
  <2> QED BY <2>1, <2>2, <2>3 DEF Returned
<1>2. TypeOK'
  BY <1>1 DEF TypeOK, setVars, loopVars
<1>3. NetInv'
  BY <1>1 DEF NetInv
<1>4. PinnedInv' /\ HostInv'
  BY <1>1, SupervisorAssumption DEF PinnedInv, HostInv, Rightful, Meant, Targets, loopVars
<1>5. NeverSubstitutes' /\ LoopInv' /\ SingleInv' /\ OnceInv'
  BY <1>1 DEF NeverSubstitutes, LoopInv, SingleInv, OnceInv, Meant, setVars, loopVars
<1> QED BY <1>2, <1>3, <1>4, <1>5

LEMMA NextInv == SupervisorInv /\ [Next]_vars => SupervisorInv'
BY LoopKeeps, ResolveKeeps, GetAddressKeeps, OthersKeep DEF Next

LEMMA InvImplies ==
    SupervisorInv => TypeOK /\ NeverSubstitutes /\ ServedOnce
<1> SUFFICES ASSUME SupervisorInv PROVE ServedOnce
  BY DEF SupervisorInv
<1> SUFFICES ASSUME config = {}, NEW t \in Targets, NEW u \in Targets,
                    serves[t] # None, serves[t] = serves[u],
                    serves[t] \notin late[t] \cup late[u]
             PROVE  t = u
  BY DEF ServedOnce
<1>1. serves[t] = Meant(t) /\ serves[u] = Meant(u)
  BY DEF SupervisorInv, NeverSubstitutes
<1>2. pc[t] # "none" /\ pc[u] # "none"
  BY DEF SupervisorInv, LoopInv
<1> QED BY <1>1, <1>2 DEF SupervisorInv, OnceInv

LEMMA SupervisorInvariant == Spec => []SupervisorInv
BY InitInv, NextInv, PTL DEF Spec

-----------------------------------------------------------------------------
(* The state of the supervisor has the types of daemon.go's variables.      *)
THEOREM SupervisorTypes == Spec => []TypeOK
BY SupervisorInvariant, InvImplies, PTL

(* "It never substitutes a different printer" (daemon.go:200-202): whatever *)
(* moves, goes off, passes its address on or is not heard, a session of a   *)
(* target is one with the printer the target stands for, or with one that   *)
(* was given the address in use after the lookup had returned it, or after  *)
(* the loop of a pinned target had begun (daemon.go:271-276).               *)
THEOREM SubstitutesNever == Spec => []NeverSubstitutes
BY SupervisorInvariant, InvImplies, PTL

(* "every HP scanner found via mDNS, each in its own loop" (daemon.go:130): *)
(* a printer that a browse found is served by one loop, because merge keeps *)
(* one of the two results about it, until it gets the address of another    *)
(* target.                                                                  *)
THEOREM ServedOnceAlways == Spec => []ServedOnce
BY SupervisorInvariant, InvImplies, PTL
===============================================================================
