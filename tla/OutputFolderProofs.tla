------------------------- MODULE OutputFolderProofs --------------------------
(***************************************************************************)
(* OutputFolder implements AtomicStore, for any number of sessions and     *)
(* saves, as long as a reservation fails only because the name is taken.   *)
(***************************************************************************)
EXTENDS OutputFolder, TLAPS

USE OutputAssumption

\* The places of a save at which it holds its name.
Holds(s) == pc[s] \in {"build", "open", "fill", "rename"}

\* A held name is an empty file, and no two saves hold the same one.
Reserved ==
    \A s \in Sessions : Holds(s) =>
        /\ fs[path[s]] = Empty
        /\ \A t \in Sessions : t # s /\ Holds(t) => path[t] # path[s]

\* Before the rename the hidden file is the whole scan.
Filled == \A s \in Sessions : pc[s] = "rename" => tmp[path[s]] = data[s]

\* The data of a save under way was never published, and is its own.
Fresh ==
    /\ saved \subseteq 1 .. begun
    /\ \A s \in Sessions : Busy(s) =>
          /\ data[s] \in 1 .. begun /\ data[s] \notin saved
          /\ \A t \in Sessions : t # s /\ Busy(t) => data[t] # data[s]

\* Only whole scans get a name that is not hidden.
Whole == \A p \in Paths : fs[p] # Partial

FolderInv == TypeOK /\ Reserved /\ Filled /\ Fresh /\ Whole

LEMMA FolderInit == Init => FolderInv
<1> SUFFICES ASSUME Init PROVE FolderInv
  OBVIOUS
<1>1. \A s \in Sessions : ~Busy(s) /\ ~Holds(s) /\ pc[s] # "rename"
  BY DEF Init, Busy, Holds
<1>2. crashed \in BOOLEAN
  BY DEF Init
<1>3. TypeOK
  BY <1>1, <1>2 DEF Init, TypeOK, Contents
<1>4. Reserved /\ Filled /\ Fresh /\ Whole
  BY <1>1 DEF Init, Reserved, Filled, Fresh, Whole
<1> QED
  BY <1>3, <1>4 DEF FolderInv

(* The types, with failing reservations too.                                *)
LEMMA FolderType == TypeOK /\ [Next]_vars => TypeOK'
<1> SUFFICES ASSUME TypeOK, [Next]_vars PROVE TypeOK'
  OBVIOUS
<1> USE DEF TypeOK, Goto, GiveUp, Contents, Busy
<1>1. ASSUME NEW s \in Sessions, NEW stem \in Stems, Begin(s, stem) PROVE TypeOK'
  <2>1. <<stem, 0>> \in Paths
    BY DEF Paths
  <2>2. begun + 1 \in Data /\ begun + 1 \in 0 .. MaxSaves
    BY <1>1 DEF Begin, Data
  <2> QED
    BY <1>1, <2>1, <2>2 DEF Begin
<1>2. ASSUME NEW s \in Sessions, Reserve(s) PROVE TypeOK'
  <2>1. path[s] \in Paths
    OBVIOUS
  <2>2. path[s][2] < MaxSaves => <<path[s][1], path[s][2] + 1>> \in Paths
    BY <2>1 DEF Paths
  <2>3. path' \in [Sessions -> Paths]
    BY <1>2, <2>2 DEF Reserve
  <2> QED
    BY <1>2, <2>3 DEF Reserve
<1>3. ASSUME NEW s \in Sessions, Build(s) PROVE TypeOK'
  BY <1>3 DEF Build
<1>4. ASSUME NEW s \in Sessions, OpenTmp(s) PROVE TypeOK'
  BY <1>4 DEF OpenTmp
<1>5. ASSUME NEW s \in Sessions, FillTmp(s) PROVE TypeOK'
  BY <1>5 DEF FillTmp
<1>6. ASSUME NEW s \in Sessions, Rename(s) PROVE TypeOK'
  BY <1>6 DEF Rename
<1>7. CASE Crash
  BY <1>7 DEF Crash
<1>8. ASSUME NEW p \in Paths, TakeFile(p) PROVE TypeOK'
  BY <1>8 DEF TakeFile
<1>9. CASE UNCHANGED vars
  BY <1>9 DEF vars
<1> QED
  BY <1>1, <1>2, <1>3, <1>4, <1>5, <1>6, <1>7, <1>8, <1>9 DEF Next, Save, Idle

(* Every variable of the folder and of the saves keeps its type.            *)
THEOREM FolderTyped == Spec => []TypeOK
<1>1. Init => TypeOK
  BY FolderInit DEF FolderInv
<1> QED
  BY <1>1, FolderType, PTL DEF Spec

-----------------------------------------------------------------------------
\* Why no empty file is forgotten: a session that reserved its name keeps it
\* until the file is gone or filled, and no hidden file is empty.
HolderInv ==
    /\ crashed \/ \A p \in Paths : fs[p] = Empty => \E s \in Sessions : Holds(s) /\ path[s] = p
    /\ \A p \in Paths : tmp[p] # Empty

LEMMA PcStep ==
  ASSUME TypeOK, NEW s \in Sessions, NEW l, Goto(s, l)
  PROVE  /\ pc'[s] = l
         /\ \A t \in Sessions : t # s => pc'[t] = pc[t]
BY DEF TypeOK, Goto

LEMMA HolderSave ==
  ASSUME TypeOK, HolderInv, NEW s \in Sessions, Save(s)
  PROVE  HolderInv'
<1> USE DEF TypeOK
<1>0. path[s] \in Paths /\ UNCHANGED crashed
  BY DEF Save, Reserve, Build, OpenTmp, FillTmp, Rename
<1>1. \A p \in Paths : tmp'[p] # Empty
  <2>1. Busy(s) => data[s] # Empty
    OBVIOUS
  <2> QED
    BY <1>0, <2>1 DEF HolderInv, Save, Reserve, Build, OpenTmp, FillTmp, Rename, Busy
<1>2. ASSUME NEW p \in Paths, ~crashed, fs'[p] = Empty
      PROVE  \E t \in Sessions : Holds(t)' /\ path'[t] = p
  <2>1. CASE fs' = [fs EXCEPT ![path[s]] = Empty] /\ Goto(s, "build") /\ UNCHANGED path
    <3>1. CASE p = path[s]
      BY <2>1, <3>1, PcStep DEF Holds
    <3>2. CASE p # path[s]
      <4>1. fs[p] = Empty
        BY <1>2, <2>1, <3>2
      <4>2. PICK t \in Sessions : Holds(t) /\ path[t] = p
        BY <1>2, <4>1 DEF HolderInv
      <4> QED
        BY <2>1, <3>2, <4>2, PcStep DEF Holds
    <3> QED
      BY <3>1, <3>2
  <2>2. CASE pc[s] = "reserve" /\ UNCHANGED fs
    <3>1. PICK t \in Sessions : Holds(t) /\ path[t] = p
      BY <1>2, <2>2 DEF HolderInv
    <3>2. t # s
      BY <2>2, <3>1 DEF Holds
    <3>3. pc'[t] = pc[t] /\ path'[t] = path[t]
      BY <2>2, <3>2 DEF Save, Reserve, Build, OpenTmp, FillTmp, Rename, Goto
    <3> QED
      BY <3>1, <3>3 DEF Holds
  <2>3. CASE UNCHANGED <<fs, path>> /\ \E l \in {"open", "fill", "rename"} : Goto(s, l)
    <3>1. PICK t \in Sessions : Holds(t) /\ path[t] = p
      BY <1>2, <2>3 DEF HolderInv
    <3>2. Holds(t)'
      BY <2>3, <3>1, PcStep DEF Holds
    <3> QED
      BY <2>3, <3>1, <3>2
  <2>4. CASE /\ Goto(s, "idle") /\ UNCHANGED path
             /\ \/ fs' = [fs EXCEPT ![path[s]] = None]
                \/ fs' = [fs EXCEPT ![path[s]] = tmp[path[s]]]
    <3>1. p # path[s] /\ fs[p] = Empty
      BY <1>0, <1>2, <2>4 DEF HolderInv
    <3>2. PICK t \in Sessions : Holds(t) /\ path[t] = p
      BY <1>2, <3>1 DEF HolderInv
    <3>3. t # s
      BY <3>1, <3>2
    <3> QED
      BY <2>4, <3>2, <3>3, PcStep DEF Holds
  <2> QED
    BY <2>1, <2>2, <2>3, <2>4 DEF Save, Reserve, Build, OpenTmp, FillTmp, Rename, GiveUp
<1> QED
  BY <1>0, <1>1, <1>2 DEF HolderInv

LEMMA HolderStep == TypeOK /\ HolderInv /\ [Next]_vars => HolderInv'
<1> SUFFICES ASSUME TypeOK, HolderInv, [Next]_vars PROVE HolderInv'
  OBVIOUS
<1>1. ASSUME NEW s \in Sessions, Save(s) PROVE HolderInv'
  BY <1>1, HolderSave
<1>2. ASSUME NEW s \in Sessions, NEW stem \in Stems, Begin(s, stem) PROVE HolderInv'
  <2>1. ~Holds(s)
    BY <1>2 DEF Begin, Holds
  <2>2. \A t \in Sessions : t # s => pc'[t] = pc[t] /\ path'[t] = path[t]
    BY <1>2 DEF Begin, Goto, TypeOK
  <2>3. \A t \in Sessions : Holds(t) => Holds(t)' /\ path'[t] = path[t]
    BY <2>1, <2>2 DEF Holds
  <2> QED
    BY <1>2, <2>3 DEF Begin, HolderInv
<1>3. ASSUME NEW p \in Paths, TakeFile(p) PROVE HolderInv'
  BY <1>3 DEF TakeFile, HolderInv, Holds, TypeOK
<1>4. CASE Crash
  BY <1>4 DEF Crash, HolderInv
<1>5. CASE UNCHANGED vars
  BY <1>5 DEF vars, HolderInv, Holds
<1> QED
  BY <1>1, <1>2, <1>3, <1>4, <1>5 DEF Next, Idle

(* An empty file in the folder is a save in progress, or what a crash left  *)
(* (NoOrphanPlaceholder) - also when reservations fail and sessions share a *)
(* name.                                                                    *)
THEOREM FolderNoOrphans == Spec => []NoOrphanPlaceholder
<1>1. Init => HolderInv
  BY DEF Init, HolderInv
<1>2. HolderInv => NoOrphanPlaceholder
  BY DEF HolderInv, NoOrphanPlaceholder, Holds, Busy
<1> QED
  BY <1>1, <1>2, HolderStep, FolderTyped, PTL DEF Spec

-----------------------------------------------------------------------------
\* From here on a reservation fails only because the name is taken.
SureReserve == "reserve" \notin Faults

LEMMA DataFacts == \A d \in Data : d # None /\ d # Empty /\ d # Partial
OBVIOUS

(* A save keeps the invariant: it touches the file and the hidden file of   *)
(* its own name only, and a name it takes is free.                          *)
LEMMA SaveStep ==
  ASSUME FolderInv, SureReserve, NEW s \in Sessions, Save(s)
  PROVE  Reserved' /\ Filled' /\ Fresh' /\ Whole'
<1> USE DEF FolderInv, TypeOK, Contents, Holds, Busy
<1>0. /\ path[s] \in Paths
      /\ \A t \in Sessions : path[t] \in Paths
  OBVIOUS
<1>1. CASE Reserve(s)
  <2>1. CASE fs[path[s]] = None /\ fs' = [fs EXCEPT ![path[s]] = Empty]
             /\ Goto(s, "build") /\ UNCHANGED path
    <3>1. \A t \in Sessions : Holds(t) => path[t] # path[s]
      BY <2>1 DEF Reserved
    <3> QED
      BY <1>0, <1>1, <2>1, <3>1, PcStep DEF Reserve, Reserved, Filled, Fresh, Whole
  <2>2. CASE path' = [path EXCEPT ![s] = <<path[s][1], path[s][2] + 1>>] /\ UNCHANGED <<fs, pc>>
    BY <1>1, <2>2 DEF Reserve, Reserved, Filled, Fresh, Whole
  <2> QED
    BY <1>1, <2>1, <2>2 DEF Reserve, SureReserve
<1>2. CASE Build(s)
  <2>1. CASE Goto(s, "open") /\ UNCHANGED fs
    BY <1>2, <2>1, PcStep DEF Build, Reserved, Filled, Fresh, Whole
  <2>2. CASE GiveUp(s)
    BY <1>0, <1>2, <2>2, PcStep DEF Build, GiveUp, Reserved, Filled, Fresh, Whole
  <2> QED
    BY <1>2, <2>1, <2>2 DEF Build
<1>3. CASE OpenTmp(s)
  <2>1. CASE tmp' = [tmp EXCEPT ![path[s]] = Partial] /\ Goto(s, "fill") /\ UNCHANGED fs
    BY <1>0, <1>3, <2>1, PcStep DEF OpenTmp, Reserved, Filled, Fresh, Whole
  <2>2. CASE GiveUp(s) /\ UNCHANGED tmp
    BY <1>0, <1>3, <2>2, PcStep DEF OpenTmp, GiveUp, Reserved, Filled, Fresh, Whole
  <2> QED
    BY <1>3, <2>1, <2>2 DEF OpenTmp
<1>4. CASE FillTmp(s)
  <2>1. CASE tmp' = [tmp EXCEPT ![path[s]] = data[s]] /\ Goto(s, "rename") /\ UNCHANGED fs
    BY <1>0, <1>4, <2>1, PcStep DEF FillTmp, Reserved, Filled, Fresh, Whole
  <2>2. CASE GiveUp(s) /\ UNCHANGED tmp
    BY <1>0, <1>4, <2>2, PcStep DEF FillTmp, GiveUp, Reserved, Filled, Fresh, Whole
  <2> QED
    BY <1>4, <2>1, <2>2 DEF FillTmp
<1>5. CASE Rename(s)
  <2>1. /\ tmp[path[s]] = data[s] /\ data[s] \in Data
        /\ \A t \in Sessions : t # s /\ Holds(t) => path[t] # path[s]
    BY <1>5 DEF Rename, Filled, Reserved
  <2>2. CASE fs' = [fs EXCEPT ![path[s]] = tmp[path[s]]]
             /\ saved' = saved \cup {data[s]} /\ Goto(s, "idle")
    <3>1. Reserved' /\ Filled'
      BY <1>0, <1>5, <2>1, <2>2, PcStep DEF Rename, Reserved, Filled
    <3>2. Whole'
      BY <1>0, <2>1, <2>2, DataFacts DEF Whole
    <3>3. saved' \subseteq 1 .. begun' /\ UNCHANGED <<data, begun>>
      BY <1>5, <2>1, <2>2 DEF Rename, Fresh
    <3>4. \A t \in Sessions : Busy(t)' => t # s /\ Busy(t)
      BY <1>5, <2>2, PcStep
    <3>5. \A t \in Sessions : t # s /\ Busy(t) => data[t] \notin saved'
      BY <1>5, <2>2 DEF Rename, Fresh
    <3>6. Fresh'
      BY <3>3, <3>4, <3>5 DEF Fresh
    <3> QED
      BY <3>1, <3>2, <3>6
  <2>3. CASE GiveUp(s) /\ UNCHANGED saved
    BY <1>0, <1>5, <2>1, <2>3, PcStep DEF Rename, GiveUp, Reserved, Filled, Fresh, Whole
  <2> QED
    BY <1>5, <2>2, <2>3 DEF Rename
<1> QED
  BY <1>1, <1>2, <1>3, <1>4, <1>5 DEF Save

LEMMA FolderStep == FolderInv /\ SureReserve /\ [Next]_vars => FolderInv'
<1> SUFFICES ASSUME FolderInv, SureReserve, [Next]_vars PROVE FolderInv'
  OBVIOUS
<1> USE DEF FolderInv
<1>1. TypeOK'
  BY FolderType
<1>2. ASSUME NEW s \in Sessions, NEW stem \in Stems, Begin(s, stem)
      PROVE  Reserved' /\ Filled' /\ Fresh' /\ Whole'
  <2>1. /\ ~Holds(s) /\ ~Holds(s)' /\ pc'[s] = "reserve"
        /\ \A t \in Sessions : t # s => pc'[t] = pc[t] /\ path'[t] = path[t] /\ data'[t] = data[t]
        /\ data'[s] = begun + 1
    BY <1>2 DEF Begin, Goto, TypeOK, Holds
  <2>2. Reserved' /\ Filled' /\ Whole'
    BY <1>2, <2>1 DEF Begin, Reserved, Filled, Whole, Holds
  <2>3. Fresh'
    BY <1>2, <2>1 DEF Begin, Fresh, Busy, TypeOK
  <2> QED
    BY <2>2, <2>3
<1>3. ASSUME NEW s \in Sessions, Save(s) PROVE Reserved' /\ Filled' /\ Fresh' /\ Whole'
  BY <1>3, SaveStep
<1>4. ASSUME Crash PROVE Reserved' /\ Filled' /\ Fresh' /\ Whole'
  BY <1>4 DEF Crash, Reserved, Filled, Fresh, Whole, Holds, Busy
<1>5. ASSUME NEW p \in Paths, TakeFile(p) PROVE Reserved' /\ Filled' /\ Fresh' /\ Whole'
  BY <1>5 DEF TakeFile, Reserved, Filled, Fresh, Whole, Holds, Busy, TypeOK
<1>6. ASSUME UNCHANGED vars PROVE Reserved' /\ Filled' /\ Fresh' /\ Whole'
  BY <1>6 DEF vars, Reserved, Filled, Fresh, Whole, Holds, Busy
<1> QED
  BY <1>1, <1>2, <1>3, <1>4, <1>5, <1>6 DEF Next, Idle

LEMMA FolderInvariant == SureReserve /\ Spec => []FolderInv
<1>1. SureReserve /\ FolderInv /\ [Next]_vars => FolderInv'
  BY FolderStep
<1>2. SUFFICES ASSUME SureReserve PROVE Spec => []FolderInv
  OBVIOUS
<1>3. FolderInv /\ [Next]_vars => FolderInv'
  BY <1>1, <1>2
<1> QED
  BY FolderInit, <1>3, PTL DEF Spec

(* What a watcher sees of a step of a save: a scan appears under a free     *)
(* name, or nothing changes.                                                *)
LEMMA SaveSeen ==
  ASSUME FolderInv, SureReserve, NEW s \in Sessions, Save(s)
  PROVE  \/ UNCHANGED <<Complete, saved>>
         \/ Store!Publish(path[s], data[s])
<1> USE DEF FolderInv
<1>0. path[s] \in Paths /\ fs \in [Paths -> Contents]
  BY DEF TypeOK
<1>1. ASSUME Holds(s), GiveUp(s) PROVE UNCHANGED Complete
  BY <1>0, <1>1 DEF GiveUp, Complete, Reserved
<1>2. CASE Reserve(s)
  BY <1>0, <1>2 DEF Reserve, SureReserve, Complete
<1>3. CASE Build(s) \/ OpenTmp(s) \/ FillTmp(s)
  <2>1. Holds(s)
    BY <1>3 DEF Build, OpenTmp, FillTmp, Holds
  <2>2. UNCHANGED fs => UNCHANGED Complete
    BY DEF Complete
  <2> QED
    BY <1>1, <1>3, <2>1, <2>2 DEF Build, OpenTmp, FillTmp
<1>4. CASE Rename(s)
  <2>1. /\ Holds(s) /\ tmp[path[s]] = data[s]
        /\ data[s] \in Data /\ data[s] \notin saved
        /\ fs[path[s]] = Empty
    BY <1>4 DEF Rename, Holds, Busy, Filled, Fresh, Reserved, TypeOK
  <2>2. CASE fs' = [fs EXCEPT ![path[s]] = tmp[path[s]]] /\ saved' = saved \cup {data[s]}
    BY <1>0, <2>1, <2>2, DataFacts DEF Complete, Store!Publish
  <2>3. CASE GiveUp(s) /\ UNCHANGED saved
    BY <1>1, <2>1, <2>3
  <2> QED
    BY <1>4, <2>2, <2>3 DEF Rename
<1> QED
  BY <1>2, <1>3, <1>4 DEF Save

LEMMA StepSeen ==
  FolderInv /\ SureReserve /\ [Next]_vars => [Store!Next]_<<Complete, saved>>
<1> SUFFICES ASSUME FolderInv, SureReserve, [Next]_vars
             PROVE  Store!Next \/ UNCHANGED <<Complete, saved>>
  OBVIOUS
<1>1. ASSUME NEW s \in Sessions, Save(s) PROVE Store!Next \/ UNCHANGED <<Complete, saved>>
  <2>1. path[s] \in Paths /\ Busy(s)
    BY <1>1 DEF FolderInv, TypeOK, Save, Reserve, Build, OpenTmp, FillTmp, Rename, Busy
  <2>2. data[s] \in Data
    BY <2>1 DEF FolderInv, TypeOK
  <2> QED
    BY <1>1, <2>1, <2>2, SaveSeen DEF Store!Next
<1>2. ASSUME NEW p \in Paths, TakeFile(p) PROVE Store!Next
  <2>1. fs[p] # None /\ fs[p] # Empty
    BY <1>2, DataFacts DEF TakeFile
  <2>2. Complete[p] # None /\ Complete' = [Complete EXCEPT ![p] = None]
    BY <1>2, <2>1 DEF TakeFile, Complete, FolderInv, TypeOK
  <2> QED
    BY <1>2, <2>2 DEF TakeFile, Store!Next, Store!Take
<1>3. ASSUME UNCHANGED <<fs, saved>> PROVE UNCHANGED <<Complete, saved>>
  BY <1>3 DEF Complete
<1> QED
  BY <1>1, <1>2, <1>3 DEF Next, Begin, Crash, Idle, vars

(* However many printers save at once and whenever a crash hits, a watcher  *)
(* of the folder sees complete scans appear under free names, each once.    *)
THEOREM FolderAtomic == SureReserve /\ Spec => FolderIsAtomic
<1> SUFFICES ASSUME SureReserve PROVE Spec => FolderIsAtomic
  OBVIOUS
<1>1. Init => Store!Init
  BY DEF Init, Store!Init, Complete
<1>2. Spec => []FolderInv
  BY FolderInvariant
<1>3. FolderInv /\ [Next]_vars => [Store!Next]_<<Complete, saved>>
  BY StepSeen
<1> QED
  BY <1>1, <1>2, <1>3, PTL DEF Spec, Store!Spec, FolderIsAtomic

(* A scan stays until the user takes it, so the rename clobbers nothing, as *)
(* the comment at writeAtomic says - when the name could be reserved.       *)
THEOREM FolderKeepsScans == SureReserve /\ Spec => NoClobber
<1> SUFFICES ASSUME SureReserve PROVE Spec => NoClobber
  OBVIOUS
<1> DEFINE Kept == \A p \in Paths : fs[p] \in Data /\ fs'[p] # fs[p] => fs[p] \in taken'
<1>1. FolderInv /\ [Next]_vars => [Kept]_vars
  <2> SUFFICES ASSUME FolderInv, [Next]_vars, NEW p \in Paths, fs[p] \in Data, fs'[p] # fs[p]
               PROVE  fs[p] \in taken'
    BY DEF vars
  <2>1. fs[p] # None /\ fs[p] # Empty
    BY DataFacts
  <2>2. ASSUME NEW s \in Sessions, Save(s) PROVE fs'[p] = fs[p]
    <3>1. path[s] \in Paths /\ fs \in [Paths -> Contents]
      BY DEF FolderInv, TypeOK
    <3>2. Holds(s) => path[s] # p
      BY <2>1 DEF FolderInv, Reserved
    <3>3. Holds(s) => fs'[p] = fs[p]
      BY <2>2, <3>1, <3>2 DEF Save, Reserve, Build, OpenTmp, FillTmp, Rename, GiveUp, Holds
    <3>4. ~Holds(s) => fs'[p] = fs[p]
      BY <2>1, <2>2, <3>1 DEF Save, Reserve, Build, OpenTmp, FillTmp, Rename, Holds, SureReserve
    <3> QED
      BY <3>3, <3>4
  <2>3. ASSUME NEW q \in Paths, TakeFile(q) PROVE fs[p] \in taken'
    BY <2>3 DEF TakeFile, FolderInv, TypeOK
  <2> QED
    BY <2>2, <2>3 DEF Next, Begin, Crash, Idle, vars
<1>2. Spec => []FolderInv
  BY FolderInvariant
<1> QED
  BY <1>1, <1>2, PTL DEF Spec, NoClobber
=============================================================================
