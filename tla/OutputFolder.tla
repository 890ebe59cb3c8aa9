---------------------------- MODULE OutputFolder -----------------------------
(***************************************************************************)
(* How finished documents and JPEG pages reach the output folder           *)
(* (daemon/daemon.go: finishDocument, writeJPEG, outputPath, writeAtomic). *)
(* One process serves several printers, and their sessions save            *)
(* concurrently into one folder under names that depend on the clock, so   *)
(* they can want the same one.  A save reserves a name with an empty file, *)
(* writes a hidden file beside it and renames that over the empty one.     *)
(*                                                                         *)
(* A name is a rendered pattern with a number behind it (0 for none).  The *)
(* data of a save is the number of the save.                               *)
(***************************************************************************)
EXTENDS Naturals

CONSTANTS
    Sessions,   \* the sessions of the process, one per printer
    Stems,      \* what the filename pattern can render to
    MaxSaves,   \* bound: saves in all, over all runs of the process
    None, Empty, Partial,   \* no file, an empty one, an unfinished one
    Faults      \* the failures an instance lets happen, by name

Paths == Stems \X (0 .. MaxSaves)
Data == 1 .. MaxSaves

ASSUME OutputAssumption ==
    /\ MaxSaves \in Nat
    /\ None # Empty /\ None # Partial /\ Empty # Partial
    /\ None \notin Data /\ Empty \notin Data /\ Partial \notin Data

VARIABLES
    fs,     \* fs[p]: None, Empty, Partial or the data of file p
    tmp,    \* tmp[p]: the same of the hidden file ".<p>.part"
    pc,     \* where a session is in its save
    path,   \* the name it uses
    data,   \* what it saves
    begun,  \* number of saves begun
    saved,  \* history: the saves that were reported as "saved"
    taken,  \* history: the files the user moved away
    crashed \* whether the process was ever killed

vars == <<fs, tmp, pc, path, data, begun, saved, taken, crashed>>

Contents == {None, Empty, Partial} \cup Data
Busy(s) == pc[s] # "idle"

Init ==
    /\ fs = [p \in Paths |-> None] /\ tmp = [p \in Paths |-> None]
    /\ pc = [s \in Sessions |-> "idle"]
    /\ path \in [Sessions -> Paths] /\ data = [s \in Sessions |-> 0]
    /\ begun = 0 /\ saved = {} /\ taken = {} /\ crashed = FALSE

Goto(s, l) == pc' = [pc EXCEPT ![s] = l]

\* os.Remove(path) and the return: the save failed and its data is gone.
GiveUpKeeps(s) == Goto(s, "idle") /\ UNCHANGED fs                             \* mutant
GiveUp(s) ==
    /\ Goto(s, "idle")
    /\ fs' = [fs EXCEPT ![path[s]] = None]

\* outputPath renders the pattern.
Begin(s, stem) ==
    /\ pc[s] = "idle" /\ begun < MaxSaves
    /\ begun' = begun + 1
    /\ data' = [data EXCEPT ![s] = begun + 1]
    /\ path' = [path EXCEPT ![s] = <<stem, 0>>]
    /\ Goto(s, "reserve")
    /\ UNCHANGED <<fs, tmp, saved, taken, crashed>>

\* Mutant: the name is looked up and then created without O_EXCL.
ReserveShared(s) ==
    /\ pc[s] = "reserve"
    /\ fs[path[s]] \in {None, Empty}
    /\ fs' = [fs EXCEPT ![path[s]] = Empty] /\ Goto(s, "build") /\ UNCHANGED path
    /\ UNCHANGED <<tmp, data, begun, saved, taken, crashed>>

\* One O_CREATE|O_EXCL of outputPath's loop: the name is free, or taken and
\* the next one is tried, or the error is another one and the name is used
\* as it is.
Reserve(s) ==
    /\ pc[s] = "reserve"
    /\ \/ /\ fs[path[s]] = None
          /\ fs' = [fs EXCEPT ![path[s]] = Empty] /\ Goto(s, "build") /\ UNCHANGED path
       \/ /\ fs[path[s]] # None /\ path[s][2] < MaxSaves
          /\ path' = [path EXCEPT ![s] = <<path[s][1], path[s][2] + 1>>]
          /\ UNCHANGED <<fs, pc>>
       \/ /\ "reserve" \in Faults
          /\ Goto(s, "build") /\ UNCHANGED <<fs, path>>
    /\ UNCHANGED <<tmp, data, begun, saved, taken, crashed>>

\* pdf.Write into memory; a JPEG has nothing to build.
Build(s) ==
    /\ pc[s] = "build"
    /\ \/ Goto(s, "open") /\ UNCHANGED fs
       \/ "build" \in Faults /\ GiveUp(s)
    /\ UNCHANGED <<tmp, path, data, begun, saved, taken, crashed>>

\* Mutant: no temporary file.
OpenFinal(s) ==
    /\ pc[s] = "open"
    /\ fs' = [fs EXCEPT ![path[s]] = Partial] /\ Goto(s, "fill")
    /\ UNCHANGED <<tmp, path, data, begun, saved, taken, crashed>>

\* os.WriteFile creates or truncates the hidden file ...
OpenTmp(s) ==
    /\ pc[s] = "open"
    /\ \/ tmp' = [tmp EXCEPT ![path[s]] = Partial] /\ Goto(s, "fill") /\ UNCHANGED fs
       \/ "disk" \in Faults /\ GiveUp(s) /\ UNCHANGED tmp
    /\ UNCHANGED <<path, data, begun, saved, taken, crashed>>

\* ... and fills it; if it cannot, the hidden file stays.
FillTmp(s) ==
    /\ pc[s] = "fill"
    /\ \/ tmp' = [tmp EXCEPT ![path[s]] = data[s]] /\ Goto(s, "rename") /\ UNCHANGED fs
       \/ "disk" \in Faults /\ GiveUp(s) /\ UNCHANGED tmp
    /\ UNCHANGED <<path, data, begun, saved, taken, crashed>>

\* os.Rename, which replaces the reserved file; if it fails (it also does
\* when the hidden file is gone) the hidden file is removed.
Rename(s) ==
    /\ pc[s] = "rename"
    /\ tmp' = [tmp EXCEPT ![path[s]] = None]
    /\ \/ /\ tmp[path[s]] # None
          /\ fs' = [fs EXCEPT ![path[s]] = tmp[path[s]]]
          /\ saved' = saved \cup {data[s]} /\ Goto(s, "idle")
       \/ /\ "disk" \in Faults \/ tmp[path[s]] = None
          /\ GiveUp(s) /\ UNCHANGED saved
    /\ UNCHANGED <<path, data, begun, taken, crashed>>

\* The process is killed and started again.
Crash ==
    /\ "crash" \in Faults /\ ~crashed
    /\ crashed' = TRUE
    /\ pc' = [s \in Sessions |-> "idle"]
    /\ UNCHANGED <<fs, tmp, path, data, begun, saved, taken>>

\* The user, or a program that watches the folder, moves a file away.
TakeFile(p) ==
    /\ fs[p] \in Data
    /\ fs' = [fs EXCEPT ![p] = None] /\ taken' = taken \cup {fs[p]}
    /\ UNCHANGED <<tmp, pc, path, data, begun, saved, crashed>>

Save(s) == Reserve(s) \/ Build(s) \/ OpenTmp(s) \/ FillTmp(s) \/ Rename(s)

Idle == begun = MaxSaves /\ (\A s \in Sessions : ~Busy(s)) /\ UNCHANGED vars

Next ==
    \/ \E s \in Sessions : Save(s) \/ \E stem \in Stems : Begin(s, stem)
    \/ \E p \in Paths : TakeFile(p)
    \/ Crash
    \/ Idle

Spec == Init /\ [][Next]_vars

-----------------------------------------------------------------------------
TypeOK ==
    /\ fs \in [Paths -> Contents] /\ tmp \in [Paths -> Contents]
    /\ pc \in [Sessions -> {"idle", "reserve", "build", "open", "fill", "rename"}]
    /\ path \in [Sessions -> Paths] /\ data \in [Sessions -> 0 .. MaxSaves]
    /\ \A s \in Sessions : Busy(s) => data[s] \in Data
    /\ begun \in 0 .. MaxSaves /\ saved \subseteq Data /\ taken \subseteq Data
    /\ crashed \in BOOLEAN

Complete == [p \in Paths |-> IF fs[p] \in {None, Empty} THEN None ELSE fs[p]]

Store == INSTANCE AtomicStore WITH store <- Complete, out <- saved

(* To a watcher the folder is an AtomicStore: no half-written scan appears, *)
(* no scan appears twice, and saving never replaces or removes a scan,      *)
(* whatever other sessions save at the time and wherever a crash hits.      *)
FolderIsAtomic == Store!Spec

(* An empty file in the folder is a save in progress, or what a crash left: *)
(* every error path removes the name it reserved.                           *)
NoOrphanPlaceholder ==
    crashed \/ \A p \in Paths : fs[p] = Empty => \E s \in Sessions : Busy(s) /\ path[s] = p

(* "The final name was reserved with O_EXCL by outputPath, so concurrent    *)
(* printer sessions cannot clobber it" (daemon.go:591-592): a scan in the   *)
(* folder stays until the user takes it.                                    *)
NoClobber == [][\A p \in Paths : fs[p] \in Data /\ fs'[p] # fs[p] => fs[p] \in taken']_vars
=============================================================================
