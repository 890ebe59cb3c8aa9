----------------------------- MODULE AtomicStore -----------------------------
(***************************************************************************)
(* What the output folder promises whoever watches it: files appear under  *)
(* free names, complete and at once, and only the user removes them.       *)
(***************************************************************************)
CONSTANT Paths, Data, None

VARIABLES
    store,  \* the complete file under each name, or None
    out     \* the data that was ever published

Init ==
    /\ store = [p \in Paths |-> None]
    /\ out = {}

Publish(p, d) ==
    /\ store[p] = None /\ d \notin out
    /\ store' = [store EXCEPT ![p] = d]
    /\ out' = out \cup {d}

Take(p) ==
    /\ store[p] # None
    /\ store' = [store EXCEPT ![p] = None]
    /\ UNCHANGED out

Next == \E p \in Paths : Take(p) \/ \E d \in Data : Publish(p, d)

Spec == Init /\ [][Next]_<<store, out>>
=============================================================================
