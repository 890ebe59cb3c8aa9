------------------------------ MODULE ScanCall -------------------------------
(***************************************************************************)
(* What a session relies on when it calls ScanPages, with either protocol: *)
(* the call fails, or returns pages the scanner took one after another     *)
(* since the last call, in that order, and exactly one from the glass.     *)
(***************************************************************************)
EXTENDS Integers, Sequences

CONSTANT MaxPage    \* bound: pages the scanner ever takes

VARIABLES
    busy,       \* a call is under way
    src,        \* the source it asked for
    returned    \* the pages all calls returned so far

Init == busy = FALSE /\ src = "flatbed" /\ returned = << >>

Last == IF returned = << >> THEN 0 ELSE returned[Len(returned)]

Call(s) == ~busy /\ busy' = TRUE /\ src' = s /\ UNCHANGED returned

Fail == busy /\ busy' = FALSE /\ UNCHANGED <<src, returned>>

Return(first, n) ==
    /\ busy /\ busy' = FALSE /\ UNCHANGED src
    /\ first > Last /\ n >= 1
    /\ src = "flatbed" => n = 1
    /\ returned' = returned \o [i \in 1 .. n |-> first + i - 1]

Next ==
    \/ \E s \in {"flatbed", "feeder"} : Call(s)
    \/ Fail
    \/ \E first, n \in 1 .. MaxPage : Return(first, n)

Spec == Init /\ [][Next]_<<busy, src, returned>>
=============================================================================
