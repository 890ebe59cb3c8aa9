----------------------------- MODULE EventQueue ------------------------------
(***************************************************************************)
(* What the handler may count on: the events of the panel reach it as      *)
(* through a queue that keeps their order, invents and repeats none, but   *)
(* may lose a run of them (the printer forgets an entry, a reply is lost,  *)
(* nobody polls any more).                                                 *)
(***************************************************************************)
EXTENDS Naturals, Sequences

VARIABLES
    queue,      \* events on their way, each with its number in seq
    posted      \* how many events there have been

Init == queue = << >> /\ posted = 0

Enqueue ==
    /\ posted' = posted + 1
    /\ \/ /\ queue' # << >> /\ queue'[Len(queue')].seq = posted'
          /\ queue' = Append(queue, queue'[Len(queue')])
       \/ queue' = queue

Dequeue == queue # << >> /\ queue' = Tail(queue) /\ UNCHANGED posted

Lose ==
    /\ \E i \in 0 .. Len(queue), j \in 1 .. Len(queue) + 1 :
          i < j /\ queue' = SubSeq(queue, 1, i) \o SubSeq(queue, j, Len(queue))
    /\ UNCHANGED posted

Next == Enqueue \/ Dequeue \/ Lose

Spec == Init /\ [][Next]_<<queue, posted>>
=============================================================================
