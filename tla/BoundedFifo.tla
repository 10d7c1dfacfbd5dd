------------------------------ MODULE BoundedFifo ------------------------------
(***************************************************************************)
(* What an elastic buffer of the offloader promises to the blocks around   *)
(* it: entries leave in the order they came in, none is lost, invented or  *)
(* repeated, and at most Capacity of them wait inside.  One step is one    *)
(* clock edge, so an entry may enter and another leave in the same step.   *)
(***************************************************************************)
EXTENDS Naturals, Sequences

CONSTANTS
  Entries,   \* what one slot can hold: a byte with its tlast and metadata
  Capacity   \* the most entries that can wait inside

VARIABLE queue

Init == queue = <<>>

\* One clock edge: the head leaves (or not), and one entry comes in (or not).
\* An entry comes in only if there was room for it before the edge.
Step(taken, put) ==
  LET rest == IF taken THEN Tail(queue) ELSE queue IN
  /\ taken => queue # <<>>
  /\ put # <<>> => Len(queue) < Capacity
  /\ queue' = rest \o put

Next == \E taken \in BOOLEAN, put \in {<<>>} \cup { <<e>> : e \in Entries } :
          Step(taken, put)

Spec == Init /\ [][Next]_queue

===============================================================================
