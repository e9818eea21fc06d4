------------------------------ MODULE RingLog ------------------------------
(***************************************************************************)
(* What the ring buffer promises (the comments of type ring and its        *)
(* methods, internal/keeper/ring.go): it holds the last Cap entries pushed, *)
(* oldest first, and counts the ones it let go.                            *)
(***************************************************************************)
EXTENDS Ring

CONSTANTS
  Cap,  \* capacity
  Lines \* the entries that may be pushed

VARIABLES
  contents, \* the retained entries, oldest first
  lost      \* how many were evicted

Init == contents = <<>> /\ lost = 0

PushEntry(e) ==
  /\ contents' = Push(contents, Cap, e)
  /\ lost' = IF PushEvicts(contents, Cap) THEN lost + 1 ELSE lost

Next == \E e \in Lines : PushEntry(e)

Spec == Init /\ [][Next]_<<contents, lost>>
=============================================================================
