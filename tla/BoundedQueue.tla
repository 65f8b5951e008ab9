----------------------------- MODULE BoundedQueue -----------------------------
(***************************************************************************)
(* What the task asks of a single-producer single-consumer queue: it holds *)
(* up to Capacity elements, which come out once each, in the order they    *)
(* went in. The elements are numbered as they are pushed.                  *)
(***************************************************************************)
EXTENDS Naturals, Sequences

CONSTANT Capacity

VARIABLES items,  \* the elements in the queue
          taken   \* the elements that have come out

vars == <<items, taken>>

Init == items = <<>> /\ taken = <<>>

Put == /\ Len(items) < Capacity
       /\ items' = Append(items, Len(taken) + Len(items))
       /\ UNCHANGED taken

Get == /\ items # <<>>
       /\ taken' = Append(taken, Head(items))
       /\ items' = Tail(items)

Next == Put \/ Get

Spec == Init /\ [][Next]_vars

=============================================================================
