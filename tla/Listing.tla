--------------------------------- MODULE Listing ---------------------------------
(***************************************************************************)
(* What properties say of a sequence that has been selected from another.  *)
(***************************************************************************)
EXTENDS Naturals, Sequences

\* s has what was said at these places, in order.
Lists(s, said, places) ==
    \E at \in [1..Len(s) -> places] :
        /\ \A k, m \in DOMAIN s : k < m => at[k] < at[m]
        /\ \A i \in places : \E k \in DOMAIN s : at[k] = i
        /\ \A k \in DOMAIN s : s[k] = said[at[k]]

=============================================================================
