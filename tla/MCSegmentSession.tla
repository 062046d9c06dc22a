-------------------------- MODULE MCSegmentSession --------------------------
(* Model values for SegmentSession. *)
EXTENDS SegmentSession, TLC

Symmetry == Permutations(Clients) \cup Permutations(Sessions)

\* A server that starts with an empty rendition directory
FreshSpec == Init /\ Present = {} /\ [][Next]_vars
=============================================================================
