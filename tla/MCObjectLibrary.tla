--------------------------- MODULE MCObjectLibrary ---------------------------
(* Objects are interchangeable, and so are requests. *)
EXTENDS ObjectLibrary, TLC

Symmetry == Permutations(Object) \cup Permutations(Req)

=============================================================================
