----------------------------- MODULE MCProducer -----------------------------
(* Producer on small sets of paths and contents, which are interchangeable. *)
EXTENDS Producer, TLC

Symmetry == Permutations(Notes) \cup Permutations(Contents)
=============================================================================
