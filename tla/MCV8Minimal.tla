------------------------------ MODULE MCV8Minimal ------------------------------
(* Small instances of V8Minimal for TLC. *)
EXTENDS V8MinimalInv, TLC

(* Clients are interchangeable: the safety runs are checked up to symmetry. *)
ClientSymmetry == Permutations(Clients)
=============================================================================
