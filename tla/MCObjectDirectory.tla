------------------------- MODULE MCObjectDirectory -------------------------
(***************************************************************************)
(* ObjectDirectory on a small instance.  Headers and instance UIDs are     *)
(* model values that no definition tells apart; C sets and objects are     *)
(* numbers, allocated in order, and are not symmetric.                     *)
(***************************************************************************)
EXTENDS ObjectDirectory

Symmetry == Permutations(Headers) \cup Permutations(UUIDs)

=============================================================================
