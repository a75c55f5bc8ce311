--------------------------- MODULE MCSimpleRlysltr ---------------------------
(***************************************************************************)
(* SimpleRlysltr for TLC: the symmetry of the relays, which are model      *)
(* values that no definition tells apart.                                  *)
(***************************************************************************)
EXTENDS SimpleRlysltr, TLC

Symmetry == Permutations(Relays)

=============================================================================
