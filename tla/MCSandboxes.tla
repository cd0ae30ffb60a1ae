---------------------------- MODULE MCSandboxes ----------------------------
(***************************************************************************)
(* Small instances of Sandboxes for TLC.                                   *)
(***************************************************************************)
EXTENDS Sandboxes, TLC

Symmetry == Permutations(Agent) \union Permutations(Run) \union Permutations(Claim)
=============================================================================
