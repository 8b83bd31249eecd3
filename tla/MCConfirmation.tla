---------------------------- MODULE MCConfirmation ----------------------------
(* Instances of Confirmation for TLC. *)
EXTENDS Confirmation, TLC

CONSTANTS c1, c2, t1, t2, x1, x2

MCSymmetry == Permutations(Threads) \cup Permutations(Transfers) \cup Permutations(Confs)

===============================================================================
