------------------------------- MODULE MCCampaign -------------------------------
(* Instances of Campaign for TLC. *)
EXTENDS Campaign

CONSTANTS r1, r2, w1, w2, q1, q2

MCSymmetry == Permutations(Workers) \cup Permutations(Requests)

===============================================================================
