----------------------------- MODULE MCPresenceLog -----------------------------
(* Instances of PresenceLog for TLC. *)
EXTENDS PresenceLog, TLC

CONSTANTS a1, tab1, tab2, j1, j2

\* Bound: intervals in an agent's log.
CONSTANT MaxLog

JobSymmetry == Permutations(Jobs)

ShortLog == \A a \in Users : Len(log[a]) <= MaxLog

===============================================================================
