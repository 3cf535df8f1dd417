----------------------------- MODULE MCApproval -----------------------------
(* Instances of Approval for TLC. *)
EXTENDS Approval, TLC

CONSTANTS s1, s2

OneServer == [c \in Calls |-> s1]

\* Two servers that share the database, one call slot each.
TwoServers ==
  LET c1 == CHOOSE c \in Calls : TRUE IN [c \in Calls |-> IF c = c1 THEN s1 ELSE s2]

\* Shorter than the unused window, as 120 s and 300 s are shorter than 600 s.
ShortTimeout == [t \in Types |-> 1]

\* The call slots of one server are interchangeable.
CallSymmetry == Permutations(Calls)
=============================================================================
