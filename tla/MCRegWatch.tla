---------------------------- MODULE MCRegWatch ----------------------------
(* Instances of RegWatch for TLC: a page that has two versions, each of   *)
(* which mentions another rule.                                           *)
EXTENDS RegWatch

CONSTANTS t1, t2    \* the two versions of the official page

MCMentions == [t \in Texts |-> IF t = t1 THEN {"r1"} ELSE {"r2"}]
=============================================================================
