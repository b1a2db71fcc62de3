------------------------------- MODULE MCPool -------------------------------
(* Instances of Pool: requests whose content fixes target and limit.       *)
EXTENDS Pool, TLC

CONSTANTS w1, w2, w3, t1, t2, once, twice, other

MCTargetOf(content) == IF content = other THEN t2 ELSE t1
MCLimitOf(content) == IF content = twice THEN 2 ELSE 1

(* Workers differ in nothing but their names.                              *)
AlikeWorkers == Permutations(Workers)
============================================================================
