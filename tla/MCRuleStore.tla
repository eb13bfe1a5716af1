---------------------------- MODULE MCRuleStore ----------------------------
(* Two or three rule keys, one or two targets, one or two tasks. *)
EXTENDS RuleStore

CONSTANTS k1, k2, k3, t1, t2, w1, w2
=============================================================================
