---------------------------- MODULE MCRuleHistory ----------------------------
(* Two tasks, two keys and two targets that are all alike. *)
EXTENDS RuleHistory, TLC

CONSTANTS k1, k2, t1, t2, w1, w2

(* acked is history too, and what a task knows of its command after the rule
   is applied only goes there: neither the other variables' steps nor
   FileWasLive depend on them. *)
Rest(t) ==
  CASE task[t].pc \in {"create", "write"} -> <<task[t].pc, task[t].rules>>
    [] task[t].pc = "reply" -> <<"reply">>
    [] OTHER -> <<task[t]>>

Seen == <<fwd, file, daemon, restore, [t \in Task |-> Rest(t)], past, overlapped>>

Symmetry == Permutations({k1, k2}) \cup Permutations({t1, t2}) \cup Permutations({w1, w2})
=============================================================================
