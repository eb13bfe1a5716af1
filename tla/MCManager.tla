------------------------------ MODULE MCManager ------------------------------
(* One node; one rule with one query beside it, or two queries that draw the same
   command id. *)
EXTENDS Manager

CONSTANTS n1, r1, i1

RulesAndQueries == {[rules |-> {r1}, queries |-> {1}], [rules |-> {}, queries |-> {1, 2}]}
=============================================================================
