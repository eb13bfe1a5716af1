------------------------------- MODULE MCAudit -------------------------------
(* Two nodes and one port: with two targets that can be forwarded to, or with one
   and more lists and commands in flight. *)
EXTENDS Audit

CONSTANTS n1, n2, k1, t1, t2

TargetsOrTraffic == {[targets |-> {t1, t2}, lists |-> 1, commands |-> 1],
                     [targets |-> {t1}, lists |-> 2, commands |-> 2]}
=============================================================================
