----------------------------- MODULE RuleHistory -----------------------------
(***************************************************************************)
(* RuleStore with the history of FORWARD_MAP and of the saves, for what is *)
(* left of the file's consistency when tasks race, the daemon crashes and  *)
(* disks fail.                                                             *)
(***************************************************************************)
EXTENDS RuleStore

VARIABLES
  past,       \* the configurations FORWARD_MAP has been in
  overlapped  \* the file's last truncation met another save at its writing

Truncates(t) == task[t].pc = "create" /\ task'[t].pc = "write"
Overlaps(t)  == \E u \in Task \ {t} : task[u].pc = "write"

HInit == Init /\ past = {fwd} /\ overlapped = FALSE

Recorded ==
  /\ past' = past \cup {fwd'}
  /\ overlapped' = IF \E t \in Task : Truncates(t)
                   THEN \E t \in Task : Truncates(t) /\ Overlaps(t)
                   ELSE overlapped

HNext == Next /\ Recorded

HSpec == HInit /\ [][HNext]_<<vars, past, overlapped>>

(* Whatever commands race, crashes and failures of the disk cut a save short,
   a file that parses, and that two saves did not write at the same time, is a
   configuration the node was in as a whole, never a part or a mixture. *)
FileWasLive == Readable /\ ~overlapped => file.rules \in past

(* FileWasLive, made inductive: what a save takes down is a configuration, and
   of saves that did not meet at most one is under way, in an empty file. *)
LiveInv ==
  /\ fwd \in past
  /\ \A t \in Task : task[t].pc \in {"create", "write"} => task[t].rules \in past
  /\ ~overlapped =>
       /\ \A t, u \in Task : task[t].pc = "write" /\ task[u].pc = "write" => t = u
       /\ Saving => file = [len |-> 0, rules |-> Garbled]
       /\ Readable => file.rules \in past
=============================================================================
