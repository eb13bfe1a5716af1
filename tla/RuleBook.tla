------------------------------- MODULE RuleBook -------------------------------
(***************************************************************************)
(* What a node with a rules file promises, free of maps, files and         *)
(* restarts: the book is the rules that outlive the daemon. While nobody   *)
(* can say whether a key's command took effect, the book may change at     *)
(* that key, and at no other.                                              *)
(***************************************************************************)
CONSTANTS
  RuleKey,   \* protocol and local port
  Target,    \* target address and port
  None,      \* no rule
  Unknown    \* a command for the key is under way, or was never answered

VARIABLES
  book,   \* the rule of each key
  told    \* what clients were last told of each key

Rules == [RuleKey -> Target \cup {None}]

Init ==
  /\ book = [k \in RuleKey |-> None]
  /\ told = book

(* A client's command for a key gets under way. *)
Doubt(k) ==
  /\ told' = [told EXCEPT ![k] = Unknown]
  /\ book' = book

(* Commands, answered yet or not, are entered together. *)
Enter ==
  /\ book' \in Rules
  /\ \A k \in RuleKey : book'[k] # book[k] => told[k] = Unknown
  /\ told' = told

(* A client is told what the book says. *)
Tell(k) ==
  /\ told' = [told EXCEPT ![k] = book[k]]
  /\ book' = book

Next == Enter \/ \E k \in RuleKey : Doubt(k) \/ Tell(k)

Spec == Init /\ [][Next]_<<book, told>>
=============================================================================
