----------------------------- MODULE AuditProofs -----------------------------
(* Proofs about the audit page, for any nodes, ports and targets and any number
   of lists and commands in flight. *)
EXTENDS Audit, TLAPS

(* The goal stands while its command is the only one, and then at the nodes; the
   nodes the command leaves out comply already. *)
GoalInv ==
  goal # NoGoal =>
    \/ posts = {} /\ \A n \in Node : rules[n][goal.key] = goal.to
    \/ \E p \in posts :
         /\ posts = {p} /\ p.key = goal.key /\ p.to = goal.to
         /\ \A n \in Node \ p.node_ids : rules[n][goal.key] = goal.to

-----------------------------------------------------------------------------
LEMMA ChoicesAreTargets ==
  ASSUME load \in Loads
  PROVE  Choices \subseteq Target \cup {None}
BY LoadAssumption DEF Choices

LEMMA AuditTypesInit == Init => TypeOK
<1> SUFFICES ASSUME Init PROVE TypeOK
  OBVIOUS
<1>1. [Key -> Choices] \subseteq Rules
  BY ChoicesAreTargets DEF Init, Rules
<1> QED
  BY <1>1 DEF Init, TypeOK, Lists

(* The rows are about ports and targets, and their nodes are nodes. *)
LEMMA RowTypes ==
  ASSUME NEW item \in diffAuditList
  PROVE  item.key \in Key /\ item.to \in Target /\ item.missingNodeIds \subseteq Node
BY DEF diffAuditList

LEMMA GiveTypes ==
  ASSUME TypeOK, NEW p \in Command, NEW current, Give(p, current)
  PROVE  TypeOK'
BY DEF TypeOK, Give, Command, NoGoal

LEMMA HandleTypes ==
  ASSUME TypeOK, NEW p \in posts, Handle(p)
  PROVE  TypeOK'
<1>1. p.key \in Key /\ p.to \in Target \cup {None}
  BY DEF TypeOK, Command
<1>2. rules' \in Lists
  BY <1>1 DEF TypeOK, Handle, Lists, Rules
<1>3. fetches' \in [Fetch -> Lists \cup {None}]
  BY DEF TypeOK, Handle, Free
<1>4. due' \subseteq Node
  BY DEF TypeOK, Handle, Command
<1> QED
  BY <1>2, <1>3, <1>4 DEF TypeOK, Handle

LEMMA AuditTypesStep == TypeOK /\ [Next]_vars => TypeOK'
<1> SUFFICES ASSUME TypeOK, [Next]_vars PROVE TypeOK'
  OBVIOUS
<1>1. CASE Poll
  BY <1>1 DEF TypeOK, Poll, Free
<1>2. CASE \E f \in Fetch : Land(f) \/ Miss(f)
  BY <1>2 DEF TypeOK, Land, Miss
<1>3. CASE \E k \in Key, v \in Target, N \in SUBSET Node : AddRule(k, v, N)
  BY <1>3, GiveTypes DEF AddRule, Command
<1>4. CASE \E n \in Node : Edit(n)
  <2>1. rules' \in Lists
    BY <1>4, ChoicesAreTargets DEF TypeOK, Edit, Lists, Rules
  <2> QED
    BY <1>4, <2>1 DEF TypeOK, Edit
<1>5. CASE \E n \in Node, k \in Key : Remove(n, k)
  BY <1>5, GiveTypes DEF Remove, Command
<1>6. CASE \E item \in diffAuditList : Sync(item) \/ GroupDel(item)
  BY <1>6, GiveTypes, RowTypes DEF Sync, SyncNodes, GroupDel, Command
<1>7. CASE \E p \in posts : Handle(p)
  BY <1>7, HandleTypes
<1>8. CASE \E n \in Node : Report(n)
  BY <1>8 DEF TypeOK, Report, Lists
<1>9. CASE UNCHANGED vars
  BY <1>9 DEF TypeOK, vars
<1> QED
  BY <1>1, <1>2, <1>3, <1>4, <1>5, <1>6, <1>7, <1>8, <1>9 DEF Next

(* Rules, lists and commands keep their types. *)
THEOREM AuditTypes == Spec => []TypeOK
BY AuditTypesInit, AuditTypesStep, PTL DEF Spec

-----------------------------------------------------------------------------
(* Where a rule is Synced no other row has its port. *)
THEOREM VerdictsAreOne == Spec => []OneVerdict
<1>1. OneVerdict
  <2> SUFFICES ASSUME NEW r \in diffAuditList, NEW s \in diffAuditList,
                      isConsistent(r), r.key = s.key
               PROVE  r = s
    BY DEF OneVerdict
  <2>1. \A n \in Node : nodes[n][r.key] = r.to
    BY DEF diffAuditList, isConsistent, Holders
  <2>2. \E n \in Node : nodes[n][s.key] = s.to
    BY DEF diffAuditList, Holders
  <2>3. r.to = s.to
    BY <2>1, <2>2
  <2> QED
    BY <2>3 DEF diffAuditList
<1> QED
  BY <1>1, PTL

-----------------------------------------------------------------------------
(* A command may carry a goal when the nodes it leaves out comply already. *)
LEMMA GiveKeepsGoal ==
  ASSUME NEW p, NEW current \in BOOLEAN, Give(p, current),
         current => \A n \in Node \ p.node_ids : rules[n][p.key] = p.to
  PROVE  GoalInv'
<1>1. CASE posts = {} /\ current
  BY <1>1 DEF Give, GoalInv
<1>2. CASE ~(posts = {} /\ current)
  BY <1>2 DEF Give, GoalInv
<1> QED
  BY <1>1, <1>2

LEMMA HandleKeepsGoal ==
  ASSUME TypeOK, GoalInv, NEW p \in posts, Handle(p)
  PROVE  GoalInv'
<1> SUFFICES ASSUME goal' # NoGoal
             PROVE  posts' = {} /\ \A n \in Node : rules'[n][goal'.key] = goal'.to
  BY DEF GoalInv
<1>1. PICK done \in SUBSET p.node_ids :
        /\ rules' = [n \in Node |-> IF n \in done THEN [rules[n] EXCEPT ![p.key] = p.to]
                                    ELSE rules[n]]
        /\ goal' = IF done = p.node_ids THEN goal ELSE NoGoal
  BY DEF Handle
<1>2. done = p.node_ids /\ goal' = goal
  BY <1>1
<1>3. /\ posts = {p} /\ p.key = goal.key /\ p.to = goal.to
      /\ \A n \in Node \ p.node_ids : rules[n][goal.key] = goal.to
  BY <1>2 DEF GoalInv
<1>4. p.key \in Key /\ \A n \in Node : rules[n] \in [Key -> Target \cup {None}]
  BY DEF TypeOK, Command, Lists, Rules
<1>5. \A n \in Node : rules'[n][goal.key] = goal.to
  BY <1>1, <1>2, <1>3, <1>4
<1> QED
  BY <1>2, <1>3, <1>5 DEF Handle

LEMMA GoalStep == TypeOK /\ GoalInv /\ [Next]_vars => GoalInv'
<1> SUFFICES ASSUME TypeOK, GoalInv, [Next]_vars PROVE GoalInv'
  OBVIOUS
<1>1. CASE UNCHANGED <<rules, posts, goal>>
  BY <1>1 DEF GoalInv
<1>2. CASE \E k \in Key, v \in Target, N \in SUBSET Node : AddRule(k, v, N)
  BY <1>2, GiveKeepsGoal DEF AddRule
<1>3. CASE \E n \in Node : Edit(n)
  BY <1>3 DEF GoalInv, Edit
<1>4. CASE \E n \in Node, k \in Key : Remove(n, k)
  BY <1>4, GiveKeepsGoal DEF Remove
<1>5. CASE \E item \in diffAuditList : Sync(item)
  <2> PICK item \in diffAuditList : Sync(item)
    BY <1>5
  <2>1. nodes = rules => \A n \in Node \ item.missingNodeIds : rules[n][item.key] = item.to
    BY DEF diffAuditList, Holders
  <2> QED
    BY <2>1, GiveKeepsGoal DEF Sync, SyncNodes
<1>6. CASE \E item \in diffAuditList : GroupDel(item)
  BY <1>6, GiveKeepsGoal DEF GroupDel
<1>7. CASE \E p \in posts : Handle(p)
  BY <1>7, HandleKeepsGoal
<1> QED
  BY <1>1, <1>2, <1>3, <1>4, <1>5, <1>6, <1>7 DEF Next, vars, Poll, Land, Miss, Report

(* A command for the whole group, or a Sync given from a current list, leaves
   the nodes in agreement once they have obeyed, if nothing interfered. *)
THEOREM GroupsAgree == Spec => []GroupAgrees
<1>1. Init => GoalInv
  BY DEF Init, GoalInv
<1>2. GoalInv => GroupAgrees
  BY DEF GoalInv, GroupAgrees
<1> QED
  BY <1>1, <1>2, GoalStep, AuditTypes, PTL DEF Spec
=============================================================================
