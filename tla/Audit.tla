-------------------------------- MODULE Audit --------------------------------
(***************************************************************************)
(* The rules of one group's nodes as the manager's web page compares and   *)
(* equalizes them (App.tsx: the audit matrix with its Sync and Group Del   *)
(* buttons, the rule form, and Remove in a node's table).                  *)
(*                                                                         *)
(* The group is the target group throughout and its nodes stay connected;  *)
(* module Dashboard has the choice of groups and the coming and going. So  *)
(* a node reports after a command of the manager only, and what else       *)
(* changes its rules shows with that report, or never.                     *)
(***************************************************************************)
EXTENDS Naturals, FiniteSets

CONSTANTS
  Node,      \* the nodes of the target group
  Key,       \* protocol and local port
  Target,    \* target address and port
  MaxFetch,  \* bound of this model: node lists in flight
  Loads,     \* bound of this model: the targets, and the lists and commands in flight at
             \* once, that one behaviour is about
  MayEdit,   \* rules also change through the nodes' own sockets and HTTP APIs
  None

ASSUME NodeAssumption == Node # {}
ASSUME LoadAssumption == Loads \subseteq [targets : SUBSET Target, lists : Nat, commands : Nat]
ASSUME EditAssumption == MayEdit \in BOOLEAN
ASSUME NoneAssumption == None \notin Target

Fetch == 1 .. MaxFetch

VARIABLES
  load,     \* the bounds of this behaviour; it never changes
  rules,    \* of each node
  due,      \* the nodes whose report is on its way
  registry, \* the rules the manager holds of each node
  nodes,    \* the list the page shows, None before the first
  fetches,  \* the answers on their way to fetchNodes
  posts,    \* rule commands on their way
  goal      \* history: the rule the group was last to agree on, if nothing interfered

vars == <<load, rules, due, registry, nodes, fetches, posts, goal>>

Rules == [Key -> Target \cup {None}]
Choices == load.targets \cup {None}
Lists == [Node -> Rules]
Command == [key : Key, to : Target \cup {None}, node_ids : SUBSET Node]
NoGoal == [key |-> None, to |-> None]

Init ==
  /\ load \in Loads
  /\ rules \in [Node -> [Key -> Choices]] /\ registry \in [Node -> [Key -> Choices]]
  /\ due = {} /\ nodes = None
  /\ fetches = [f \in Fetch |-> None]
  /\ posts = {} /\ goal = NoGoal

-----------------------------------------------------------------------------
(* What the page shows. *)

Listed == nodes # None

Free == {f \in Fetch : f <= load.lists /\ fetches[f] = None}

SlipHolders(k, v) == {n \in Node : nodes[n][k] # None}

(* nodePresence of the row of a rule. *)
Holders(k, v) == {n \in Node : nodes[n][k] = v}

(* The rows: one for each rule that some node has, keyed by all of it. *)
diffAuditList ==
  IF ~Listed THEN {}
  ELSE {item \in [key : Key, to : Target, missingNodeIds : SUBSET Node] :
          /\ Holders(item.key, item.to) # {}
          /\ item.missingNodeIds = Node \ Holders(item.key, item.to)}

(* The badge: Synced or Mismatch. *)
isConsistent(item) == item.missingNodeIds = {}

-----------------------------------------------------------------------------
SlipPoll ==
  /\ ~Listed
  /\ \E f \in Free : fetches' = [fetches EXCEPT ![f] = registry]
  /\ UNCHANGED <<load, rules, due, registry, nodes, posts, goal>>

(* fetchNodes at the mount and every three seconds, and the manager's answer. *)
Poll ==
  /\ \E f \in Free : fetches' = [fetches EXCEPT ![f] = registry]
  /\ UNCHANGED <<load, rules, due, registry, nodes, posts, goal>>

Land(f) ==
  /\ fetches[f] # None /\ nodes' = fetches[f]
  /\ fetches' = [fetches EXCEPT ![f] = None]
  /\ UNCHANGED <<load, rules, due, registry, posts, goal>>

(* The body of an error answer is taken for the list. *)
SlipMiss(f) ==
  /\ fetches[f] # None /\ nodes' = [error |-> None]
  /\ fetches' = [fetches EXCEPT ![f] = None]
  /\ UNCHANGED <<load, rules, due, registry, posts, goal>>

(* A lost or an error answer leaves the list as it is. *)
Miss(f) ==
  /\ fetches[f] # None
  /\ fetches' = [fetches EXCEPT ![f] = None]
  /\ UNCHANGED <<load, rules, due, registry, nodes, posts, goal>>

-----------------------------------------------------------------------------
(* The operator. The goal is what a command for the group would have it agree
   on: given alone, and if it leaves nodes out, by a list that was current. *)

Give(p, current) ==
  /\ Cardinality(posts) < load.commands
  /\ posts' = posts \cup {p}
  /\ goal' = IF posts = {} /\ current THEN [key |-> p.key, to |-> p.to] ELSE NoGoal
  /\ UNCHANGED <<load, rules, due, registry, nodes, fetches>>

(* The form. *)
AddRule(k, v, N) ==
  v \in load.targets /\ Give([key |-> k, to |-> v, node_ids |-> N], N = Node)

(* Remove, in the table of the selected node. *)
Remove(n, k) ==
  /\ Listed /\ nodes[n][k] # None
  /\ Give([key |-> k, to |-> None, node_ids |-> {n}], Node = {n})

SlipSyncNodes(item) == Holders(item.key, item.to)

SyncNodes(item) == item.missingNodeIds

(* Sync Cluster: the row's rule is added to the nodes that lack it, and replaces
   what they have for its port. *)
Sync(item) ==
  /\ ~isConsistent(item)
  /\ Give([key |-> item.key, to |-> item.to, node_ids |-> SyncNodes(item)], nodes = rules)

(* Group Del: by port, whatever the nodes have there by then. *)
GroupDel(item) ==
  /\ isConsistent(item)
  /\ Give([key |-> item.key, to |-> None, node_ids |-> Node], TRUE)

(* The manager and the nodes handle a command. Some may fail to, or not get it,
   and some not report afterwards. Its answer lets the page fetch the list. *)
Handle(p) ==
  /\ posts' = posts \ {p}
  /\ \E done \in SUBSET p.node_ids :
       /\ rules' = [n \in Node |->
                     IF n \in done THEN [rules[n] EXCEPT ![p.key] = p.to] ELSE rules[n]]
       /\ goal' = IF done = p.node_ids THEN goal ELSE NoGoal
  /\ \E told \in SUBSET p.node_ids : due' = due \cup told
  /\ \/ fetches' = fetches
     \/ \E f \in Free : fetches' = [fetches EXCEPT ![f] = registry]
  /\ UNCHANGED <<load, registry, nodes>>

(* All the rules of the node, wherever they came from. *)
Report(n) ==
  /\ n \in due /\ due' = due \ {n}
  /\ registry' = [registry EXCEPT ![n] = rules[n]]
  /\ UNCHANGED <<load, rules, nodes, fetches, posts, goal>>

(* Somebody else, at a node: the manager is not told. *)
Edit(n) ==
  /\ MayEdit
  /\ \E k \in Key, v \in Choices : rules' = [rules EXCEPT ![n][k] = v]
  /\ goal' = NoGoal
  /\ UNCHANGED <<load, due, registry, nodes, fetches, posts>>

Next ==
  \/ Poll
  \/ \E f \in Fetch : Land(f) \/ Miss(f)
  \/ \E k \in Key, v \in Target, N \in SUBSET Node : AddRule(k, v, N)
  \/ \E n \in Node : Report(n) \/ Edit(n) \/ \E k \in Key : Remove(n, k)
  \/ \E item \in diffAuditList : Sync(item) \/ GroupDel(item)
  \/ \E p \in posts : Handle(p)

Spec == Init /\ [][Next]_vars

(* The timer keeps firing. Fetches may fail, but not every one forever. *)
FairSpec == Spec /\ WF_vars(Poll) /\ \A f \in Fetch : SF_vars(Land(f))

-----------------------------------------------------------------------------
TypeOK ==
  /\ load \in Loads
  /\ rules \in Lists /\ due \subseteq Node /\ registry \in Lists
  /\ nodes \in Lists \cup {None}
  /\ fetches \in [Fetch -> Lists \cup {None}]
  /\ posts \subseteq Command
  /\ goal = NoGoal \/ goal \in [key : Key, to : Target \cup {None}]

(* A port has one verdict: where a rule is Synced no other row has its port, so
   the Group Del it offers, which is by port, deletes the rule that is shown. *)
OneVerdict ==
  \A r, s \in diffAuditList : isConsistent(r) /\ r.key = s.key => r = s

(* A command for the whole group, given while no other is under way, or a Sync
   given from a list that is current, leaves the nodes in agreement on its port
   once they have all obeyed, whatever the page has shown meanwhile: also a node
   that had another rule there. *)
GroupAgrees ==
  goal # NoGoal /\ posts = {} => \A n \in Node : rules[n][goal.key] = goal.to

(* Polls overlap, answers are lost and overtake each other; still, unless what the
   manager holds keeps changing, the page ends up showing that. Whether the nodes
   have those rules depends on their reports. *)
ListCatchesUp == []<><<registry' # registry>>_registry \/ <>[](nodes = registry)
=============================================================================
