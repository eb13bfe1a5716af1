------------------------------ MODULE Dashboard ------------------------------
(***************************************************************************)
(* The manager's web page (forward-manager/frontend/src/App.tsx): the list *)
(* of nodes it polls, the group, the check boxes and the node its controls *)
(* act on, the commands they send, and the session panel.                  *)
(*                                                                         *)
(* The browser runs one handler at a time. Every await lets others run: a  *)
(* request in flight is state, and answers come back in any order. React   *)
(* runs the effects of a list that has landed a moment after it has        *)
(* rendered it, and before it renders anything else.                       *)
(*                                                                         *)
(* Left out: rules (module Audit has them), what is typed into the forms,  *)
(* and the messages about errors and successes. The tabs only hide and     *)
(* show controls, the state behind them stays.                             *)
(***************************************************************************)
EXTENDS Naturals, FiniteSets

CONSTANTS
  Node, Group,
  DefaultGroup,  \* "default", the target group until a list has landed
  MaxFetch,      \* bound of this model: node lists in flight
  MaxPost,       \* bound of this model: rule commands in flight
  All,           \* the node_ids of a command for the whole group: null
  None

ASSUME GroupAssumption == DefaultGroup \in Group
ASSUME NoneAssumption == None \notin Node /\ \A N \in SUBSET Node : N # None /\ N # All

Fetch == 1 .. MaxFetch

VARIABLES
  group,                \* the --group each node was started with
  registry,             \* the nodes connected to the manager
  nodes,                \* the list the page shows
  fetches,              \* the answers on their way to fetchNodes
  effectsDue,           \* a list was rendered and its effects have not run
  targetGroup,
  selectedNodeTargets,  \* the checked boxes
  selectedNodeId,
  posts,                \* rule commands on their way to the manager
  queryLoading,
  asking,               \* nodes with a session query in flight
  sessionResults,       \* the node whose answer the panel shows
  lastQuery             \* history: the node last asked

vars == <<group, registry, nodes, fetches, effectsDue, targetGroup, selectedNodeTargets,
          selectedNodeId, posts, queryLoading, asking, sessionResults, lastQuery>>
form  == <<targetGroup, selectedNodeTargets>>
panel == <<queryLoading, asking, sessionResults, lastQuery>>

groups == {group[n] : n \in nodes}
InGroup(N, g) == {n \in N : group[n] = g}
nodesInTargetGroup == InGroup(nodes, targetGroup)

(* The selected node, unless the list has lost it. *)
selectedNode == IF selectedNodeId \in nodes THEN selectedNodeId ELSE None

Init ==
  /\ group \in [Node -> Group] /\ registry \in SUBSET Node
  /\ nodes = {} /\ effectsDue = FALSE
  /\ fetches = [f \in Fetch |-> None]
  /\ targetGroup = DefaultGroup /\ selectedNodeTargets = {} /\ selectedNodeId = None
  /\ posts = {}
  /\ queryLoading = FALSE /\ asking = {} /\ sessionResults = None /\ lastQuery = None

-----------------------------------------------------------------------------
(* The manager's registry. *)

Join(n) ==
  /\ n \notin registry
  /\ registry' = registry \cup {n}
  /\ UNCHANGED <<group, nodes, fetches, effectsDue, form, selectedNodeId, posts, panel>>

Leave(n) ==
  /\ n \in registry
  /\ registry' = registry \ {n}
  /\ UNCHANGED <<group, nodes, fetches, effectsDue, form, selectedNodeId, posts, panel>>

-----------------------------------------------------------------------------
(* The list. *)

(* The manager answers a fetchNodes that was sent meanwhile. *)
Answered(f) == fetches[f] = None /\ fetches' = [fetches EXCEPT ![f] = registry]

(* At the mount and every three seconds, whatever else is in flight. *)
Poll ==
  /\ \E f \in Fetch : Answered(f)
  /\ UNCHANGED <<group, registry, nodes, effectsDue, form, selectedNodeId, posts, panel>>

(* The answer replaces the list. *)
Land(f) ==
  /\ fetches[f] # None /\ ~effectsDue
  /\ nodes' = fetches[f] /\ effectsDue' = TRUE
  /\ fetches' = [fetches EXCEPT ![f] = None]
  /\ UNCHANGED <<group, registry, form, selectedNodeId, posts, panel>>

(* A lost or an error answer leaves the list as it is. *)
Miss(f) ==
  /\ fetches[f] # None
  /\ fetches' = [fetches EXCEPT ![f] = None]
  /\ UNCHANGED <<group, registry, nodes, effectsDue, form, selectedNodeId, posts, panel>>

(* The group of the first node stands in for one that is not listed. *)
DefaultTarget(first) == IF targetGroup \in groups THEN targetGroup ELSE group[first]

SlipBoxes == nodes

(* All boxes are checked again, of the group the list was rendered for. *)
Boxes == nodesInTargetGroup

(* The effects of one render. They use the values it was rendered with, so a
   target group they set has its boxes checked by the next render's. *)
RunEffects ==
  /\ effectsDue
  /\ selectedNodeTargets' = Boxes
  /\ \/ /\ nodes = {} /\ UNCHANGED <<targetGroup, selectedNodeId>>
     \/ \E first \in nodes :
          /\ targetGroup' = DefaultTarget(first)
          /\ selectedNodeId' = IF selectedNodeId = None THEN first ELSE selectedNodeId
  /\ effectsDue' = (targetGroup' # targetGroup)
  /\ UNCHANGED <<group, registry, nodes, fetches, posts, panel>>

-----------------------------------------------------------------------------
(* The operator. A click that changes what is shown has its effects run before
   anything else does; it waits, some milliseconds, for those of a list. *)

SelectNode(n) ==
  /\ n \in nodes /\ ~effectsDue
  /\ selectedNodeId' = n
  /\ UNCHANGED <<group, registry, nodes, fetches, effectsDue, form, posts, panel>>

SlipSelectGroup(g) ==
  /\ g \in groups \ {targetGroup} /\ ~effectsDue
  /\ targetGroup' = g
  /\ UNCHANGED <<group, registry, nodes, fetches, effectsDue, selectedNodeTargets,
                 selectedNodeId, posts, panel>>

SelectGroup(g) ==
  /\ g \in groups \ {targetGroup} /\ ~effectsDue
  /\ targetGroup' = g /\ selectedNodeTargets' = InGroup(nodes, g)
  /\ UNCHANGED <<group, registry, nodes, fetches, effectsDue, selectedNodeId, posts, panel>>

handleTargetNodeCheckboxChange(n) ==
  selectedNodeTargets' = IF n \in selectedNodeTargets THEN selectedNodeTargets \ {n}
                         ELSE selectedNodeTargets \cup {n}

(* A click on a box that is shown. *)
ToggleBox(n) ==
  /\ n \in nodesInTargetGroup /\ ~effectsDue
  /\ handleTargetNodeCheckboxChange(n)
  /\ UNCHANGED <<group, registry, nodes, fetches, effectsDue, targetGroup, selectedNodeId,
                 posts, panel>>

Post(p) == Cardinality(posts) < MaxPost /\ posts' = posts \cup {p}

(* The target mode: the whole group, or the nodes checked. *)
Scopes == {All, selectedNodeTargets}

(* A submit of the form. *)
handleAddRule ==
  /\ \E scope \in Scopes : Post([kind |-> "add", group |-> targetGroup, node_ids |-> scope])
  /\ UNCHANGED <<group, registry, nodes, fetches, effectsDue, form, selectedNodeId, panel>>

(* The selection is not looked up in the list. *)
SlipDelete ==
  /\ Post([kind |-> "delete", group |-> targetGroup, node_ids |-> {selectedNodeId}])
  /\ UNCHANGED <<group, registry, nodes, fetches, effectsDue, form, selectedNodeId, panel>>

(* Remove, in the table of the selected node, sends the target group along,
   whichever group the node is in. *)
handleDeleteRule ==
  /\ selectedNode # None
  /\ Post([kind |-> "delete", group |-> targetGroup, node_ids |-> {selectedNode}])
  /\ UNCHANGED <<group, registry, nodes, fetches, effectsDue, form, selectedNodeId, panel>>

(* The nodes the manager sends a command to. *)
Reached(p) == {n \in InGroup(registry, p.group) : p.node_ids = All \/ n \in p.node_ids}

(* The manager has handled a command and its answer is here: a success fetches
   the list, an error or a lost answer does not. *)
Respond(p) ==
  /\ p \in posts /\ posts' = posts \ {p}
  /\ fetches' = fetches \/ \E f \in Fetch : Answered(f)
  /\ UNCHANGED <<group, registry, nodes, effectsDue, form, selectedNodeId, panel>>

-----------------------------------------------------------------------------
(* The session panel. *)

SlipSearchEnabled == TRUE

(* The button is disabled, and with it the form, while a query is in flight. *)
SearchEnabled == ~queryLoading

handleQuerySessions ==
  /\ SearchEnabled /\ selectedNodeId # None
  /\ queryLoading' = TRUE /\ sessionResults' = None
  /\ asking' = asking \cup {selectedNodeId} /\ lastQuery' = selectedNodeId
  /\ UNCHANGED <<group, registry, nodes, fetches, effectsDue, form, selectedNodeId, posts>>

(* The sessions of the node that was asked, or an error. *)
EndQuery(n) ==
  /\ n \in asking /\ asking' = asking \ {n}
  /\ sessionResults' \in {n, sessionResults}
  /\ queryLoading' = FALSE
  /\ UNCHANGED <<group, registry, nodes, fetches, effectsDue, form, selectedNodeId, posts,
                 lastQuery>>

Next ==
  \/ \E n \in Node : Join(n) \/ Leave(n)
  \/ Poll
  \/ \E f \in Fetch : Land(f) \/ Miss(f)
  \/ RunEffects
  \/ \E n \in Node : SelectNode(n) \/ ToggleBox(n) \/ EndQuery(n)
  \/ \E g \in Group : SelectGroup(g)
  \/ handleAddRule \/ handleDeleteRule
  \/ \E p \in posts : Respond(p)
  \/ handleQuerySessions

Spec == Init /\ [][Next]_vars

-----------------------------------------------------------------------------
TypeOK ==
  /\ group \in [Node -> Group]
  /\ registry \subseteq Node /\ nodes \subseteq Node
  /\ fetches \in [Fetch -> (SUBSET Node) \cup {None}]
  /\ effectsDue \in BOOLEAN
  /\ targetGroup \in Group /\ selectedNodeTargets \subseteq Node
  /\ selectedNodeId \in Node \cup {None}
  /\ posts \subseteq [kind : {"add", "delete"}, group : Group, node_ids : (SUBSET Node) \cup {All}]
  /\ queryLoading \in BOOLEAN /\ asking \subseteq Node
  /\ sessionResults \in Node \cup {None} /\ lastQuery \in Node \cup {None}

(* However lists come and go, once the effects have run the form stands on what
   is listed: a group that is shown, and boxes of its nodes only. *)
FormStands ==
  ~effectsDue =>
    /\ nodes # {} => targetGroup \in groups /\ selectedNodeId # None
    /\ selectedNodeTargets \subseteq nodesInTargetGroup

(* The manager skips a node whose group is not the command's without an error.
   None of the nodes an operator checked is lost that way, also when the form is
   submitted between a list and its effects: all that are connected when the
   command arrives get it, and no others. *)
CheckedAreReached ==
  \A p \in posts : p.kind = "add" /\ p.node_ids # All =>
    Reached(p) = p.node_ids \cap registry

(* The panel has at most one query in flight, the button knows it, and what is
   shown answers the last query, never one before it. *)
PanelFollows ==
  /\ \A m, n \in asking : m = n
  /\ queryLoading <=> asking # {}
  /\ asking # {} => asking = {lastQuery} /\ sessionResults = None
  /\ sessionResults \in {lastQuery, None}
=============================================================================
