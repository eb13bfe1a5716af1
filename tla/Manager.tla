------------------------------- MODULE Manager -------------------------------
(***************************************************************************)
(* The rules manager (forward-manager/src/handlers.rs) and the manager     *)
(* clients of the nodes (forward/src/manager_client.rs): the registry of   *)
(* connected nodes, the rule commands and reports, and session queries     *)
(* with their timeout.                                                     *)
(*                                                                         *)
(* A node has one connection at a time, but the manager's handler of a     *)
(* lost connection lives until it notices, which may be never or after the *)
(* node is back. The pending queries' mutex is held for one access at a    *)
(* time; the registry's is held while an HTTP handler sends to node after  *)
(* node, each send waiting for room. Responses to rule commands are left   *)
(* out: the manager only logs them.                                        *)
(***************************************************************************)
EXTENDS Naturals, Sequences, FiniteSets

CONSTANTS
  Node, Rule,
  Query,        \* HTTP requests for the sessions of a node, numbered as they come
  CommandId,    \* the ids a query may draw: nanoseconds between two clock readings
  MaxConn,      \* bound of this model: connections per node
  MaxQueue,     \* messages a direction buffers before a send has to wait
  Loads,        \* bound of this model: the rules and queries that one behaviour is about
  MayEdit,      \* rules also change through the node's own socket and HTTP API
  None

ASSUME BoundAssumption == MaxConn \in Nat /\ MaxQueue \in Nat
ASSUME LoadAssumption == Loads \subseteq [rules : SUBSET Rule, queries : SUBSET Query]
ASSUME FlagAssumption == MayEdit \in BOOLEAN
ASSUME NodeAssumption == IsFiniteSet(Node)
ASSUME QueryAssumption == Query \subseteq Nat
ASSUME NoneAssumption == None \notin Query \cup [conn : 1 .. MaxConn, rules : SUBSET Rule]

Conn == Node \X (1 .. MaxConn)

VARIABLES
  load,     \* the rules and queries of this behaviour; it never changes
  rules,    \* FORWARD_MAP of each node
  client,   \* the manager client of each node
  link,     \* the two directions of each connection
  handler,  \* the manager's handler of each connection
  nodes,    \* the registry: what the manager holds of each node
  pending,  \* command id -> query waiting for its answer
  query,    \* the HTTP handler of each query
  held,     \* the HTTP handler that holds the registry: what it sends, to whom, for which query
  dirty,    \* history: nodes whose rules may differ from those last reported
  met       \* history: connections whose handler was not alone at its node

vars == <<load, rules, client, link, handler, nodes, pending, query, held, dirty, met>>

Idle == [pc |-> "new", id |-> None, answer |-> None]
Down == [open |-> FALSE, up |-> <<>>, down |-> <<>>]
Free == [to |-> <<>>, msg |-> None, by |-> None]

Init ==
  /\ load \in Loads
  /\ rules   = [n \in Node |-> {}]
  /\ client  = [n \in Node |-> [pc |-> "retry", conn |-> 0]]
  /\ link    = [c \in Conn |-> Down]
  /\ handler = [c \in Conn |-> "none"]
  /\ nodes   = [n \in Node |-> None]
  /\ pending = [i \in CommandId |-> None]
  /\ query   = [q \in Query |-> Idle]
  /\ held    = Free
  /\ dirty   = Node
  /\ met     = {}

-----------------------------------------------------------------------------
(* The manager client of a node. *)

ConnOf(n) == <<n, client[n].conn>>

(* Sending on a lost connection fails, and the failure is ignored. *)
Reported(c, m) == IF link[c].open THEN [link EXCEPT ![c].up = Append(@, m)] ELSE link
Sent(c, m)     == IF link[c].open THEN [link EXCEPT ![c].down = Append(@, m)] ELSE link

Report(n) == [type |-> "report", rules |-> rules[n]]

(* The manager's handlers of a node that have not ended. *)
Alive(n) == {c \in Conn : c[1] = n /\ handler[c] \in {"register", "loop", "cleanup"}}

(* The manager may have the last connection's handler, or more, still running. *)
Connect(n) ==
  LET c == <<n, client[n].conn + 1>> IN
  /\ client[n].pc = "retry" /\ client[n].conn < MaxConn
  /\ client' = [client EXCEPT ![n] = [pc |-> "report", conn |-> c[2]]]
  /\ link' = [link EXCEPT ![c].open = TRUE]
  /\ handler' = [handler EXCEPT ![c] = "register"]
  /\ met' = IF Alive(n) = {} THEN met ELSE met \cup Alive(n) \cup {c}
  /\ UNCHANGED <<load, rules, nodes, pending, query, held, dirty>>

SlipCanSend(c, dir) == link[c].open => Len(link[c][dir]) <= MaxQueue

CanSend(c, dir) == link[c].open => Len(link[c][dir]) < MaxQueue

(* The rules are listed and sent: on connecting, and after each command. *)
SendReport(n) ==
  /\ client[n].pc = "report" /\ CanSend(ConnOf(n), "up")
  /\ link' = Reported(ConnOf(n), Report(n))
  /\ client' = [client EXCEPT ![n].pc = "read"]
  /\ dirty' = dirty \ {n}
  /\ UNCHANGED <<load, rules, handler, nodes, pending, query, held, met>>

(* Or they cannot be listed, and nothing is sent. *)
ReportFails(n) ==
  /\ client[n].pc = "report"
  /\ client' = [client EXCEPT ![n].pc = "read"]
  /\ UNCHANGED <<load, rules, link, handler, nodes, pending, query, held, dirty, met>>

Incoming(n, type) ==
  /\ client[n].pc = "read"
  /\ link[ConnOf(n)].down # <<>> /\ Head(link[ConnOf(n)].down).type = type

Read(c) == [link EXCEPT ![c].down = Tail(@)]

SlipSkipReport(n) ==
  /\ Incoming(n, "rule")
  /\ LET m == Head(link[ConnOf(n)].down) IN
     rules' = [rules EXCEPT ![n] = IF m.on THEN @ \cup {m.rule} ELSE @ \ {m.rule}]
  /\ link' = Read(ConnOf(n))
  /\ UNCHANGED <<load, client, handler, nodes, pending, query, held, dirty, met>>

(* A rule command takes effect or fails; either way a report is due. *)
ObeyRule(n) ==
  /\ Incoming(n, "rule")
  /\ LET m == Head(link[ConnOf(n)].down) IN
     \/ rules' = [rules EXCEPT ![n] = IF m.on THEN @ \cup {m.rule} ELSE @ \ {m.rule}]
     \/ rules' = rules
  /\ link' = Read(ConnOf(n))
  /\ client' = [client EXCEPT ![n].pc = "report"]
  /\ dirty' = dirty \cup {n}
  /\ UNCHANGED <<load, handler, nodes, pending, query, held, met>>

(* The sessions found stand for the question that was asked, and of whom. *)
AnswerQuery(n) ==
  LET c == ConnOf(n)
      m == Head(link[c].down)
      answer == [type |-> "answer", id |-> m.id, ask |-> m.ask]
  IN
  /\ Incoming(n, "query") /\ CanSend(c, "up")
  /\ link' = [link EXCEPT ![c] = [open |-> @.open, down |-> Tail(@.down),
                                  up |-> IF @.open THEN Append(@.up, answer) ELSE @.up]]
  /\ UNCHANGED <<load, rules, client, handler, nodes, pending, query, held, dirty, met>>

(* Close or a read error; five seconds later the client connects again. Nothing
   makes sure that a silent loss is noticed, here or at the manager. *)
ClientNotices(n) ==
  /\ client[n].pc = "read" /\ ~link[ConnOf(n)].open
  /\ client' = [client EXCEPT ![n].pc = "retry"]
  /\ link' = [link EXCEPT ![ConnOf(n)].down = <<>>]
  /\ dirty' = dirty \cup {n}
  /\ UNCHANGED <<load, rules, handler, nodes, pending, query, held, met>>

LocalEdit(n) ==
  /\ MayEdit
  /\ \E r \in load.rules : rules' = [rules EXCEPT ![n] = IF r \in @ THEN @ \ {r} ELSE @ \cup {r}]
  /\ dirty' = dirty \cup {n}
  /\ UNCHANGED <<load, client, link, handler, nodes, pending, query, held, met>>

ClientStep(n) ==
  \/ Connect(n) \/ ClientNotices(n)
  \/ SendReport(n) \/ ReportFails(n) \/ ObeyRule(n) \/ AnswerQuery(n)

-----------------------------------------------------------------------------
(* The network, and a daemon that restarts with the rules of its file: some may
   not be restored, and after a race of saves it may have rules deleted since. *)

Break(c) ==
  /\ link[c].open
  /\ link' = [link EXCEPT ![c].open = FALSE]
  /\ UNCHANGED <<load, rules, client, handler, nodes, pending, query, held, dirty, met>>

NodeRestart(n) ==
  /\ client[n].conn > 0
  /\ link' = [link EXCEPT ![ConnOf(n)] = [open |-> FALSE, up |-> @.up, down |-> <<>>]]
  /\ client' = [client EXCEPT ![n].pc = "retry"]
  /\ \E R \in SUBSET load.rules : rules' = [rules EXCEPT ![n] = R]
  /\ dirty' = dirty \cup {n}
  /\ UNCHANGED <<load, handler, nodes, pending, query, held, met>>

-----------------------------------------------------------------------------
(* handle_socket, the manager's handler of a connection. *)

Register(c) ==
  /\ handler[c] = "register" /\ held = Free
  /\ nodes' = [nodes EXCEPT ![c[1]] = [conn |-> c[2], rules |-> {}]]
  /\ handler' = [handler EXCEPT ![c] = "loop"]
  /\ UNCHANGED <<load, rules, client, link, pending, query, held, dirty, met>>

Arrived(c, type) ==
  handler[c] = "loop" /\ link[c].up # <<>> /\ Head(link[c].up).type = type

Taken(c) == [link EXCEPT ![c].up = Tail(@)]

(* A node without rules is taken for one that has nothing to report. *)
SlipHandleReport(c) ==
  /\ Arrived(c, "report") /\ held = Free
  /\ nodes' = IF nodes[c[1]] = None \/ Head(link[c].up).rules = {} THEN nodes
              ELSE [nodes EXCEPT ![c[1]].rules = Head(link[c].up).rules]
  /\ link' = Taken(c)
  /\ UNCHANGED <<load, rules, client, handler, pending, query, held, dirty, met>>

(* A report goes to whatever entry the node has by then. *)
HandleReport(c) ==
  /\ Arrived(c, "report") /\ held = Free
  /\ nodes' = IF nodes[c[1]] = None THEN nodes
              ELSE [nodes EXCEPT ![c[1]].rules = Head(link[c].up).rules]
  /\ link' = Taken(c)
  /\ UNCHANGED <<load, rules, client, handler, pending, query, held, dirty, met>>

(* What the receiver of a query sees; one still being sent finds it later. *)
Given(q, ask) ==
  CASE query[q].pc = "wait" -> [query EXCEPT ![q].pc = "answered", ![q].answer = ask]
    [] query[q].pc = "send" -> [query EXCEPT ![q].answer = ask]
    [] OTHER -> query

SlipHandleAnswer(c) ==
  LET m == Head(link[c].up) IN
  /\ Arrived(c, "answer")
  /\ query' = IF pending[m.id] = None THEN query ELSE Given(pending[m.id], m.ask)
  /\ link' = Taken(c)
  /\ UNCHANGED <<load, rules, client, handler, nodes, pending, held, dirty, met>>

(* An answer takes its sender out of the pending map; whether anybody still
   listens at the other end, it cannot know. *)
HandleAnswer(c) ==
  LET m == Head(link[c].up) IN
  /\ Arrived(c, "answer")
  /\ query' = IF pending[m.id] = None THEN query ELSE Given(pending[m.id], m.ask)
  /\ pending' = [pending EXCEPT ![m.id] = None]
  /\ link' = Taken(c)
  /\ UNCHANGED <<load, rules, client, handler, nodes, held, dirty, met>>

SlipHandlerNotices(c) ==
  /\ handler[c] = "loop" /\ ~link[c].open
  /\ handler' = [handler EXCEPT ![c] = "done"]
  /\ link' = [link EXCEPT ![c].up = <<>>]
  /\ UNCHANGED <<load, rules, client, nodes, pending, query, held, dirty, met>>

HandlerNotices(c) ==
  /\ handler[c] = "loop" /\ ~link[c].open
  /\ handler' = [handler EXCEPT ![c] = "cleanup"]
  /\ link' = [link EXCEPT ![c].up = <<>>]
  /\ UNCHANGED <<load, rules, client, nodes, pending, query, held, dirty, met>>

(* The entry goes by the node's name, whichever connection it is of. *)
Cleanup(c) ==
  /\ handler[c] = "cleanup" /\ held = Free
  /\ nodes' = [nodes EXCEPT ![c[1]] = None]
  /\ handler' = [handler EXCEPT ![c] = "done"]
  /\ UNCHANGED <<load, rules, client, link, pending, query, held, dirty, met>>

HandlerStep(c) ==
  Register(c) \/ HandleReport(c) \/ HandleAnswer(c) \/ HandlerNotices(c) \/ Cleanup(c)

-----------------------------------------------------------------------------
(* The manager's HTTP API. *)

(* The registry is a hash map: its order of the nodes is any. *)
Orders(N) == {s \in [1 .. Cardinality(N) -> N] : \A n \in N : \E j \in DOMAIN s : s[j] = n}

(* add_rule and delete_rule: the command goes to every listed node of a selection. *)
BeginCommand(N, r, on) ==
  /\ r \in load.rules /\ held = Free /\ \A n \in N : nodes[n] # None
  /\ \E s \in Orders(N) :
       held' = [to |-> s, msg |-> [type |-> "rule", rule |-> r, on |-> on], by |-> None]
  /\ UNCHANGED <<load, rules, client, link, handler, nodes, pending, query, dirty, met>>

Target == <<Head(held.to), nodes[Head(held.to)].conn>>

(* Each send waits for room, and with it the registry; a failed one is ignored. *)
SendCommand ==
  /\ held.to # <<>> /\ held.by = None /\ CanSend(Target, "down")
  /\ link' = Sent(Target, held.msg)
  /\ held' = IF Len(held.to) = 1 THEN Free ELSE [held EXCEPT !.to = Tail(@)]
  /\ UNCHANGED <<load, rules, client, handler, nodes, pending, query, dirty, met>>

(* Whoever asked has left: the HTTP server drops the handler where it waits. *)
AbandonCommand ==
  /\ held # Free /\ held.by = None
  /\ held' = Free
  /\ UNCHANGED <<load, rules, client, link, handler, nodes, pending, query, dirty, met>>

(* A query that loses its sender, to another with the same id, gets an error. *)
Bereft(i) ==
  LET p == pending[i] IN
  IF p # None /\ query[p].pc = "wait" THEN [query EXCEPT ![p].pc = "failed"] ELSE query

(* query_sessions: the sender is registered, then the question is sent. *)
BeginQuery(q, n, i) ==
  /\ q \in load.queries /\ query[q].pc = "new" /\ held = Free
  /\ \A p \in load.queries : p < q => query[p].pc # "new"
  /\ \/ /\ nodes[n] = None
        /\ query' = [query EXCEPT ![q].pc = "failed"]
        /\ UNCHANGED <<pending, held>>
     \/ /\ nodes[n] # None
        /\ query' = [Bereft(i) EXCEPT ![q] = [pc |-> "send", id |-> i, answer |-> None]]
        /\ pending' = [pending EXCEPT ![i] = q]
        /\ held' = [to |-> <<n>>, msg |-> [type |-> "query", id |-> i, ask |-> q], by |-> q]
  /\ UNCHANGED <<load, rules, client, link, handler, nodes, dirty, met>>

SendQuery(q) ==
  /\ query[q].pc = "send" /\ CanSend(Target, "down")
  /\ link' = Sent(Target, held.msg)
  /\ query' = [query EXCEPT ![q].pc =
       IF query[q].answer # None THEN "answered"
       ELSE IF pending[query[q].id] = q THEN "wait" ELSE "failed"]
  /\ held' = Free
  /\ UNCHANGED <<load, rules, client, handler, nodes, pending, dirty, met>>

SendQueryFails(q) ==
  /\ query[q].pc = "send" /\ ~link[Target].open
  /\ query' = [query EXCEPT ![q].pc = "failed"]
  /\ pending' = [pending EXCEPT ![query[q].id] = None]
  /\ held' = Free
  /\ UNCHANGED <<load, rules, client, link, handler, nodes, dirty, met>>

(* Five seconds: the receiver is dropped, then the sender is taken out. *)
TimeOut(q) ==
  /\ query[q].pc = "wait"
  /\ query' = [query EXCEPT ![q].pc = "expired"]
  /\ UNCHANGED <<load, rules, client, link, handler, nodes, pending, held, dirty, met>>

SlipGiveUp(q) ==
  /\ query[q].pc = "expired"
  /\ query' = [query EXCEPT ![q].pc = "failed"]
  /\ UNCHANGED <<load, rules, client, link, handler, nodes, pending, held, dirty, met>>

(* By then the sender of that id may be another query's. *)
GiveUp(q) ==
  /\ query[q].pc = "expired"
  /\ pending' = [pending EXCEPT ![query[q].id] = None]
  /\ query' = [Bereft(query[q].id) EXCEPT ![q].pc = "failed"]
  /\ UNCHANGED <<load, rules, client, link, handler, nodes, held, dirty, met>>

(* The sender stays in the pending map. *)
Abandon(q) ==
  /\ query[q].pc \in {"send", "wait", "expired"}
  /\ query' = [query EXCEPT ![q].pc = "gone"]
  /\ held' = IF query[q].pc = "send" THEN Free ELSE held
  /\ UNCHANGED <<load, rules, client, link, handler, nodes, pending, dirty, met>>

Next ==
  \/ \E n \in Node : ClientStep(n) \/ LocalEdit(n) \/ NodeRestart(n)
  \/ \E c \in Conn : HandlerStep(c) \/ Break(c)
  \/ \E N \in (SUBSET Node) \ {{}}, r \in Rule, on \in BOOLEAN : BeginCommand(N, r, on)
  \/ SendCommand \/ AbandonCommand
  \/ \E q \in Query, n \in Node, i \in CommandId : BeginQuery(q, n, i)
  \/ \E q \in Query :
       SendQuery(q) \/ SendQueryFails(q) \/ TimeOut(q) \/ GiveUp(q) \/ Abandon(q)

Spec == Init /\ [][Next]_vars

(* The runtimes of both sides poll every task that can go on, the timer fires,
   and the mutexes, which serve in the order of asking, starve no handler. That a
   loss is noticed, that a lost node connects again and that its rules cannot be
   listed are left to chance. *)
ClientGoesOn(n) == SendReport(n) \/ ObeyRule(n) \/ AnswerQuery(n)

QueryGoesOn(q) == SendQuery(q) \/ TimeOut(q) \/ GiveUp(q)

HandlerGoesOn(c) == Register(c) \/ HandleReport(c) \/ HandleAnswer(c) \/ Cleanup(c)

FairSpec ==
  /\ Spec
  /\ \A n \in Node : WF_vars(ClientGoesOn(n))
  /\ \A c \in Conn : SF_vars(HandlerGoesOn(c))
  /\ WF_vars(SendCommand)
  /\ \A q \in Query : WF_vars(QueryGoesOn(q))

-----------------------------------------------------------------------------
UpMessage   == [type : {"report"}, rules : SUBSET Rule]
                 \cup [type : {"answer"}, id : CommandId, ask : Query]
DownMessage == [type : {"rule"}, rule : Rule, on : BOOLEAN]
                 \cup [type : {"query"}, id : CommandId, ask : Query]

(* Types, and what each direction of a connection carries. *)
TypeOK ==
  /\ load \in Loads
  /\ rules \in [Node -> SUBSET Rule]
  /\ client \in [Node -> [pc : {"retry", "report", "read"}, conn : 0 .. MaxConn]]
  /\ link \in [Conn -> [open : BOOLEAN, up : Seq(UpMessage), down : Seq(DownMessage)]]
  /\ \A c \in Conn : Len(link[c].up) <= MaxQueue /\ Len(link[c].down) <= MaxQueue
  /\ handler \in [Conn -> {"none", "register", "loop", "cleanup", "done"}]
  /\ nodes \in [Node -> {None} \cup [conn : 1 .. MaxConn, rules : SUBSET Rule]]
  /\ pending \in [CommandId -> Query \cup {None}]
  /\ query \in [Query -> [pc : {"new", "send", "wait", "expired", "answered", "failed", "gone"},
                          id : CommandId \cup {None}, answer : Query \cup {None}]]
  /\ held = Free \/ /\ held \in [to : Seq(Node), msg : DownMessage, by : Query \cup {None}]
                    /\ held.to # <<>> /\ \A j \in DOMAIN held.to : nodes[held.to[j]] # None
  /\ dirty \subseteq Node /\ met \subseteq Conn

Listed(c) == nodes[c[1]] # None /\ nodes[c[1]].conn = c[2]

(* An entry never outlives its handler, whatever order the handlers of a node
   register and clean up in; and while a handler runs its entry stays, unless
   another handler of the node was running beside it. *)
RegistryExact ==
  \A c \in Conn :
    /\ Listed(c) => handler[c] \in {"loop", "cleanup"}
    /\ handler[c] \in {"loop", "cleanup"} => Listed(c) \/ c \in met

(* A connection on which everything sent has been handled. *)
Settled(n) ==
  LET c == ConnOf(n) IN
  /\ client[n].pc = "read" /\ handler[c] = "loop"
  /\ link[c] = [open |-> TRUE, up |-> <<>>, down |-> <<>>]

(* Once the messages between them are handled, the manager shows the rules the
   node has, whatever commands, failures and reconnections went before; rules
   changed behind the manager's back show with the next report, and a node whose
   last handler was still running when it came back is on its own. *)
ViewCurrent ==
  \A n \in Node : Settled(n) /\ n \notin dirty /\ ConnOf(n) \notin met =>
    nodes[n] = [conn |-> client[n].conn, rules |-> rules[n]]

(* Whatever times out, shares an id, is abandoned or answered late: an entry of
   the pending map belongs to a query of its id that has not ended, unless its
   client left, and a query that waits can still be answered. *)
PendingIsWanted ==
  /\ \A i \in CommandId : pending[i] # None =>
       query[pending[i]].id = i /\ query[pending[i]].pc \in {"send", "wait", "expired", "gone"}
  /\ \A q \in Query : query[q].pc = "wait" => pending[query[q].id] = q

(* A query that was sent does not stay in the pending map for good, unless its
   client left. *)
PendingCleared ==
  \A q \in Query, i \in CommandId :
    pending[i] = q /\ query[q].pc # "send" ~> pending[i] # q \/ query[q].pc = "gone"

(* A node stays connected, alone, and has reported the rules it stays with. *)
Stands(n, R) ==
  /\ client[n].conn > 0 /\ link[ConnOf(n)].open /\ ConnOf(n) \notin met
  /\ rules[n] = R /\ n \notin dirty

(* Unless some handler keeps the registry for good, the manager ends up showing
   the connection and the rules of a node that stays as it is, whatever commands,
   queries and other connections still go on. *)
ViewsCatchUp ==
  []<>(held = Free) =>
    \A n \in Node, R \in SUBSET Rule :
      <>[]Stands(n, R) => <>[](nodes[n] = [conn |-> client[n].conn, rules |-> R])

(* handlers.rs:274 has a query "Wait for response with a timeout": whatever the
   node does, its client gets an answer or an error. *)
QueriesEnd == \A q \in Query : query[q].pc = "send" ~> query[q].pc # "send"
=============================================================================
