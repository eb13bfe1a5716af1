---------------------------- MODULE ManagerProofs ----------------------------
(* Proofs about the rules manager and its nodes, for any number of nodes, rules,
   queries, command ids and connections, and queues of any length. *)
EXTENDS Manager, FiniteSetTheorems, SequenceTheorems, TLAPS

(* A client that is not between two connections has one, and until it reads its
   rules are yet to be reported. *)
Attached ==
  \A n \in Node :
    /\ client[n].pc # "retry" => client[n].conn # 0
    /\ client[n].pc # "read" => n \in dirty

(* The query that is being sent holds the registry, and its sender is its own or
   taken by an answer; it has the answer only if it was taken. *)
Sending ==
  \A q \in Query : query[q].pc = "send" =>
    /\ held # Free /\ held.by = q /\ query[q].id \in CommandId
    /\ pending[query[q].id] \in {q, None}
    /\ query[q].answer # None => pending[query[q].id] # q

Started == \A q \in Query : query[q].pc \in {"wait", "expired"} => query[q].id \in CommandId

TypeInv == TypeOK /\ Attached /\ Sending /\ Started

-----------------------------------------------------------------------------
LEMMA ManagerInit == Init => TypeInv /\ PendingIsWanted
BY BoundAssumption, NoneAssumption
DEF Init, TypeInv, TypeOK, Attached, Sending, Started, PendingIsWanted, Idle, Down, Free

LEMMA ConnOfAttached ==
  ASSUME TypeOK, Attached, NEW n \in Node, client[n].pc # "retry"
  PROVE  ConnOf(n) \in Conn
BY BoundAssumption DEF TypeOK, Attached, ConnOf, Conn

Channel == [open : BOOLEAN, up : Seq(UpMessage), down : Seq(DownMessage)]

(* A connection whose queues fit is all that an action needs to leave behind. *)
Fits(x) == Len(x.up) <= MaxQueue /\ Len(x.down) <= MaxQueue
LinkOK == link \in [Conn -> Channel] /\ \A c \in Conn : Fits(link[c])

LEMMA OneChannel ==
  ASSUME LinkOK, NEW c \in Conn, NEW x \in Channel, Fits(x), link' = [link EXCEPT ![c] = x]
  PROVE  LinkOK'
BY DEF LinkOK

LEMMA Parts ==
  ASSUME NEW l \in Channel, NEW s
  PROVE  /\ [l EXCEPT !.up = s] = [open |-> l.open, up |-> s, down |-> l.down]
         /\ [l EXCEPT !.down = s] = [open |-> l.open, up |-> l.up, down |-> s]
BY DEF Channel

LEMMA SentUp ==
  ASSUME LinkOK, NEW c \in Conn, NEW m \in UpMessage, CanSend(c, "up"), link' = Reported(c, m)
  PROVE  LinkOK'
<1> DEFINE x == [link[c] EXCEPT !.up = Append(link[c].up, m)]
<1>1. link[c] \in Channel /\ Fits(link[c])
  BY DEF LinkOK
<1>2. CASE link[c].open
  <2>1. x = [open |-> link[c].open, up |-> Append(link[c].up, m), down |-> link[c].down]
    BY <1>1, Parts
  <2>2. Append(link[c].up, m) \in Seq(UpMessage) /\ Len(Append(link[c].up, m)) <= MaxQueue
    BY <1>1, <1>2, BoundAssumption DEF Channel, CanSend
  <2>3. x \in Channel /\ Fits(x)
    BY <1>1, <2>1, <2>2 DEF Channel, Fits
  <2>4. link' = [link EXCEPT ![c] = x]
    BY <1>2 DEF Reported
  <2> QED
    BY <2>3, <2>4, OneChannel
<1>3. CASE ~link[c].open
  BY <1>3 DEF LinkOK, Reported
<1> QED
  BY <1>2, <1>3

LEMMA SentDown ==
  ASSUME LinkOK, NEW c \in Conn, NEW m \in DownMessage, CanSend(c, "down"),
         link' = Sent(c, m)
  PROVE  LinkOK'
<1> DEFINE x == [link[c] EXCEPT !.down = Append(link[c].down, m)]
<1>1. link[c] \in Channel /\ Fits(link[c])
  BY DEF LinkOK
<1>2. CASE link[c].open
  <2>1. x = [open |-> link[c].open, up |-> link[c].up, down |-> Append(link[c].down, m)]
    BY <1>1, Parts
  <2>2. Append(link[c].down, m) \in Seq(DownMessage) /\ Len(Append(link[c].down, m)) <= MaxQueue
    BY <1>1, <1>2, BoundAssumption DEF Channel, CanSend
  <2>3. x \in Channel /\ Fits(x)
    BY <1>1, <2>1, <2>2 DEF Channel, Fits
  <2>4. link' = [link EXCEPT ![c] = x]
    BY <1>2 DEF Sent
  <2> QED
    BY <2>3, <2>4, OneChannel
<1>3. CASE ~link[c].open
  BY <1>3 DEF LinkOK, Sent
<1> QED
  BY <1>2, <1>3

LEMMA ReadUp ==
  ASSUME LinkOK, NEW c \in Conn, link[c].up # <<>>, link' = Taken(c)
  PROVE  LinkOK'
<1> DEFINE x == [link[c] EXCEPT !.up = Tail(link[c].up)]
<1>1. link[c] \in Channel /\ Fits(link[c])
  BY DEF LinkOK
<1>2. x = [open |-> link[c].open, up |-> Tail(link[c].up), down |-> link[c].down]
  BY <1>1, Parts
<1>3. Tail(link[c].up) \in Seq(UpMessage) /\ Len(Tail(link[c].up)) <= MaxQueue
  BY <1>1, BoundAssumption DEF Channel, Fits
<1>4. x \in Channel /\ Fits(x)
  BY <1>1, <1>2, <1>3 DEF Channel, Fits
<1> QED
  BY <1>4, OneChannel DEF Taken

LEMMA ReadDown ==
  ASSUME LinkOK, NEW c \in Conn, link[c].down # <<>>, link' = Read(c)
  PROVE  LinkOK'
<1> DEFINE x == [link[c] EXCEPT !.down = Tail(link[c].down)]
<1>1. link[c] \in Channel /\ Fits(link[c])
  BY DEF LinkOK
<1>2. x = [open |-> link[c].open, up |-> link[c].up, down |-> Tail(link[c].down)]
  BY <1>1, Parts
<1>3. Tail(link[c].down) \in Seq(DownMessage) /\ Len(Tail(link[c].down)) <= MaxQueue
  BY <1>1, BoundAssumption DEF Channel, Fits
<1>4. x \in Channel /\ Fits(x)
  BY <1>1, <1>2, <1>3 DEF Channel, Fits
<1> QED
  BY <1>4, OneChannel DEF Read

LEMMA Emptied ==
  ASSUME LinkOK, NEW c \in Conn,
         link' = [link EXCEPT ![c].up = <<>>] \/ link' = [link EXCEPT ![c].down = <<>>]
  PROVE  LinkOK'
<1> DEFINE x == [link[c] EXCEPT !.up = <<>>]
           y == [link[c] EXCEPT !.down = <<>>]
<1>1. link[c] \in Channel /\ Fits(link[c])
  BY DEF LinkOK
<1>2. /\ x = [open |-> link[c].open, up |-> <<>>, down |-> link[c].down]
      /\ y = [open |-> link[c].open, up |-> link[c].up, down |-> <<>>]
  BY <1>1, Parts
<1> HIDE DEF x, y
<1>a. \A S : <<>> \in Seq(S) /\ Len(<<>>) <= MaxQueue
  BY BoundAssumption
<1>3. x \in Channel /\ Fits(x) /\ y \in Channel /\ Fits(y)
  BY <1>1, <1>2, <1>a DEF Channel, Fits
<1>4. link' = [link EXCEPT ![c] = x] \/ link' = [link EXCEPT ![c] = y]
  BY DEF x, y
<1> QED
  BY <1>3, <1>4, OneChannel

(* A change to one direction opens and closes nothing, and leaves the other. *)
LEMMA OneDirection ==
  ASSUME LinkOK, NEW d, NEW s,
         link' = [link EXCEPT ![d].up = s] \/ link' = [link EXCEPT ![d].down = s]
  PROVE  \A c \in Conn : link'[c].open = link[c].open
BY DEF LinkOK, Channel

-----------------------------------------------------------------------------
(* What messages are made of. *)

LEMMA Links == TypeOK => LinkOK
BY DEF TypeOK, LinkOK, Channel, Fits

LEMMA HeadDown ==
  ASSUME LinkOK, NEW c \in Conn, link[c].down # <<>>
  PROVE  Head(link[c].down) \in DownMessage
<1>1. link[c].down \in Seq(DownMessage)
  BY DEF LinkOK, Channel
<1> QED
  BY <1>1

LEMMA HeadUp ==
  ASSUME LinkOK, NEW c \in Conn, link[c].up # <<>>
  PROVE  Head(link[c].up) \in UpMessage
<1>1. link[c].up \in Seq(UpMessage)
  BY DEF LinkOK, Channel
<1> QED
  BY <1>1

LEMMA TargetIsConn ==
  ASSUME TypeOK, held # Free
  PROVE  Target \in Conn
<1>1. held.to \in Seq(Node) /\ held.to # <<>> /\ nodes[held.to[1]] # None
  BY DEF TypeOK
<1>2. Head(held.to) = held.to[1] /\ Head(held.to) \in Node
  BY <1>1
<1>3. nodes[Head(held.to)] \in [conn : 1 .. MaxConn, rules : SUBSET Rule]
  BY <1>1, <1>2 DEF TypeOK
<1> QED
  BY <1>2, <1>3 DEF Target, Conn

-----------------------------------------------------------------------------
(* The connections. *)

LEMMA ClientLinks ==
  ASSUME TypeInv, NEW n \in Node, ClientStep(n) \/ NodeRestart(n)
  PROVE  LinkOK'
<1>0. LinkOK
  BY Links DEF TypeInv
<1>1. CASE Connect(n)
  <2> DEFINE c == <<n, client[n].conn + 1>>
  <2>1. c \in Conn /\ link[c] \in Channel /\ Fits(link[c])
    BY <1>0, <1>1, BoundAssumption DEF TypeInv, TypeOK, Connect, Conn, LinkOK
  <2>2. [link[c] EXCEPT !.open = TRUE] \in Channel /\ Fits([link[c] EXCEPT !.open = TRUE])
    BY <2>1 DEF Channel, Fits
  <2>3. link' = [link EXCEPT ![c] = [link[c] EXCEPT !.open = TRUE]]
    BY <1>1 DEF Connect
  <2> QED
    BY <1>0, <2>1, <2>2, <2>3, OneChannel
<1>2. CASE SendReport(n)
  <2>1. ConnOf(n) \in Conn /\ Report(n) \in UpMessage
    BY <1>2, ConnOfAttached DEF TypeInv, TypeOK, SendReport, Report, UpMessage
  <2> QED
    BY <1>0, <1>2, <2>1, SentUp DEF SendReport
<1>3. CASE ObeyRule(n)
  <2>1. ConnOf(n) \in Conn
    BY <1>3, ConnOfAttached DEF TypeInv, ObeyRule, Incoming
  <2> QED
    BY <1>0, <1>3, <2>1, ReadDown DEF ObeyRule, Incoming
<1>4. CASE AnswerQuery(n)
  <2> DEFINE c == ConnOf(n)
             m == Head(link[c].down)
             answer == [type |-> "answer", id |-> m.id, ask |-> m.ask]
             x == [open |-> link[c].open,
                   up |-> IF link[c].open THEN Append(link[c].up, answer) ELSE link[c].up,
                   down |-> Tail(link[c].down)]
  <2>1. c \in Conn /\ link[c].down # <<>> /\ m.type = "query"
    BY <1>4, ConnOfAttached DEF TypeInv, AnswerQuery, Incoming
  <2>2. answer \in UpMessage
    BY <1>0, <2>1, HeadDown DEF DownMessage, UpMessage
  <2>3. link[c] \in Channel /\ Fits(link[c]) /\ (link[c].open => Len(link[c].up) < MaxQueue)
    BY <1>0, <1>4, <2>1 DEF LinkOK, AnswerQuery, CanSend
  <2> HIDE DEF answer
  <2>4. /\ Tail(link[c].down) \in Seq(DownMessage) /\ Len(Tail(link[c].down)) <= MaxQueue
        /\ Append(link[c].up, answer) \in Seq(UpMessage)
        /\ Len(Append(link[c].up, answer)) = Len(link[c].up) + 1
        /\ Len(link[c].up) \in Nat
    BY <2>1, <2>2, <2>3, BoundAssumption DEF Channel, Fits
  <2>5. x \in Channel /\ Fits(x)
    BY <2>3, <2>4, BoundAssumption DEF Channel, Fits
  <2>6. link' = [link EXCEPT ![c] = x]
    BY <1>4 DEF AnswerQuery, answer
  <2> QED
    BY <1>0, <2>1, <2>5, <2>6, OneChannel
<1>5. CASE ClientNotices(n)
  <2>1. ConnOf(n) \in Conn
    BY <1>5, ConnOfAttached DEF TypeInv, ClientNotices
  <2> QED
    BY <1>0, <1>5, <2>1, Emptied DEF ClientNotices
<1>7. CASE ReportFails(n)
  BY <1>0, <1>7 DEF ReportFails, LinkOK
<1>6. CASE NodeRestart(n)
  <2> DEFINE c == ConnOf(n)
             x == [open |-> FALSE, up |-> link[c].up, down |-> <<>>]
  <2>1. c \in Conn /\ link[c] \in Channel /\ Fits(link[c])
    BY <1>0, <1>6, BoundAssumption DEF TypeInv, TypeOK, NodeRestart, ConnOf, Conn, LinkOK
  <2>2. x \in Channel /\ Fits(x)
    BY <2>1, BoundAssumption DEF Channel, Fits
  <2>3. link' = [link EXCEPT ![c] = x]
    BY <1>6 DEF NodeRestart
  <2> QED
    BY <1>0, <2>1, <2>2, <2>3, OneChannel
<1> QED
  BY <1>1, <1>2, <1>3, <1>4, <1>5, <1>6, <1>7 DEF ClientStep

LEMMA HandlerLinks ==
  ASSUME TypeInv, NEW c \in Conn, HandlerStep(c) \/ Break(c)
  PROVE  LinkOK'
<1>0. LinkOK /\ link[c] \in Channel /\ Fits(link[c])
  BY Links DEF TypeInv, LinkOK
<1>1. CASE HandleReport(c) \/ HandleAnswer(c)
  BY <1>0, <1>1, ReadUp DEF HandleReport, HandleAnswer, Arrived
<1>2. CASE HandlerNotices(c)
  BY <1>0, <1>2, Emptied DEF HandlerNotices
<1>3. CASE Break(c)
  <2>1. [link[c] EXCEPT !.open = FALSE] \in Channel /\ Fits([link[c] EXCEPT !.open = FALSE])
    BY <1>0 DEF Channel, Fits
  <2>2. link' = [link EXCEPT ![c] = [link[c] EXCEPT !.open = FALSE]]
    BY <1>3 DEF Break
  <2> QED
    BY <1>0, <2>1, <2>2, OneChannel
<1>4. CASE Register(c) \/ Cleanup(c)
  BY <1>0, <1>4 DEF Register, Cleanup, LinkOK
<1> QED
  BY <1>1, <1>2, <1>3, <1>4 DEF HandlerStep

LEMMA LinksStep == TypeInv /\ [Next]_vars => LinkOK'
<1> SUFFICES ASSUME TypeInv, [Next]_vars PROVE LinkOK'
  OBVIOUS
<1>0. LinkOK
  BY Links DEF TypeInv
<1>1. CASE SendCommand
  <2>1. held # Free /\ held.msg \in DownMessage
    BY <1>1 DEF TypeInv, TypeOK, SendCommand, Free
  <2> QED
    BY <1>0, <1>1, <2>1, TargetIsConn, SentDown DEF TypeInv, SendCommand
<1>2. CASE \E q \in Query : SendQuery(q)
  <2>1. held # Free /\ held.msg \in DownMessage
    BY <1>2 DEF TypeInv, TypeOK, Sending, SendQuery
  <2> QED
    BY <1>0, <1>2, <2>1, TargetIsConn, SentDown DEF TypeInv, SendQuery
<1>3. CASE link' = link
  BY <1>0, <1>3 DEF LinkOK
<1> QED
  BY <1>1, <1>2, <1>3, ClientLinks, HandlerLinks
  DEF Next, vars, LocalEdit, BeginCommand, AbandonCommand, BeginQuery, SendQueryFails, TimeOut,
      GiveUp, Abandon

-----------------------------------------------------------------------------
(* The queries and the pending map. *)

QueryRecord ==
  [pc : {"new", "send", "wait", "expired", "answered", "failed", "gone"},
   id : CommandId \cup {None}, answer : Query \cup {None}]

QueryInv ==
  /\ pending \in [CommandId -> Query \cup {None}]
  /\ query \in [Query -> QueryRecord]
  /\ Sending /\ Started /\ PendingIsWanted

(* What an action leaves of a query it is not about. *)
Kept(q) == query'[q] = query[q]

LEMMA AnswerStep ==
  ASSUME TypeInv, QueryInv, NEW c \in Conn, HandleAnswer(c)
  PROVE  QueryInv'
<1> DEFINE m == Head(link[c].up)
           p == pending[m.id]
<1>1. m \in UpMessage /\ m.type = "answer"
  BY Links, HeadUp DEF TypeInv, HandleAnswer, Arrived
<1>2. m.id \in CommandId /\ m.ask \in Query
  BY <1>1 DEF UpMessage
<1>3. pending' = [pending EXCEPT ![m.id] = None] /\ held' = held
  BY DEF HandleAnswer
<1>4. query' = IF p = None THEN query ELSE Given(p, m.ask)
  BY DEF HandleAnswer
<1>5. /\ query' \in [Query -> QueryRecord]
      /\ \A q \in Query \ {p} : Kept(q)
      /\ p # None =>
           /\ p \in Query /\ query'[p].id = query[p].id /\ query'[p].pc # "wait"
           /\ query'[p].pc \in {query[p].pc, "answered"}
           /\ query[p].pc = "send" => query'[p].pc = "send"
  <2>1. CASE p = None
    BY <1>4, <2>1 DEF QueryInv, Kept
  <2>2. CASE p # None
    <3>1. p \in Query /\ query[p] \in QueryRecord
      BY <1>2, <2>2 DEF QueryInv
    <3>2. query' = Given(p, m.ask)
      BY <1>4, <2>2
    <3> HIDE DEF p, m
    <3>3. CASE query[p].pc = "wait"
      BY <1>2, <3>1, <3>2, <3>3 DEF QueryInv, QueryRecord, Given, Kept
    <3>4. CASE query[p].pc = "send"
      BY <1>2, <3>1, <3>2, <3>4 DEF QueryInv, QueryRecord, Given, Kept
    <3>5. CASE query[p].pc \notin {"wait", "send"}
      BY <3>1, <3>2, <3>5 DEF QueryInv, Given, Kept
    <3> QED
      BY <3>3, <3>4, <3>5
  <2> QED
    BY <2>1, <2>2
<1>6. p # None => query[p].id = m.id
  BY <1>2 DEF QueryInv, PendingIsWanted
<1> HIDE DEF p, m
<1>7. pending' \in [CommandId -> Query \cup {None}]
  BY <1>2, <1>3 DEF QueryInv
<1>8. Sending'
  BY <1>2, <1>3, <1>5, <1>6, NoneAssumption DEF QueryInv, Sending, Kept, p
<1>9. Started'
  BY <1>5, NoneAssumption DEF QueryInv, Started, Kept
<1>10. PendingIsWanted'
  <2>1. ASSUME NEW i \in CommandId, pending'[i] # None
        PROVE  /\ query'[pending'[i]].id = i
               /\ query'[pending'[i]].pc \in {"send", "wait", "expired", "gone"}
    <3>1. i # m.id /\ pending'[i] = pending[i] /\ pending[i] # None /\ pending[i] \in Query
      BY <1>2, <1>3, <2>1 DEF QueryInv
    <3>2. query[pending[i]].id = i
      BY <3>1 DEF QueryInv, PendingIsWanted
    <3>3. pending[i] # p
      BY <1>6, <2>1, <3>1, <3>2
    <3> QED
      BY <1>5, <3>1, <3>3 DEF QueryInv, PendingIsWanted, Kept
  <2>2. ASSUME NEW q \in Query, query'[q].pc = "wait" PROVE pending'[query'[q].id] = q
    <3>1. q # p /\ Kept(q)
      BY <1>5, <2>2, NoneAssumption
    <3>2. query[q].pc = "wait" /\ pending[query[q].id] = q /\ query[q].id \in CommandId
      BY <2>2, <3>1 DEF QueryInv, PendingIsWanted, Started, Kept
    <3>3. query[q].id # m.id
      BY <3>1, <3>2 DEF p
    <3> QED
      BY <1>3, <3>1, <3>2, <3>3 DEF QueryInv, Kept
  <2> QED
    BY <2>1, <2>2 DEF PendingIsWanted
<1> QED
  BY <1>5, <1>7, <1>8, <1>9, <1>10 DEF QueryInv

(* A sender that another query takes over, or that is taken out, costs the query
   it belonged to its wait, and no other query anything. *)
LEMMA BereftEffect ==
  ASSUME QueryInv, NEW i \in CommandId
  PROVE  /\ Bereft(i) \in [Query -> QueryRecord]
         /\ \A q \in Query :
              /\ Bereft(i)[q].id = query[q].id /\ Bereft(i)[q].answer = query[q].answer
              /\ query[q].pc # "wait" => Bereft(i)[q] = query[q]
              /\ query[q].pc = "wait" =>
                   Bereft(i)[q].pc = IF query[q].id = i THEN "failed" ELSE "wait"
<1>1. \A q \in Query : query[q].pc = "wait" => pending[query[q].id] = q /\ query[q].id \in CommandId
  BY DEF QueryInv, PendingIsWanted, Started
<1>2. CASE pending[i] = None \/ query[pending[i]].pc # "wait"
  <2>1. Bereft(i) = query
    BY <1>2 DEF Bereft
  <2> QED
    BY <1>1, <1>2, <2>1, NoneAssumption DEF QueryInv
<1>3. CASE pending[i] # None /\ query[pending[i]].pc = "wait"
  <2> DEFINE p == pending[i]
  <2>1. p \in Query /\ query[p] \in QueryRecord /\ query[p].id = i
    BY <1>3 DEF QueryInv, PendingIsWanted
  <2>2. Bereft(i) = [query EXCEPT ![p].pc = "failed"]
    BY <1>3 DEF Bereft
  <2> HIDE DEF p
  <2>3. Bereft(i) \in [Query -> QueryRecord]
    BY <2>1, <2>2 DEF QueryInv, QueryRecord
  <2>4. \A q \in Query \ {p} : Bereft(i)[q] = query[q]
    BY <2>1, <2>2 DEF QueryInv
  <2>5. /\ Bereft(i)[p].id = query[p].id /\ Bereft(i)[p].answer = query[p].answer
        /\ Bereft(i)[p].pc = "failed"
    BY <2>1, <2>2 DEF QueryInv, QueryRecord
  <2>6. query[p].pc = "wait" /\ \A q \in Query : query[q].pc = "wait" /\ query[q].id = i => q = p
    BY <1>1, <1>3 DEF p
  <2> QED
    BY <2>1, <2>3, <2>4, <2>5, <2>6
<1> QED
  BY <1>2, <1>3

LEMMA BeginQueryStep ==
  ASSUME TypeInv, QueryInv, NEW q \in Query, NEW n \in Node, NEW i \in CommandId,
         BeginQuery(q, n, i)
  PROVE  QueryInv'
<1>1. query[q].pc = "new" /\ held = Free
  BY DEF BeginQuery
<1>2. \A p \in Query : query[p].pc # "send"
  BY <1>1 DEF QueryInv, Sending
<1>3. \A j \in CommandId : pending[j] # q
  BY <1>1, NoneAssumption DEF QueryInv, PendingIsWanted
<1>4. CASE nodes[n] = None
  <2>1. query' = [query EXCEPT ![q].pc = "failed"] /\ pending' = pending
    BY <1>4 DEF BeginQuery
  <2>2. query' \in [Query -> QueryRecord] /\ query'[q].pc = "failed"
    BY <2>1 DEF QueryInv, QueryRecord
  <2>3. \A p \in Query \ {q} : query'[p] = query[p]
    BY <2>1 DEF QueryInv
  <2>4. Sending' /\ Started' /\ PendingIsWanted'
    BY <1>2, <1>3, <2>1, <2>2, <2>3 DEF QueryInv, Sending, Started, PendingIsWanted
  <2> QED
    BY <2>1, <2>2, <2>4 DEF QueryInv
<1>5. CASE nodes[n] # None
  <2>1. /\ query' = [Bereft(i) EXCEPT ![q] = [pc |-> "send", id |-> i, answer |-> None]]
        /\ pending' = [pending EXCEPT ![i] = q]
        /\ held'.by = q
    BY <1>5 DEF BeginQuery
  <2>2. held' # Free
    BY <2>1, NoneAssumption DEF Free
  <2>3. query' \in [Query -> QueryRecord] /\ query'[q] = [pc |-> "send", id |-> i, answer |-> None]
    BY <2>1, BereftEffect DEF QueryRecord
  <2>4. \A p \in Query \ {q} : query'[p] = Bereft(i)[p]
    BY <2>1, BereftEffect
  <2>5. pending' \in [CommandId -> Query \cup {None}]
    BY <2>1 DEF QueryInv
  <2>6. Sending'
    BY <1>2, <2>1, <2>2, <2>3, <2>4, BereftEffect DEF QueryInv, Sending
  <2>7. Started'
    BY <2>3, <2>4, BereftEffect DEF QueryInv, Started
  <2>8. PendingIsWanted'
    <3>1. ASSUME NEW j \in CommandId, pending'[j] # None
          PROVE  /\ query'[pending'[j]].id = j
                 /\ query'[pending'[j]].pc \in {"send", "wait", "expired", "gone"}
      <4>1. CASE j = i
        BY <2>1, <2>3, <4>1 DEF QueryInv
      <4>2. CASE j # i
        <5>1. pending'[j] = pending[j] /\ pending[j] \in Query \ {q}
          BY <1>3, <2>1, <3>1, <4>2 DEF QueryInv
        <5>2. /\ query[pending[j]].id = j
              /\ query[pending[j]].pc \in {"send", "wait", "expired", "gone"}
          BY <5>1, NoneAssumption DEF QueryInv, PendingIsWanted
        <5> QED
          BY <2>4, <4>2, <5>1, <5>2, BereftEffect
      <4> QED
        BY <4>1, <4>2
    <3>2. ASSUME NEW p \in Query, query'[p].pc = "wait" PROVE pending'[query'[p].id] = p
      <4>1. p # q /\ query[p].pc = "wait" /\ query[p].id # i /\ query'[p].id = query[p].id
        BY <2>3, <2>4, <3>2, BereftEffect
      <4>2. pending[query[p].id] = p /\ query[p].id \in CommandId
        BY <4>1 DEF QueryInv, PendingIsWanted, Started
      <4> QED
        BY <2>1, <4>1, <4>2 DEF QueryInv
    <3> QED
      BY <3>1, <3>2 DEF PendingIsWanted
  <2> QED
    BY <2>3, <2>5, <2>6, <2>7, <2>8 DEF QueryInv
<1> QED
  BY <1>4, <1>5

(* The query that is being sent is the only one. *)
LEMMA OneSends ==
  ASSUME QueryInv, NEW q \in Query, query[q].pc = "send"
  PROVE  \A p \in Query \ {q} : query[p].pc # "send"
BY DEF QueryInv, Sending

LEMMA SendQueryStep ==
  ASSUME TypeInv, QueryInv, NEW q \in Query, SendQuery(q)
  PROVE  QueryInv'
<1> DEFINE pc == IF query[q].answer # None THEN "answered"
                 ELSE IF pending[query[q].id] = q THEN "wait" ELSE "failed"
<1>1. query[q].pc = "send" /\ query' = [query EXCEPT ![q].pc = pc] /\ pending' = pending
  BY DEF SendQuery
<1>2. query[q] \in QueryRecord /\ pc \in {"answered", "wait", "failed"}
  BY DEF QueryInv
<1>3. /\ query[q].id \in CommandId
      /\ pc = "wait" => pending[query[q].id] = q
      /\ pc # "wait" => pending[query[q].id] # q
  BY <1>1 DEF QueryInv, Sending
<1> HIDE DEF pc
<1>4. /\ query' \in [Query -> QueryRecord] /\ query'[q].pc = pc /\ query'[q].id = query[q].id
      /\ \A p \in Query \ {q} : query'[p] = query[p]
  BY <1>1, <1>2 DEF QueryInv, QueryRecord
<1>5. Sending'
  BY <1>1, <1>2, <1>4, OneSends DEF Sending
<1>6. Started'
  BY <1>3, <1>4 DEF QueryInv, Started
<1>7. PendingIsWanted'
  BY <1>1, <1>3, <1>4 DEF QueryInv, PendingIsWanted
<1> QED
  BY <1>1, <1>4, <1>5, <1>6, <1>7 DEF QueryInv

LEMMA SendQueryFailsStep ==
  ASSUME TypeInv, QueryInv, NEW q \in Query, SendQueryFails(q)
  PROVE  QueryInv'
<1>1. /\ query[q].pc = "send" /\ query' = [query EXCEPT ![q].pc = "failed"]
      /\ pending' = [pending EXCEPT ![query[q].id] = None]
  BY DEF SendQueryFails
<1>2. query[q].id \in CommandId /\ pending[query[q].id] \in {q, None}
  BY <1>1 DEF QueryInv, Sending
<1>3. /\ query' \in [Query -> QueryRecord] /\ query'[q].pc = "failed"
      /\ \A p \in Query \ {q} : query'[p] = query[p]
  BY <1>1 DEF QueryInv, QueryRecord
<1>4. pending' \in [CommandId -> Query \cup {None}]
  BY <1>1 DEF QueryInv
<1>5. Sending' /\ Started'
  BY <1>1, <1>3, OneSends DEF QueryInv, Sending, Started
<1>6. PendingIsWanted'
  BY <1>1, <1>2, <1>3, NoneAssumption DEF QueryInv, PendingIsWanted, Started
<1> QED
  BY <1>3, <1>4, <1>5, <1>6 DEF QueryInv

LEMMA TimeOutStep ==
  ASSUME TypeInv, QueryInv, NEW q \in Query, TimeOut(q)
  PROVE  QueryInv'
<1>1. query[q].pc = "wait" /\ query' = [query EXCEPT ![q].pc = "expired"]
  BY DEF TimeOut
<1>2. /\ query' \in [Query -> QueryRecord] /\ query'[q].pc = "expired"
      /\ query'[q].id = query[q].id
      /\ \A p \in Query \ {q} : query'[p] = query[p]
  BY <1>1 DEF QueryInv, QueryRecord
<1>3. pending' = pending /\ held' = held
  BY DEF TimeOut
<1> QED
  BY <1>1, <1>2, <1>3 DEF QueryInv, Sending, Started, PendingIsWanted

LEMMA GiveUpStep ==
  ASSUME TypeInv, QueryInv, NEW q \in Query, GiveUp(q)
  PROVE  QueryInv'
<1> DEFINE i == query[q].id
<1>1. /\ query[q].pc = "expired" /\ query' = [Bereft(i) EXCEPT ![q].pc = "failed"]
      /\ pending' = [pending EXCEPT ![i] = None] /\ held' = held
  BY DEF GiveUp
<1>2. i \in CommandId
  BY <1>1 DEF QueryInv, Started
<1>3. /\ query' \in [Query -> QueryRecord] /\ query'[q].pc = "failed"
      /\ \A p \in Query \ {q} : query'[p] = Bereft(i)[p]
  BY <1>1, <1>2, BereftEffect DEF QueryRecord
<1> HIDE DEF i
<1>4. pending' \in [CommandId -> Query \cup {None}]
  BY <1>1 DEF QueryInv
<1>5. Sending'
  BY <1>1, <1>2, <1>3, <1>4, BereftEffect, NoneAssumption DEF QueryInv, Sending
<1>6. Started'
  BY <1>2, <1>3, BereftEffect DEF QueryInv, Started
<1>7. PendingIsWanted'
  <2>1. ASSUME NEW j \in CommandId, pending'[j] # None
        PROVE  /\ query'[pending'[j]].id = j
               /\ query'[pending'[j]].pc \in {"send", "wait", "expired", "gone"}
    <3>1. j # i /\ pending'[j] = pending[j] /\ pending[j] # None /\ pending[j] \in Query
      BY <1>1, <1>2, <2>1 DEF QueryInv
    <3>2. /\ query[pending[j]].id = j
          /\ query[pending[j]].pc \in {"send", "wait", "expired", "gone"}
      BY <3>1 DEF QueryInv, PendingIsWanted
    <3>3. pending[j] # q
      BY <3>1, <3>2 DEF i
    <3> QED
      BY <1>2, <1>3, <3>1, <3>2, <3>3, BereftEffect
  <2>2. ASSUME NEW p \in Query, query'[p].pc = "wait" PROVE pending'[query'[p].id] = p
    <3>1. p # q /\ query[p].pc = "wait" /\ query[p].id # i /\ query'[p].id = query[p].id
      BY <1>2, <1>3, <2>2, BereftEffect
    <3>2. pending[query[p].id] = p /\ query[p].id \in CommandId
      BY <3>1 DEF QueryInv, PendingIsWanted, Started
    <3> QED
      BY <1>1, <3>1, <3>2 DEF QueryInv
  <2> QED
    BY <2>1, <2>2 DEF PendingIsWanted
<1> QED
  BY <1>3, <1>4, <1>5, <1>6, <1>7 DEF QueryInv

LEMMA AbandonStep ==
  ASSUME TypeInv, QueryInv, NEW q \in Query, Abandon(q)
  PROVE  QueryInv'
<1>1. /\ query' = [query EXCEPT ![q].pc = "gone"] /\ pending' = pending
      /\ query[q].pc # "send" => held' = held
  BY DEF Abandon
<1>2. /\ query' \in [Query -> QueryRecord] /\ query'[q].pc = "gone"
      /\ query'[q].id = query[q].id
      /\ \A p \in Query \ {q} : query'[p] = query[p]
  BY <1>1 DEF QueryInv, QueryRecord
<1>3. Sending'
  BY <1>1, <1>2, OneSends DEF QueryInv, Sending
<1>4. Started' /\ PendingIsWanted'
  BY <1>1, <1>2 DEF QueryInv, Started, PendingIsWanted
<1> QED
  BY <1>1, <1>2, <1>3, <1>4 DEF QueryInv

LEMMA QueriesStep == TypeInv /\ QueryInv /\ [Next]_vars => QueryInv'
<1> SUFFICES ASSUME TypeInv, QueryInv, [Next]_vars PROVE QueryInv'
  OBVIOUS
<1>1. CASE \E q \in Query, n \in Node, i \in CommandId : BeginQuery(q, n, i)
  BY <1>1, BeginQueryStep
<1>2. CASE \E q \in Query :
             SendQuery(q) \/ SendQueryFails(q) \/ TimeOut(q) \/ GiveUp(q) \/ Abandon(q)
  BY <1>2, SendQueryStep, SendQueryFailsStep, TimeOutStep, GiveUpStep, AbandonStep
<1>3. CASE \E c \in Conn : HandleAnswer(c)
  BY <1>3, AnswerStep
<1>4. CASE /\ UNCHANGED <<pending, query>>
           /\ held' = held \/ \A q \in Query : query[q].pc # "send"
  BY <1>4 DEF QueryInv, Sending, Started, PendingIsWanted
<1>5. CASE SendCommand \/ AbandonCommand
  <2>1. \A q \in Query : query[q].pc # "send"
    BY <1>5, NoneAssumption DEF QueryInv, Sending, SendCommand, AbandonCommand
  <2> QED
    BY <1>4, <1>5, <2>1 DEF SendCommand, AbandonCommand
<1>6. CASE \E N \in (SUBSET Node) \ {{}}, r \in Rule, on \in BOOLEAN : BeginCommand(N, r, on)
  <2>1. \A q \in Query : query[q].pc # "send"
    BY <1>6 DEF QueryInv, Sending, BeginCommand
  <2> QED
    BY <1>4, <1>6, <2>1 DEF BeginCommand
<1> QED
  BY <1>1, <1>2, <1>3, <1>4, <1>5, <1>6
  DEF Next, vars, ClientStep, Connect, SendReport, ReportFails, ObeyRule, AnswerQuery,
      ClientNotices, LocalEdit, NodeRestart, HandlerStep, Register, HandleReport,
      HandlerNotices, Cleanup, Break

-----------------------------------------------------------------------------
(* The nodes, the handlers and the registry. *)

LEMMA OrdersAreLists ==
  ASSUME NEW N \in SUBSET Node, N # {}, NEW s \in Orders(N)
  PROVE  s \in Seq(Node) /\ s # <<>> /\ \A j \in DOMAIN s : s[j] \in N
<1>1. Cardinality(N) \in Nat
  BY NodeAssumption, FS_Subset, FS_CardinalityType
<1>2. s \in [1 .. Cardinality(N) -> N] /\ \A n \in N : \E j \in DOMAIN s : s[j] = n
  BY DEF Orders
<1>3. s \in Seq(Node) /\ Len(s) = Cardinality(N)
  BY <1>1, <1>2
<1>4. Cardinality(N) # 0
  BY NodeAssumption, FS_Subset, FS_EmptySet
<1>5. s # <<>>
  BY <1>3, <1>4
<1> QED
  BY <1>2, <1>3, <1>5

HeldOK ==
  held = Free \/ /\ held \in [to : Seq(Node), msg : DownMessage, by : Query \cup {None}]
                 /\ held.to # <<>> /\ \A j \in DOMAIN held.to : nodes[held.to[j]] # None

LEMMA HeldStep == TypeInv /\ [Next]_vars => HeldOK'
<1> SUFFICES ASSUME TypeInv, [Next]_vars PROVE HeldOK'
  OBVIOUS
<1>1. CASE \E N \in (SUBSET Node) \ {{}}, r \in Rule, on \in BOOLEAN : BeginCommand(N, r, on)
  <2> PICK N \in (SUBSET Node) \ {{}}, r \in Rule, on \in BOOLEAN : BeginCommand(N, r, on)
    BY <1>1
  <2>1. PICK s \in Orders(N) :
          held' = [to |-> s, msg |-> [type |-> "rule", rule |-> r, on |-> on], by |-> None]
    BY DEF BeginCommand
  <2>2. [type |-> "rule", rule |-> r, on |-> on] \in DownMessage
    BY DEF DownMessage
  <2>3. nodes' = nodes /\ \A n \in N : nodes[n] # None
    BY DEF BeginCommand
  <2>4. N \in SUBSET Node /\ N # {}
    OBVIOUS
  <2>5. s \in Seq(Node) /\ s # <<>> /\ \A j \in DOMAIN s : s[j] \in N
    BY <2>4, OrdersAreLists
  <2> QED
    BY <2>1, <2>2, <2>3, <2>5 DEF HeldOK
<1>2. CASE SendCommand
  <2>1. /\ held \in [to : Seq(Node), msg : DownMessage, by : Query \cup {None}]
        /\ held.to # <<>> /\ \A j \in DOMAIN held.to : nodes[held.to[j]] # None
        /\ nodes' = nodes
    BY <1>2 DEF TypeInv, TypeOK, SendCommand, Free
  <2>2. CASE Len(held.to) = 1
    BY <1>2, <2>2 DEF SendCommand, HeldOK
  <2>3. CASE Len(held.to) # 1
    <3>1. held' = [held EXCEPT !.to = Tail(@)]
      BY <1>2, <2>3 DEF SendCommand
    <3>2. held.to \in Seq(Node) /\ Len(held.to) \in Nat /\ Len(held.to) > 1
      <4>1. held.to \in Seq(Node)
        BY <2>1
      <4>2. Len(held.to) \in Nat \ {0}
        BY <2>1, <4>1, EmptySeq
      <4>3. \A k \in Nat \ {0} : k # 1 => k \in Nat /\ k > 1
        OBVIOUS
      <4> QED
        BY <2>3, <4>1, <4>2, <4>3
    <3> DEFINE rest == Tail(held.to)
    <3>3. /\ rest \in Seq(Node) /\ Len(rest) = Len(held.to) - 1
          /\ \A j \in 1 .. Len(rest) : rest[j] = held.to[j + 1]
      BY <2>1, <3>2, HeadTailProperties
    <3> HIDE DEF rest
    <3>4. rest # <<>> /\ DOMAIN rest = 1 .. Len(rest)
      <4>1. Len(rest) # 0
        BY <3>2, <3>3
      <4>2. rest # <<>>
        BY <4>1, EmptySeq
      <4> QED
        BY <3>3, <4>2, LenProperties
    <3>5. \A j \in DOMAIN rest : nodes[rest[j]] # None
      <4> SUFFICES ASSUME NEW j \in 1 .. Len(rest) PROVE nodes[held.to[j + 1]] # None
        BY <3>3, <3>4
      <4>1. j + 1 \in DOMAIN held.to
        BY <3>2, <3>3, LenProperties
      <4> QED
        BY <2>1, <4>1
    <3> QED
      BY <2>1, <3>1, <3>3, <3>4, <3>5 DEF HeldOK, rest
  <2> QED
    BY <2>2, <2>3
<1>3. CASE \E q \in Query, n \in Node, i \in CommandId : BeginQuery(q, n, i)
  <2> PICK q \in Query, n \in Node, i \in CommandId : BeginQuery(q, n, i)
    BY <1>3
  <2>1. CASE nodes[n] = None
    BY <2>1 DEF BeginQuery, HeldOK
  <2>2. CASE nodes[n] # None
    <3>1. held' = [to |-> <<n>>, msg |-> [type |-> "query", id |-> i, ask |-> q], by |-> q]
      BY <2>2 DEF BeginQuery
    <3>2. [type |-> "query", id |-> i, ask |-> q] \in DownMessage
      BY DEF DownMessage
    <3>3. nodes' = nodes /\ <<n>> \in Seq(Node) /\ <<n>> # <<>>
          /\ \A j \in DOMAIN <<n>> : <<n>>[j] = n
      BY DEF BeginQuery
    <3> QED
      BY <2>2, <3>1, <3>2, <3>3 DEF HeldOK
  <2> QED
    BY <2>1, <2>2
<1>4. CASE held' = held /\ (nodes' = nodes \/ held = Free)
  BY <1>4 DEF TypeInv, TypeOK, HeldOK
<1>5. CASE held' = Free
  BY <1>5 DEF HeldOK
<1> QED
  BY <1>1, <1>2, <1>3, <1>4, <1>5
  DEF Next, vars, ClientStep, Connect, SendReport, ReportFails, ObeyRule, AnswerQuery,
      ClientNotices, LocalEdit, NodeRestart, HandlerStep, Register, HandleReport, HandleAnswer,
      HandlerNotices, Cleanup,
      Break, AbandonCommand, SendQuery, SendQueryFails, TimeOut, GiveUp, Abandon

NodesOK ==
  /\ load \in Loads
  /\ rules \in [Node -> SUBSET Rule]
  /\ client \in [Node -> [pc : {"retry", "report", "read"}, conn : 0 .. MaxConn]]
  /\ handler \in [Conn -> {"none", "register", "loop", "cleanup", "done"}]
  /\ nodes \in [Node -> {None} \cup [conn : 1 .. MaxConn, rules : SUBSET Rule]]
  /\ dirty \subseteq Node /\ met \subseteq Conn

LEMMA NodesStep == TypeInv /\ [Next]_vars => NodesOK' /\ Attached'
<1> SUFFICES ASSUME TypeInv, [Next]_vars PROVE NodesOK' /\ Attached'
  OBVIOUS
<1>0. NodesOK /\ Attached /\ LinkOK
  BY Links DEF TypeInv, TypeOK, NodesOK
<1>1. ASSUME NEW n \in Node, ClientStep(n) \/ LocalEdit(n) \/ NodeRestart(n)
      PROVE  NodesOK' /\ Attached'
  <2>1. CASE Connect(n)
    <3>1. client'[n] = [pc |-> "report", conn |-> client[n].conn + 1]
          /\ client[n].conn + 1 \in 1 .. MaxConn
          /\ \A m \in Node \ {n} : client'[m] = client[m]
      BY <1>0, <2>1, BoundAssumption DEF NodesOK, Connect
    <3>2. <<n, client[n].conn + 1>> \in Conn
      BY <3>1 DEF Conn
    <3>3. met' \subseteq Conn
      BY <1>0, <2>1, <3>2 DEF NodesOK, Connect, Alive
    <3> QED
      BY <1>0, <2>1, <3>1, <3>2, <3>3 DEF NodesOK, Attached, Connect
  <2>2. CASE SendReport(n) \/ ReportFails(n)
    <3>1. client' = [client EXCEPT ![n].pc = "read"] /\ (dirty' = dirty \/ dirty' = dirty \ {n})
      BY <2>2 DEF SendReport, ReportFails
    <3>2. /\ client' \in [Node -> [pc : {"retry", "report", "read"}, conn : 0 .. MaxConn]]
          /\ client'[n].pc = "read" /\ client'[n].conn = client[n].conn
          /\ \A m \in Node \ {n} : client'[m] = client[m]
      BY <1>0, <3>1 DEF NodesOK
    <3>3. NodesOK'
      BY <1>0, <2>2, <3>1, <3>2 DEF NodesOK, SendReport, ReportFails
    <3>4. client[n].pc = "report"
      BY <2>2 DEF SendReport, ReportFails
    <3>5. Attached'
      BY <1>0, <3>1, <3>2, <3>4 DEF Attached
    <3> QED
      BY <3>3, <3>5
  <2>3. CASE ObeyRule(n)
    <3> DEFINE m == Head(link[ConnOf(n)].down)
    <3>1. m \in DownMessage /\ m.type = "rule"
      BY <1>0, <2>3, ConnOfAttached, HeadDown DEF TypeInv, ObeyRule, Incoming
    <3>2. m.rule \in Rule
      BY <3>1 DEF DownMessage
    <3>3. \/ rules' = [rules EXCEPT ![n] = IF m.on THEN @ \cup {m.rule} ELSE @ \ {m.rule}]
          \/ rules' = rules
      BY <2>3 DEF ObeyRule
    <3> HIDE DEF m
    <3>4. rules' \in [Node -> SUBSET Rule]
      BY <1>0, <3>2, <3>3 DEF NodesOK
    <3> QED
      BY <1>0, <2>3, <3>4 DEF NodesOK, Attached, ObeyRule, Incoming
  <2>4. CASE AnswerQuery(n)
    BY <1>0, <2>4 DEF NodesOK, Attached, AnswerQuery
  <2>5. CASE ClientNotices(n)
    BY <1>0, <2>5 DEF NodesOK, Attached, ClientNotices
  <2>6. CASE LocalEdit(n)
    <3>1. rules' \in [Node -> SUBSET Rule]
      BY <1>0, <2>6, LoadAssumption DEF NodesOK, LocalEdit
    <3> QED
      BY <1>0, <2>6, <3>1 DEF NodesOK, Attached, LocalEdit
  <2>7. CASE NodeRestart(n)
    <3>1. rules' \in [Node -> SUBSET Rule]
      BY <1>0, <2>7, LoadAssumption DEF NodesOK, NodeRestart
    <3> QED
      BY <1>0, <2>7, <3>1 DEF NodesOK, Attached, NodeRestart
  <2> QED
    BY <1>1, <2>1, <2>2, <2>3, <2>4, <2>5, <2>6, <2>7 DEF ClientStep
<1>2. ASSUME NEW c \in Conn, HandlerStep(c) \/ Break(c)
      PROVE  NodesOK' /\ Attached'
  <2>0. c[1] \in Node /\ c[2] \in 1 .. MaxConn
    BY DEF Conn
  <2>1. CASE Register(c)
    BY <1>0, <2>0, <2>1 DEF NodesOK, Attached, Register
  <2>2. CASE HandleReport(c)
    <3>1. Head(link[c].up) \in UpMessage /\ Head(link[c].up).type = "report"
      BY <1>0, <2>2, HeadUp DEF HandleReport, Arrived
    <3>2. Head(link[c].up).rules \subseteq Rule
      BY <3>1 DEF UpMessage
    <3>3. nodes' \in [Node -> {None} \cup [conn : 1 .. MaxConn, rules : SUBSET Rule]]
      BY <1>0, <2>0, <2>2, <3>2 DEF NodesOK, HandleReport
    <3> QED
      BY <1>0, <2>2, <3>3 DEF NodesOK, Attached, HandleReport
  <2>3. CASE HandleAnswer(c)
    BY <1>0, <2>3 DEF NodesOK, Attached, HandleAnswer
  <2>4. CASE HandlerNotices(c)
    BY <1>0, <2>4 DEF NodesOK, Attached, HandlerNotices
  <2>5. CASE Cleanup(c)
    BY <1>0, <2>0, <2>5 DEF NodesOK, Attached, Cleanup
  <2>6. CASE Break(c)
    BY <1>0, <2>6 DEF NodesOK, Attached, Break
  <2> QED
    BY <1>2, <2>1, <2>2, <2>3, <2>4, <2>5, <2>6 DEF HandlerStep
<1>3. CASE UNCHANGED <<load, rules, client, handler, nodes, dirty, met>>
  BY <1>0, <1>3 DEF NodesOK, Attached
<1> QED
  BY <1>1, <1>2, <1>3
  DEF Next, vars, BeginCommand, SendCommand, AbandonCommand, BeginQuery, SendQuery,
      SendQueryFails, TimeOut, GiveUp, Abandon

-----------------------------------------------------------------------------
LEMMA ManagerInvariant == Spec => [](TypeInv /\ QueryInv)
<1>1. TypeInv /\ PendingIsWanted => QueryInv
  BY DEF TypeInv, TypeOK, QueryInv, QueryRecord
<1>2. TypeInv /\ QueryInv /\ [Next]_vars => TypeInv'
  <2> SUFFICES ASSUME TypeInv, QueryInv, [Next]_vars PROVE TypeInv'
    OBVIOUS
  <2>1. LinkOK' /\ QueryInv' /\ HeldOK' /\ NodesOK' /\ Attached'
    BY LinksStep, QueriesStep, HeldStep, NodesStep
  <2> QED
    BY <2>1
    DEF TypeInv, TypeOK, LinkOK, Channel, Fits, QueryInv, QueryRecord, HeldOK, NodesOK
<1> QED
  BY <1>1, <1>2, ManagerInit, QueriesStep, PTL DEF Spec

(* Nodes, connections, registry, queries and the holder of the registry keep
   their types; whom a command is sent to is in the registry until it is sent. *)
THEOREM ManagerTypes == Spec => []TypeOK
<1>1. TypeInv => TypeOK
  BY DEF TypeInv
<1> QED
  BY <1>1, ManagerInvariant, PTL

(* The pending map holds the queries that can still be answered, and no others,
   unless their client left: through timeouts, late answers and ids that coincide. *)
THEOREM PendingQueriesAreWanted == Spec => []PendingIsWanted
<1>1. QueryInv => PendingIsWanted
  BY DEF QueryInv
<1> QED
  BY <1>1, ManagerInvariant, PTL

-----------------------------------------------------------------------------
(* Handlers start with their connections, and run on while these stand. *)
HandlersFollow ==
  \A c \in Conn :
    /\ c[2] > client[c[1]].conn => handler[c] = "none"
    /\ link[c].open => handler[c] \in {"register", "loop"}

(* The handlers of a node that have not ended are one, or each has met another. *)
Apart == \A c \in Conn \ met : c \in Alive(c[1]) => Alive(c[1]) = {c}

RegistryInv == HandlersFollow /\ Apart /\ RegistryExact

(* No connection opens and no handler starts but with Connect. *)
LEMMA FollowStep ==
  ASSUME TypeInv, RegistryInv, [Next]_vars
  PROVE  HandlersFollow'
<1>0. /\ NodesOK /\ LinkOK /\ Attached
      /\ \A c \in Conn : c[1] \in Node /\ c[2] \in 1 .. MaxConn /\ c = <<c[1], c[2]>>
  BY Links DEF TypeInv, TypeOK, NodesOK, Conn
<1>1. CASE \E n \in Node : Connect(n)
  <2> PICK n \in Node : Connect(n)
    BY <1>1
  <2> DEFINE new == <<n, client[n].conn + 1>>
  <2>1. /\ client'[n].conn = client[n].conn + 1 /\ client[n].conn + 1 \in 1 .. MaxConn
        /\ client[n].conn \in Nat
        /\ \A m \in Node \ {n} : client'[m] = client[m]
    BY <1>0, BoundAssumption DEF NodesOK, Connect
  <2>2. /\ new \in Conn /\ handler'[new] = "register"
        /\ \A c \in Conn \ {new} : handler'[c] = handler[c] /\ link'[c] = link[c]
    BY <1>0, <2>1 DEF NodesOK, LinkOK, Conn, Connect
  <2> SUFFICES ASSUME NEW c \in Conn
               PROVE  /\ c[2] > client'[c[1]].conn => handler'[c] = "none"
                      /\ link'[c].open => handler'[c] \in {"register", "loop"}
    BY DEF HandlersFollow
  <2>3. CASE c = new
    BY <2>1, <2>2, <2>3
  <2>4. CASE c # new
    <3>1. c[2] > client'[c[1]].conn => c[2] > client[c[1]].conn
      BY <1>0, <2>1 DEF NodesOK
    <3> QED
      BY <2>2, <2>4, <3>1 DEF RegistryInv, HandlersFollow
  <2> QED
    BY <2>3, <2>4
<1>2. ASSUME /\ \A n \in Node : client'[n].conn = client[n].conn
             /\ \A c \in Conn :
                  /\ handler'[c] = handler[c] \/ handler[c] # "none"
                  /\ link'[c].open =>
                       /\ link[c].open
                       /\ handler'[c] = handler[c] \/ handler'[c] \in {"register", "loop"}
      PROVE  HandlersFollow'
  BY <1>0, <1>2 DEF RegistryInv, HandlersFollow
<1>3. CASE \E n \in Node : SendReport(n) \/ ReportFails(n) \/ ObeyRule(n) \/ ClientNotices(n)
                           \/ NodeRestart(n)
  <2> PICK n \in Node : SendReport(n) \/ ReportFails(n) \/ ObeyRule(n) \/ ClientNotices(n)
                        \/ NodeRestart(n)
    BY <1>3
  <2>1. /\ handler' = handler
        /\ \E pc \in {"read", "report", "retry"} : client' = [client EXCEPT ![n].pc = pc]
    BY DEF SendReport, ReportFails, ObeyRule, ClientNotices, NodeRestart
  <2>2. \A m \in Node : client'[m].conn = client[m].conn
    BY <1>0, <2>1 DEF NodesOK
  <2>3. \A c \in Conn : link'[c].open => link[c].open
    <3>1. CASE SendReport(n) \/ ReportFails(n)
      BY <1>0, <3>1 DEF LinkOK, Channel, SendReport, Reported, ReportFails
    <3>2. CASE ObeyRule(n) \/ ClientNotices(n)
      <4>1. \E s : link' = [link EXCEPT ![ConnOf(n)].down = s]
        BY <3>2 DEF ObeyRule, Read, ClientNotices
      <4> QED
        BY <1>0, <4>1, OneDirection
    <3>3. CASE NodeRestart(n)
      BY <1>0, <3>3 DEF LinkOK, NodeRestart
    <3> QED
      BY <3>1, <3>2, <3>3
  <2> QED
    BY <1>2, <2>1, <2>2, <2>3
<1>4. CASE /\ client' = client /\ handler' = handler
           /\ \A c \in Conn : link'[c].open => link[c].open
  BY <1>2, <1>4
<1>5. CASE \E n \in Node : AnswerQuery(n)
  <2>1. \A c \in Conn : link'[c].open => link[c].open
    BY <1>0, <1>5 DEF LinkOK, AnswerQuery
  <2> QED
    BY <1>4, <1>5, <2>1 DEF AnswerQuery
<1>6. CASE \E c \in Conn : Register(c) \/ HandlerNotices(c) \/ Cleanup(c)
  <2> PICK c \in Conn : Register(c) \/ HandlerNotices(c) \/ Cleanup(c)
    BY <1>6
  <2>1. /\ client' = client /\ handler[c] # "none"
        /\ \A d \in Conn \ {c} : handler'[d] = handler[d]
        /\ \A d \in Conn : link'[d].open => link[d].open
    <3>1. /\ client' = client /\ handler[c] # "none"
          /\ \A d \in Conn \ {c} : handler'[d] = handler[d]
      BY <1>0 DEF NodesOK, Register, HandlerNotices, Cleanup
    <3>2. link' = link \/ link' = [link EXCEPT ![c].up = <<>>]
      BY DEF Register, HandlerNotices, Cleanup
    <3> QED
      BY <1>0, <3>1, <3>2, OneDirection
  <2>2. link'[c].open => handler'[c] = "loop"
    <3>1. CASE Register(c)
      BY <1>0, <3>1 DEF NodesOK, Register
    <3>2. CASE HandlerNotices(c)
      BY <1>0, <2>1, <3>2 DEF HandlerNotices
    <3>3. CASE Cleanup(c)
      BY <2>1, <3>3 DEF Cleanup, RegistryInv, HandlersFollow
    <3> QED
      BY <3>1, <3>2, <3>3
  <2> QED
    BY <1>2, <2>1, <2>2
<1>7. CASE \E c \in Conn : HandleReport(c) \/ HandleAnswer(c) \/ Break(c)
  <2>1. \A c \in Conn : link'[c].open => link[c].open
    <3>1. CASE \E c \in Conn : HandleReport(c) \/ HandleAnswer(c)
      <4>1. \E c \in Conn : \E s : link' = [link EXCEPT ![c].up = s]
        BY <3>1 DEF HandleReport, HandleAnswer, Taken
      <4> QED
        BY <1>0, <4>1, OneDirection
    <3>2. CASE \E c \in Conn : Break(c)
      BY <1>0, <3>2 DEF LinkOK, Break
    <3> QED
      BY <1>7, <3>1, <3>2
  <2> QED
    BY <1>4, <1>7, <2>1 DEF HandleReport, HandleAnswer, Break
<1>8. CASE SendCommand \/ \E q \in Query : SendQuery(q)
  <2>1. \A c \in Conn : link'[c].open => link[c].open
    <3>1. link' = link \/ \E c, s : link' = [link EXCEPT ![c].down = s]
      BY <1>8 DEF SendCommand, SendQuery, Sent
    <3> QED
      BY <1>0, <3>1, OneDirection
  <2> QED
    BY <1>4, <1>8, <2>1 DEF SendCommand, SendQuery
<1>9. CASE UNCHANGED <<client, handler, link>>
  BY <1>4, <1>9
<1> QED
  BY <1>1, <1>3, <1>5, <1>6, <1>7, <1>8, <1>9
  DEF Next, vars, ClientStep, LocalEdit, HandlerStep, BeginCommand, AbandonCommand, BeginQuery,
      SendQueryFails, TimeOut, GiveUp, Abandon

(* Who is alone meets another when the node connects again, or never. *)
LEMMA ApartStep ==
  ASSUME TypeInv, RegistryInv, [Next]_vars
  PROVE  Apart'
<1>0. NodesOK /\ \A c \in Conn : c[1] \in Node
  BY DEF TypeInv, TypeOK, NodesOK, Conn
<1>1. CASE \E n \in Node : Connect(n)
  <2> PICK n \in Node : Connect(n)
    BY <1>1
  <2> DEFINE new == <<n, client[n].conn + 1>>
  <2>1. new \in Conn /\ new[1] = n
    BY <1>0, BoundAssumption DEF NodesOK, Conn, Connect
  <2>2. /\ handler' = [handler EXCEPT ![new] = "register"]
        /\ met' = IF Alive(n) = {} THEN met ELSE met \cup Alive(n) \cup {new}
    BY DEF Connect
  <2> HIDE DEF new
  <2>3. /\ Alive(n)' = Alive(n) \cup {new}
        /\ \A m \in Node \ {n} : Alive(m)' = Alive(m)
    BY <1>0, <2>1, <2>2 DEF NodesOK, Alive
  <2> SUFFICES ASSUME NEW c \in Conn, c \notin met', c \in Alive(c[1])'
               PROVE  Alive(c[1])' = {c}
    BY DEF Apart
  <2>4. CASE c[1] = n
    <3>1. Alive(n) = {}
      BY <2>2, <2>3, <2>4
    <3> QED
      BY <2>3, <2>4, <3>1
  <2>5. CASE c[1] # n
    <3>1. Alive(c[1])' = Alive(c[1]) /\ c \notin met
      BY <1>0, <2>2, <2>3, <2>5
    <3> QED
      BY <3>1 DEF RegistryInv, Apart
  <2> QED
    BY <2>4, <2>5
<1>2. ASSUME met' = met, \A c \in Conn : c \in Alive(c[1])' => c \in Alive(c[1])
      PROVE  Apart'
  <2> SUFFICES ASSUME NEW c \in Conn \ met, c \in Alive(c[1])' PROVE Alive(c[1])' = {c}
    BY <1>2 DEF Apart
  <2>1. Alive(c[1]) = {c}
    BY <1>2 DEF RegistryInv, Apart
  <2>2. \A d \in Alive(c[1])' : d \in Conn /\ d[1] = c[1]
    BY DEF Alive
  <2> QED
    BY <1>2, <2>1, <2>2
<1>3. CASE \E c \in Conn : Register(c) \/ HandlerNotices(c) \/ Cleanup(c)
  <2> PICK c \in Conn : Register(c) \/ HandlerNotices(c) \/ Cleanup(c)
    BY <1>3
  <2>1. /\ met' = met /\ handler[c] \in {"register", "loop", "cleanup"}
        /\ \A d \in Conn \ {c} : handler'[d] = handler[d]
    BY <1>0 DEF NodesOK, Register, HandlerNotices, Cleanup
  <2> QED
    BY <1>2, <2>1 DEF Alive
<1>4. CASE UNCHANGED <<handler, met>>
  BY <1>2, <1>4 DEF Alive
<1> QED
  BY <1>1, <1>3, <1>4
  DEF Next, vars, ClientStep, SendReport, ReportFails, ObeyRule, AnswerQuery, ClientNotices,
      LocalEdit, NodeRestart, HandlerStep, HandleReport, HandleAnswer, Break, BeginCommand,
      SendCommand, AbandonCommand, BeginQuery, SendQuery, SendQueryFails, TimeOut, GiveUp, Abandon

LEMMA ExactStep ==
  ASSUME TypeInv, RegistryInv, [Next]_vars
  PROVE  RegistryExact'
<1>0. /\ NodesOK
      /\ \A c \in Conn : c[1] \in Node /\ c[2] \in 1 .. MaxConn /\ c = <<c[1], c[2]>>
  BY DEF TypeInv, TypeOK, NodesOK, Conn
<1>1. CASE \E n \in Node : Connect(n)
  <2> PICK n \in Node : Connect(n)
    BY <1>1
  <2> DEFINE new == <<n, client[n].conn + 1>>
  <2>1. /\ new \in Conn /\ new[1] = n /\ new[2] = client[n].conn + 1 /\ client[n].conn \in Nat
        /\ handler' = [handler EXCEPT ![new] = "register"] /\ nodes' = nodes
        /\ met \subseteq met'
    BY <1>0, BoundAssumption DEF NodesOK, Conn, Connect
  <2> HIDE DEF new
  <2>2. handler[new] = "none" /\ handler'[new] = "register"
        /\ \A c \in Conn \ {new} : handler'[c] = handler[c]
    BY <1>0, <2>1 DEF RegistryInv, HandlersFollow, NodesOK
  <2> QED
    BY <1>0, <2>1, <2>2 DEF RegistryInv, RegistryExact, Listed
<1>2. CASE \E c \in Conn : Register(c) \/ Cleanup(c)
  <2> PICK c \in Conn : Register(c) \/ Cleanup(c)
    BY <1>2
  <2>1. /\ met' = met
        /\ handler[c] \in {"register", "cleanup"} /\ handler'[c] \in {"loop", "done"}
        /\ \A d \in Conn \ {c} : handler'[d] = handler[d]
        /\ handler'[c] = "loop" => nodes' = [nodes EXCEPT ![c[1]] = [conn |-> c[2], rules |-> {}]]
        /\ handler'[c] = "done" => nodes' = [nodes EXCEPT ![c[1]] = None]
    BY <1>0 DEF NodesOK, Register, Cleanup
  <2>2. [conn |-> c[2], rules |-> {}] # None
    <3>1. [conn |-> c[2], rules |-> {}] \in [conn : 1 .. MaxConn, rules : SUBSET Rule]
      BY <1>0
    <3> QED
      BY <3>1, NoneAssumption
  <2>3. /\ handler'[c] = "loop" => nodes'[c[1]] = [conn |-> c[2], rules |-> {}]
        /\ handler'[c] = "done" => nodes'[c[1]] = None
        /\ \A n \in Node \ {c[1]} : nodes'[n] = nodes[n]
    BY <1>0, <2>1 DEF NodesOK
  <2> SUFFICES ASSUME NEW d \in Conn
               PROVE  /\ Listed(d)' => handler'[d] \in {"loop", "cleanup"}
                      /\ handler'[d] \in {"loop", "cleanup"} => Listed(d)' \/ d \in met'
    BY DEF RegistryExact
  <2>4. CASE d[1] # c[1]
    <3>1. nodes'[d[1]] = nodes[d[1]] /\ handler'[d] = handler[d]
      BY <1>0, <2>1, <2>3, <2>4
    <3> QED
      BY <2>1, <3>1 DEF RegistryInv, RegistryExact, Listed
  <2>5. CASE d[1] = c[1] /\ d # c
    <3>1. ~Listed(d)'
      BY <1>0, <2>1, <2>3, <2>5 DEF Listed
    <3>2. d \notin met => handler[d] \notin {"loop", "cleanup"}
      BY <2>1, <2>5 DEF RegistryInv, Apart, Alive
    <3> QED
      BY <2>1, <2>5, <3>1, <3>2
  <2>6. CASE d = c
    BY <2>1, <2>2, <2>3, <2>6 DEF Listed
  <2> QED
    BY <2>4, <2>5, <2>6
<1>3. CASE \E c \in Conn : HandleReport(c)
  <2> PICK c \in Conn : HandleReport(c)
    BY <1>3
  <2>1. met' = met /\ handler' = handler
    BY DEF HandleReport
  <2>2. CASE nodes' = nodes
    BY <2>1, <2>2 DEF RegistryInv, RegistryExact, Listed
  <2>3. CASE nodes' # nodes
    <3> DEFINE R == Head(link[c].up).rules
    <3>1. nodes[c[1]] # None /\ nodes' = [nodes EXCEPT ![c[1]].rules = R]
      BY <2>3 DEF HandleReport
    <3> HIDE DEF R
    <3>2. nodes[c[1]] \in [conn : 1 .. MaxConn, rules : SUBSET Rule]
      BY <1>0, <3>1 DEF NodesOK
    <3>3. /\ \A n \in Node \ {c[1]} : nodes'[n] = nodes[n]
          /\ nodes'[c[1]].conn = nodes[c[1]].conn
      BY <1>0, <3>1, <3>2 DEF NodesOK
    <3>4. nodes'[c[1]] # None
      <4>1. Head(link[c].up) \in UpMessage /\ Head(link[c].up).type = "report"
        BY Links, HeadUp DEF TypeInv, HandleReport, Arrived
      <4>2. R \subseteq Rule
        BY <4>1 DEF UpMessage, R
      <4>3. nodes'[c[1]] \in [conn : 1 .. MaxConn, rules : SUBSET Rule]
        BY <1>0, <3>1, <3>2, <4>2 DEF NodesOK
      <4> QED
        BY <4>3, NoneAssumption
    <3> QED
      BY <1>0, <2>1, <3>1, <3>3, <3>4 DEF RegistryInv, RegistryExact, Listed
  <2> QED
    BY <2>2, <2>3
<1>4. CASE \E c \in Conn : HandlerNotices(c)
  <2> PICK c \in Conn : HandlerNotices(c)
    BY <1>4
  <2>1. /\ met' = met /\ nodes' = nodes
        /\ handler[c] = "loop" /\ handler'[c] = "cleanup"
        /\ \A d \in Conn \ {c} : handler'[d] = handler[d]
    BY <1>0 DEF NodesOK, HandlerNotices
  <2> QED
    BY <2>1 DEF RegistryInv, RegistryExact, Listed
<1>5. CASE UNCHANGED <<handler, nodes, met>>
  BY <1>5 DEF RegistryInv, RegistryExact, Listed
<1> QED
  BY <1>1, <1>2, <1>3, <1>4, <1>5
  DEF Next, vars, ClientStep, SendReport, ReportFails, ObeyRule, AnswerQuery, ClientNotices,
      LocalEdit, NodeRestart, HandlerStep, HandleAnswer, Break, BeginCommand, SendCommand,
      AbandonCommand, BeginQuery, SendQuery, SendQueryFails, TimeOut, GiveUp, Abandon

LEMMA RegistryStep ==
  ASSUME TypeInv, RegistryInv, [Next]_vars
  PROVE  RegistryInv'
BY FollowStep, ApartStep, ExactStep DEF RegistryInv

LEMMA RegistryInit == Init => RegistryInv
BY BoundAssumption
DEF Init, RegistryInv, HandlersFollow, Apart, Alive, RegistryExact, Listed, Conn, Down

(* In whatever order the handlers of a node register and clean up, by its name,
   no entry outlives its handler, and a handler that runs has its entry unless
   another one of the node was running beside it. *)
THEOREM RegistryIsExact == Spec => []RegistryExact
<1>1. RegistryInv => RegistryExact
  BY DEF RegistryInv
<1> QED
  BY <1>1, RegistryInit, RegistryStep, ManagerInvariant, PTL DEF Spec

-----------------------------------------------------------------------------
(* The last report of a node that is on its way, or the registry, has the rules
   of a node that has reported and whose connection stands. *)
Latest(s, j) == s[j].type = "report" /\ \A k \in DOMAIN s : k > j => s[k].type # "report"

Underway(n) ==
  LET up == link[ConnOf(n)].up IN
  \E j \in DOMAIN up : Latest(up, j) /\ up[j].rules = rules[n]

Delivered(n) ==
  LET up == link[ConnOf(n)].up IN
  /\ \A k \in DOMAIN up : up[k].type # "report"
  /\ handler[ConnOf(n)] = "loop"
  /\ nodes[n] = [conn |-> client[n].conn, rules |-> rules[n]]

Reporting(n) ==
  client[n].pc = "read" /\ link[ConnOf(n)].open /\ n \notin dirty /\ ConnOf(n) \notin met

ViewInv == \A n \in Node : Reporting(n) => Underway(n) \/ Delivered(n)

LEMMA TailKeepsLatest ==
  ASSUME NEW S, NEW s \in Seq(S), s # <<>>, NEW j \in DOMAIN s, Latest(s, j), j > 1
  PROVE  j - 1 \in DOMAIN Tail(s) /\ Latest(Tail(s), j - 1) /\ Tail(s)[j - 1] = s[j]
<1>1. /\ Len(s) \in Nat /\ DOMAIN s = 1 .. Len(s)
      /\ Tail(s) \in Seq(S) /\ Len(Tail(s)) = Len(s) - 1
      /\ \A i \in 1 .. Len(Tail(s)) : Tail(s)[i] = s[i + 1]
  BY LenProperties, HeadTailProperties
<1>2. DOMAIN Tail(s) = 1 .. Len(s) - 1
  BY <1>1, LenProperties
<1> DEFINE t == Tail(s)
<1> HIDE DEF t
<1>3. \A i \in 1 .. Len(s) - 1 : t[i] = s[i + 1]
  BY <1>1 DEF t
<1>4. j - 1 \in 1 .. Len(s) - 1 /\ t[j - 1] = s[j]
  BY <1>1, <1>3
<1>5. \A k \in 1 .. Len(s) - 1 : k > j - 1 => t[k].type # "report"
  BY <1>1, <1>3 DEF Latest
<1>6. DOMAIN t = 1 .. Len(s) - 1
  BY <1>2 DEF t
<1>7. Latest(t, j - 1)
  BY <1>4, <1>5, <1>6 DEF Latest
<1> QED
  BY <1>4, <1>6, <1>7 DEF t

LEMMA TailAfterLatest ==
  ASSUME NEW S, NEW s \in Seq(S), s # <<>>,
         \A k \in DOMAIN s : k > 1 => s[k].type # "report"
  PROVE  \A k \in DOMAIN Tail(s) : Tail(s)[k].type # "report"
<1>1. /\ Len(s) \in Nat /\ DOMAIN s = 1 .. Len(s)
      /\ Tail(s) \in Seq(S) /\ Len(Tail(s)) = Len(s) - 1
      /\ \A i \in 1 .. Len(Tail(s)) : Tail(s)[i] = s[i + 1]
  BY LenProperties, HeadTailProperties
<1>2. DOMAIN Tail(s) = 1 .. Len(s) - 1
  BY <1>1, LenProperties
<1> QED
  BY <1>1, <1>2

LEMMA AppendedReport ==
  ASSUME NEW S, NEW s \in Seq(S), NEW r \in S, r.type = "report"
  PROVE  \E j \in DOMAIN Append(s, r) : Latest(Append(s, r), j) /\ Append(s, r)[j] = r
<1> DEFINE t == Append(s, r)
           j == Len(s) + 1
<1>1. t \in Seq(S) /\ Len(t) = j /\ t[j] = r /\ Len(s) \in Nat
  BY AppendProperties, LenProperties
<1>2. DOMAIN t = 1 .. j
  BY <1>1, LenProperties
<1> HIDE DEF t, j
<1>3. j \in DOMAIN t /\ \A k \in DOMAIN t : ~(k > j)
  BY <1>1, <1>2 DEF j
<1>4. Latest(t, j)
  BY <1>1, <1>3 DEF Latest
<1> QED
  BY <1>1, <1>3, <1>4 DEF t

LEMMA AppendedAnswer ==
  ASSUME NEW S, NEW s \in Seq(S), NEW a \in S, a.type # "report"
  PROVE  /\ \A j \in DOMAIN s : Latest(s, j) =>
              /\ j \in DOMAIN Append(s, a) /\ Latest(Append(s, a), j)
              /\ Append(s, a)[j] = s[j]
         /\ (\A k \in DOMAIN s : s[k].type # "report") =>
              \A k \in DOMAIN Append(s, a) : Append(s, a)[k].type # "report"
<1> DEFINE t == Append(s, a)
<1>1. /\ t \in Seq(S) /\ Len(t) = Len(s) + 1 /\ t[Len(s) + 1] = a /\ Len(s) \in Nat
      /\ \A i \in 1 .. Len(s) : t[i] = s[i]
  BY AppendProperties, LenProperties
<1>2. DOMAIN t = 1 .. Len(s) + 1 /\ DOMAIN s = 1 .. Len(s)
  BY <1>1, LenProperties
<1> HIDE DEF t
<1>3. \A k \in DOMAIN t : (k \in DOMAIN s /\ t[k] = s[k]) \/ (k = Len(s) + 1 /\ t[k] = a)
  BY <1>1, <1>2
<1>4. ASSUME NEW j \in DOMAIN s, Latest(s, j)
      PROVE  j \in DOMAIN t /\ Latest(t, j) /\ t[j] = s[j]
  <2>1. j \in DOMAIN t /\ t[j] = s[j]
    BY <1>1, <1>2
  <2>2. \A k \in DOMAIN t : k > j => t[k].type # "report"
    BY <1>3, <1>4 DEF Latest
  <2> QED
    BY <1>4, <2>1, <2>2 DEF Latest
<1>5. ASSUME \A k \in DOMAIN s : s[k].type # "report"
      PROVE  \A k \in DOMAIN t : t[k].type # "report"
  BY <1>3, <1>5
<1> QED
  BY <1>4, <1>5 DEF t

(* A step that is not about a node leaves what it and the manager think of each
   other as it was, or ends the premise. *)
LEMMA ViewKept ==
  ASSUME TypeInv, NEW n \in Node, Reporting(n) => Underway(n) \/ Delivered(n),
         client'[n] = client[n], met \subseteq met',
         Reporting(n)' => /\ n \notin dirty /\ rules'[n] = rules[n] /\ nodes'[n] = nodes[n]
                          /\ link[ConnOf(n)].open
                          /\ link'[ConnOf(n)].up = link[ConnOf(n)].up
                          /\ handler[ConnOf(n)] = "loop" => handler'[ConnOf(n)] = "loop"
  PROVE  Reporting(n)' => Underway(n)' \/ Delivered(n)'
<1>1. ConnOf(n)' = ConnOf(n)
  BY DEF ConnOf
<1> QED
  BY <1>1 DEF Reporting, Underway, Delivered

LEMMA ClientView ==
  ASSUME TypeInv, ViewInv, NEW m \in Node, ClientStep(m) \/ LocalEdit(m) \/ NodeRestart(m)
  PROVE  ViewInv'
<1> SUFFICES ASSUME NEW n \in Node PROVE Reporting(n)' => Underway(n)' \/ Delivered(n)'
  BY DEF ViewInv
<1>0. LinkOK /\ NodesOK /\ Attached /\ (Reporting(n) => Underway(n) \/ Delivered(n))
  BY Links DEF TypeInv, TypeOK, NodesOK, ViewInv
<1>1. CASE n # m
  <2>1. /\ client'[n] = client[n] /\ rules'[n] = rules[n] /\ nodes' = nodes
        /\ (n \in dirty <=> n \in dirty') /\ met \subseteq met'
    BY <1>0, <1>1
    DEF NodesOK, ClientStep, Connect, SendReport, ReportFails, ObeyRule, AnswerQuery, ClientNotices,
        LocalEdit, NodeRestart
  <2>2. \A c \in Conn : c[1] # m => link'[c] = link[c] /\ handler'[c] = handler[c]
    BY <1>0
    DEF LinkOK, NodesOK, ConnOf, ClientStep, Connect, SendReport, Reported, ReportFails,
        ObeyRule, Read, AnswerQuery, ClientNotices, LocalEdit, NodeRestart
  <2>3. Reporting(n)' => ConnOf(n) \in Conn /\ ConnOf(n)[1] = n /\ ConnOf(n)' = ConnOf(n)
    BY <2>1, ConnOfAttached DEF TypeInv, Reporting, ConnOf
  <2>4. Reporting(n)' => link[ConnOf(n)].open /\ n \notin dirty
    BY <1>1, <2>1, <2>2, <2>3 DEF Reporting
  <2> QED
    BY <1>0, <1>1, <2>1, <2>2, <2>3, <2>4, ViewKept
<1>2. CASE n = m
  <2>1. CASE SendReport(n)
    <3> SUFFICES ASSUME Reporting(n)' PROVE Underway(n)'
      OBVIOUS
    <3> DEFINE c == ConnOf(n)
    <3>1. c \in Conn /\ c' = c /\ rules' = rules
      BY <1>0, <2>1, ConnOfAttached DEF TypeInv, NodesOK, SendReport, ConnOf
    <3>2. link[c].open /\ link'[c].up = Append(link[c].up, Report(n))
      BY <1>0, <2>1, <3>1 DEF LinkOK, Channel, SendReport, Reported, Reporting
    <3>3. link[c].up \in Seq(UpMessage) /\ Report(n) \in UpMessage
      BY <1>0, <3>1 DEF LinkOK, Channel, NodesOK, Report, UpMessage
    <3>4. Report(n).type = "report" /\ Report(n).rules = rules[n]
      BY DEF Report
    <3>5. \E j \in DOMAIN link'[c].up :
            Latest(link'[c].up, j) /\ link'[c].up[j] = Report(n)
      BY <3>2, <3>3, <3>4, AppendedReport
    <3> QED
      BY <3>1, <3>4, <3>5 DEF Underway
  <2>2. CASE AnswerQuery(n)
    <3> SUFFICES ASSUME Reporting(n)' PROVE Underway(n)' \/ Delivered(n)'
      OBVIOUS
    <3> DEFINE c == ConnOf(n)
               q == Head(link[c].down)
               answer == [type |-> "answer", id |-> q.id, ask |-> q.ask]
    <3>1. /\ c \in Conn /\ c' = c /\ link[c].down # <<>> /\ q.type = "query"
          /\ UNCHANGED <<rules, client, handler, nodes, dirty, met>>
      BY <1>0, <2>2, ConnOfAttached DEF TypeInv, AnswerQuery, Incoming, ConnOf
    <3>2. answer \in UpMessage
      BY <1>0, <3>1, HeadDown DEF DownMessage, UpMessage
    <3>3. answer.type # "report"
      OBVIOUS
    <3> HIDE DEF answer
    <3>4. link'[c] = [open |-> link[c].open, down |-> Tail(link[c].down),
                      up |-> IF link[c].open THEN Append(link[c].up, answer) ELSE link[c].up]
      BY <1>0, <2>2, <3>1 DEF LinkOK, AnswerQuery, answer
    <3>5. link[c].open /\ link'[c].up = Append(link[c].up, answer)
      BY <3>1, <3>4 DEF Reporting
    <3>6. link[c].up \in Seq(UpMessage)
      BY <1>0, <3>1 DEF LinkOK, Channel
    <3>7. Underway(n) \/ Delivered(n)
      BY <1>0, <3>1, <3>5 DEF Reporting
    <3>8. CASE Underway(n)
      BY <3>1, <3>2, <3>3, <3>5, <3>6, <3>8, AppendedAnswer DEF Underway
    <3>9. CASE Delivered(n)
      BY <3>1, <3>2, <3>3, <3>5, <3>6, <3>9, AppendedAnswer DEF Delivered
    <3> QED
      BY <3>7, <3>8, <3>9
  <2>3. CASE Connect(n) \/ ObeyRule(n) \/ ClientNotices(n) \/ NodeRestart(n)
    BY <1>0, <2>3
    DEF NodesOK, Connect, ObeyRule, ClientNotices, NodeRestart, Reporting
  <2>5. CASE ReportFails(n)
    BY <1>0, <2>5 DEF Attached, ReportFails, Reporting
  <2>4. CASE LocalEdit(n)
    BY <2>4 DEF LocalEdit, Reporting
  <2> QED
    BY <1>2, <2>1, <2>2, <2>3, <2>4, <2>5 DEF ClientStep
<1> QED
  BY <1>1, <1>2

LEMMA HandlerView ==
  ASSUME TypeInv, RegistryInv, ViewInv, NEW c \in Conn, HandlerStep(c) \/ Break(c)
  PROVE  ViewInv'
<1> SUFFICES ASSUME NEW n \in Node, Reporting(n)' PROVE Underway(n)' \/ Delivered(n)'
  BY DEF ViewInv
<1>0. LinkOK /\ NodesOK /\ Attached /\ (Reporting(n) => Underway(n) \/ Delivered(n))
  BY Links DEF TypeInv, TypeOK, NodesOK, ViewInv
<1>1. UNCHANGED <<rules, client, dirty, met>> /\ ConnOf(n)' = ConnOf(n) /\ ConnOf(n) \in Conn
      /\ ConnOf(n)[1] = n /\ n \notin dirty /\ ConnOf(n) \notin met
  BY ConnOfAttached
  DEF TypeInv, Reporting, ConnOf, HandlerStep, Register, HandleReport, HandleAnswer,
      HandlerNotices, Cleanup, Break
<1>2. c[1] \in Node /\ \A d \in Conn \ {c} : link'[d] = link[d] /\ handler'[d] = handler[d]
  BY <1>0
  DEF LinkOK, NodesOK, Conn, HandlerStep, Register, HandleReport, Taken, HandleAnswer,
      HandlerNotices, Cleanup, Break
<1>3. CASE c[1] # n
  <2>1. nodes'[n] = nodes[n]
    BY <1>0, <1>2, <1>3
    DEF NodesOK, HandlerStep, Register, HandleReport, HandleAnswer, HandlerNotices, Cleanup, Break
  <2>2. ConnOf(n) # c
    BY <1>1, <1>3
  <2> QED
    BY <1>0, <1>1, <1>2, <2>1, <2>2, ViewKept DEF Reporting
<1>4. CASE c[1] = n /\ c # ConnOf(n)
  <2>1. handler[c] \in {"none", "done"}
    <3>1. link[ConnOf(n)].open
      BY <1>1, <1>2, <1>4 DEF Reporting
    <3>2. Alive(n) = {ConnOf(n)}
      BY <1>1, <3>1 DEF RegistryInv, HandlersFollow, Apart, Alive
    <3> QED
      BY <1>0, <1>4, <3>2 DEF NodesOK, Alive
  <2>2. Break(c)
    BY <2>1
    DEF HandlerStep, Register, HandleReport, HandleAnswer, Arrived, HandlerNotices, Cleanup
  <2>3. nodes' = nodes
    BY <2>2 DEF Break
  <2> QED
    BY <1>0, <1>1, <1>2, <1>4, <2>3, ViewKept DEF Reporting
<1>5. CASE c = ConnOf(n)
  <2>0. link[c] \in Channel /\ link[c].up \in Seq(UpMessage)
    BY <1>0 DEF LinkOK, Channel
  <2>1. CASE Register(c)
    <3>1. link' = link /\ handler[c] = "register"
      BY <2>1 DEF Register
    <3>2. Underway(n)
      BY <1>0, <1>1, <1>5, <3>1 DEF Reporting, Delivered
    <3> QED
      BY <1>1, <3>1, <3>2 DEF Underway
  <2>2. CASE HandlerNotices(c)
    BY <1>0, <1>1, <1>5, <2>0, <2>2 DEF LinkOK, Channel, HandlerNotices, Reporting
  <2>3. CASE Cleanup(c)
    BY <1>1, <1>5, <2>3 DEF Cleanup, Reporting, RegistryInv, HandlersFollow
  <2>4. CASE Break(c)
    BY <1>0, <1>1, <1>5, <2>0, <2>4 DEF LinkOK, Channel, Break, Reporting
  <2>5. ASSUME HandleReport(c) \/ HandleAnswer(c)
        PROVE  /\ link[c].up # <<>> /\ link[c].open /\ link'[c].up = Tail(link[c].up)
               /\ handler' = handler /\ handler[c] = "loop"
               /\ Underway(n) \/ Delivered(n)
    <3>1. /\ link[c].up # <<>> /\ link' = [link EXCEPT ![c].up = Tail(@)]
          /\ handler' = handler /\ handler[c] = "loop"
      BY <2>5 DEF HandleReport, HandleAnswer, Taken, Arrived
    <3>2. link'[c].up = Tail(link[c].up) /\ link'[c].open = link[c].open
      BY <1>0, <2>0, <3>1 DEF LinkOK, Channel
    <3> QED
      BY <1>0, <1>1, <1>5, <3>1, <3>2 DEF Reporting
  <2>6. DOMAIN link[c].up = 1 .. Len(link[c].up) /\ Len(link[c].up) \in Nat
        /\ (link[c].up # <<>> => Head(link[c].up) = link[c].up[1] /\ 1 \in DOMAIN link[c].up)
    BY <2>0, LenProperties, EmptySeq
  <2>7. CASE HandleAnswer(c)
    <3>1. link[c].up[1].type = "answer" /\ nodes' = nodes
      BY <2>5, <2>6, <2>7 DEF HandleAnswer, Arrived
    <3>2. CASE Underway(n)
      <4> PICK j \in DOMAIN link[c].up : Latest(link[c].up, j) /\ link[c].up[j].rules = rules[n]
        BY <1>5, <3>2 DEF Underway
      <4>1. j > 1
        BY <2>6, <3>1 DEF Latest
      <4>2. /\ j - 1 \in DOMAIN Tail(link[c].up) /\ Latest(Tail(link[c].up), j - 1)
            /\ Tail(link[c].up)[j - 1] = link[c].up[j]
        BY <2>0, <2>5, <2>7, <4>1, TailKeepsLatest
      <4> QED
        BY <1>1, <1>5, <2>5, <2>7, <4>2 DEF Underway
    <3>3. CASE Delivered(n)
      <4>1. \A k \in DOMAIN Tail(link[c].up) : Tail(link[c].up)[k].type # "report"
        BY <1>5, <2>0, <2>5, <2>7, <3>3, TailAfterLatest DEF Delivered
      <4> QED
        BY <1>1, <1>5, <2>5, <2>7, <3>1, <3>3, <4>1 DEF Delivered
    <3> QED
      BY <2>5, <2>7, <3>2, <3>3
  <2>8. CASE HandleReport(c)
    <3>1. link[c].up[1].type = "report"
      BY <2>5, <2>6, <2>8 DEF HandleReport, Arrived
    <3>2. Underway(n)
      BY <1>5, <2>5, <2>6, <2>8, <3>1 DEF Delivered
    <3> PICK j \in DOMAIN link[c].up : Latest(link[c].up, j) /\ link[c].up[j].rules = rules[n]
      BY <1>5, <3>2 DEF Underway
    <3>3. CASE j > 1
      <4>1. /\ j - 1 \in DOMAIN Tail(link[c].up) /\ Latest(Tail(link[c].up), j - 1)
            /\ Tail(link[c].up)[j - 1] = link[c].up[j]
        BY <2>0, <2>5, <2>8, <3>3, TailKeepsLatest
      <4> QED
        BY <1>1, <1>5, <2>5, <2>8, <4>1 DEF Underway
    <3>4. CASE j = 1
      <4>1. \A k \in DOMAIN Tail(link[c].up) : Tail(link[c].up)[k].type # "report"
        BY <2>0, <2>5, <2>8, <3>4, TailAfterLatest DEF Latest
      <4>2. Listed(c) /\ nodes[n] \in [conn : 1 .. MaxConn, rules : SUBSET Rule]
        BY <1>0, <1>1, <1>5, <2>5, <2>8 DEF RegistryInv, RegistryExact, Listed, NodesOK
      <4>3. nodes[n].conn = client[n].conn
        BY <1>5, <4>2 DEF Listed, ConnOf
      <4>4. nodes' = [nodes EXCEPT ![n].rules = rules[n]]
        BY <1>1, <1>5, <2>6, <2>5, <2>8, <3>4, <4>2 DEF HandleReport, Listed
      <4>5. nodes'[n] = [conn |-> client[n].conn, rules |-> rules[n]]
        BY <1>0, <4>2, <4>3, <4>4 DEF NodesOK
      <4> QED
        BY <1>1, <1>5, <2>5, <2>8, <4>1, <4>5 DEF Delivered
    <3> QED
      BY <2>6, <3>3, <3>4
  <2> QED
    BY <2>1, <2>2, <2>3, <2>4, <2>7, <2>8 DEF HandlerStep
<1> QED
  BY <1>3, <1>4, <1>5

LEMMA SentView ==
  ASSUME TypeInv, ViewInv, SendCommand \/ \E q \in Query : SendQuery(q)
  PROVE  ViewInv'
<1> SUFFICES ASSUME NEW n \in Node, Reporting(n)' PROVE Underway(n)' \/ Delivered(n)'
  BY DEF ViewInv
<1>1. LinkOK /\ (Reporting(n) => Underway(n) \/ Delivered(n))
  BY Links DEF TypeInv, ViewInv
<1>2. UNCHANGED <<rules, client, handler, nodes, dirty, met>> /\ link' = Sent(Target, held.msg)
  BY DEF SendCommand, SendQuery
<1>3. ConnOf(n) \in Conn /\ ConnOf(n)' = ConnOf(n) /\ n \notin dirty
  BY <1>2, ConnOfAttached DEF TypeInv, Reporting, ConnOf
<1>4. \A c \in Conn : link'[c].up = link[c].up /\ link'[c].open = link[c].open
  BY <1>1, <1>2 DEF LinkOK, Channel, Sent
<1> QED
  BY <1>1, <1>2, <1>3, <1>4, ViewKept DEF Reporting

LEMMA ViewStep ==
  ASSUME TypeInv, RegistryInv, ViewInv, [Next]_vars
  PROVE  ViewInv'
<1>1. CASE UNCHANGED <<rules, client, link, handler, nodes, dirty, met>>
  BY <1>1 DEF ViewInv, Reporting, Underway, Delivered, ConnOf
<1> QED
  BY <1>1, ClientView, HandlerView, SentView
  DEF Next, vars, BeginCommand, AbandonCommand, BeginQuery, SendQueryFails, TimeOut, GiveUp, Abandon

(* Once what they sent each other is handled, the manager shows the rules the
   node has, unless they changed behind its back since the last report, or the
   handler of an earlier connection was still running when the node came back. *)
THEOREM ViewsAreCurrent == Spec => []ViewCurrent
<1>1. Init => RegistryInv /\ ViewInv
  BY RegistryInit DEF Init, ViewInv, Reporting
<1>2. TypeInv /\ RegistryInv /\ [Next]_vars => RegistryInv'
  BY RegistryStep
<1>3. TypeInv /\ RegistryInv /\ ViewInv /\ [Next]_vars => ViewInv'
  BY ViewStep
<1>4. ViewInv => ViewCurrent
  <2> SUFFICES ASSUME ViewInv, NEW n \in Node, Settled(n), n \notin dirty,
                      ConnOf(n) \notin met
               PROVE  nodes[n] = [conn |-> client[n].conn, rules |-> rules[n]]
    BY DEF ViewCurrent
  <2>1. Reporting(n) /\ link[ConnOf(n)].up = <<>>
    BY DEF Settled, Reporting
  <2>2. ~Underway(n)
    BY <2>1 DEF Underway
  <2> QED
    BY <2>1, <2>2 DEF ViewInv, Delivered
<1> QED
  BY <1>1, <1>2, <1>3, <1>4, ManagerInvariant, PTL DEF Spec

-----------------------------------------------------------------------------
(* An answer reaches no query but one of the id it was asked under, whichever
   connections it and its question crossed and whatever has timed out or left
   meanwhile: with ids of their own, queries get their own answers. *)
AnswersMatch ==
  \A q \in Query :
    query[q].answer # None => query[query[q].answer].id = query[q].id

(* A query that was asked keeps the id it drew, so that a question on its way, and
   the answer to it, carry the id of the query they are for. *)
Asked(m) == query[m.ask].pc # "new" /\ query[m.ask].id = m.id

Carried(s) == {s[j] : j \in DOMAIN s}

AskInv ==
  /\ \A c \in Conn :
       /\ \A m \in Carried(link[c].down) : m.type = "query" => Asked(m)
       /\ \A m \in Carried(link[c].up) : m.type = "answer" => Asked(m)
  /\ held # Free /\ held.msg.type = "query" => Asked(held.msg)
  /\ \A q \in Query : query[q].answer # None =>
       /\ query[q].pc # "new" /\ query[query[q].answer].pc # "new"
       /\ query[query[q].answer].id = query[q].id

LEMMA CarriedTail ==
  ASSUME NEW S, NEW s \in Seq(S), s # <<>>
  PROVE  Carried(Tail(s)) \subseteq Carried(s) /\ Head(s) \in Carried(s)
<1> DEFINE t == Tail(s)
<1>1. /\ Len(s) \in Nat /\ DOMAIN s = 1 .. Len(s) /\ Head(s) = s[1]
      /\ t \in Seq(S) /\ Len(t) = Len(s) - 1
      /\ \A i \in 1 .. Len(t) : t[i] = s[i + 1]
  BY LenProperties, HeadTailProperties
<1>2. DOMAIN t = 1 .. Len(s) - 1 /\ Len(s) # 0
  BY <1>1, LenProperties, EmptySeq
<1> HIDE DEF t
<1>3. \A i \in DOMAIN t : i + 1 \in DOMAIN s /\ t[i] = s[i + 1]
  BY <1>1, <1>2
<1>4. 1 \in DOMAIN s
  BY <1>1, <1>2
<1>5. Carried(t) \subseteq Carried(s)
  BY <1>3 DEF Carried
<1> QED
  BY <1>1, <1>4, <1>5 DEF Carried, t

LEMMA CarriedAppend ==
  ASSUME NEW S, NEW s \in Seq(S), NEW m \in S
  PROVE  Carried(Append(s, m)) \subseteq Carried(s) \cup {m}
<1> DEFINE t == Append(s, m)
<1>1. /\ t \in Seq(S) /\ Len(t) = Len(s) + 1 /\ t[Len(s) + 1] = m /\ Len(s) \in Nat
      /\ \A i \in 1 .. Len(s) : t[i] = s[i]
  BY AppendProperties, LenProperties
<1>2. DOMAIN t = 1 .. Len(s) + 1 /\ DOMAIN s = 1 .. Len(s)
  BY <1>1, LenProperties
<1> HIDE DEF t
<1>3. \A k \in DOMAIN t : (k \in DOMAIN s /\ t[k] = s[k]) \/ t[k] = m
  BY <1>1, <1>2
<1> QED
  BY <1>3 DEF Carried, t

(* A query, once asked, neither is new again nor changes its id, and gets answers
   from a handler only. *)
LEMMA AskedStays ==
  ASSUME TypeInv, QueryInv, [Next]_vars
  PROVE  \A q \in Query :
           /\ query[q].pc # "new" => query'[q].pc # "new" /\ query'[q].id = query[q].id
           /\ \/ query'[q].answer \in {query[q].answer, None}
              \/ \E c \in Conn : HandleAnswer(c)
<1>0. query \in [Query -> QueryRecord]
  BY DEF QueryInv
<1>1. CASE \E c \in Conn : HandleAnswer(c)
  <2> PICK c \in Conn : HandleAnswer(c)
    BY <1>1
  <2> DEFINE p == pending[Head(link[c].up).id]
             a == Head(link[c].up).ask
  <2>1. query' = IF p = None THEN query ELSE Given(p, a)
    BY DEF HandleAnswer
  <2> HIDE DEF p, a
  <2>2. \/ query' = query
        \/ query[p].pc = "wait" /\ query' = [query EXCEPT ![p].pc = "answered", ![p].answer = a]
        \/ query[p].pc = "send" /\ query' = [query EXCEPT ![p].answer = a]
    BY <2>1 DEF Given
  <2> QED
    BY <1>0, <2>2 DEF QueryRecord
<1>2. CASE \E q \in Query, n \in Node, i \in CommandId : BeginQuery(q, n, i)
  <2> PICK q \in Query, n \in Node, i \in CommandId : BeginQuery(q, n, i)
    BY <1>2
  <2>1. CASE nodes[n] = None
    BY <1>0, <2>1 DEF BeginQuery, QueryRecord
  <2>2. CASE nodes[n] # None
    <3>1. query' = [Bereft(i) EXCEPT ![q] = [pc |-> "send", id |-> i, answer |-> None]]
      BY <2>2 DEF BeginQuery
    <3>2. query[q].pc = "new" /\ query'[q].pc = "send" /\ query'[q].answer = None
          /\ \A p \in Query \ {q} : query'[p] = Bereft(i)[p]
      BY <3>1, BereftEffect DEF BeginQuery
    <3> QED
      BY <3>2, BereftEffect
  <2> QED
    BY <2>1, <2>2
<1>3. CASE \E q \in Query : GiveUp(q)
  <2> PICK q \in Query : GiveUp(q)
    BY <1>3
  <2> DEFINE i == query[q].id
  <2>1. i \in CommandId /\ query' = [Bereft(i) EXCEPT ![q].pc = "failed"]
    BY DEF GiveUp, QueryInv, Started
  <2> HIDE DEF i
  <2>2. /\ query'[q].pc = "failed" /\ query'[q].id = Bereft(i)[q].id
        /\ query'[q].answer = Bereft(i)[q].answer
        /\ \A p \in Query \ {q} : query'[p] = Bereft(i)[p]
    BY <2>1, BereftEffect DEF QueryRecord
  <2> QED
    BY <2>1, <2>2, BereftEffect
<1>4. CASE \E q \in Query : SendQuery(q)
  <2> PICK q \in Query : SendQuery(q)
    BY <1>4
  <2> DEFINE pc == IF query[q].answer # None THEN "answered"
                   ELSE IF pending[query[q].id] = q THEN "wait" ELSE "failed"
  <2>1. pc # "new" /\ query' = [query EXCEPT ![q].pc = pc]
    BY DEF SendQuery
  <2> HIDE DEF pc
  <2> QED
    BY <1>0, <2>1 DEF QueryRecord
<1>5. CASE \E q \in Query : SendQueryFails(q) \/ TimeOut(q) \/ Abandon(q)
  BY <1>0, <1>5 DEF SendQueryFails, TimeOut, Abandon, QueryRecord
<1>6. CASE query' = query
  BY <1>6
<1>7. \/ query' = query
      \/ \E c \in Conn : HandleAnswer(c)
      \/ \E q \in Query, n \in Node, i \in CommandId : BeginQuery(q, n, i)
      \/ \E q \in Query :
           SendQuery(q) \/ SendQueryFails(q) \/ TimeOut(q) \/ GiveUp(q) \/ Abandon(q)
  BY
  DEF Next, vars, ClientStep, Connect, SendReport, ReportFails, ObeyRule, AnswerQuery,
      ClientNotices, LocalEdit, NodeRestart, HandlerStep, Register, HandleReport,
      HandlerNotices, Cleanup, Break,
      BeginCommand, SendCommand, AbandonCommand
<1> QED
  BY <1>1, <1>2, <1>3, <1>4, <1>5, <1>6, <1>7

Answer(k) == [type |-> "answer", id |-> k.id, ask |-> k.ask]

(* Where a message comes from: it was there, the holder of the registry sent it,
   or it answers a question that came the other way. *)
Passes(c, x) ==
  /\ \A m \in Carried(x.down) : m \in Carried(link[c].down) \/ (held # Free /\ m = held.msg)
  /\ \A m \in Carried(x.up) :
       \/ m \in Carried(link[c].up)
       \/ m.type = "report"
       \/ \E k \in Carried(link[c].down) : k.type = "query" /\ m = Answer(k)

LEMMA PassesOn ==
  ASSUME NEW c \in Conn, NEW x,
         Carried(x.up) \subseteq Carried(link[c].up),
         Carried(x.down) \subseteq Carried(link[c].down)
  PROVE  Passes(c, x)
BY DEF Passes

LEMMA PassesThere ==
  ASSUME LinkOK, NEW d \in Conn, NEW x, link' = [link EXCEPT ![d] = x], Passes(d, x)
  PROVE  \A c \in Conn : Passes(c, link'[c])
<1>1. link'[d] = x /\ \A c \in Conn \ {d} : link'[c] = link[c]
  BY DEF LinkOK
<1> QED
  BY <1>1, PassesOn

LEMMA UpPasses ==
  ASSUME LinkOK, NEW d \in Conn, NEW s,
         link' = [link EXCEPT ![d] = [link[d] EXCEPT !.up = s]],
         \A m \in Carried(s) : m \in Carried(link[d].up) \/ m.type = "report"
  PROVE  \A c \in Conn : Passes(c, link'[c])
<1> DEFINE x == [link[d] EXCEPT !.up = s]
<1>1. x.up = s /\ x.down = link[d].down
  BY Parts DEF LinkOK
<1> HIDE DEF x
<1>2. Passes(d, x)
  BY <1>1 DEF Passes
<1> QED
  BY <1>2, PassesThere DEF x

LEMMA DownPasses ==
  ASSUME LinkOK, NEW d \in Conn, NEW s,
         link' = [link EXCEPT ![d] = [link[d] EXCEPT !.down = s]],
         \A m \in Carried(s) : m \in Carried(link[d].down) \/ (held # Free /\ m = held.msg)
  PROVE  \A c \in Conn : Passes(c, link'[c])
<1> DEFINE x == [link[d] EXCEPT !.down = s]
<1>1. x.up = link[d].up /\ x.down = s
  BY Parts DEF LinkOK
<1> HIDE DEF x
<1>2. Passes(d, x)
  BY <1>1 DEF Passes
<1> QED
  BY <1>2, PassesThere DEF x

LEMMA OnOpenLink ==
  ASSUME NEW c, NEW m, link[c].open
  PROVE  /\ Reported(c, m) = [link EXCEPT ![c] = [link[c] EXCEPT !.up = Append(link[c].up, m)]]
         /\ Sent(c, m) = [link EXCEPT ![c] = [link[c] EXCEPT !.down = Append(link[c].down, m)]]
BY DEF Reported, Sent

LEMMA ClientPasses ==
  ASSUME TypeInv, NEW n \in Node, ClientStep(n) \/ NodeRestart(n)
  PROVE  \A c \in Conn : Passes(c, link'[c])
<1>0. /\ LinkOK
      /\ \A c \in Conn : link[c].up \in Seq(UpMessage) /\ link[c].down \in Seq(DownMessage)
  BY Links DEF TypeInv, LinkOK, Channel
<1>1. CASE Connect(n)
  <2>1. \A c \in Conn : link'[c].up = link[c].up /\ link'[c].down = link[c].down
    BY <1>0, <1>1 DEF LinkOK, Channel, Connect
  <2> QED
    BY <2>1, PassesOn
<1>2. CASE SendReport(n)
  <2> DEFINE d == ConnOf(n)
             r == Report(n)
  <2>1. d \in Conn /\ r \in UpMessage /\ r.type = "report" /\ link' = Reported(d, r)
    BY <1>2, ConnOfAttached DEF TypeInv, TypeOK, SendReport, Report, UpMessage
  <2> HIDE DEF d, r
  <2>2. \A m \in Carried(Append(link[d].up, r)) :
          m \in Carried(link[d].up) \/ m.type = "report"
    <3>1. Carried(Append(link[d].up, r)) \subseteq Carried(link[d].up) \cup {r}
      BY <1>0, <2>1, CarriedAppend
    <3> QED
      BY <2>1, <3>1
  <2>3. CASE link[d].open
    <3>1. link' = [link EXCEPT ![d] = [link[d] EXCEPT !.up = Append(link[d].up, r)]]
      BY <2>1, <2>3, OnOpenLink
    <3> QED
      BY <1>0, <2>1, <2>2, <3>1, UpPasses
  <2>4. CASE ~link[d].open
    BY <2>1, <2>4, PassesOn DEF Reported
  <2> QED
    BY <2>3, <2>4
<1>3. CASE ObeyRule(n)
  <2> DEFINE d == ConnOf(n)
  <2>1. d \in Conn /\ link[d].down # <<>> /\ link' = Read(d)
    BY <1>3, ConnOfAttached DEF TypeInv, ObeyRule, Incoming
  <2> HIDE DEF d
  <2>2. Carried(Tail(link[d].down)) \subseteq Carried(link[d].down)
    BY <1>0, <2>1, CarriedTail
  <2>3. link' = [link EXCEPT ![d] = [link[d] EXCEPT !.down = Tail(link[d].down)]]
    BY <2>1 DEF Read
  <2> QED
    BY <1>0, <2>1, <2>2, <2>3, DownPasses
<1>4. CASE AnswerQuery(n)
  <2> DEFINE d == ConnOf(n)
             k == Head(link[d].down)
             a == Answer(k)
             x == [open |-> link[d].open, down |-> Tail(link[d].down),
                   up |-> IF link[d].open THEN Append(link[d].up, a) ELSE link[d].up]
  <2>1. d \in Conn /\ link[d].down # <<>> /\ k.type = "query" /\ link' = [link EXCEPT ![d] = x]
    BY <1>4, ConnOfAttached DEF TypeInv, AnswerQuery, Incoming, Answer
  <2>2. k \in DownMessage
    BY <1>0, <2>1, HeadDown
  <2>3. a \in UpMessage
    BY <2>1, <2>2 DEF Answer, DownMessage, UpMessage
  <2>4. Carried(Tail(link[d].down)) \subseteq Carried(link[d].down) /\ k \in Carried(link[d].down)
    BY <1>0, <2>1, CarriedTail
  <2>5. Carried(Append(link[d].up, a)) \subseteq Carried(link[d].up) \cup {a}
    BY <1>0, <2>1, <2>3, CarriedAppend
  <2>6. Passes(d, x)
    BY <2>1, <2>4, <2>5 DEF Passes
  <2> QED
    BY <1>0, <2>1, <2>6, PassesThere
<1>5. CASE ReportFails(n)
  BY <1>5, PassesOn DEF ReportFails
<1>6. CASE ClientNotices(n) \/ NodeRestart(n)
  <2>1. Carried(<<>>) = {}
    BY DEF Carried
  <2>2. \A c \in Conn : link'[c].up = link[c].up
                       /\ (link'[c].down = link[c].down \/ link'[c].down = <<>>)
    <3>1. CASE ClientNotices(n)
      <4>1. link' = [link EXCEPT ![ConnOf(n)].down = <<>>]
        BY <3>1 DEF ClientNotices
      <4> QED
        BY <1>0, <4>1 DEF LinkOK, Channel
    <3>2. CASE NodeRestart(n)
      <4> DEFINE x == [open |-> FALSE, up |-> link[ConnOf(n)].up, down |-> <<>>]
      <4>1. link' = [link EXCEPT ![ConnOf(n)] = x]
        BY <3>2 DEF NodeRestart
      <4>2. x.up = link[ConnOf(n)].up /\ x.down = <<>>
        OBVIOUS
      <4> HIDE DEF x
      <4> QED
        BY <1>0, <4>1, <4>2 DEF LinkOK
    <3> QED
      BY <1>6, <3>1, <3>2
  <2> QED
    BY <2>1, <2>2, PassesOn
<1> QED
  BY <1>1, <1>2, <1>3, <1>4, <1>5, <1>6 DEF ClientStep

LEMMA MessagesPass ==
  ASSUME TypeInv, QueryInv, [Next]_vars
  PROVE  \A c \in Conn : Passes(c, link'[c])
<1>0. /\ LinkOK
      /\ \A c \in Conn : link[c].up \in Seq(UpMessage) /\ link[c].down \in Seq(DownMessage)
  BY Links DEF TypeInv, LinkOK, Channel
<1>1. CASE \E c \in Conn : HandleReport(c) \/ HandleAnswer(c)
  <2> PICK d \in Conn : HandleReport(d) \/ HandleAnswer(d)
    BY <1>1
  <2>1. link[d].up # <<>> /\ link' = Taken(d)
    BY DEF HandleReport, HandleAnswer, Arrived
  <2>2. Carried(Tail(link[d].up)) \subseteq Carried(link[d].up)
    BY <1>0, <2>1, CarriedTail
  <2>3. link' = [link EXCEPT ![d] = [link[d] EXCEPT !.up = Tail(link[d].up)]]
    BY <2>1 DEF Taken
  <2> QED
    BY <1>0, <2>1, <2>2, <2>3, UpPasses
<1>2. CASE \E c \in Conn : HandlerNotices(c)
  <2> PICK d \in Conn : HandlerNotices(d)
    BY <1>2
  <2>1. Carried(<<>>) = {}
    BY DEF Carried
  <2>2. link' = [link EXCEPT ![d] = [link[d] EXCEPT !.up = <<>>]]
    BY DEF HandlerNotices
  <2> QED
    BY <1>0, <2>1, <2>2, UpPasses
<1>3. CASE \E c \in Conn : Break(c)
  <2> PICK d \in Conn : Break(d)
    BY <1>3
  <2> DEFINE x == [link[d] EXCEPT !.open = FALSE]
  <2>1. x.up = link[d].up /\ x.down = link[d].down
    BY <1>0 DEF LinkOK, Channel
  <2>2. link' = [link EXCEPT ![d] = x]
    BY DEF Break
  <2> HIDE DEF x
  <2> QED
    BY <1>0, <2>1, <2>2, PassesThere, PassesOn
<1>4. CASE SendCommand \/ \E q \in Query : SendQuery(q)
  <2> DEFINE m == held.msg
             d == Target
  <2>1. held # Free /\ m \in DownMessage
    BY <1>4 DEF TypeInv, TypeOK, Sending, SendCommand, SendQuery, Free
  <2>2. d \in Conn /\ link' = Sent(d, m)
    BY <1>4, <2>1, TargetIsConn DEF TypeInv, SendCommand, SendQuery
  <2> HIDE DEF d
  <2>3. \A k \in Carried(Append(link[d].down, m)) :
          k \in Carried(link[d].down) \/ (held # Free /\ k = held.msg)
    <3>1. Carried(Append(link[d].down, m)) \subseteq Carried(link[d].down) \cup {m}
      BY <1>0, <2>1, <2>2, CarriedAppend
    <3> QED
      BY <2>1, <3>1
  <2>4. CASE link[d].open
    <3>1. link' = [link EXCEPT ![d] = [link[d] EXCEPT !.down = Append(link[d].down, m)]]
      BY <2>2, <2>4, OnOpenLink
    <3> QED
      BY <1>0, <2>1, <2>2, <2>3, <3>1, DownPasses
  <2>5. CASE ~link[d].open
    BY <2>2, <2>5, PassesOn DEF Sent
  <2> QED
    BY <2>4, <2>5
<1>5. CASE link' = link
  BY <1>5, PassesOn
<1>6. \/ link' = link
      \/ \E n \in Node : ClientStep(n) \/ NodeRestart(n)
      \/ \E c \in Conn : HandleReport(c) \/ HandleAnswer(c) \/ HandlerNotices(c) \/ Break(c)
      \/ SendCommand \/ \E q \in Query : SendQuery(q)
  BY DEF Next, vars, LocalEdit, HandlerStep, Register, Cleanup, BeginCommand,
         AbandonCommand, BeginQuery, SendQueryFails, TimeOut, GiveUp, Abandon
<1> QED
  BY <1>1, <1>2, <1>3, <1>4, <1>5, <1>6, ClientPasses

LEMMA AskStep ==
  ASSUME TypeInv, QueryInv, AskInv, [Next]_vars
  PROVE  AskInv'
<1>1. \A q \in Query : query[q].pc # "new" => query'[q].pc # "new" /\ query'[q].id = query[q].id
  BY AskedStays
<1>2. ASSUME NEW m, m.ask \in Query, Asked(m) PROVE Asked(m)'
  BY <1>1, <1>2 DEF Asked
<1>3. LinkOK /\ LinkOK' /\ HeldOK /\ TypeOK
  BY Links, LinksStep DEF TypeInv, TypeOK, HeldOK
<1>4. ASSUME NEW c \in Conn, NEW m \in Carried(link'[c].down), m.type = "query"
      PROVE  Asked(m)'
  <2>1. m \in Carried(link[c].down) \/ (held # Free /\ m = held.msg)
    BY MessagesPass DEF Passes
  <2>2. Asked(m)
    BY <1>4, <2>1 DEF AskInv
  <2>3. link'[c].down \in Seq(DownMessage)
    BY <1>3 DEF LinkOK, Channel
  <2>4. m \in DownMessage
    BY <2>3 DEF Carried
  <2> QED
    BY <1>2, <1>4, <2>2, <2>4 DEF DownMessage
<1>5. ASSUME NEW c \in Conn, NEW m \in Carried(link'[c].up), m.type = "answer"
      PROVE  Asked(m)'
  <2>1. \/ m \in Carried(link[c].up)
        \/ \E k \in Carried(link[c].down) : k.type = "query" /\ m = Answer(k)
    BY <1>5, MessagesPass DEF Passes
  <2>2. m \in Carried(link[c].up) => Asked(m)
    BY <1>5 DEF AskInv
  <2>3. ASSUME NEW k \in Carried(link[c].down), k.type = "query", m = Answer(k)
        PROVE  Asked(m)
    BY <2>3 DEF AskInv, Asked, Answer
  <2>4. Asked(m)
    BY <2>1, <2>2, <2>3
  <2>5. link'[c].up \in Seq(UpMessage)
    BY <1>3 DEF LinkOK, Channel
  <2>6. m \in UpMessage
    BY <2>5 DEF Carried
  <2> QED
    BY <1>2, <1>5, <2>4, <2>6 DEF UpMessage
<1>6. held' # Free /\ held'.msg.type = "query" => Asked(held.msg)'
  <2>1. CASE \E q \in Query, n \in Node, i \in CommandId : BeginQuery(q, n, i)
    <3> PICK q \in Query, n \in Node, i \in CommandId : BeginQuery(q, n, i)
      BY <2>1
    <3>1. CASE nodes[n] = None
      BY <3>1 DEF BeginQuery
    <3>2. CASE nodes[n] # None
      <4>1. /\ query' = [Bereft(i) EXCEPT ![q] = [pc |-> "send", id |-> i, answer |-> None]]
            /\ held'.msg.id = i /\ held'.msg.ask = q
        BY <3>2 DEF BeginQuery
      <4>2. query'[q].pc = "send" /\ query'[q].id = i
        BY <4>1, BereftEffect
      <4> QED
        BY <4>1, <4>2 DEF Asked
    <3> QED
      BY <3>1, <3>2
  <2>2. CASE held # Free /\ held'.msg = held.msg
    <3> SUFFICES ASSUME held.msg.type = "query" PROVE Asked(held.msg)'
      BY <2>2
    <3>1. Asked(held.msg) /\ held.msg \in DownMessage
      BY <1>3, <2>2 DEF AskInv, HeldOK
    <3> QED
      BY <1>1, <2>2, <3>1 DEF Asked, DownMessage
  <2>3. CASE held' = Free \/ held'.msg.type = "rule"
    BY <2>3
  <2>4. \/ held' = held \/ held' = Free \/ held'.msg.type = "rule"
        \/ (held # Free /\ held'.msg = held.msg)
        \/ \E q \in Query, n \in Node, i \in CommandId : BeginQuery(q, n, i)
    <3>1. SendCommand => held' = Free \/ (held # Free /\ held'.msg = held.msg)
      BY <1>3 DEF SendCommand, HeldOK, Free
    <3>2. (\E N \in (SUBSET Node) \ {{}}, r \in Rule, on \in BOOLEAN : BeginCommand(N, r, on))
            => held'.msg.type = "rule"
      BY DEF BeginCommand
    <3>3. \/ SendCommand \/ held' = held \/ held' = Free
          \/ \E N \in (SUBSET Node) \ {{}}, r \in Rule, on \in BOOLEAN : BeginCommand(N, r, on)
          \/ \E q \in Query, n \in Node, i \in CommandId : BeginQuery(q, n, i)
      BY DEF Next, vars, ClientStep, Connect, SendReport, ReportFails, ObeyRule, AnswerQuery,
             ClientNotices, LocalEdit, NodeRestart, HandlerStep, Register, HandleReport, HandleAnswer,
             HandlerNotices, Cleanup, Break, AbandonCommand, SendQuery, SendQueryFails, TimeOut,
             GiveUp, Abandon
    <3> QED
      BY <3>1, <3>2, <3>3
  <2>5. held' = held => held # Free \/ held' = Free
    OBVIOUS
  <2> QED
    BY <2>1, <2>2, <2>3, <2>4, <2>5
<1>7. ASSUME NEW q \in Query, query'[q].answer # None
      PROVE  /\ query'[q].pc # "new" /\ query'[query'[q].answer].pc # "new"
             /\ query'[query'[q].answer].id = query'[q].id
  <2>1. CASE query'[q].answer = query[q].answer
    <3>1. query[q].answer \in Query
      BY <1>7, <2>1 DEF QueryInv, QueryRecord
    <3> QED
      BY <1>1, <1>7, <2>1, <3>1 DEF AskInv
  <2>2. CASE query'[q].answer # query[q].answer
    <3>1. PICK c \in Conn : HandleAnswer(c)
      BY <1>7, <2>2, AskedStays
    <3> DEFINE m == Head(link[c].up)
               p == pending[m.id]
    <3>2. m \in UpMessage /\ m \in Carried(link[c].up) /\ m.type = "answer"
      BY <1>3, <3>1, HeadUp, CarriedTail DEF HandleAnswer, Arrived, LinkOK, Channel
    <3>3. m.id \in CommandId /\ m.ask \in Query /\ Asked(m)
      BY <3>2 DEF UpMessage, AskInv
    <3>4. query' = IF p = None THEN query ELSE Given(p, m.ask)
      BY <3>1 DEF HandleAnswer
    <3>5. p # None => query[p].id = m.id /\ query[p].pc # "new" /\ p \in Query
      BY <3>3 DEF QueryInv, PendingIsWanted
    <3> HIDE DEF m, p
    <3>6. \/ query' = query
          \/ query' = [query EXCEPT ![p].pc = "answered", ![p].answer = m.ask]
          \/ query' = [query EXCEPT ![p].answer = m.ask]
      BY <3>4 DEF Given
    <3>7. query \in [Query -> QueryRecord]
      BY DEF QueryInv
    <3>8. q = p /\ p # None /\ query'[q].answer = m.ask
      BY <2>2, <3>6, <3>7, NoneAssumption DEF QueryRecord
    <3> QED
      BY <1>1, <3>3, <3>5, <3>8 DEF Asked
  <2> QED
    BY <2>1, <2>2
<1> QED
  BY <1>4, <1>5, <1>6, <1>7 DEF AskInv

(* However commands, queries, timeouts and reconnections overlap, an answer
   reaches no query but one of the id it was asked under. *)
THEOREM AnswersReachTheirId == Spec => []AnswersMatch
<1>1. Init => AskInv
  BY DEF Init, AskInv, Down, Carried, Idle
<1>2. TypeInv /\ QueryInv /\ AskInv /\ [Next]_vars => AskInv'
  BY AskStep
<1>3. AskInv => AnswersMatch
  BY DEF AskInv, AnswersMatch
<1> QED
  BY <1>1, <1>2, <1>3, ManagerInvariant, PTL DEF Spec
=============================================================================
