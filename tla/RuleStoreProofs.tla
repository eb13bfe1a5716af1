--------------------------- MODULE RuleStoreProofs ---------------------------
(***************************************************************************)
(* Proofs about RuleStore and RuleHistory. The first part, types and       *)
(* capacity, holds for any tasks and any failures; the second, durability, *)
(* for one task on a node that is stopped and not killed, with working     *)
(* disks and targets that resolve. Each of these hypotheses is needed: two *)
(* tasks break Durable (run store_race), and so does one kill, one target  *)
(* that does not resolve or one failed save. The last part is what holds   *)
(* of the file without any of them.                                        *)
(***************************************************************************)
EXTENDS RuleHistory, FiniteSetTheorems, TLAPS

LEMMA EmptyRules == NoRules \in Rules /\ Entries(NoRules) = {} /\ Fits(Entries(NoRules))
<1>1. NoRules \in Rules /\ Entries(NoRules) = {}
  BY DEF NoRules, Rules, Entries
<1>2. Cardinality({}) = 0
  BY FS_EmptySet
<1> QED
  BY <1>1, <1>2, RoomAssumption DEF Fits

(* Sets of rule keys are finite, so their sizes are numbers that grow with
   the sets. *)
LEMMA KeySets ==
  ASSUME NEW K \in SUBSET RuleKey, NEW L \in SUBSET K
  PROVE  /\ IsFiniteSet(K) /\ Cardinality(K) \in Nat
         /\ Fits(K) => Fits(L)
<1>1. IsFiniteSet(K) /\ IsFiniteSet(L) /\ Cardinality(L) <= Cardinality(K)
  BY ValueAssumption, FS_Subset
<1>2. Cardinality(K) \in Nat /\ Cardinality(L) \in Nat
  BY <1>1, FS_CardinalityType
<1> QED
  BY <1>1, <1>2, RoomAssumption DEF Fits

LEMMA EntriesAreKeys == \A m : Entries(m) \subseteq RuleKey
BY DEF Entries

LEMMA LengthPositive ==
  ASSUME NEW m
  PROVE  Length(m) \in Nat /\ Length(m) > 0
<1>1. Entries(m) \in SUBSET RuleKey
  BY EntriesAreKeys
<1>2. Cardinality(Entries(m)) \in Nat
  BY <1>1, KeySets
<1> QED
  BY <1>2 DEF Length

(* A text of a length that fits has rules that fit. *)
LEMMA SameLengthFits ==
  ASSUME NEW m, NEW r, Length(r) = Length(m), Fits(Entries(m))
  PROVE  Fits(Entries(r))
<1>1. Cardinality(Entries(m)) \in Nat /\ Cardinality(Entries(r)) \in Nat
  BY EntriesAreKeys, KeySets
<1> QED
  BY <1>1 DEF Length, Fits

(* An accepted command leaves room. *)
LEMMA AcceptedFits ==
  ASSUME NEW k \in RuleKey, NEW v \in Target \cup {None}, fwd \in Rules,
         Fits(Entries(fwd)), Accepts(k, v)
  PROVE  Fits(Entries([fwd EXCEPT ![k] = v]))
<1> DEFINE g == [fwd EXCEPT ![k] = v]
           K == Entries(fwd)
<1>1. Entries(g) \subseteq K \cup {k}
  BY DEF Entries, Rules
<1>2. K \cup {k} \in SUBSET RuleKey
  BY EntriesAreKeys
<1>3. CASE fwd[k] # None
  <2>1. Entries(g) \subseteq K
    BY <1>1, <1>3 DEF Entries
  <2> QED
    BY <2>1, <1>2, KeySets
<1>4. CASE fwd[k] = None
  <2>1. Cardinality(K) < MaxRules
    BY <1>4 DEF Accepts
  <2>2. k \notin K
    BY <1>4 DEF Entries
  <2>3. IsFiniteSet(K) /\ Cardinality(K) \in Nat
    BY <1>2, KeySets
  <2>4. Cardinality(K \cup {k}) = Cardinality(K) + 1
    BY <2>2, <2>3, FS_AddElement
  <2>5. Fits(K \cup {k})
    BY <2>1, <2>3, <2>4, RoomAssumption DEF Fits
  <2> QED
    BY <1>1, <1>2, <2>5, KeySets
<1> QED
  BY <1>3, <1>4

(* What the other two need to be inductive: where the maps are empty, and that
   a busy task has a key. *)
RestoreDone ==
  /\ daemon # "restoring" => restore = NoRules
  /\ daemon = "down" => fwd = NoRules
Keyed == \A t \in Task : task[t].pc # "idle" => task[t].key \in RuleKey

CapacityInv == TypeOK /\ CapacityKept /\ RestoreDone /\ Keyed

TaskState ==
  [pc : {"idle", "resolve", "apply", "list", "create", "write", "reply"},
   key : RuleKey \cup {None}, to : Target \cup {None}, rules : Rules]

LEMMA RestingIsTaskState == Resting \in TaskState /\ Resting.rules = NoRules /\ Resting.pc = "idle"
BY EmptyRules DEF Resting, TaskState

LEMMA CapacityInit == Init => CapacityInv
<1> SUFFICES ASSUME Init PROVE CapacityInv
  OBVIOUS
<1>1. TypeOK
  BY EmptyRules, RestingIsTaskState DEF Init, TypeOK, TaskState, Rules, NoRules, Readable
<1>2. CapacityKept
  BY EmptyRules, RestingIsTaskState DEF Init, CapacityKept, Readable
<1>3. RestoreDone /\ Keyed
  BY RestingIsTaskState DEF Init, RestoreDone, Keyed
<1> QED
  BY <1>1, <1>2, <1>3 DEF CapacityInv

(* A step that changes one task's program counter, key and target only. *)
LEMMA TaskMoves ==
  ASSUME CapacityInv, NEW t \in Task, NEW s \in TaskState,
         s.rules = task[t].rules \/ Fits(Entries(s.rules)),
         s.pc # "idle" => s.key \in RuleKey,
         task' = [task EXCEPT ![t] = s]
  PROVE  /\ task' \in [Task -> TaskState] /\ Keyed'
         /\ \A u \in Task : Fits(Entries(task'[u].rules))
BY DEF CapacityInv, TypeOK, CapacityKept, TaskState, Keyed

(* A step of one task that leaves the file, the map and the daemon alone. *)
LEMMA TaskOnly ==
  ASSUME CapacityInv, NEW t \in Task, NEW s \in TaskState,
         s.rules = task[t].rules \/ Fits(Entries(s.rules)),
         s.pc # "idle" => s.key \in RuleKey,
         task' = [task EXCEPT ![t] = s],
         UNCHANGED <<fwd, file, daemon, restore>>,
         acked' \in [RuleKey -> Target \cup {None, Unknown}]
  PROVE  CapacityInv'
<1>1. /\ task' \in [Task -> TaskState] /\ Keyed'
      /\ \A u \in Task : Fits(Entries(task'[u].rules))
  BY TaskMoves
<1>2. TypeOK'
  BY <1>1 DEF CapacityInv, TypeOK, TaskState, Readable
<1>3. CapacityKept'
  BY <1>1 DEF CapacityInv, CapacityKept, Readable
<1>4. RestoreDone'
  BY DEF CapacityInv, RestoreDone, Keyed
<1> QED
  BY <1>1, <1>2, <1>3, <1>4 DEF CapacityInv

LEMMA TaskIs ==
  ASSUME CapacityInv, NEW t \in Task
  PROVE  /\ task[t] \in TaskState
         /\ task[t].pc # "idle" => task[t].key \in RuleKey
         /\ \A p \in {"idle", "resolve", "apply", "list", "create", "write", "reply"} :
              /\ [task[t] EXCEPT !.pc = p] \in TaskState
              /\ [task[t] EXCEPT !.pc = p].rules = task[t].rules
              /\ [task[t] EXCEPT !.pc = p].key = task[t].key
              /\ [task EXCEPT ![t].pc = p] = [task EXCEPT ![t] = [task[t] EXCEPT !.pc = p]]
BY DEF CapacityInv, TypeOK, TaskState, Keyed

LEMMA CapacityStep == CapacityInv /\ [Next]_vars => CapacityInv'
<1> SUFFICES ASSUME CapacityInv, [Next]_vars PROVE CapacityInv'
  OBVIOUS
<1>t. /\ fwd \in Rules /\ restore \in Rules
      /\ file \in [len : Nat, rules : Rules \cup {Garbled, Absent}]
      /\ Readable => file.len = Length(file.rules)
      /\ daemon \in {"down", "restoring", "serving"}
      /\ task \in [Task -> TaskState]
      /\ acked \in [RuleKey -> Target \cup {None, Unknown}]
  BY DEF CapacityInv, TypeOK, TaskState
<1>c. /\ Fits(Entries(fwd) \cup Entries(restore))
      /\ \A t \in Task : Fits(Entries(task[t].rules))
      /\ Readable => Fits(Entries(file.rules))
  BY DEF CapacityInv, CapacityKept
<1>r. /\ daemon # "restoring" => restore = NoRules
      /\ daemon = "down" => fwd = NoRules
      /\ Keyed
  BY DEF CapacityInv, RestoreDone
<1>f. Fits(Entries(fwd))
  BY <1>c, EntriesAreKeys, KeySets
<1>1. CASE UNCHANGED vars
  BY <1>1 DEF vars, CapacityInv, TypeOK, CapacityKept, RestoreDone, Keyed, Readable
<1>2. CASE Start
  <2>0. fwd' = fwd /\ file' = file /\ task' = task /\ acked' = acked
    BY <1>2 DEF Start
  <2>1. restore' \in Rules /\ daemon' \in {"restoring", "serving"} /\ RestoreDone'
    BY <1>2, <1>t, EmptyRules DEF Start, Readable, RestoreDone
  <2>2. TypeOK'
    BY <2>0, <2>1, <1>t DEF TypeOK, TaskState, Readable
  <2>3. Fits(Entries(fwd) \cup Entries(restore'))
    <3>1. Entries(fwd) = {}
      BY <1>2, <1>r, EmptyRules DEF Start
    <3>2. Fits(Entries(restore'))
      BY <1>2, <1>c, EmptyRules DEF Start
    <3> QED
      BY <3>1, <3>2
  <2>4. CapacityKept'
    BY <2>0, <2>3, <1>c DEF CapacityKept, Readable
  <2> QED
    BY <2>0, <2>1, <2>2, <2>4, <1>r DEF CapacityInv, Keyed
<1>3. CASE Serve
  BY <1>3, <1>t, <1>c DEF Serve, CapacityInv, TypeOK, CapacityKept, RestoreDone, Keyed, Readable, TaskState
<1>4. CASE Exit
  <2>1. /\ fwd' = NoRules /\ restore' = NoRules /\ daemon' = "down"
        /\ task' = [t \in Task |-> Resting] /\ file' = file /\ acked' = acked
    BY <1>4 DEF Exit
  <2>2. TypeOK'
    BY <2>1, <1>t, EmptyRules, RestingIsTaskState DEF TypeOK, TaskState, Readable
  <2>3. CapacityKept'
    <3>1. Fits(Entries(fwd') \cup Entries(restore'))
      BY <2>1, EmptyRules
    <3>2. \A t \in Task : Fits(Entries(task'[t].rules))
      BY <2>1, EmptyRules, RestingIsTaskState
    <3>3. (Readable => Fits(Entries(file.rules)))'
      BY <2>1, <1>c DEF Readable
    <3> QED
      BY <3>1, <3>2, <3>3 DEF CapacityKept
  <2> QED
    BY <2>1, <2>2, <2>3, RestingIsTaskState DEF CapacityInv, RestoreDone, Keyed
<1>5. ASSUME NEW k \in RuleKey, RestoreRule(k) PROVE CapacityInv'
  <2>1. /\ daemon = "restoring" /\ restore[k] # None /\ restore[k] \in Target
        /\ fwd' = [fwd EXCEPT ![k] = restore[k]] \/ fwd' = fwd
        /\ restore' = [restore EXCEPT ![k] = None]
        /\ UNCHANGED <<file, daemon, task, acked>>
    BY <1>5, <1>t DEF RestoreRule, Rules
  <2>2. fwd' \in Rules /\ restore' \in Rules
    BY <2>1, <1>t DEF Rules
  <2>3. TypeOK'
    BY <2>1, <2>2, <1>t DEF TypeOK, TaskState, Readable
  <2>4. Entries(fwd') \cup Entries(restore') \subseteq Entries(fwd) \cup Entries(restore)
    BY <2>1, <1>t DEF Entries, Rules
  <2>5. Fits(Entries(fwd') \cup Entries(restore'))
    BY <2>4, <1>c, EntriesAreKeys, KeySets
  <2>6. CapacityKept'
    BY <2>1, <2>5, <1>c DEF CapacityKept, Readable
  <2> QED
    BY <2>1, <2>3, <2>6 DEF CapacityInv, RestoreDone, Keyed
<1>6. ASSUME NEW t \in Task, NEW k \in RuleKey, NEW v \in Target, BeginAdd(t, k, v)
      PROVE  CapacityInv'
  <2> DEFINE s == [Resting EXCEPT !.pc = "resolve", !.key = k, !.to = v]
  <2>1. s \in TaskState /\ s.rules = NoRules
    BY EmptyRules DEF Resting, TaskState
  <2>3. s.key \in RuleKey
    BY DEF Resting
  <2>2. /\ task' = [task EXCEPT ![t] = s]
        /\ UNCHANGED <<fwd, file, daemon, restore, acked>>
    BY <1>6 DEF BeginAdd
  <2> HIDE DEF s
  <2> QED
    BY <2>1, <2>2, <2>3, <1>t, EmptyRules, TaskOnly
<1>7. ASSUME NEW t \in Task, NEW k \in RuleKey, BeginDelete(t, k)
      PROVE  CapacityInv'
  <2> DEFINE s == [Resting EXCEPT !.pc = "apply", !.key = k]
  <2>1. s \in TaskState /\ s.rules = NoRules
    BY EmptyRules DEF Resting, TaskState
  <2>3. s.key \in RuleKey
    BY DEF Resting
  <2>2. /\ task' = [task EXCEPT ![t] = s]
        /\ UNCHANGED <<fwd, file, daemon, restore, acked>>
    BY <1>7 DEF BeginDelete
  <2> HIDE DEF s
  <2> QED
    BY <2>1, <2>2, <2>3, <1>t, EmptyRules, TaskOnly
<1>8. ASSUME NEW t \in Task, Resolve(t) PROVE CapacityInv'
  <2>1. UNCHANGED <<fwd, file, daemon, restore, acked>>
    BY <1>8 DEF Resolve
  <2>2. CASE Goto(t, "apply")
    <3>1. task' = [task EXCEPT ![t] = [task[t] EXCEPT !.pc = "apply"]]
      BY <2>2, TaskIs DEF Goto
    <3>2. task[t].key \in RuleKey
      BY <1>8, <1>r DEF Resolve, At, Keyed
    <3> QED
      BY <3>1, <3>2, <2>1, <1>t, TaskIs, TaskOnly
  <2>3. CASE task' = [task EXCEPT ![t] = Resting]
    BY <2>1, <2>3, <1>t, EmptyRules, RestingIsTaskState, TaskOnly
  <2> QED
    BY <1>8, <2>2, <2>3 DEF Resolve
<1>9. ASSUME NEW t \in Task, Apply(t) PROVE CapacityInv'
  <2> DEFINE k == task[t].key
             v == task[t].to
  <2>1. UNCHANGED <<file, daemon, restore>> /\ daemon = "serving"
    BY <1>9 DEF Apply, At
  <2>2. CASE /\ Accepts(k, v)
             /\ fwd' = [fwd EXCEPT ![k] = v]
             /\ acked' = [acked EXCEPT ![k] = Unknown]
             /\ Goto(t, "list")
    <3> DEFINE s == [task[t] EXCEPT !.pc = "list"]
    <3>1. k \in RuleKey /\ v \in Target \cup {None}
      BY <1>9, <1>r, <1>t DEF Apply, At, Keyed, TaskState
    <3>2. /\ s \in TaskState /\ s.rules = task[t].rules /\ s.key = k
          /\ task' = [task EXCEPT ![t] = s]
      BY <2>2, TaskIs DEF Goto
    <3>3. fwd' \in Rules /\ Fits(Entries(fwd'))
      <4>1. Fits(Entries([fwd EXCEPT ![k] = v]))
        BY <2>2, <3>1, <1>t, <1>f, AcceptedFits
      <4> QED
        BY <4>1, <2>2, <3>1, <1>t DEF Rules
    <3>4. acked' \in [RuleKey -> Target \cup {None, Unknown}]
      BY <2>2, <3>1, <1>t
    <3> HIDE DEF s
    <3>5. /\ task' \in [Task -> TaskState] /\ Keyed'
          /\ \A u \in Task : Fits(Entries(task'[u].rules))
      BY <3>1, <3>2, TaskMoves
    <3>6. TypeOK'
      BY <2>1, <3>3, <3>4, <3>5, <1>t DEF TypeOK, TaskState, Readable
    <3>7. Entries(restore') = {}
      BY <2>1, <1>r, EmptyRules
    <3>8. CapacityKept'
      BY <2>1, <3>3, <3>5, <3>7, <1>c DEF CapacityKept, Readable
    <3> QED
      BY <2>1, <3>5, <3>6, <3>8, <1>r DEF CapacityInv, RestoreDone
  <2>3. CASE task' = [task EXCEPT ![t] = Resting] /\ UNCHANGED <<fwd, acked>>
    BY <2>1, <2>3, <1>t, EmptyRules, RestingIsTaskState, TaskOnly
  <2> QED
    BY <1>9, <2>2, <2>3 DEF Apply
<1>10. ASSUME NEW t \in Task, List(t) PROVE CapacityInv'
  <2> DEFINE s == [task[t] EXCEPT !.pc = "create", !.rules = fwd]
  <2>1. s \in TaskState /\ s.rules = fwd /\ s.key = task[t].key
    BY <1>t DEF TaskState
  <2>3. task[t].key \in RuleKey
    BY <1>10, <1>r DEF List, At, Keyed
  <2>2. /\ task' = [task EXCEPT ![t] = s]
        /\ UNCHANGED <<fwd, file, daemon, restore, acked>>
    BY <1>10, <1>t DEF List, TaskState
  <2> HIDE DEF s
  <2> QED
    BY <2>1, <2>2, <2>3, <1>t, <1>f, TaskOnly
<1>s. ASSUME NEW t \in Task, NEW p \in {"write", "reply"}, Goto(t, p),
             task[t].key \in RuleKey, UNCHANGED <<fwd, daemon, restore, acked>>,
             file' \in [len : Nat, rules : Rules \cup {Garbled, Absent}],
             Readable' => file'.len = Length(file'.rules) /\ Fits(Entries(file'.rules))
      PROVE  CapacityInv'
  <2> DEFINE s == [task[t] EXCEPT !.pc = p]
  <2>1. /\ s \in TaskState /\ s.rules = task[t].rules /\ s.key \in RuleKey
        /\ task' = [task EXCEPT ![t] = s]
    BY <1>s, TaskIs DEF Goto
  <2> HIDE DEF s
  <2>2. /\ task' \in [Task -> TaskState] /\ Keyed'
        /\ \A u \in Task : Fits(Entries(task'[u].rules))
    BY <2>1, TaskMoves
  <2>3. TypeOK'
    BY <1>s, <2>2, <1>t DEF TypeOK, TaskState
  <2>4. CapacityKept'
    BY <1>s, <2>2, <1>c DEF CapacityKept
  <2> QED
    BY <1>s, <2>2, <2>3, <2>4, <1>r DEF CapacityInv, RestoreDone
<1>11. ASSUME NEW t \in Task, Create(t) PROVE CapacityInv'
  <2>1. UNCHANGED <<fwd, daemon, restore, acked>> /\ task[t].key \in RuleKey
    BY <1>11, <1>r DEF Create, At, Keyed
  <2>2. CASE file' = [len |-> 0, rules |-> Garbled] /\ Goto(t, "write")
    BY <1>s, <2>1, <2>2 DEF Readable
  <2>3. CASE file' = file /\ Goto(t, "reply")
    BY <1>s, <2>1, <2>3, <1>t, <1>c DEF Readable
  <2> QED
    BY <1>11, <2>2, <2>3 DEF Create
<1>12. ASSUME NEW t \in Task, Write(t) PROVE CapacityInv'
  <2> DEFINE m == task[t].rules
  <2>1. UNCHANGED <<fwd, daemon, restore, acked>> /\ task[t].key \in RuleKey
    BY <1>12, <1>r DEF Write, At, Keyed
  <2>2. m \in Rules /\ Fits(Entries(m)) /\ Length(m) \in Nat
    BY <1>t, <1>c, LengthPositive DEF TaskState
  <2>3. \/ file' = [file EXCEPT !.rules = Garbled]
        \/ \E r \in Rules : Length(r) = Length(m) /\ file' = [len |-> Length(r), rules |-> r]
    BY <1>12, <2>2 DEF Write, Overwritten, Blends
  <2> HIDE DEF m
  <2>4. /\ file' \in [len : Nat, rules : Rules \cup {Garbled, Absent}]
        /\ Readable' => file'.len = Length(file'.rules) /\ Fits(Entries(file'.rules))
    <3>1. CASE file' = [file EXCEPT !.rules = Garbled]
      BY <3>1, <1>t DEF Readable
    <3>2. ASSUME NEW r \in Rules, Length(r) = Length(m),
                 file' = [len |-> Length(r), rules |-> r]
          PROVE  /\ file' \in [len : Nat, rules : Rules \cup {Garbled, Absent}]
                 /\ Readable' => file'.len = Length(file'.rules) /\ Fits(Entries(file'.rules))
      BY <3>2, <2>2, SameLengthFits DEF Readable
    <3> QED
      BY <2>3, <3>1, <3>2
  <2>5. Goto(t, "reply")
    BY <1>12 DEF Write
  <2> QED
    BY <1>s, <2>1, <2>4, <2>5
<1>13. ASSUME NEW t \in Task, Reply(t) PROVE CapacityInv'
  <2>1. /\ task' = [task EXCEPT ![t] = Resting]
        /\ UNCHANGED <<fwd, file, daemon, restore>>
    BY <1>13 DEF Reply
  <2>2. acked' \in [RuleKey -> Target \cup {None, Unknown}]
    BY <1>13, <1>t DEF Reply, Rules
  <2> QED
    BY <2>1, <2>2, EmptyRules, RestingIsTaskState, TaskOnly
<1>14. ASSUME NEW t \in Task, Abandon(t) PROVE CapacityInv'
  <2>1. /\ task' = [task EXCEPT ![t] = Resting]
        /\ UNCHANGED <<fwd, file, daemon, restore, acked>>
    BY <1>14 DEF Abandon
  <2> QED
    BY <2>1, <1>t, EmptyRules, RestingIsTaskState, TaskOnly
<1> QED
  BY <1>1, <1>2, <1>3, <1>4, <1>5, <1>6, <1>7, <1>8, <1>9, <1>10, <1>11, <1>12, <1>13,
     <1>14 DEF Next

LEMMA CapacityInvariant == Spec => []CapacityInv
BY CapacityInit, CapacityStep, PTL DEF Spec

(* The state keeps its types, and a readable file its length. *)
THEOREM RuleTypes == Spec => []TypeOK
<1>1. CapacityInv => TypeOK
  BY DEF CapacityInv
<1> QED
  BY <1>1, CapacityInvariant, PTL

(* Whatever tasks race, crash or fail, no snapshot and no file outgrows
   FORWARD_MAP, so no restore runs out of room. *)
THEOREM RestoresHaveRoom == Spec => []CapacityKept
<1>1. CapacityInv => CapacityKept
  BY DEF CapacityInv
<1> QED
  BY <1>1, CapacityInvariant, PTL

-----------------------------------------------------------------------------
(* Durability. *)

SerialNode ==
  /\ \A s, t \in Task : s = t
  /\ ~MayCrash /\ ~MayMiss /\ ~MayFailDisk

(* A restore that is under way has room for its next rule. *)
LEMMA RestoreAccepted ==
  ASSUME CapacityInv, NEW k \in RuleKey, restore[k] # None
  PROVE  Accepts(k, restore[k])
<1> DEFINE K == Entries(fwd)
           L == Entries(fwd) \cup Entries(restore)
<1>1. L \in SUBSET RuleKey /\ K \in SUBSET RuleKey /\ Fits(L)
  BY EntriesAreKeys DEF CapacityInv, CapacityKept
<1>2. CASE fwd[k] # None
  BY <1>2 DEF Accepts
<1>3. CASE fwd[k] = None
  <2>1. k \notin K /\ K \cup {k} \in SUBSET L
    BY <1>3 DEF Entries
  <2>2. Fits(K \cup {k})
    BY <1>1, <2>1, KeySets
  <2>3. IsFiniteSet(K) /\ Cardinality(K) \in Nat
    BY <1>1, KeySets
  <2>4. Cardinality(K \cup {k}) = Cardinality(K) + 1
    BY <2>1, <2>3, FS_AddElement
  <2>5. Cardinality(K) < MaxRules
    BY <2>2, <2>3, <2>4, RoomAssumption DEF Fits
  <2> QED
    BY <2>5 DEF Accepts
<1> QED
  BY <1>2, <1>3

LEMMA DurableInit == Init => DurableInv
<1> SUFFICES ASSUME Init PROVE DurableInv
  OBVIOUS
<1>1. /\ file.rules = Absent /\ Absent # Garbled /\ daemon = "down"
      /\ \A k \in RuleKey : acked[k] = None
      /\ \A t \in Task : task[t].pc = "idle"
  BY ValueAssumption, RestingIsTaskState DEF Init, NoRules
<1> QED
  BY <1>1 DEF DurableInv, FileKept, RestoreKept, SaveKept, Restored, FileSays, Saving

(* One task moves and the map, the file and what clients were told stay. *)
LEMMA LoneTaskMoves ==
  ASSUME SerialNode, CapacityInv, DurableInv, daemon = "serving",
         NEW t \in Task, NEW s \in TaskState, task' = [task EXCEPT ![t] = s],
         UNCHANGED <<fwd, file, daemon, restore, acked>>,
         s.pc \in {"idle", "resolve", "apply", "list", "create"},
         task[t].pc # "write",
         s.pc = "create" => s.rules = fwd
  PROVE  DurableInv'
<1>1. \A u \in Task : u = t
  BY DEF SerialNode
<1>2. task[t] \in TaskState /\ task'[t] = s
  BY TaskIs DEF CapacityInv, TypeOK
<1>3. ~Saving /\ ~Saving'
  BY <1>1, <1>2 DEF Saving
<1>4. FileKept'
  BY <1>3 DEF DurableInv, FileKept, Told, FileSays
<1>5. RestoreKept' /\ Restored'
  BY DEF DurableInv, RestoreKept, Restored, Told
<1>6. SaveKept'
  BY <1>1, <1>2 DEF SaveKept
<1> QED
  BY <1>4, <1>5, <1>6 DEF DurableInv

LEMMA DurableStep ==
  ASSUME SerialNode
  PROVE  CapacityInv /\ DurableInv /\ [Next]_vars => DurableInv'
<1> SUFFICES ASSUME CapacityInv, DurableInv, [Next]_vars PROVE DurableInv'
  OBVIOUS
<1>t. /\ fwd \in Rules /\ restore \in Rules
      /\ file \in [len : Nat, rules : Rules \cup {Garbled, Absent}]
      /\ task \in [Task -> TaskState]
      /\ acked \in [RuleKey -> Target \cup {None, Unknown}]
  BY DEF CapacityInv, TypeOK, TaskState
<1>r. /\ daemon = "down" => fwd = NoRules
      /\ daemon # "restoring" => restore = NoRules
  BY DEF CapacityInv, RestoreDone
<1>d. FileKept /\ RestoreKept /\ SaveKept /\ Restored
  BY DEF DurableInv
<1>n. \A k \in RuleKey : NoRules[k] = None
  BY DEF NoRules
<1>v. Absent # Garbled /\ \A m \in Rules : m # Absent /\ m # Garbled
  BY ValueAssumption DEF Rules
<1>o. \A s, t \in Task : s = t
  BY DEF SerialNode
<1>1. CASE UNCHANGED vars
  BY <1>1, <1>d DEF vars, DurableInv, FileKept, RestoreKept, SaveKept, Restored, Told,
                    FileSays, Saving
<1>2. CASE Start
  <2>1. /\ daemon = "down" /\ fwd' = fwd /\ file' = file /\ task' = task /\ acked' = acked
        /\ fwd = NoRules
    BY <1>2, <1>r DEF Start
  <2>2. \A t \in Task : task[t].pc = "idle"
    BY <2>1, <1>d DEF SaveKept
  <2>3. ~Saving /\ ~Saving'
    BY <2>1, <2>2 DEF Saving
  <2>4. /\ file.rules # Garbled
        /\ \A k \in RuleKey : Told(k) => FileSays(k) = acked[k]
    BY <2>3, <1>d DEF FileKept
  <2>5. FileKept'
    BY <2>1, <2>4 DEF FileKept, Told, FileSays
  <2>6. SaveKept'
    BY <2>1, <2>2 DEF SaveKept
  <2>7. CASE Readable /\ daemon' = "restoring" /\ restore' = file.rules
    <3>1. RestoreKept'
      BY <2>1, <2>4, <2>7, <1>n DEF RestoreKept, Told, FileSays, Readable
    <3> QED
      BY <2>5, <2>6, <2>7, <3>1 DEF DurableInv, Restored
  <2>8. CASE ~Readable /\ daemon' = "serving"
    <3>1. file.rules = Absent
      BY <2>4, <2>8 DEF Readable
    <3>2. Restored'
      BY <2>1, <2>4, <3>1, <1>n DEF Restored, Told, FileSays
    <3> QED
      BY <2>5, <2>6, <2>8, <3>2 DEF DurableInv, RestoreKept
  <2> QED
    BY <1>2, <2>7, <2>8 DEF Start
<1>3. CASE Serve
  <2>1. /\ daemon = "restoring" /\ daemon' = "serving" /\ restore = NoRules
        /\ UNCHANGED <<fwd, file, restore, task, acked>>
    BY <1>3 DEF Serve
  <2>2. Restored'
    BY <2>1, <1>d, <1>n DEF Restored, RestoreKept, Told
  <2>3. FileKept' /\ SaveKept' /\ RestoreKept'
    BY <2>1, <1>d DEF FileKept, SaveKept, RestoreKept, Told, FileSays, Saving
  <2> QED
    BY <2>2, <2>3 DEF DurableInv
<1>4. CASE Exit
  <2>1. /\ daemon' = "down" /\ task' = [t \in Task |-> Resting]
        /\ UNCHANGED <<file, acked>> /\ ~Saving
    BY <1>4 DEF Exit, Saving, SerialNode
  <2>2. \A t \in Task : task'[t].pc = "idle"
    BY <2>1, RestingIsTaskState
  <2>3. FileKept'
    BY <2>1, <1>d DEF FileKept, Told, FileSays
  <2>4. SaveKept'
    BY <2>2 DEF SaveKept
  <2> QED
    BY <2>1, <2>3, <2>4 DEF DurableInv, RestoreKept, Restored
<1>5. ASSUME NEW k \in RuleKey, RestoreRule(k) PROVE DurableInv'
  <2>1. /\ daemon = "restoring" /\ restore[k] # None
        /\ fwd' = [fwd EXCEPT ![k] = restore[k]]
        /\ restore' = [restore EXCEPT ![k] = None]
        /\ UNCHANGED <<file, daemon, task, acked>>
    BY <1>5, RestoreAccepted DEF RestoreRule, SerialNode
  <2>2. \A t \in Task : task[t].pc = "idle"
    BY <2>1, <1>d DEF SaveKept
  <2>3. FileKept' /\ SaveKept'
    BY <2>1, <2>2, <1>d DEF FileKept, SaveKept, Told, FileSays, Saving
  <2>4. RestoreKept'
    BY <2>1, <1>d, <1>t DEF RestoreKept, Told, Rules
  <2> QED
    BY <2>1, <2>3, <2>4 DEF DurableInv, Restored
<1>6. ASSUME NEW t \in Task, NEW k \in RuleKey, NEW v \in Target, BeginAdd(t, k, v)
      PROVE  DurableInv'
  <2> DEFINE s == [Resting EXCEPT !.pc = "resolve", !.key = k, !.to = v]
  <2>1. s \in TaskState /\ s.pc = "resolve"
    BY EmptyRules DEF Resting, TaskState
  <2>2. /\ task' = [task EXCEPT ![t] = s] /\ task[t].pc = "idle" /\ daemon = "serving"
        /\ UNCHANGED <<fwd, file, daemon, restore, acked>>
    BY <1>6 DEF BeginAdd, At
  <2> HIDE DEF s
  <2> QED
    BY <2>1, <2>2, LoneTaskMoves
<1>7. ASSUME NEW t \in Task, NEW k \in RuleKey, BeginDelete(t, k) PROVE DurableInv'
  <2> DEFINE s == [Resting EXCEPT !.pc = "apply", !.key = k]
  <2>1. s \in TaskState /\ s.pc = "apply"
    BY EmptyRules DEF Resting, TaskState
  <2>2. /\ task' = [task EXCEPT ![t] = s] /\ task[t].pc = "idle" /\ daemon = "serving"
        /\ UNCHANGED <<fwd, file, daemon, restore, acked>>
    BY <1>7 DEF BeginDelete, At
  <2> HIDE DEF s
  <2> QED
    BY <2>1, <2>2, LoneTaskMoves
<1>8. ASSUME NEW t \in Task, Resolve(t) PROVE DurableInv'
  <2>1. /\ task[t].pc = "resolve" /\ daemon = "serving"
        /\ UNCHANGED <<fwd, file, daemon, restore, acked>>
    BY <1>8 DEF Resolve, At
  <2>2. CASE Goto(t, "apply")
    <3> DEFINE s == [task[t] EXCEPT !.pc = "apply"]
    <3>1. s \in TaskState /\ s.pc = "apply"
      BY <1>t DEF TaskState
    <3>2. task' = [task EXCEPT ![t] = s]
      BY <2>2, TaskIs DEF Goto
    <3> HIDE DEF s
    <3> QED
      BY <3>1, <3>2, <2>1, LoneTaskMoves
  <2>3. CASE task' = [task EXCEPT ![t] = Resting]
    BY <2>1, <2>3, RestingIsTaskState, LoneTaskMoves
  <2> QED
    BY <1>8, <2>2, <2>3 DEF Resolve
<1>9. ASSUME NEW t \in Task, Apply(t) PROVE DurableInv'
  <2> DEFINE k == task[t].key
             v == task[t].to
  <2>1. /\ task[t].pc = "apply" /\ daemon = "serving"
        /\ UNCHANGED <<file, daemon, restore>>
    BY <1>9 DEF Apply, At
  <2>2. CASE /\ fwd' = [fwd EXCEPT ![k] = v]
             /\ acked' = [acked EXCEPT ![k] = Unknown]
             /\ Goto(t, "list")
    <3>1. task'[t].pc = "list" /\ \A u \in Task : u = t
      BY <2>2, <1>t, <1>o DEF Goto, TaskState
    <3>2. ~Saving /\ ~Saving'
      BY <2>1, <3>1, <1>o DEF Saving
    <3>3. \A j \in RuleKey : Told(j)' => j # k /\ Told(j) /\ acked'[j] = acked[j] /\ fwd'[j] = fwd[j]
      BY <2>2, <1>t DEF Told, Rules
    <3>4. FileKept'
      BY <2>1, <3>2, <3>3, <1>d DEF FileKept, FileSays
    <3>5. Restored'
      BY <2>1, <3>3, <1>d DEF Restored
    <3>6. SaveKept'
      BY <2>1, <3>1 DEF SaveKept
    <3> QED
      BY <2>1, <3>4, <3>5, <3>6 DEF DurableInv, RestoreKept
  <2>3. CASE task' = [task EXCEPT ![t] = Resting] /\ UNCHANGED <<fwd, acked>>
    BY <2>1, <2>3, RestingIsTaskState, LoneTaskMoves
  <2> QED
    BY <1>9, <2>2, <2>3 DEF Apply
<1>10. ASSUME NEW t \in Task, List(t) PROVE DurableInv'
  <2> DEFINE s == [task[t] EXCEPT !.pc = "create", !.rules = fwd]
  <2>1. s \in TaskState /\ s.rules = fwd /\ s.pc = "create"
    BY <1>t DEF TaskState
  <2>2. /\ task' = [task EXCEPT ![t] = s] /\ task[t].pc = "list" /\ daemon = "serving"
        /\ UNCHANGED <<fwd, file, daemon, restore, acked>>
    BY <1>10, <1>t DEF List, At, TaskState
  <2> HIDE DEF s
  <2> QED
    BY <2>1, <2>2, LoneTaskMoves
<1>11. ASSUME NEW t \in Task, Create(t) PROVE DurableInv'
  <2>1. /\ task[t].pc = "create" /\ daemon = "serving"
        /\ file' = [len |-> 0, rules |-> Garbled]
        /\ Goto(t, "write") /\ UNCHANGED <<fwd, daemon, restore, acked>>
    BY <1>11 DEF Create, At, SerialNode
  <2>2. /\ task'[t].pc = "write" /\ task'[t].rules = task[t].rules
        /\ \A u \in Task : u = t
    BY <2>1, <1>t, <1>o DEF Goto, TaskState
  <2>3. FileKept'
    BY <2>2 DEF FileKept, Saving
  <2>4. SaveKept'
    BY <2>1, <2>2, <1>d DEF SaveKept
  <2>5. RestoreKept' /\ Restored'
    BY <2>1, <1>d DEF RestoreKept, Restored, Told
  <2> QED
    BY <2>3, <2>4, <2>5 DEF DurableInv
<1>12. ASSUME NEW t \in Task, Write(t) PROVE DurableInv'
  <2>0. task[t].pc = "write" /\ task[t].rules = fwd /\ file.len = 0
    BY <1>12, <1>d DEF Write, At, SaveKept
  <2>l. Length(fwd) \in Nat /\ Length(fwd) > 0
    BY LengthPositive
  <2>m. Meeting(t) = {fwd}
    BY <2>0, <1>o DEF Meeting
  <2>n. \A r \in Blends(t) : r = fwd
    <3> SUFFICES ASSUME NEW r \in Blends(t) PROVE r = fwd
      OBVIOUS
    <3>1. r \in Rules /\ fwd \in Rules
      BY <1>t DEF Blends
    <3>2. \A k \in RuleKey : r[k] = fwd[k]
      BY <2>m DEF Blends
    <3> QED
      BY <3>1, <3>2 DEF Rules
  <2>1. /\ task[t].pc = "write" /\ daemon = "serving"
        /\ file' = Overwritten(task[t].rules)
        /\ Goto(t, "reply") /\ UNCHANGED <<fwd, daemon, restore, acked>>
    BY <1>12, <2>0, <2>l, <2>m, <2>n DEF Write, At, SerialNode, Overwritten
  <2>2. task[t].rules = fwd /\ file.len = 0
    BY <2>0
  <2>3. file'.rules = fwd
    BY <2>1, <2>2, <2>l DEF Overwritten
  <2>4. task'[t].pc = "reply" /\ \A u \in Task : u = t
    BY <2>1, <1>t, <1>o DEF Goto, TaskState
  <2>5. FileKept'
    BY <2>1, <2>3, <1>d, <1>t, <1>v DEF FileKept, Restored, Told, FileSays
  <2>6. SaveKept'
    BY <2>1, <2>3, <2>4 DEF SaveKept
  <2>7. RestoreKept' /\ Restored'
    BY <2>1, <1>d DEF RestoreKept, Restored, Told
  <2> QED
    BY <2>5, <2>6, <2>7 DEF DurableInv
<1>13. ASSUME NEW t \in Task, Reply(t) PROVE DurableInv'
  <2> DEFINE k == task[t].key
  <2>1. /\ task[t].pc = "reply" /\ daemon = "serving"
        /\ task' = [task EXCEPT ![t] = Resting]
        /\ UNCHANGED <<fwd, file, daemon, restore>>
        /\ acked' = [acked EXCEPT ![k] = fwd[k]]
    BY <1>13, <1>o DEF Reply, At
  <2>2. file.rules = fwd
    BY <2>1, <1>d DEF SaveKept
  <2>3. \A j \in RuleKey : Told(j)' => acked'[j] = fwd[j]
    BY <2>1, <1>d, <1>t DEF Told, Restored
  <2>4. task'[t].pc = "idle" /\ \A u \in Task : u = t
    BY <2>1, <1>t, <1>o, RestingIsTaskState
  <2>5. FileKept'
    BY <2>1, <2>2, <2>3, <1>t, <1>v DEF FileKept, FileSays
  <2>6. SaveKept'
    BY <2>4 DEF SaveKept
  <2>7. RestoreKept' /\ Restored'
    BY <2>1, <2>3 DEF RestoreKept, Restored
  <2> QED
    BY <2>5, <2>6, <2>7 DEF DurableInv
<1>14. ASSUME NEW t \in Task, Abandon(t) PROVE DurableInv'
  <2>1. /\ task' = [task EXCEPT ![t] = Resting] /\ daemon = "serving"
        /\ task[t].pc # "write"
        /\ UNCHANGED <<fwd, file, daemon, restore, acked>>
    BY <1>14 DEF Abandon
  <2> QED
    BY <2>1, RestingIsTaskState, LoneTaskMoves
<1> QED
  BY <1>1, <1>2, <1>3, <1>4, <1>5, <1>6, <1>7, <1>8, <1>9, <1>10, <1>11,
     <1>12, <1>13, <1>14 DEF Next

(* What file, restore, map and the save under way owe each other, at each step of
   a start-up and of a command. *)
THEOREM DurableInvariant == ASSUME SerialNode PROVE Spec => []DurableInv
<1>1. CapacityInv /\ DurableInv /\ [Next]_vars => DurableInv'
  BY DurableStep
<1> QED
  BY <1>1, DurableInit, CapacityInvariant, PTL DEF Spec

(* Commands handled one at a time on a node that is stopped and not killed
   are in the file once they were answered. *)
THEOREM AnsweredRulesAreDurable == ASSUME SerialNode PROVE Spec => []Durable
<1>1. DurableInv => Durable
  BY DEF DurableInv, FileKept, Durable
<1> QED
  BY <1>1, DurableInvariant, PTL

(* And they are in force again on every node that serves after a restart. *)
THEOREM AnsweredRulesAreRestored == ASSUME SerialNode PROVE Spec => []Restored
<1>1. DurableInv => Restored
  BY DEF DurableInv
<1> QED
  BY <1>1, DurableInvariant, PTL

-----------------------------------------------------------------------------
(* Commands handled one at a time implement the rule book. *)

LEMMA BookStays ==
  ASSUME ~Saving, ~Saving', UNCHANGED file
  PROVE  Book' = Book
BY DEF Book, FileSays

LEMMA BookStaysAsTaskMoves ==
  ASSUME SerialNode, CapacityInv, NEW t \in Task, NEW s \in TaskState,
         task' = [task EXCEPT ![t] = s], task[t].pc # "write", s.pc # "write",
         UNCHANGED file
  PROVE  Book' = Book
<1>1. \A u \in Task : u = t
  BY DEF SerialNode
<1>2. task'[t] = s
  BY TaskIs DEF CapacityInv, TypeOK
<1> QED
  BY <1>1, <1>2, BookStays DEF Saving

LEMMA BookInit == Init => Promised!Init
<1> SUFFICES ASSUME Init PROVE Book = NoRules /\ acked = NoRules
  BY DEF Promised!Init, NoRules
<1>1. ~Saving
  BY RestingIsTaskState DEF Init, Saving
<1> QED
  BY <1>1 DEF Init, Book, FileSays, NoRules

LEMMA BookStep ==
  ASSUME SerialNode
  PROVE  CapacityInv /\ DurableInv /\ [Next]_vars => [Promised!Next]_<<Book, acked>>
<1> SUFFICES ASSUME CapacityInv, DurableInv, [Next]_vars
             PROVE  [Promised!Next]_<<Book, acked>>
  OBVIOUS
<1>t. /\ fwd \in Rules /\ file \in [len : Nat, rules : Rules \cup {Garbled, Absent}]
      /\ task \in [Task -> TaskState]
      /\ acked \in [RuleKey -> Target \cup {None, Unknown}]
  BY DEF CapacityInv, TypeOK, TaskState
<1>d. FileKept /\ SaveKept /\ Restored
  BY DEF DurableInv
<1>e. SaveKept'
  BY DurableStep DEF DurableInv
<1>o. \A s, t \in Task : s = t
  BY DEF SerialNode
<1>v. fwd # Absent
  BY <1>t, ValueAssumption DEF Rules
<1>k. \A t \in Task : task[t].pc # "idle" => task[t].key \in RuleKey
  BY DEF CapacityInv, Keyed
<1>1. CASE UNCHANGED vars
  BY <1>1 DEF vars, Book, FileSays, Saving
<1>2. CASE Start \/ Serve \/ \E k \in RuleKey : RestoreRule(k)
  <2>1. daemon # "serving" /\ UNCHANGED <<file, task, acked>>
    BY <1>2 DEF Start, Serve, RestoreRule
  <2>2. ~Saving /\ ~Saving'
    BY <2>1, <1>d DEF SaveKept, Saving
  <2> QED
    BY <2>1, <2>2, BookStays
<1>3. CASE Exit
  <2>1. task' = [t \in Task |-> Resting] /\ UNCHANGED <<file, acked>> /\ ~Saving
    BY <1>3 DEF Exit, Saving, SerialNode
  <2>2. ~Saving'
    BY <2>1, RestingIsTaskState DEF Saving
  <2> QED
    BY <2>1, <2>2, BookStays
<1>4. ASSUME NEW t \in Task, NEW k \in RuleKey, NEW v \in Target, BeginAdd(t, k, v)
      PROVE  Book' = Book /\ acked' = acked
  <2> DEFINE s == [Resting EXCEPT !.pc = "resolve", !.key = k, !.to = v]
  <2>1. s \in TaskState /\ s.pc = "resolve"
    BY EmptyRules DEF Resting, TaskState
  <2>2. task' = [task EXCEPT ![t] = s] /\ task[t].pc = "idle" /\ UNCHANGED <<file, acked>>
    BY <1>4 DEF BeginAdd, At
  <2> HIDE DEF s
  <2> QED
    BY <2>1, <2>2, BookStaysAsTaskMoves
<1>5. ASSUME NEW t \in Task, NEW k \in RuleKey, BeginDelete(t, k)
      PROVE  Book' = Book /\ acked' = acked
  <2> DEFINE s == [Resting EXCEPT !.pc = "apply", !.key = k]
  <2>1. s \in TaskState /\ s.pc = "apply"
    BY EmptyRules DEF Resting, TaskState
  <2>2. task' = [task EXCEPT ![t] = s] /\ task[t].pc = "idle" /\ UNCHANGED <<file, acked>>
    BY <1>5 DEF BeginDelete, At
  <2> HIDE DEF s
  <2> QED
    BY <2>1, <2>2, BookStaysAsTaskMoves
<1>6. ASSUME NEW t \in Task, Resolve(t) \/ List(t) \/ Abandon(t)
      PROVE  Book' = Book /\ acked' = acked
  <2>1. task[t].pc # "write" /\ UNCHANGED <<file, acked>>
    BY <1>6 DEF Resolve, List, Abandon, At
  <2>2. \E s \in TaskState : s.pc # "write" /\ task' = [task EXCEPT ![t] = s]
    <3>1. CASE Resolve(t) \/ Abandon(t)
      <4> DEFINE s == [task[t] EXCEPT !.pc = "apply"]
      <4>1. s \in TaskState /\ s.pc # "write"
        BY <1>t DEF TaskState
      <4>2. CASE Goto(t, "apply")
        BY <4>1, <4>2, TaskIs DEF Goto
      <4>3. CASE task' = [task EXCEPT ![t] = Resting]
        BY <4>3, RestingIsTaskState
      <4> QED
        BY <3>1, <4>2, <4>3 DEF Resolve, Abandon
    <3>2. CASE List(t)
      <4> DEFINE s == [task[t] EXCEPT !.pc = "create", !.rules = fwd]
      <4>1. s \in TaskState /\ s.pc = "create"
        BY <1>t DEF TaskState
      <4>2. task' = [task EXCEPT ![t] = s]
        BY <3>2, <1>t DEF List, TaskState
      <4> QED
        BY <4>1, <4>2
    <3> QED
      BY <1>6, <3>1, <3>2
  <2> QED
    BY <2>1, <2>2, BookStaysAsTaskMoves
<1>7. ASSUME NEW t \in Task, Apply(t) PROVE [Promised!Next]_<<Book, acked>>
  <2> DEFINE k == task[t].key
             s == [task[t] EXCEPT !.pc = "list"]
  <2>1. task[t].pc = "apply" /\ file' = file /\ k \in RuleKey
    BY <1>7, <1>k DEF Apply, At
  <2>2. CASE acked' = [acked EXCEPT ![k] = Unknown] /\ Goto(t, "list")
    <3>1. s \in TaskState /\ s.pc = "list"
      BY <1>t DEF TaskState
    <3>2. task' = [task EXCEPT ![t] = s]
      BY <2>2, TaskIs DEF Goto
    <3>3. Book' = Book
      <4> HIDE DEF s
      <4> QED
        BY <2>1, <3>1, <3>2, BookStaysAsTaskMoves
    <3> QED
      BY <2>1, <2>2, <3>3 DEF Promised!Next, Promised!Doubt
  <2>3. CASE task' = [task EXCEPT ![t] = Resting] /\ acked' = acked
    BY <2>1, <2>3, RestingIsTaskState, BookStaysAsTaskMoves
  <2> QED
    BY <1>7, <2>2, <2>3 DEF Apply
<1>8. ASSUME NEW t \in Task, Create(t) PROVE Promised!Next
  <2>1. task[t].pc = "create" /\ daemon = "serving" /\ Goto(t, "write")
        /\ UNCHANGED <<fwd, acked>>
    BY <1>8 DEF Create, At, SerialNode
  <2>2. task'[t].pc = "write"
    BY <2>1, <1>t DEF Goto, TaskState
  <2>3. ~Saving /\ Saving'
    BY <2>1, <2>2, <1>o DEF Saving
  <2>4. Book' = fwd
    BY <2>1, <2>3, <1>t DEF Book, Rules
  <2>5. \A k \in RuleKey : Told(k) => Book[k] = acked[k] /\ fwd[k] = acked[k]
    BY <2>1, <2>3, <1>d DEF FileKept, Restored, Book
  <2>6. Promised!Enter
    BY <2>1, <2>4, <2>5, <1>t DEF Promised!Enter, Promised!Rules, Rules, Told
  <2> QED
    BY <2>6 DEF Promised!Next
<1>9. ASSUME NEW t \in Task, Write(t) PROVE Book' = Book /\ acked' = acked
  <2>1. task[t].pc = "write" /\ Goto(t, "reply") /\ UNCHANGED <<fwd, acked>>
    BY <1>9 DEF Write, At
  <2>2. task'[t].pc = "reply"
    BY <2>1, <1>t DEF Goto, TaskState
  <2>3. Saving /\ ~Saving'
    BY <2>1, <2>2, <1>o DEF Saving
  <2>4. file'.rules = fwd
    BY <2>1, <2>2, <1>e DEF SaveKept
  <2> QED
    BY <2>1, <2>3, <2>4, <1>v DEF Book, FileSays
<1>10. ASSUME NEW t \in Task, Reply(t) PROVE Promised!Next
  <2> DEFINE k == task[t].key
  <2>1. /\ task[t].pc = "reply" /\ file' = file
        /\ task' = [task EXCEPT ![t] = Resting]
        /\ acked' = [acked EXCEPT ![k] = fwd[k]]
    BY <1>10, <1>o DEF Reply, At
  <2>2. Book' = Book
    BY <2>1, RestingIsTaskState, BookStaysAsTaskMoves
  <2>3. ~Saving /\ file.rules = fwd /\ k \in RuleKey
    BY <2>1, <1>d, <1>k, <1>o DEF SaveKept, Saving
  <2>4. Book[k] = fwd[k]
    BY <2>3, <1>v DEF Book, FileSays
  <2> QED
    BY <2>1, <2>2, <2>3, <2>4 DEF Promised!Next, Promised!Tell
<1> QED
  BY <1>1, <1>2, <1>3, <1>4, <1>5, <1>6, <1>7, <1>8, <1>9, <1>10 DEF Next

(* The file is a rule book: with one command at a time, what it says of a key
   changes only while that key has a command under way or unanswered. *)
THEOREM NodesKeepTheBook == ASSUME SerialNode PROVE Spec => BookSpec
<1>1. Init => Promised!Init
  BY BookInit
<1>2. CapacityInv /\ DurableInv /\ [Next]_vars => [Promised!Next]_<<Book, acked>>
  BY BookStep
<1> QED
  BY <1>1, <1>2, CapacityInvariant, DurableInvariant, PTL DEF Spec, BookSpec, Promised!Spec

-----------------------------------------------------------------------------
(* The file under races, crashes and failing disks. *)

LEMMA LiveInit == HInit => LiveInv
BY RestingIsTaskState DEF HInit, Init, LiveInv, Readable, Saving

(* A step that writes no file: tasks leave their saves or begin one, with a
   configuration in hand, but none truncates the file. *)
LEMMA LiveElsewhere ==
  ASSUME LiveInv, Recorded, file' = file,
         \A u \in Task : task'[u].pc = "create" => task'[u].rules \in past,
         \A u \in Task :
           task'[u].pc = "write" => task[u].pc = "write" /\ task'[u].rules = task[u].rules
  PROVE  LiveInv'
<1>1. overlapped' = overlapped
  BY DEF Recorded, Truncates
<1>2. past \subseteq past' /\ fwd' \in past'
  BY DEF Recorded
<1>3. \A t \in Task : task'[t].pc \in {"create", "write"} => task'[t].rules \in past'
  BY <1>2 DEF LiveInv
<1>4. ASSUME ~overlapped'
      PROVE  /\ \A t, u \in Task : task'[t].pc = "write" /\ task'[u].pc = "write" => t = u
             /\ Saving' => file' = [len |-> 0, rules |-> Garbled]
             /\ Readable' => file'.rules \in past'
  BY <1>1, <1>2, <1>4 DEF LiveInv, Saving, Readable
<1> QED
  BY <1>2, <1>3, <1>4 DEF LiveInv

(* The same for one task, the others staying where they are. *)
LEMMA LiveMoves ==
  ASSUME CapacityInv, LiveInv, Recorded, file' = file, NEW t \in Task, NEW s,
         task' = [task EXCEPT ![t] = s], s.pc # "write", s.pc = "create" => s.rules \in past
  PROVE  LiveInv'
<1>1. task'[t] = s /\ \A u \in Task \ {t} : task'[u] = task[u]
  BY DEF CapacityInv, TypeOK
<1> QED
  BY <1>1, LiveElsewhere DEF LiveInv

(* Only one save is under way, and it began in an empty file: what its write
   makes of the file is what it took down, or nothing. *)
LEMMA LoneSaveWrites ==
  ASSUME CapacityInv, NEW t \in Task, Write(t), file = [len |-> 0, rules |-> Garbled],
         \A u \in Task : task[u].pc = "write" => u = t
  PROVE  Readable' => file'.rules = task[t].rules
<1> DEFINE m == task[t].rules
<1>1. m \in Rules /\ task[t].pc = "write" /\ file.len = 0 /\ file.rules = Garbled
  BY DEF CapacityInv, TypeOK, Write, At
<1>2. Length(m) \in Nat /\ Length(m) > 0
  BY LengthPositive
<1>3. Meeting(t) = {m}
  BY <1>1 DEF Meeting
<1>4. \A r \in Blends(t) : r = m
  <2> SUFFICES ASSUME NEW r \in Blends(t) PROVE r = m
    OBVIOUS
  <2>1. r \in Rules /\ \A k \in RuleKey : r[k] = m[k]
    BY <1>3 DEF Blends
  <2> QED
    BY <2>1, <1>1 DEF Rules
<1>5. Overwritten(m) = [len |-> Length(m), rules |-> m]
  BY <1>1, <1>2 DEF Overwritten
<1>6. CASE file' = Overwritten(m)
  BY <1>5, <1>6
<1>7. CASE \E r \in Blends(t) : file' = [len |-> Length(r), rules |-> r]
  BY <1>4, <1>7
<1>8. CASE file' = [file EXCEPT !.rules = Garbled]
  <2>1. file'.rules = Garbled
    BY <1>8 DEF CapacityInv, TypeOK
  <2> QED
    BY <2>1 DEF Readable
<1> QED
  BY <1>6, <1>7, <1>8 DEF Write

LEMMA LiveStep ==
  ASSUME CapacityInv, LiveInv, [HNext]_<<vars, past, overlapped>>
  PROVE  LiveInv'
<1>t. task \in [Task -> TaskState]
  BY DEF CapacityInv, TypeOK, TaskState
<1>1. CASE UNCHANGED <<vars, past, overlapped>>
  BY <1>1 DEF vars, LiveInv, Saving, Readable
<1>2. CASE Recorded /\ file' = file /\ task' = task
  BY <1>2, LiveElsewhere DEF LiveInv
<1>3. ASSUME Recorded, file' = file, NEW t \in Task,
             NEW p \in {"apply", "list", "reply"}, Goto(t, p)
      PROVE  LiveInv'
  <2> DEFINE s == [task[t] EXCEPT !.pc = p]
  <2>1. s.pc = p /\ task' = [task EXCEPT ![t] = s]
    BY <1>3, <1>t, TaskIs DEF Goto, TaskState
  <2> HIDE DEF s
  <2> QED
    BY <1>3, <2>1, LiveMoves
<1>4. ASSUME Recorded, file' = file, NEW t \in Task, task' = [task EXCEPT ![t] = Resting]
      PROVE  LiveInv'
  BY <1>4, RestingIsTaskState, LiveMoves
<1>5. ASSUME Recorded, Exit PROVE LiveInv'
  BY <1>5, RestingIsTaskState, LiveElsewhere DEF Exit
<1>6. ASSUME Recorded, NEW t \in Task, NEW k \in RuleKey, NEW v, BeginAdd(t, k, v) PROVE LiveInv'
  <2> DEFINE s == [Resting EXCEPT !.pc = "resolve", !.key = k, !.to = v]
  <2>1. s.pc = "resolve"
    BY DEF Resting
  <2>2. task' = [task EXCEPT ![t] = s] /\ file' = file
    BY <1>6 DEF BeginAdd
  <2> HIDE DEF s
  <2> QED
    BY <1>6, <2>1, <2>2, LiveMoves
<1>7. ASSUME Recorded, NEW t \in Task, NEW k \in RuleKey, BeginDelete(t, k) PROVE LiveInv'
  <2> DEFINE s == [Resting EXCEPT !.pc = "apply", !.key = k]
  <2>1. s.pc = "apply"
    BY DEF Resting
  <2>2. task' = [task EXCEPT ![t] = s] /\ file' = file
    BY <1>7 DEF BeginDelete
  <2> HIDE DEF s
  <2> QED
    BY <1>7, <2>1, <2>2, LiveMoves
<1>8. ASSUME Recorded, NEW t \in Task, List(t) PROVE LiveInv'
  <2> DEFINE s == [task[t] EXCEPT !.pc = "create", !.rules = fwd]
  <2>1. s.pc = "create" /\ s.rules = fwd /\ fwd \in past
    BY <1>t DEF TaskState, LiveInv
  <2>2. task' = [task EXCEPT ![t] = s] /\ file' = file
    BY <1>8, <1>t DEF List, TaskState
  <2> HIDE DEF s
  <2> QED
    BY <1>8, <2>1, <2>2, LiveMoves
<1>9. ASSUME Recorded, NEW t \in Task, Create(t), Goto(t, "write"),
             file' = [len |-> 0, rules |-> Garbled]
      PROVE  LiveInv'
  <2>1. /\ task[t].pc = "create" /\ task'[t].pc = "write" /\ task'[t].rules = task[t].rules
        /\ \A u \in Task \ {t} : task'[u] = task[u]
    BY <1>9, <1>t DEF Create, At, Goto, TaskState
  <2>2. fwd' \in past' /\ past \subseteq past'
    BY <1>9 DEF Recorded
  <2>3. \A u \in Task : task'[u].pc \in {"create", "write"} => task'[u].rules \in past'
    BY <2>1, <2>2 DEF LiveInv
  <2>4. Overlaps(t) => overlapped'
    <3>1. Truncates(t)
      BY <2>1 DEF Truncates
    <3> QED
      BY <1>9, <3>1 DEF Recorded
  <2>5. ~overlapped' => \A u \in Task : task'[u].pc = "write" => u = t
    BY <2>1, <2>4 DEF Overlaps
  <2>6. file' = [len |-> 0, rules |-> Garbled] /\ ~Readable'
    BY <1>9 DEF Readable
  <2> QED
    BY <2>2, <2>3, <2>5, <2>6 DEF LiveInv
<1>10. ASSUME Recorded, NEW t \in Task, Write(t) PROVE LiveInv'
  <2>1. /\ task[t].pc = "write" /\ task'[t].pc = "reply"
        /\ \A u \in Task \ {t} : task'[u] = task[u]
    BY <1>10, <1>t DEF Write, At, Goto, TaskState
  <2>2. fwd' \in past' /\ past \subseteq past' /\ overlapped' = overlapped
    BY <1>10, <2>1 DEF Recorded, Truncates
  <2>3. \A u \in Task : task'[u].pc \in {"create", "write"} => task'[u].rules \in past'
    BY <2>1, <2>2 DEF LiveInv
  <2>4. ASSUME ~overlapped'
        PROVE  /\ \A u \in Task : task'[u].pc # "write"
               /\ Readable' => file'.rules \in past'
    <3>1. /\ \A u \in Task : task[u].pc = "write" => u = t
          /\ file = [len |-> 0, rules |-> Garbled]
          /\ task[t].rules \in past
      BY <2>1, <2>2, <2>4 DEF LiveInv, Saving
    <3>2. Readable' => file'.rules = task[t].rules
      BY <1>10, <3>1, LoneSaveWrites
    <3> QED
      BY <2>1, <2>2, <3>1, <3>2
  <2> QED
    BY <2>2, <2>3, <2>4 DEF LiveInv, Saving
<1>11. ASSUME Recorded, NEW t \in Task,
              Resolve(t) \/ Apply(t) \/ List(t) \/ Create(t) \/ Write(t) \/ Reply(t) \/ Abandon(t)
       PROVE  LiveInv'
  BY <1>3, <1>4, <1>8, <1>9, <1>10, <1>11 DEF Resolve, Apply, Create, Reply, Abandon
<1> QED
  BY <1>1, <1>2, <1>5, <1>6, <1>7, <1>11 DEF HNext, Next, Start, Serve, RestoreRule

(* What saves carry and the file holds is a configuration of the node, at every
   step of a save. *)
THEOREM LiveInvariant == HSpec => []LiveInv
<1>1. CapacityInv /\ LiveInv /\ [HNext]_<<vars, past, overlapped>> => LiveInv'
  BY LiveStep
<1>2. [HNext]_<<vars, past, overlapped>> => [Next]_vars
  BY DEF HNext, vars
<1>3. HSpec => []CapacityInv
  BY <1>2, CapacityInit, CapacityStep, PTL DEF HSpec, HInit
<1> QED
  BY <1>1, <1>3, LiveInit, PTL DEF HSpec

(* Whatever commands race, disks fail and crashes cut short: a file that parses
   and that two saves did not write at once is a configuration the node had. *)
THEOREM FilesAreLiveConfigurations == HSpec => []FileWasLive
<1>1. LiveInv => FileWasLive
  BY DEF LiveInv, FileWasLive
<1> QED
  BY <1>1, LiveInvariant, PTL
=============================================================================
