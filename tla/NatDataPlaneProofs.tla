------------------------- MODULE NatDataPlaneProofs -------------------------
(* Theorems about NatDataPlane, for every value of its constants. *)
EXTENDS NatDataPlane, TLAPS

-----------------------------------------------------------------------------
(* Type correctness. A run's flow, port and local port are set before the
   steps that use them, and the cleanup task removes only what it found. *)

HasFlow == {"session", "refreshRev", "probe", "insertSession", "insertReverse",
            "txForward", "refreshOwnRev", "refreshSession", "txReply"}
HasPort == HasFlow \ {"session", "probe"}
Opening == {"session", "probe", "insertSession", "insertReverse"}

LocalsOf(l) ==
  /\ l.pc \in HasFlow => l.flow \in Flow
  /\ l.pc \in HasPort => l.port \in NatPort
  /\ l.pc \in Opening => l.local_port \in RulePort
  /\ l.pc \in {"session", "probe"} => l.i < Probes

CleanerLocals ==
  cleaner.pc \in {"sessions", "reverses"} => cleaner.todo \subseteq Found

TypeInv ==
  /\ TypeOK
  /\ \A c \in CPU : LocalsOf(cpu[c])
  /\ CleanerLocals

(* The port arithmetic of allocate_nat_port stays inside the port range. *)
LEMMA CandidateInRange ==
  ASSUME NEW f \in Flow, NEW i \in Nat
  PROVE  Candidate(f, i) \in NatPort
<1>1. Hash[f] + i \in Nat
  BY HashAssumption
<1>2. (Hash[f] + i) % HashMod \in Nat
  BY <1>1, HashAssumption
<1>3. ((Hash[f] + i) % HashMod) % PortSpan \in 0 .. PortSpan - 1
  BY <1>2, PortAssumption
<1> QED  BY <1>3, PortAssumption DEF Candidate, NatPort

LEMMA WireType ==
  ASSUME NEW f \in Flow, NEW p \in NatPort
  PROVE  Wire(f, p) \in RevKey
BY DEF Wire, RevKey, Flow

LEMMA IdleType == Idle \in CpuState /\ LocalsOf(Idle)
BY PortAssumption DEF Idle, CpuState, LocalsOf, HasFlow, HasPort, Opening

LEMMA AsleepType == Asleep \in CleanerState
BY TimeAssumption DEF Asleep, CleanerState

LEMMA TouchedSession ==
  ASSUME NEW m \in [Flow -> SessionVal \cup {None}], NEW k \in Flow, NEW t \in Nat
  PROVE  Touched(m, k, t) \in [Flow -> SessionVal \cup {None}]
<1>1. m[k] # None => [m[k] EXCEPT !.last_seen = t] \in SessionVal
  BY DEF SessionVal
<1> QED  BY <1>1 DEF Touched

LEMMA TouchedReverse ==
  ASSUME NEW m \in [RevKey -> RevVal \cup {None}], NEW k \in RevKey, NEW t \in Nat
  PROVE  Touched(m, k, t) \in [RevKey -> RevVal \cup {None}]
<1>1. m[k] # None => [m[k] EXCEPT !.last_seen = t] \in RevVal
  BY DEF RevVal
<1> QED  BY <1>1 DEF Touched

(* A step of one run keeps the types when its new record and the maps do. *)
LEMMA CpuStep ==
  ASSUME TypeInv, NEW c \in CPU, NEW l \in CpuState, LocalsOf(l),
         cpu' = [cpu EXCEPT ![c] = l],
         sess' \in [Flow -> SessionVal \cup {None}],
         rev' \in [RevKey -> RevVal \cup {None}],
         UNCHANGED <<fwd, clock, timeout, cleaner>>
  PROVE  TypeInv'
<1>1. cpu' \in [CPU -> CpuState]
  BY DEF TypeInv, TypeOK
<1>2. \A d \in CPU : LocalsOf(cpu'[d])
  BY DEF TypeInv, TypeOK
<1> QED  BY <1>1, <1>2 DEF TypeInv, TypeOK, CleanerLocals, Found, Entries, LocalsOf

LEMMA TypeReceive ==
  ASSUME TypeInv, NEW c \in CPU, NEW p \in Traffic, Receive(c, p)
  PROVE  TypeInv'
<1> DEFINE k == [proto |-> p.proto, local_port |-> p.dport]
<1>1. p \in Packet /\ (p.dport \in RulePort => p.src \in Client)
  BY TrafficAssumption
<1>2. clock \in Nat /\ sess' = sess /\ rev' = rev /\ TypeOK
  BY DEF TypeInv, TypeOK, Receive
<1>3. CASE p.dport \in RulePort /\ fwd[k] # None
  <2> DEFINE r == [Idle EXCEPT !.pc = "session", !.pkt = p, !.local_port = p.dport,
                      !.time_ns = clock,
                      !.flow = [client |-> p.src, target |-> fwd[k], proto |-> p.proto]]
  <2>1. [client |-> p.src, target |-> fwd[k], proto |-> p.proto] \in Flow
    BY <1>1, <1>2, <1>3 DEF TypeOK, Packet, RuleKey, Flow
  <2>2. /\ r.pc = "session" /\ r.flow \in Flow /\ r.local_port \in RulePort
        /\ r.i = 0 /\ r \in CpuState
    BY <2>1, <1>2, <1>3 DEF Idle, CpuState
  <2>4. LocalsOf(r)
    BY <2>2, PortAssumption DEF LocalsOf, HasFlow, HasPort, Opening
  <2>3. cpu' = [cpu EXCEPT ![c] = r]
    BY <1>3 DEF Receive
  <2> QED  BY <2>2, <2>3, <2>4, <1>2, CpuStep DEF Receive, TypeOK
<1>4. CASE ~(p.dport \in RulePort /\ fwd[k] # None)
  <2> DEFINE r == [Idle EXCEPT !.pc = "reverse", !.pkt = p]
  <2>1. r \in CpuState /\ LocalsOf(r)
    BY DEF Idle, CpuState, LocalsOf, HasFlow, HasPort, Opening
  <2>2. cpu' = [cpu EXCEPT ![c] = r]
    BY <1>4 DEF Receive
  <2> QED  BY <2>1, <2>2, <1>2, CpuStep DEF Receive, TypeOK
<1> QED  BY <1>3, <1>4

LEMMA TypeOpen ==
  ASSUME TypeInv, NEW c \in CPU,
         \/ SessionLookup(c) \/ RefreshReverse(c) \/ Probe(c)
         \/ InsertSession(c) \/ InsertReverse(c)
  PROVE  TypeInv'
<1> DEFINE l == cpu[c]
<1>0. l \in CpuState /\ LocalsOf(l) /\ cpu \in [CPU -> CpuState] /\ TypeOK
  BY DEF TypeInv, TypeOK
<1>1. CASE SessionLookup(c)
  <2>1. l.flow \in Flow /\ l.pc = "session"
    BY <1>0, <1>1 DEF SessionLookup, At, LocalsOf, HasFlow
  <2>2. CASE sess[l.flow] # None
    <3> DEFINE r == [l EXCEPT !.pc = "refreshRev", !.port = sess[l.flow].nat_port]
    <3>1. sess[l.flow].nat_port \in NatPort
      BY <2>1, <2>2, <1>0 DEF TypeOK, SessionVal
    <3>2. r \in CpuState /\ LocalsOf(r)
      BY <3>1, <2>1, <1>0 DEF CpuState, LocalsOf, HasFlow, HasPort, Opening
    <3>3. cpu' = [cpu EXCEPT ![c] = r] /\ sess' = Touched(sess, l.flow, l.time_ns)
      BY <1>1, <2>2, <1>0 DEF SessionLookup, Goto
    <3>4. sess' \in [Flow -> SessionVal \cup {None}]
      BY <3>3, <2>1, <1>0, TouchedSession DEF TypeOK, CpuState
    <3> QED  BY <3>2, <3>3, <3>4, <1>1, <1>0, CpuStep DEF SessionLookup, TypeOK
  <2>3. CASE sess[l.flow] = None
    <3> DEFINE r == [l EXCEPT !.pc = "probe"]
    <3>1. r \in CpuState /\ LocalsOf(r)
      BY <2>1, <1>0 DEF CpuState, LocalsOf, HasFlow, HasPort, Opening
    <3>2. cpu' = [cpu EXCEPT ![c] = r] /\ sess' = sess
      BY <1>1, <2>3 DEF SessionLookup, Goto
    <3> QED  BY <3>1, <3>2, <1>1, <1>0, CpuStep DEF SessionLookup, TypeOK
  <2> QED  BY <2>2, <2>3
<1>2. CASE RefreshReverse(c)
  <2> DEFINE r == [l EXCEPT !.pc = "txForward"]
  <2>1. l.flow \in Flow /\ l.port \in NatPort /\ r \in CpuState /\ LocalsOf(r)
    BY <1>0, <1>2 DEF RefreshReverse, At, CpuState, LocalsOf, HasFlow, HasPort, Opening
  <2>2. cpu' = [cpu EXCEPT ![c] = r]
    BY <1>2 DEF RefreshReverse, Goto
  <2>3. rev' \in [RevKey -> RevVal \cup {None}]
    BY <2>1, <1>0, <1>2, WireType, TouchedReverse DEF RefreshReverse, TypeOK, CpuState
  <2> QED  BY <2>1, <2>2, <2>3, <1>2, <1>0, CpuStep DEF RefreshReverse, TypeOK
<1>3. CASE Probe(c)
  <2> DEFINE p == Candidate(l.flow, l.i)
             free == Free(Wire(l.flow, p))
  <2>1. l.flow \in Flow /\ l.i \in Nat /\ l.i < Probes /\ l.local_port \in RulePort
    BY <1>0, <1>3 DEF Probe, At, CpuState, LocalsOf, HasFlow, HasPort, Opening
  <2>2. p \in NatPort
    BY <2>1, CandidateInRange
  <2>3. sess' = sess /\ rev' = rev
    BY <1>3 DEF Probe
  <2>4. \E r \in CpuState : LocalsOf(r) /\ cpu' = [cpu EXCEPT ![c] = r]
    <3>1. CASE free
      <4>1. [l EXCEPT !.pc = "insertSession", !.port = p] \in CpuState
        BY <1>0, <2>2 DEF CpuState
      <4>2. LocalsOf([l EXCEPT !.pc = "insertSession", !.port = p])
        BY <1>0, <2>1, <2>2 DEF CpuState, LocalsOf, HasFlow, HasPort, Opening
      <4>3. cpu' = [cpu EXCEPT ![c] = [l EXCEPT !.pc = "insertSession", !.port = p]]
        BY <1>3, <3>1, <1>0 DEF Probe
      <4> QED  BY <4>1, <4>2, <4>3
    <3>2. CASE ~free /\ l.i + 1 < Probes
      <4>1. [l EXCEPT !.i = l.i + 1] \in CpuState
        BY <1>0, <2>1 DEF CpuState
      <4>2. LocalsOf([l EXCEPT !.i = l.i + 1])
        BY <1>0, <2>1, <3>2 DEF CpuState, LocalsOf, HasFlow, HasPort, Opening
      <4>3. cpu' = [cpu EXCEPT ![c] = [l EXCEPT !.i = l.i + 1]]
        BY <1>3, <2>1, <3>2, <1>0, PortAssumption DEF Probe
      <4> QED  BY <4>1, <4>2, <4>3
    <3>3. CASE ~free /\ l.i + 1 = Probes
      <4>1. cpu' = [cpu EXCEPT ![c] = Idle]
        BY <1>3, <2>1, <3>3, PortAssumption DEF Probe, Finish
      <4> QED  BY <4>1, IdleType
    <3> QED  BY <3>1, <3>2, <3>3, <1>3 DEF Probe
  <2> QED  BY <2>3, <2>4, <1>3, <1>0, CpuStep DEF Probe, TypeOK
<1>4. CASE InsertSession(c)
  <2> DEFINE r == [l EXCEPT !.pc = "insertReverse"]
             v == [nat_port |-> l.port, last_seen |-> l.time_ns]
  <2>1. l.flow \in Flow /\ v \in SessionVal /\ r \in CpuState /\ LocalsOf(r)
    BY <1>0, <1>4
    DEF InsertSession, At, CpuState, LocalsOf, HasFlow, HasPort, Opening, SessionVal
  <2>2. cpu' = [cpu EXCEPT ![c] = r]
    BY <1>4 DEF InsertSession, Goto
  <2>3. sess' \in [Flow -> SessionVal \cup {None}]
    BY <2>1, <1>0, <1>4 DEF InsertSession, Inserted, TypeOK
  <2> QED  BY <2>1, <2>2, <2>3, <1>4, <1>0, CpuStep DEF InsertSession, TypeOK
<1>5. CASE InsertReverse(c)
  <2> DEFINE r == [l EXCEPT !.pc = "txForward"]
             v == [client |-> l.flow.client, local_port |-> l.local_port,
                   last_seen |-> l.time_ns]
  <2>1. l.flow \in Flow /\ l.port \in NatPort /\ r \in CpuState /\ LocalsOf(r)
    BY <1>0, <1>5 DEF InsertReverse, At, CpuState, LocalsOf, HasFlow, HasPort, Opening
  <2>2. v \in RevVal
    BY <1>0, <1>5 DEF InsertReverse, At, CpuState, LocalsOf, HasFlow, Opening, RevVal, Flow
  <2>3. cpu' = [cpu EXCEPT ![c] = r]
    BY <1>5 DEF InsertReverse, Goto
  <2>4. rev' \in [RevKey -> RevVal \cup {None}]
    BY <2>1, <2>2, <1>0, <1>5, WireType DEF InsertReverse, Inserted, TypeOK
  <2> QED  BY <2>1, <2>3, <2>4, <1>5, <1>0, CpuStep DEF InsertReverse, TypeOK
<1> QED  BY <1>1, <1>2, <1>3, <1>4, <1>5

LEMMA TypeReply ==
  ASSUME TypeInv, NEW c \in CPU,
         \/ TransmitForward(c) \/ ReverseLookup(c) \/ RefreshOwnReverse(c)
         \/ RefreshSession(c) \/ TransmitReply(c)
  PROVE  TypeInv'
<1> DEFINE l == cpu[c]
<1>0. l \in CpuState /\ LocalsOf(l) /\ cpu \in [CPU -> CpuState] /\ TypeOK
  BY DEF TypeInv, TypeOK
<1>1. CASE TransmitForward(c) \/ TransmitReply(c)
  BY <1>1, <1>0, IdleType, CpuStep DEF TransmitForward, TransmitReply, Finish, TypeOK
<1>2. CASE ReverseLookup(c)
  <2> DEFINE p == l.pkt
             k == [target |-> p.src, nat_port |-> p.dport, proto |-> p.proto]
  <2>1. CASE k \in RevKey /\ rev[k] # None
    <3> DEFINE f == [client |-> rev[k].client, target |-> p.src, proto |-> p.proto]
               r == [l EXCEPT !.pc = "refreshOwnRev", !.port = p.dport, !.time_ns = clock,
                              !.local_port = rev[k].local_port, !.flow = f]
    <3>1. rev[k] \in RevVal /\ p.dport \in NatPort /\ p.src \in Target /\ p.proto \in Proto
      BY <2>1, <1>0 DEF TypeOK, RevKey
    <3>2. f \in Flow /\ rev[k].local_port \in RulePort
      BY <3>1 DEF RevVal, Flow
    <3>3. r \in CpuState /\ LocalsOf(r)
      BY <3>1, <3>2, <1>0 DEF TypeOK, CpuState, LocalsOf, HasFlow, HasPort, Opening
    <3>4. cpu' = [cpu EXCEPT ![c] = r]
      BY <1>2, <2>1, <1>0 DEF ReverseLookup
    <3> QED  BY <3>3, <3>4, <1>2, <1>0, CpuStep DEF ReverseLookup, TypeOK
  <2>2. CASE ~(k \in RevKey /\ rev[k] # None)
    <3>1. cpu' = [cpu EXCEPT ![c] = Idle]
      BY <1>2, <2>2 DEF ReverseLookup, Finish
    <3> QED  BY <3>1, <1>2, <1>0, IdleType, CpuStep DEF ReverseLookup, TypeOK
  <2> QED  BY <2>1, <2>2
<1>3. CASE RefreshOwnReverse(c)
  <2> DEFINE r == [l EXCEPT !.pc = "refreshSession"]
  <2>1. l.flow \in Flow /\ l.port \in NatPort /\ r \in CpuState /\ LocalsOf(r)
    BY <1>0, <1>3 DEF RefreshOwnReverse, At, CpuState, LocalsOf, HasFlow, HasPort, Opening
  <2>2. cpu' = [cpu EXCEPT ![c] = r]
    BY <1>3 DEF RefreshOwnReverse, Goto
  <2>3. rev' \in [RevKey -> RevVal \cup {None}]
    BY <2>1, <1>0, <1>3, WireType, TouchedReverse DEF RefreshOwnReverse, TypeOK, CpuState
  <2> QED  BY <2>1, <2>2, <2>3, <1>3, <1>0, CpuStep DEF RefreshOwnReverse, TypeOK
<1>4. CASE RefreshSession(c)
  <2> DEFINE r == [l EXCEPT !.pc = "txReply"]
  <2>1. l.flow \in Flow /\ r \in CpuState /\ LocalsOf(r)
    BY <1>0, <1>4 DEF RefreshSession, At, CpuState, LocalsOf, HasFlow, HasPort, Opening
  <2>2. cpu' = [cpu EXCEPT ![c] = r]
    BY <1>4 DEF RefreshSession, Goto
  <2>3. sess' \in [Flow -> SessionVal \cup {None}]
    BY <2>1, <1>0, <1>4, TouchedSession DEF RefreshSession, TypeOK, CpuState
  <2> QED  BY <2>1, <2>2, <2>3, <1>4, <1>0, CpuStep DEF RefreshSession, TypeOK
<1> QED  BY <1>1, <1>2, <1>3, <1>4

LEMMA TypeCleaner ==
  ASSUME TypeInv, CleanerStep
  PROVE  TypeInv'
<1>0. TypeOK /\ CleanerLocals /\ cleaner \in CleanerState
  BY DEF TypeInv, TypeOK
<1>a. SUFFICES /\ cleaner' \in CleanerState /\ CleanerLocals'
               /\ sess' \in [Flow -> SessionVal \cup {None}]
               /\ rev' \in [RevKey -> RevVal \cup {None}]
               /\ UNCHANGED <<fwd, clock, timeout, cpu>>
  BY DEF TypeInv, TypeOK, LocalsOf
<1>1. CASE Wake \/ ReadTimeouts
  BY <1>1, <1>0 DEF Wake, ReadTimeouts, TypeOK, CleanerState, CleanerLocals
<1>2. CASE BeginScan
  BY <1>2, <1>0 DEF BeginScan, TypeOK, CleanerState, CleanerLocals
<1>3. CASE EndScan
  <2>1. Found \in SUBSET Flow
    BY <1>0 DEF Found, Entries, CleanerState
  <2>2. CASE cleaner' = Asleep
    BY <1>3, <1>0, <2>2, AsleepType DEF EndScan, TypeOK, CleanerLocals, Asleep
  <2>3. CASE cleaner' = [cleaner EXCEPT !.pc = "sessions", !.todo = Found]
    BY <1>3, <1>0, <2>1, <2>3 DEF EndScan, TypeOK, CleanerState, CleanerLocals, Found
  <2> QED  BY <1>3, <2>2, <2>3 DEF EndScan
<1>4. CASE SessionsRemoved
  <2>1. Found \in SUBSET Flow
    BY <1>0 DEF Found, Entries, CleanerState
  <2> QED
    BY <1>4, <1>0, <2>1 DEF SessionsRemoved, TypeOK, CleanerState, CleanerLocals, Found
<1>5. CASE EndPass
  BY <1>5, <1>0, AsleepType DEF EndPass, TypeOK, CleanerLocals, Asleep
<1>6. ASSUME NEW f \in Flow, Scan(f)
      PROVE  cleaner' \in CleanerState /\ CleanerLocals' /\ UNCHANGED <<fwd, sess, rev, clock, timeout, cpu>>
  <2>1. (IF Overdue(f) THEN sess[f] ELSE None) \in SessionVal \cup {None}
    BY <1>0 DEF TypeOK
  <2> QED  BY <2>1, <1>6, <1>0 DEF Scan, CleanerState, CleanerLocals
<1>7. ASSUME NEW f \in Flow, RemoveSession(f)
      PROVE  /\ cleaner' \in CleanerState /\ CleanerLocals'
             /\ sess' \in [Flow -> SessionVal \cup {None}]
             /\ UNCHANGED <<fwd, rev, clock, timeout, cpu>>
  BY <1>7, <1>0 DEF RemoveSession, TypeOK, CleanerState, CleanerLocals, Found
<1>8. ASSUME NEW f \in Flow, RemoveReverse(f)
      PROVE  /\ cleaner' \in CleanerState /\ CleanerLocals'
             /\ rev' \in [RevKey -> RevVal \cup {None}]
             /\ UNCHANGED <<fwd, sess, clock, timeout, cpu>>
  BY <1>8, <1>0 DEF RemoveReverse, TypeOK, CleanerState, CleanerLocals, Found
<1> QED
  BY <1>0, <1>1, <1>2, <1>3, <1>4, <1>5, <1>6, <1>7, <1>8
  DEF CleanerStep, Wake, ReadTimeouts, BeginScan, EndScan, SessionsRemoved, EndPass, TypeOK

LEMMA TypeControl ==
  ASSUME TypeInv,
         \/ \E k \in RuleKey, t \in Target : AddRule(k, t)
         \/ \E k \in RuleKey : DeleteRule(k)
         \/ \E p \in Proto, s \in Seconds : SetTimeout(p, s)
         \/ Restart \/ Tick \/ UNCHANGED vars
  PROVE  TypeInv'
<1>0. TypeOK
  BY DEF TypeInv
<1>1. ASSUME NEW k \in RuleKey, NEW t \in Target, AddRule(k, t) PROVE TypeInv'
  BY <1>1 DEF AddRule, TypeInv, TypeOK, LocalsOf, CleanerLocals, Found, Entries
<1>2. ASSUME NEW k \in RuleKey, DeleteRule(k) PROVE TypeInv'
  BY <1>2 DEF DeleteRule, TypeInv, TypeOK, LocalsOf, CleanerLocals, Found, Entries
<1>3. ASSUME NEW p \in Proto, NEW s \in Seconds, SetTimeout(p, s) PROVE TypeInv'
  <2>1. (s * NsPerSec) % U64 \in Nat
    <3>1. s * NsPerSec \in Nat
      BY TimeAssumption
    <3> QED  BY <3>1, TimeAssumption
  <2> QED
    BY <1>3, <2>1 DEF SetTimeout, TypeInv, TypeOK, LocalsOf, CleanerLocals, Found, Entries
<1>4. CASE Restart
  BY <1>4, <1>0, IdleType, AsleepType, TimeAssumption
  DEF Restart, TypeInv, TypeOK, CleanerLocals, Asleep
<1>5. CASE Tick
  BY <1>5 DEF Tick, TypeInv, TypeOK, LocalsOf, CleanerLocals, Found, Entries
<1>6. CASE UNCHANGED vars
  BY <1>6 DEF vars, TypeInv, TypeOK, LocalsOf, CleanerLocals, Found, Entries
<1> QED  BY <1>1, <1>2, <1>3, <1>4, <1>5, <1>6

LEMMA TypeInit == Init => TypeInv
BY IdleType, AsleepType, TimeAssumption DEF Init, TypeInv, TypeOK, CleanerLocals, Asleep

LEMMA TypeStep == TypeInv /\ [Next]_vars => TypeInv'
BY TypeReceive, TypeOpen, TypeReply, TypeCleaner, TypeControl DEF Next, RunStep

(* The maps, the locals of every run and the cleanup task keep their types. *)
THEOREM TypeCorrect == Spec => []TypeOK
<1>1. TypeInv => TypeOK
  BY DEF TypeInv
<1> QED  BY <1>1, TypeInit, TypeStep, PTL DEF Spec

(* TypeInv itself, for the proofs that build on it. *)
LEMMA TypeInvariant == Spec => []TypeInv
BY TypeInit, TypeStep, PTL DEF Spec

-----------------------------------------------------------------------------
(* The cleanup task condemns on a clock reading that is never ahead of the
   clock, and forgets what it found before it takes the next one. *)

ScanInv ==
  /\ cleaner.pc \in {"sleep", "timeouts", "lock"} => \A f \in Flow : cleaner.found[f] = None
  /\ cleaner.pc # "sleep" => cleaner.now <= clock
  /\ ScannedIdle

LEMMA ScanOther ==
  ASSUME TypeInv, ScanInv, UNCHANGED cleaner, clock' \in Nat, clock <= clock'
  PROVE  ScanInv'
<1>1. \A f \in Flow : cleaner.found[f] # None =>
        /\ cleaner.found[f].last_seen \in Nat /\ cleaner.limit[f.proto] \in Nat
  BY DEF TypeInv, TypeOK, CleanerState, SessionVal, Flow
<1>2. cleaner.now \in Nat /\ clock \in Nat
  BY DEF TypeInv, TypeOK, CleanerState
<1> QED  BY <1>1, <1>2 DEF ScanInv, ScannedIdle

LEMMA ScanTask ==
  ASSUME TypeInv, ScanInv, CleanerStep
  PROVE  ScanInv'
<1>0. cleaner \in CleanerState /\ TypeOK /\ clock \in Nat
  BY DEF TypeInv, TypeOK
<1>1. CASE Wake \/ ReadTimeouts \/ BeginScan
  <2>1. /\ cleaner'.found = cleaner.found /\ cleaner.pc \in {"sleep", "timeouts", "lock"}
        /\ cleaner'.now \in {clock, cleaner.now} /\ clock' = clock
        /\ cleaner.pc = "sleep" => cleaner'.now = clock
    BY <1>0, <1>1 DEF Wake, ReadTimeouts, BeginScan, CleanerState
  <2> QED  BY <2>1, <1>0 DEF ScanInv, ScannedIdle
<1>2. CASE cleaner' = Asleep /\ clock' = clock
  BY <1>2 DEF ScanInv, ScannedIdle, Asleep
<1>3. ASSUME /\ cleaner'.found = cleaner.found /\ cleaner'.limit = cleaner.limit
             /\ cleaner'.now = cleaner.now /\ clock' = clock
             /\ cleaner.pc \notin {"sleep", "timeouts", "lock"}
             /\ cleaner'.pc \notin {"sleep", "timeouts", "lock"}
      PROVE  ScanInv'
  BY <1>3 DEF ScanInv, ScannedIdle
<1>4. CASE SessionsRemoved \/ EndScan \/ \E f \in Flow : RemoveSession(f) \/ RemoveReverse(f)
  BY <1>0, <1>2, <1>3, <1>4
  DEF SessionsRemoved, EndScan, RemoveSession, RemoveReverse, CleanerState
<1>5. ASSUME NEW f \in Flow, Scan(f) PROVE ScanInv'
  <2>1. /\ cleaner.pc = "scan" /\ cleaner'.pc = "scan" /\ clock' = clock
        /\ cleaner'.now = cleaner.now /\ cleaner'.limit = cleaner.limit
        /\ cleaner'.found = [cleaner.found EXCEPT ![f] = IF Overdue(f) THEN sess[f] ELSE None]
    BY <1>0, <1>5 DEF Scan, CleanerState
  <2>2. ASSUME Overdue(f) PROVE clock - sess[f].last_seen > cleaner.limit[f.proto]
    <3>1. sess[f].last_seen \in Nat /\ cleaner.limit[f.proto] \in Nat
      BY <2>2, <1>0 DEF Overdue, TypeOK, CleanerState, SessionVal, Flow
    <3>2. cleaner.now \in Nat /\ cleaner.now <= clock
      BY <2>1, <1>0 DEF ScanInv, CleanerState
    <3> QED  BY <2>2, <3>1, <3>2, <1>0 DEF Overdue, Elapsed
  <2> QED  BY <2>1, <2>2, <1>0 DEF ScanInv, ScannedIdle, CleanerState
<1> QED
  BY <1>1, <1>2, <1>4, <1>5 DEF CleanerStep, EndPass

(* A session refreshed after the task read the clock is never condemned, with
   any number of CPUs, any steering and any timeouts. *)
THEOREM OnlyIdleIsCondemned == Spec => []ScannedIdle
<1>1. Init => ScanInv
  BY DEF Init, ScanInv, ScannedIdle, Asleep
<1>2. TypeInv /\ ScanInv /\ [Next]_vars => ScanInv'
  <2> SUFFICES ASSUME TypeInv, ScanInv, [Next]_vars PROVE ScanInv'
    OBVIOUS
  <2>1. clock \in Nat
    BY DEF TypeInv, TypeOK
  <2>2. CASE CleanerStep
    BY <2>2, ScanTask
  <2>3. CASE Restart
    BY <2>3 DEF Restart, ScanInv, ScannedIdle, Asleep
  <2>4. CASE Tick
    BY <2>4, <2>1, ScanOther DEF Tick
  <2>5. CASE UNCHANGED <<cleaner, clock>>
    BY <2>5, <2>1, ScanOther
  <2> QED
    BY <2>2, <2>3, <2>4, <2>5
    DEF Next, vars, Receive, RunStep, SessionLookup, RefreshReverse, Probe, InsertSession,
        InsertReverse, TransmitForward, ReverseLookup, RefreshOwnReverse, RefreshSession,
        TransmitReply, AddRule, DeleteRule, SetTimeout
<1>3. ScanInv => ScannedIdle
  BY DEF ScanInv
<1> QED  BY <1>1, <1>2, <1>3, TypeInvariant, PTL DEF Spec
=============================================================================
