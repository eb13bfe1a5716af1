-------------------------- MODULE NatPairingProofs --------------------------
(***************************************************************************)
(* First, maps that hold every port of every target never turn an element  *)
(* away. Then, the session and the reverse map are each other's inverse    *)
(* between runs and removals. Last, on one queue sessions are no older     *)
(* than their reverse elements. Each hypothesis is needed: without room    *)
(* for sessions, with a timeout shorter than two runs, with a second queue *)
(* or without room for reverse elements, Paired or SessionAgeLeads fails   *)
(* on a small instance.                                                    *)
(***************************************************************************)
EXTENDS NatPairing, NatLeaseProofs, FiniteSetTheorems

(* Maps that hold every port of every target have room whenever the program
   inserts: ports are lent once, so there are never more sessions than ports. *)

LEMMA RoomLeft ==
  ASSUME NEW S, NEW m, NEW max \in Nat, NEW k \in DOMAIN m,
         IsFiniteSet(S), Entries(m) \in SUBSET S, Cardinality(S) < max
  PROVE  HasRoom(m, k, max)
<1>1. IsFiniteSet(Entries(m)) /\ Cardinality(Entries(m)) <= Cardinality(S)
  BY FS_Subset
<1>2. Cardinality(Entries(m)) \in Nat /\ Cardinality(S) \in Nat
  BY <1>1, FS_CardinalityType
<1> QED  BY <1>1, <1>2 DEF HasRoom

LEMMA ReverseRoom ==
  ASSUME TypeInv, PortsFit
  PROVE  RevRoom
<1> SUFFICES ASSUME NEW c \in CPU, At(c, "insertReverse")
             PROVE  HasRoom(rev, Wire(cpu[c].flow, cpu[c].port), MaxReverse)
  BY DEF RevRoom
<1> DEFINE k == Wire(cpu[c].flow, cpu[c].port)
<1>1. k \in RevKey /\ DOMAIN rev = RevKey
  BY WireType DEF TypeInv, TypeOK, LocalsOf, HasFlow, HasPort, At
<1>2. CASE rev[k] # None
  BY <1>2 DEF HasRoom
<1>3. CASE rev[k] = None
  <2>1. IsFiniteSet(RevKey \ {k}) /\ Cardinality(RevKey \ {k}) = Cardinality(RevKey) - 1
    BY <1>1, FS_RemoveElement DEF PortsFit
  <2>2. Cardinality(RevKey) \in Nat
    BY FS_CardinalityType DEF PortsFit
  <2>3. Entries(rev) \in SUBSET (RevKey \ {k})
    BY <1>1, <1>3 DEF Entries
  <2>4. Cardinality(RevKey \ {k}) < MaxReverse
    BY <2>1, <2>2, SizeAssumption DEF PortsFit
  <2> QED  BY <1>1, <2>1, <2>3, <2>4, RoomLeft, SizeAssumption
<1> QED  BY <1>2, <1>3

(* Sessions, told apart by the reverse elements they are lent, and the port a
   run is about to lend. *)
LEMMA SessionRoom ==
  ASSUME TypeInv, LeaseInv, SteeringSeparates, PortsFit
  PROVE  SessRoom
<1> SUFFICES ASSUME NEW c \in CPU, At(c, "insertSession")
             PROVE  HasRoom(sess, cpu[c].flow, MaxSessions)
  BY DEF SessRoom
<1> DEFINE f == cpu[c].flow
           p == cpu[c].port
           k == Wire(f, p)
           S == Entries(sess)
           W == [g \in S |-> Wire(g, Lent(g))]
<1>1. f \in Flow /\ p \in NatPort /\ k \in RevKey /\ p \in Candidates(f)
  BY WireType DEF TypeInv, LocalsOf, HasFlow, HasPort, At, LeaseInv, ServesItsPacket, Forwarding
<1>2. Owner(k) = None
  BY DEF At, LeaseInv, PortStaysFree
<1>3. ASSUME NEW g \in S
      PROVE  /\ g \in Flow /\ Lent(g) \in NatPort /\ Wire(g, Lent(g)) \in RevKey
             /\ OwnedOrLending(g, Lent(g)) /\ Lent(g) \in Candidates(g)
  <2>1. g \in Flow /\ Lent(g) \in NatPort /\ Lent(g) # None
    BY <1>3, NoneIsFresh DEF Entries, Lent, TypeInv, TypeOK, SessionVal
  <2> QED  BY <2>1, WireType DEF LeaseInv, LentIsOwned
<1>4. ASSUME NEW g \in S PROVE Wire(g, Lent(g)) # k
  <2> SUFFICES ASSUME Wire(g, Lent(g)) = k PROVE FALSE
    OBVIOUS
  <2>1. Table!SameWire(f, g) /\ Lent(g) = p /\ g.client # None
    BY <1>1, <1>3, <1>4, NoneIsFresh DEF Wire, Table!SameWire, Flow
  <2>2. PICK d \in CPU : Lending(d, g, p)
    BY <1>2, <1>3, <1>4, <2>1 DEF OwnedOrLending
  <2>3. cpu[d].flow = g /\ cpu[d].pc = "insertReverse"
    BY <2>2 DEF Lending, At
  <2>4. c = d
    BY <1>1, <1>3, <1>4, <2>1, <2>3, OneRun DEF LeaseInv, At, Forwarding
  <2> QED  BY <2>3, <2>4 DEF At
<1>5. ASSUME NEW g \in S, NEW h \in S, Wire(g, Lent(g)) = Wire(h, Lent(h)) PROVE g = h
  <2>1. g \in Flow /\ h \in Flow /\ OwnedOrLending(g, Lent(g)) /\ OwnedOrLending(h, Lent(h))
    BY <1>3, <1>5
  <2>2. Table!SameWire(g, h) /\ Lent(g) = Lent(h)
    BY <1>5, <2>1, WireSplit
  <2> QED  BY <2>1, <2>2, OneOwner DEF LeaseInv
<1>6. W \in Injection(S, RevKey \ {k})
  BY <1>3, <1>4, <1>5 DEF Injection, IsInjective
<1>7. IsFiniteSet(RevKey \ {k}) /\ Cardinality(RevKey \ {k}) = Cardinality(RevKey) - 1
  BY <1>1, FS_RemoveElement DEF PortsFit
<1>8. IsFiniteSet(S) /\ Cardinality(S) <= Cardinality(RevKey) - 1
  BY <1>6, <1>7, FS_Injection
<1>9. Cardinality(S) \in Nat /\ Cardinality(RevKey) \in Nat
  BY <1>8, FS_CardinalityType DEF PortsFit
<1> QED  BY <1>8, <1>9, SizeAssumption DEF HasRoom, PortsFit

(* A node whose targets' ports fit into both maps never finds a map full. *)
THEOREM MapsHaveRoom ==
  ASSUME SteeringSeparates, PortsFit
  PROVE  Spec => []RevRoom /\ []SessRoom
<1>1. TypeInv => RevRoom
  BY ReverseRoom
<1>2. TypeInv /\ LeaseInv => SessRoom
  BY SessionRoom
<1>3. Spec => []TypeInv
  BY TypeInit, TypeStep, PTL DEF Spec
<1> QED  BY <1>1, <1>2, <1>3, LeasesKept, PTL

-----------------------------------------------------------------------------
LEMMA LentSession ==
  ASSUME TypeOK, NEW f \in Flow
  PROVE  /\ sess[f] # None <=> Lent(f) # None
         /\ sess[f] # None => /\ sess[f] \in SessionVal /\ Lent(f) = sess[f].nat_port
                              /\ sess[f].nat_port \in NatPort /\ sess[f].last_seen \in Nat
BY NoneIsFresh DEF TypeOK, SessionVal, Lent

LEMMA FoundSession ==
  ASSUME TypeOK, NEW f \in Flow, cleaner.found[f] # None
  PROVE  cleaner.found[f] \in SessionVal /\ cleaner.found[f].nat_port \in NatPort
BY DEF TypeOK, CleanerState, SessionVal

LEMMA Clocks ==
  ASSUME TypeOK
  PROVE  /\ clock \in Nat /\ MaxRun \in Nat /\ cleaner.now \in Nat
         /\ \A c \in CPU : cpu[c].time_ns \in Nat
         /\ \A p \in Proto : cleaner.limit[p] \in Nat /\ timeout[p] \in Nat
BY TimeAssumption DEF TypeOK, CpuState, CleanerState

-----------------------------------------------------------------------------
(* Steps of a run that insert nothing. *)

Refreshing(c) ==
  \/ SessionLookup(c) \/ RefreshReverse(c) \/ Probe(c) \/ TransmitForward(c)
  \/ ReverseLookup(c) \/ RefreshOwnReverse(c) \/ RefreshSession(c) \/ TransmitReply(c)

(* They touch elements that are there, with the time their run has read. *)
LEMMA RefreshedMaps ==
  ASSUME TypeInv, NEW c \in CPU, Refreshing(c)
  PROVE  /\ UNCHANGED <<fwd, clock, timeout, cleaner>>
         /\ \/ sess' = sess
            \/ /\ sess' = Touched(sess, cpu[c].flow, cpu[c].time_ns)
               /\ Timed(c) /\ cpu[c].flow \in Flow
         /\ \/ rev' = rev
            \/ /\ rev' = Touched(rev, Wire(cpu[c].flow, cpu[c].port), cpu[c].time_ns)
               /\ Timed(c) /\ cpu[c].flow \in Flow /\ cpu[c].port \in NatPort
<1>1. LocalsOf(cpu[c])
  BY DEF TypeInv
<1>2. CASE SessionLookup(c) \/ RefreshSession(c)
  BY <1>1, <1>2 DEF SessionLookup, RefreshSession, At, Timed, LocalsOf, HasFlow
<1>3. CASE RefreshReverse(c) \/ RefreshOwnReverse(c)
  BY <1>1, <1>3 DEF RefreshReverse, RefreshOwnReverse, At, Timed, LocalsOf, HasFlow, HasPort
<1>4. CASE Probe(c) \/ TransmitForward(c) \/ ReverseLookup(c) \/ TransmitReply(c)
  BY <1>4 DEF Probe, TransmitForward, ReverseLookup, TransmitReply
<1> QED  BY <1>2, <1>3, <1>4 DEF Refreshing

LEMMA RefreshedLeases ==
  ASSUME TypeInv, NEW c \in CPU, Refreshing(c)
  PROVE  /\ \A f \in Flow : Lent(f)' = Lent(f)
         /\ \A k \in RevKey : Owner(k)' = Owner(k)
<1>1. TypeOK /\ cpu[c].time_ns \in Nat
  BY Clocks DEF TypeInv
<1>2. \A f \in Flow : Lent(f)' = Lent(f)
  BY <1>1, RefreshedMaps, TouchedLent DEF Lent
<1>3. \A k \in RevKey : Owner(k)' = Owner(k)
  BY <1>1, RefreshedMaps, WireType, TouchedOwner DEF Owner
<1> QED  BY <1>2, <1>3

(* They keep the time their run has read, or read the clock. *)
LEMMA RunMoves ==
  ASSUME TypeInv, NEW c \in CPU, Refreshing(c)
  PROVE  \E l : /\ cpu' = [cpu EXCEPT ![c] = l]
                /\ l.pc # "insertReverse"
                /\ l.pc \notin {"idle", "reverse"} =>
                     l.time_ns = clock \/ (Timed(c) /\ l.time_ns = cpu[c].time_ns)
<1>0. cpu \in [CPU -> CpuState] /\ cpu[c] \in CpuState
  BY DEF TypeInv, TypeOK
<1>1. CASE Finish(c)
  <2>1. Idle.pc = "idle"
    BY DEF Idle
  <2> QED  BY <1>1, <2>1 DEF Finish
<1>2. ASSUME NEW p, p # "insertReverse", Goto(c, p), Timed(c)
      PROVE  \E l : /\ cpu' = [cpu EXCEPT ![c] = l]
                    /\ l.pc # "insertReverse" /\ Timed(c) /\ l.time_ns = cpu[c].time_ns
  <2> DEFINE r == [cpu[c] EXCEPT !.pc = p]
  <2>1. cpu' = [cpu EXCEPT ![c] = r] /\ r.pc = p /\ r.time_ns = cpu[c].time_ns
    BY <1>0, <1>2 DEF Goto, CpuState
  <2> HIDE DEF r
  <2> QED  BY <1>2, <2>1
<1>3. CASE SessionLookup(c)
  <2>1. Timed(c)
    BY <1>3 DEF SessionLookup, At, Timed
  <2>2. CASE Goto(c, "probe")
    BY <1>2, <2>1, <2>2
  <2>3. CASE sess[cpu[c].flow] # None
    <3> DEFINE r == [cpu[c] EXCEPT !.pc = "refreshRev", !.port = sess[cpu[c].flow].nat_port]
    <3>1. cpu' = [cpu EXCEPT ![c] = r]
      BY <1>0, <1>3, <2>3 DEF SessionLookup
    <3>2. r.pc = "refreshRev" /\ r.time_ns = cpu[c].time_ns
      BY <1>0 DEF CpuState
    <3> HIDE DEF r
    <3> QED  BY <2>1, <3>1, <3>2
  <2> QED  BY <1>3, <2>2, <2>3 DEF SessionLookup
<1>4. CASE Probe(c)
  <2> DEFINE p == Candidate(cpu[c].flow, cpu[c].i)
             free == Free(Wire(cpu[c].flow, p))
             r == [cpu[c] EXCEPT !.pc = "insertSession", !.port = p]
             s == [cpu[c] EXCEPT !.i = cpu[c].i + 1]
  <2>1. Timed(c) /\ cpu[c].pc = "probe"
    BY <1>4 DEF Probe, At, Timed
  <2>2. \/ cpu' = [cpu EXCEPT ![c] = r]
        \/ cpu' = [cpu EXCEPT ![c] = s]
        \/ Finish(c)
    BY <1>0, <1>4 DEF Probe
  <2>3. /\ r.pc = "insertSession" /\ r.time_ns = cpu[c].time_ns
        /\ s.pc = "probe" /\ s.time_ns = cpu[c].time_ns
    BY <1>0, <2>1 DEF CpuState
  <2> HIDE DEF r, s
  <2> QED  BY <1>1, <2>1, <2>2, <2>3
<1>5. CASE ReverseLookup(c)
  <2> DEFINE p == cpu[c].pkt
             k == [target |-> p.src, nat_port |-> p.dport, proto |-> p.proto]
             r == [cpu[c] EXCEPT !.pc = "refreshOwnRev", !.port = p.dport, !.time_ns = clock,
                       !.local_port = rev[k].local_port,
                       !.flow = [client |-> rev[k].client, target |-> p.src,
                                 proto |-> p.proto]]
  <2>1. cpu' = [cpu EXCEPT ![c] = r] \/ Finish(c)
    BY <1>0, <1>5 DEF ReverseLookup
  <2>2. r.pc = "refreshOwnRev" /\ r.time_ns = clock
    BY <1>0 DEF CpuState
  <2> HIDE DEF r
  <2> QED  BY <1>1, <2>1, <2>2
<1>6. CASE RefreshReverse(c) \/ RefreshOwnReverse(c) \/ RefreshSession(c)
  BY <1>2, <1>6 DEF RefreshReverse, RefreshOwnReverse, RefreshSession, At, Timed
<1>7. CASE TransmitForward(c) \/ TransmitReply(c)
  BY <1>1, <1>7 DEF TransmitForward, TransmitReply
<1> QED  BY <1>3, <1>4, <1>5, <1>6, <1>7 DEF Refreshing

-----------------------------------------------------------------------------
(* Nobody who has read the clock within the length of a run makes a session
   older than what its opener vouches for. *)
LEMMA TouchedAge ==
  ASSUME TypeOK, NEW f \in Flow, NEW g \in Flow, sess[g] # None, NEW t \in Nat,
         sess' = Touched(sess, f, t)
  PROVE  sess'[g].last_seen \in {t, sess[g].last_seen}
<1>1. CASE sess[f] = None
  BY <1>1 DEF Touched
<1>2. CASE sess[f] # None
  <2>1. sess'[g] \in {sess[g], [sess[f] EXCEPT !.last_seen = t]}
    BY <1>2 DEF Touched, TypeOK
  <2>2. [sess[f] EXCEPT !.last_seen = t].last_seen = t
    BY <1>2 DEF TypeOK, SessionVal
  <2> QED  BY <2>1, <2>2
<1> QED  BY <1>1, <1>2

LEMMA PairAlone ==
  ASSUME TypeInv, PairInv, NEW c \in CPU, NEW l, cpu' = [cpu EXCEPT ![c] = l],
         l.pc # "insertReverse",
         l.pc \notin {"idle", "reverse"} =>
           l.time_ns = clock \/ (Timed(c) /\ l.time_ns = cpu[c].time_ns),
         UNCHANGED <<clock, timeout, cleaner>>,
         \A f \in Flow : Lent(f)' = Lent(f), \A k \in RevKey : Owner(k)' = Owner(k),
         \/ sess' = sess
         \/ /\ sess' = Touched(sess, cpu[c].flow, cpu[c].time_ns)
            /\ Timed(c) /\ cpu[c].flow \in Flow
  PROVE  PairInv'
<1>0. TypeOK /\ cpu \in [CPU -> CpuState]
  BY DEF TypeInv, TypeOK
<1>1. cpu'[c] = l /\ \A d \in CPU \ {c} : cpu'[d] = cpu[d]
  BY <1>0
<1>2. RunsAreShort'
  BY <1>0, <1>1, Clocks DEF PairInv, RunsAreShort, Timed
<1>3. TimeoutsAreLong'
  BY DEF PairInv, TimeoutsAreLong
<1>4. \A f \in Flow : OwnedIsLent(f)'
  BY WireType DEF PairInv, OwnedIsLent, Returning, HalfGone
<1>5. ASSUME NEW d \in CPU, At(d, "insertReverse")'
      PROVE  HalfOpen(d)'
  <2>1. d # c /\ cpu'[d] = cpu[d] /\ At(d, "insertReverse")
    BY <1>1, <1>5 DEF At
  <2> DEFINE f == cpu[d].flow
  <2>2. f \in Flow /\ cpu[d].port \in NatPort
    BY <2>1 DEF TypeInv, LocalsOf, HasFlow, HasPort, At
  <2>3. /\ Lent(f) = cpu[d].port /\ cpu[d].time_ns <= sess[f].last_seen + MaxRun
        /\ cleaner.found[f] # None => ~Standing(f)
    BY <2>1 DEF PairInv, HalfOpen
  <2>4. sess[f] # None /\ sess[f].last_seen \in Nat
    BY <1>0, <2>2, <2>3, LentSession, NoneIsFresh
  <2>5. cpu[d].time_ns <= sess'[f].last_seen + MaxRun
    <3>1. CASE sess' = sess
      BY <3>1, <2>3
    <3>2. CASE /\ sess' = Touched(sess, cpu[c].flow, cpu[c].time_ns)
               /\ Timed(c) /\ cpu[c].flow \in Flow
      <4>1. clock <= cpu[c].time_ns + MaxRun /\ cpu[d].time_ns <= clock
        BY <2>1, <3>2 DEF PairInv, RunsAreShort, Timed, At
      <4>2. sess'[f].last_seen \in {cpu[c].time_ns, sess[f].last_seen}
        BY <1>0, <2>2, <2>4, <3>2, Clocks, TouchedAge
      <4> QED  BY <1>0, <2>3, <4>1, <4>2, Clocks
    <3> QED  BY <3>1, <3>2
  <2>6. cleaner'.found[f] # None => ~Standing(f)'
    BY <2>1, <2>3 DEF Standing
  <2>7. Lent(f)' = cpu[d].port /\ cpu'[d].flow = f /\ cpu'[d].port = cpu[d].port
    BY <2>1, <2>2, <2>3
  <2> QED  BY <2>1, <2>5, <2>6, <2>7 DEF HalfOpen
<1> QED  BY <1>2, <1>3, <1>4, <1>5 DEF PairInv, HalfOpen

LEMMA PairRefresh ==
  ASSUME TypeInv, PairInv, NEW c \in CPU, Refreshing(c)
  PROVE  PairInv'
BY RefreshedMaps, RefreshedLeases, RunMoves, PairAlone

LEMMA PairReceive ==
  ASSUME TypeInv, PairInv, NEW c \in CPU, NEW p \in Traffic, Receive(c, p)
  PROVE  PairInv'
<1> DEFINE k == [proto |-> p.proto, local_port |-> p.dport]
           r == [Idle EXCEPT !.pc = "session", !.pkt = p, !.local_port = p.dport,
                      !.time_ns = clock,
                      !.flow = [client |-> p.src, target |-> fwd[k], proto |-> p.proto]]
           s == [Idle EXCEPT !.pc = "reverse", !.pkt = p]
<1>1. cpu' = [cpu EXCEPT ![c] = r] \/ cpu' = [cpu EXCEPT ![c] = s]
  BY DEF Receive
<1>2. r.pc = "session" /\ r.time_ns = clock /\ s.pc = "reverse"
  BY DEF Idle
<1> HIDE DEF r, s
<1>3. /\ UNCHANGED <<sess, clock, timeout, cleaner>>
      /\ \A f \in Flow : Lent(f)' = Lent(f)
      /\ \A x \in RevKey : Owner(x)' = Owner(x)
  BY DEF Receive, Lent, Owner
<1> QED  BY <1>1, <1>2, <1>3, PairAlone

-----------------------------------------------------------------------------
(* The two insertions. *)

LEMMA RunGoes ==
  ASSUME TypeInv, NEW c \in CPU, NEW p, Goto(c, p), Timed(c)
  PROVE  /\ cpu' = [cpu EXCEPT ![c] = cpu'[c]]
         /\ cpu'[c].pc = p /\ cpu'[c].flow = cpu[c].flow /\ cpu'[c].port = cpu[c].port
         /\ cpu'[c].time_ns = cpu[c].time_ns
         /\ \A d \in CPU \ {c} : cpu'[d] = cpu[d]
BY DEF Goto, TypeInv, TypeOK, CpuState

LEMMA PairInsertSession ==
  ASSUME TypeInv, LeaseInv, PairInv, SessRoom, NEW c \in CPU, InsertSession(c)
  PROVE  PairInv'
<1> DEFINE l == cpu[c]
           v == [nat_port |-> l.port, last_seen |-> l.time_ns]
<1>0. TypeOK /\ l \in CpuState /\ LocalsOf(l) /\ PortStaysFree(c) /\ l.time_ns \in Nat
  BY DEF TypeInv, TypeOK, CpuState, LeaseInv
<1>1. PICK f \in Flow, p \in NatPort :
        l.pc = "insertSession" /\ f = l.flow /\ p = l.port /\ Lent(f) = None
  BY <1>0 DEF InsertSession, At, LocalsOf, HasFlow, HasPort, PortStaysFree
<1>2. /\ cpu'[c].pc = "insertReverse" /\ cpu'[c].flow = f /\ cpu'[c].port = p
      /\ cpu'[c].time_ns = l.time_ns
      /\ \A d \in CPU \ {c} : cpu'[d] = cpu[d]
  BY <1>1, RunGoes DEF InsertSession, Timed
<1>3. v # None /\ v.nat_port = p /\ v.last_seen = l.time_ns
  BY <1>0, <1>1, NoneAssumption
<1>4. sess' = [sess EXCEPT ![f] = v]
  BY <1>1 DEF InsertSession, Inserted, SessRoom
<1> HIDE DEF v
<1>5. /\ sess'[f] = v /\ Lent(f)' = p
      /\ \A g \in Flow \ {f} : sess'[g] = sess[g] /\ Lent(g)' = Lent(g)
  BY <1>0, <1>3, <1>4 DEF TypeOK, Lent
<1>6. (\A k : Owner(k)' = Owner(k)) /\ UNCHANGED <<clock, timeout, cleaner>>
  BY DEF InsertSession, Owner
<1>7. RunsAreShort'
  BY <1>1, <1>2, <1>6 DEF PairInv, RunsAreShort, Timed
<1>8. TimeoutsAreLong'
  BY <1>6 DEF PairInv, TimeoutsAreLong
<1>9. ASSUME NEW g \in Flow, NEW q \in NatPort, Owner(Wire(g, q))' = g.client
      PROVE  Lent(g)' = q \/ Returning(g, q)'
  <2>1. Lent(g) = q \/ Returning(g, q)
    BY <1>6, <1>9 DEF PairInv, OwnedIsLent
  <2>2. Returning(g, q)' <=> Returning(g, q)
    BY <1>6 DEF Returning, HalfGone
  <2> QED  BY <2>1, <2>2, <1>1, <1>5, NoneIsFresh
<1>10. HalfOpen(c)'
  <2>1. cleaner.found[f] # None => ~Standing(f)
    BY <1>0, <1>1, FoundSession, NoneIsFresh DEF LeaseInv, Condemned
  <2>2. l.time_ns <= l.time_ns + MaxRun
    BY <1>0, Clocks
  <2>3. cleaner'.found[f] # None => ~Standing(f)'
    BY <2>1, <1>6 DEF Standing
  <2> QED  BY <2>2, <2>3, <1>2, <1>3, <1>5 DEF HalfOpen
<1>11. ASSUME NEW d \in CPU \ {c}, At(d, "insertReverse")' PROVE HalfOpen(d)'
  <2>1. PICK g \in Flow : /\ g = cpu[d].flow /\ cpu'[d] = cpu[d] /\ cpu[d].pc = "insertReverse"
                          /\ cpu[d].port \in NatPort
    BY <1>2, <1>11 DEF At, TypeInv, LocalsOf, HasFlow, HasPort
  <2>2. /\ Lent(g) = cpu[d].port /\ cpu[d].time_ns <= sess[g].last_seen + MaxRun
        /\ cleaner.found[g] # None => ~Standing(g)
    BY <2>1 DEF PairInv, HalfOpen, At
  <2>3. g # f
    BY <2>1, <2>2, <1>1, NoneIsFresh
  <2>4. cleaner'.found[g] # None => ~Standing(g)'
    BY <2>2, <1>6 DEF Standing
  <2> QED  BY <2>1, <2>2, <2>3, <2>4, <1>5 DEF HalfOpen
<1> QED  BY <1>7, <1>8, <1>9, <1>10, <1>11 DEF PairInv, OwnedIsLent, HalfOpen

(* The reverse element is written: no other element is. *)
LEMMA ReverseInserted ==
  ASSUME TypeInv, RevRoom, NEW c \in CPU, InsertReverse(c),
         NEW k, k = Wire(cpu[c].flow, cpu[c].port)
  PROVE  /\ cpu[c].pc = "insertReverse" /\ cpu[c].flow \in Flow /\ cpu[c].port \in NatPort
         /\ rev'[k].last_seen = cpu[c].time_ns
         /\ Owner(k)' = cpu[c].flow.client
         /\ \A j \in RevKey \ {k} : rev'[j] = rev[j] /\ Owner(j)' = Owner(j)
<1>1. PICK f \in Flow, p \in NatPort :
        cpu[c].pc = "insertReverse" /\ cpu[c].flow = f /\ cpu[c].port = p
  BY DEF InsertReverse, At, TypeInv, LocalsOf, HasFlow, HasPort
<1> DEFINE v == [client |-> f.client, local_port |-> cpu[c].local_port,
                 last_seen |-> cpu[c].time_ns]
<1>2. k \in RevKey
  BY <1>1, WireType
<1>3. v \in RevVal /\ v # None /\ v.client = f.client /\ v.last_seen = cpu[c].time_ns
  BY <1>1, NoneAssumption
  DEF TypeInv, TypeOK, LocalsOf, Opening, CpuState, RevVal, Flow
<1>4. rev' = [rev EXCEPT ![k] = v]
  BY <1>1 DEF InsertReverse, Inserted, RevRoom
<1> HIDE DEF v
<1>5. /\ rev'[k] = v /\ Owner(k)' = f.client
      /\ \A j \in RevKey \ {k} : rev'[j] = rev[j] /\ Owner(j)' = Owner(j)
  BY <1>2, <1>3, <1>4 DEF TypeInv, TypeOK, Owner
<1> QED  BY <1>1, <1>3, <1>5

LEMMA PairInsertReverse ==
  ASSUME TypeInv, LeaseInv, PairInv, RevRoom, NEW c \in CPU, InsertReverse(c)
  PROVE  PairInv'
<1>1. PICK f \in Flow, p \in NatPort :
        /\ cpu[c].pc = "insertReverse" /\ cpu[c].flow = f /\ cpu[c].port = p
        /\ Owner(Wire(f, p))' = f.client
        /\ \A j \in RevKey \ {Wire(f, p)} : Owner(j)' = Owner(j)
  BY ReverseInserted
<1>2. /\ cpu'[c].pc = "txForward" /\ cpu'[c].time_ns = cpu[c].time_ns
      /\ \A d \in CPU \ {c} : cpu'[d] = cpu[d]
  BY <1>1, RunGoes DEF InsertReverse, Timed
<1>3. (\A g : Lent(g)' = Lent(g)) /\ UNCHANGED <<sess, clock, timeout, cleaner>>
  BY DEF InsertReverse, Lent
<1>4. RunsAreShort' /\ TimeoutsAreLong'
  BY <1>1, <1>2, <1>3 DEF PairInv, RunsAreShort, TimeoutsAreLong, Timed
<1>5. ASSUME NEW g \in Flow, NEW q \in NatPort, Owner(Wire(g, q))' = g.client
      PROVE  Lent(g)' = q \/ Returning(g, q)'
  <2>1. CASE Wire(g, q) = Wire(f, p)
    <3>1. g = f /\ q = p
      BY <2>1, <1>1, <1>5, WireSplit, FlowOfClient
    <3> QED  BY <3>1, <1>1, <1>3 DEF PairInv, HalfOpen, At
  <2>2. CASE Wire(g, q) # Wire(f, p)
    <3>1. Owner(Wire(g, q)) = g.client
      BY <2>2, <1>1, <1>5, WireType
    <3>2. Returning(g, q)' <=> Returning(g, q)
      BY <1>3 DEF Returning, HalfGone
    <3> QED  BY <3>1, <3>2, <1>3 DEF PairInv, OwnedIsLent
  <2> QED  BY <2>1, <2>2
<1>6. ASSUME NEW d \in CPU, At(d, "insertReverse")' PROVE HalfOpen(d)'
  <2>1. PICK g : g = cpu[d].flow /\ cpu'[d] = cpu[d] /\ cpu[d].pc = "insertReverse"
    BY <1>2, <1>6 DEF At
  <2>2. /\ Lent(g) = cpu[d].port /\ cpu[d].time_ns <= sess[g].last_seen + MaxRun
        /\ cleaner.found[g] # None => ~Standing(g)
    BY <2>1 DEF PairInv, HalfOpen, At
  <2>3. cleaner'.found[g] # None => ~Standing(g)'
    BY <2>2, <1>3 DEF Standing
  <2> QED  BY <2>1, <2>2, <2>3, <1>3 DEF HalfOpen
<1> QED  BY <1>4, <1>5, <1>6 DEF PairInv, OwnedIsLent, HalfOpen

-----------------------------------------------------------------------------
(* The cleanup task. *)

(* Its steps that leave the maps alone. *)
LEMMA PairTask ==
  ASSUME TypeInv, PairInv, UNCHANGED <<sess, rev, clock, timeout, cpu>>,
         cleaner'.now <= clock,
         \A p \in Proto :
           cleaner'.limit[p] \in {cleaner.limit[p], timeout[p], DefaultTimeout[p]},
         LongTimeouts,
         \A f \in Flow, p \in NatPort : Returning(f, p) => Returning(f, p)',
         \A c \in CPU : At(c, "insertReverse") /\ cleaner'.found[cpu[c].flow] # None
                          => ~Standing(cpu[c].flow)'
  PROVE  PairInv'
<1>1. RunsAreShort'
  BY DEF PairInv, RunsAreShort, Timed
<1>2. TimeoutsAreLong'
  BY DEF PairInv, TimeoutsAreLong, LongTimeouts
<1>3. (\A f : Lent(f)' = Lent(f)) /\ (\A k : Owner(k)' = Owner(k))
  BY DEF Lent, Owner
<1>4. \A f \in Flow : OwnedIsLent(f)'
  BY <1>3 DEF PairInv, OwnedIsLent
<1>5. \A c \in CPU : HalfOpen(c)'
  BY <1>3 DEF PairInv, HalfOpen, At
<1> QED  BY <1>1, <1>2, <1>4, <1>5 DEF PairInv

LEMMA PairWaking ==
  ASSUME TypeInv, LeaseInv, PairInv, LongTimeouts,
         Wake \/ ReadTimeouts \/ BeginScan \/ EndPass \/ SessionsRemoved
  PROVE  PairInv'
<1>0. cleaner \in CleanerState /\ TypeOK /\ clock \in Nat /\ CleanerLocals
  BY DEF TypeInv, TypeOK
<1>1. CASE Wake \/ ReadTimeouts \/ BeginScan
  <2>1. /\ cleaner.pc \in {"sleep", "timeouts", "lock"} /\ cleaner'.found = cleaner.found
        /\ cleaner'.now \in {clock, cleaner.now} /\ cleaner'.limit \in {cleaner.limit, timeout}
        /\ UNCHANGED <<sess, rev, clock, timeout, cpu>>
    BY <1>0, <1>1 DEF Wake, ReadTimeouts, BeginScan, CleanerState
  <2>2. \A f \in Flow : cleaner.found[f] = None
    BY <2>1 DEF LeaseInv, Condemned
  <2>3. \A c \in CPU : At(c, "insertReverse") => cpu[c].flow \in Flow
    BY DEF TypeInv, LocalsOf, HasFlow, At
  <2>4. cleaner'.now <= clock
    BY <2>1, <1>0 DEF PairInv, TimeoutsAreLong
  <2> QED  BY <2>1, <2>2, <2>3, <2>4, PairTask DEF Returning
<1>2. CASE EndPass
  <2>1. /\ cleaner' = Asleep /\ cleaner.pc = "reverses" /\ cleaner.todo = {}
        /\ UNCHANGED <<sess, rev, clock, timeout, cpu>>
    BY <1>2 DEF EndPass
  <2>2. /\ Asleep.found = [f \in Flow |-> None] /\ Asleep.now = 0
        /\ Asleep.limit = DefaultTimeout
    BY DEF Asleep
  <2>3. \A f \in Flow : ~HalfGone(f)
    BY <2>1 DEF HalfGone
  <2>4. ASSUME NEW c \in CPU, At(c, "insertReverse") PROVE cleaner'.found[cpu[c].flow] = None
    BY <2>1, <2>2, <2>4 DEF TypeInv, LocalsOf, HasFlow, At
  <2> QED  BY <2>1, <2>2, <2>3, <2>4, <1>0, PairTask DEF Returning
<1>3. CASE SessionsRemoved
  <2>1. /\ cleaner.pc = "sessions" /\ cleaner.todo = {} /\ cleaner'.pc = "reverses"
        /\ cleaner'.todo = Found /\ cleaner'.found = cleaner.found
        /\ cleaner'.now = cleaner.now /\ cleaner'.limit = cleaner.limit
        /\ UNCHANGED <<sess, rev, clock, timeout, cpu>>
    BY <1>0, <1>3 DEF SessionsRemoved, CleanerState
  <2>2. ASSUME NEW f \in Flow, NEW p \in NatPort, Returning(f, p) PROVE Returning(f, p)'
    BY <2>1, <2>2, <1>0 DEF Returning, HalfGone, Found, Entries, CleanerState
  <2>3. cleaner'.now <= clock /\ \A f : ~Standing(f)'
    BY <2>1 DEF PairInv, TimeoutsAreLong, Standing
  <2> QED  BY <2>1, <2>2, <2>3, PairTask
<1> QED  BY <1>1, <1>2, <1>3

LEMMA PairScan ==
  ASSUME TypeInv, LeaseInv, PairInv, LongTimeouts, EndScan \/ \E f \in Flow : Scan(f)
  PROVE  PairInv'
<1>0. /\ cleaner \in CleanerState /\ TypeOK /\ clock \in Nat /\ MaxRun \in Nat
      /\ cleaner.pc = "scan" /\ UNCHANGED <<sess, rev, clock, timeout, cpu>>
  BY Clocks DEF TypeInv, TypeOK, EndScan, Scan
<1>1. \A f \in Flow : Standing(f) /\ ~HalfGone(f)
  BY <1>0 DEF Standing, HalfGone
<1>2. ASSUME NEW c \in CPU, At(c, "insertReverse")
      PROVE  cpu[c].flow \in Flow /\ cleaner.found[cpu[c].flow] = None
  <2>1. cpu[c].flow \in Flow
    BY <1>2 DEF TypeInv, LocalsOf, HasFlow, At
  <2> QED  BY <2>1, <1>1, <1>2 DEF PairInv, HalfOpen
<1>3. cleaner.now <= clock
  BY DEF PairInv, TimeoutsAreLong
<1>4. CASE cleaner' = Asleep
  <2>1. /\ Asleep.found = [f \in Flow |-> None] /\ Asleep.now = 0
        /\ Asleep.limit = DefaultTimeout
    BY DEF Asleep
  <2> QED  BY <2>1, <1>0, <1>1, <1>2, <1>4, PairTask DEF Returning
<1>5. CASE cleaner' = [cleaner EXCEPT !.pc = "sessions", !.todo = Found]
  <2>1. /\ cleaner'.found = cleaner.found /\ cleaner'.now = cleaner.now
        /\ cleaner'.limit = cleaner.limit
    BY <1>0, <1>5 DEF CleanerState
  <2> QED  BY <2>1, <1>0, <1>1, <1>2, <1>3, PairTask DEF Returning
<1>6. ASSUME NEW f \in Flow, Scan(f) PROVE PairInv'
  <2>1. /\ cleaner'.now = cleaner.now /\ cleaner'.limit = cleaner.limit
        /\ cleaner'.found = [cleaner.found EXCEPT ![f] = IF Overdue(f) THEN sess[f] ELSE None]
    BY <1>0, <1>6 DEF Scan, CleanerState
  <2>2. ASSUME NEW c \in CPU, At(c, "insertReverse"), cpu[c].flow = f, Overdue(f)
        PROVE  FALSE
    <3>1. sess[f] # None /\ sess[f].last_seen \in Nat
      BY <2>2, <1>0, LentSession DEF Overdue
    <3>2. cpu[c].time_ns <= sess[f].last_seen + MaxRun
      BY <2>2 DEF PairInv, HalfOpen
    <3>3. clock <= cpu[c].time_ns + MaxRun
      BY <2>2 DEF PairInv, RunsAreShort, Timed, At
    <3>4. cleaner.limit[f.proto] >= 2 * MaxRun /\ cleaner.limit[f.proto] \in Nat
      BY Clocks, <1>0 DEF PairInv, TimeoutsAreLong, Flow
    <3>5. cpu[c].time_ns \in Nat /\ cleaner.now \in Nat
      BY Clocks, <1>0
    <3>6. Elapsed(cleaner.now, sess[f].last_seen) <= 2 * MaxRun
      BY <3>1, <3>2, <3>3, <3>5, <1>0, <1>3 DEF Elapsed
    <3>7. Elapsed(cleaner.now, sess[f].last_seen) \in Nat
      BY <3>1, <3>5 DEF Elapsed
    <3> QED  BY <3>4, <3>6, <3>7, <1>0, <2>2 DEF Overdue
  <2>3. ASSUME NEW c \in CPU, At(c, "insertReverse") PROVE cleaner'.found[cpu[c].flow] = None
    BY <2>1, <2>2, <2>3, <1>0, <1>2 DEF CleanerState
  <2> QED  BY <2>1, <2>3, <1>0, <1>1, <1>3, PairTask DEF Returning
<1> QED  BY <1>4, <1>5, <1>6 DEF EndScan

LEMMA PairRemoveSession ==
  ASSUME TypeInv, LeaseInv, PairInv, NEW f \in Flow, RemoveSession(f)
  PROVE  PairInv'
<1> DEFINE p == cleaner.found[f].nat_port
<1>0. cleaner \in CleanerState /\ TypeOK /\ CleanerLocals
  BY DEF TypeInv, TypeOK
<1>1. /\ cleaner.pc = "sessions" /\ f \in cleaner.todo /\ cleaner.found[f] # None
      /\ cleaner'.pc = "sessions" /\ cleaner'.todo = cleaner.todo \ {f}
      /\ cleaner'.found = cleaner.found /\ cleaner'.now = cleaner.now
      /\ cleaner'.limit = cleaner.limit
  BY <1>0 DEF RemoveSession, CleanerState, CleanerLocals, Found, Entries
<1>2. Standing(f) /\ Lent(f) = p
  BY <1>1 DEF LeaseInv, Condemned, Standing
<1>3. \A g \in Flow \ {f} : sess'[g] = sess[g] /\ Lent(g)' = Lent(g)
  BY <1>0 DEF RemoveSession, Lent, TypeOK
<1>4. (\A k : Owner(k)' = Owner(k)) /\ UNCHANGED <<rev, clock, timeout, cpu>>
  BY DEF RemoveSession, Owner
<1>5. RunsAreShort' /\ TimeoutsAreLong'
  BY <1>1, <1>4 DEF PairInv, RunsAreShort, TimeoutsAreLong, Timed
<1>6. ASSUME NEW g \in Flow, NEW q \in NatPort, Owner(Wire(g, q))' = g.client
      PROVE  Lent(g)' = q \/ Returning(g, q)'
  <2>1. Lent(g) = q \/ Returning(g, q)
    BY <1>4, <1>6 DEF PairInv, OwnedIsLent
  <2>2. Returning(g, q) => Returning(g, q)'
    BY <1>1 DEF Returning, HalfGone
  <2>3. CASE g = f /\ Lent(g) = q
    BY <2>3, <1>1, <1>2 DEF Returning, HalfGone
  <2>4. CASE g # f
    BY <2>1, <2>2, <2>4, <1>3
  <2> QED  BY <2>1, <2>2, <2>3, <2>4
<1>7. ASSUME NEW c \in CPU, At(c, "insertReverse")' PROVE HalfOpen(c)'
  <2>1. PICK g \in Flow : g = cpu[c].flow /\ At(c, "insertReverse") /\ cpu'[c].flow = g
    BY <1>4, <1>7 DEF At, TypeInv, LocalsOf, HasFlow
  <2>2. /\ Lent(g) = cpu[c].port /\ cpu[c].time_ns <= sess[g].last_seen + MaxRun
        /\ cleaner.found[g] # None => ~Standing(g)
    BY <2>1 DEF PairInv, HalfOpen
  <2>3. g # f
    BY <2>2, <1>1, <1>2
  <2>4. cleaner'.found[g] # None => ~Standing(g)'
    BY <2>2, <2>3, <1>1 DEF Standing
  <2> QED  BY <2>1, <2>2, <2>3, <2>4, <1>3, <1>4 DEF HalfOpen
<1> QED  BY <1>5, <1>6, <1>7 DEF PairInv, OwnedIsLent, HalfOpen

LEMMA PairRemoveReverse ==
  ASSUME TypeInv, LeaseInv, PairInv, NEW f \in Flow, RemoveReverse(f)
  PROVE  PairInv'
<1> DEFINE p == cleaner.found[f].nat_port
<1>0. cleaner \in CleanerState /\ TypeOK /\ CleanerLocals
  BY DEF TypeInv, TypeOK
<1>1. /\ cleaner.pc = "reverses" /\ f \in cleaner.todo /\ cleaner.found[f] # None
      /\ cleaner'.pc = "reverses" /\ cleaner'.todo = cleaner.todo \ {f}
      /\ cleaner'.found = cleaner.found /\ cleaner'.now = cleaner.now
      /\ cleaner'.limit = cleaner.limit
  BY <1>0 DEF RemoveReverse, CleanerState, CleanerLocals, Found, Entries
<1>2. p \in NatPort /\ Wire(f, p) \in RevKey
  BY <1>0, <1>1, FoundSession, WireType
<1>3. PICK r \in RevKey : r = Wire(f, p)
  BY <1>2
<1>4. Owner(r)' = None /\ \A k \in RevKey \ {r} : Owner(k)' = Owner(k)
  BY <1>0, <1>3 DEF RemoveReverse, Owner, TypeOK
<1>5. (\A g : Lent(g)' = Lent(g)) /\ UNCHANGED <<sess, clock, timeout, cpu>>
  BY DEF RemoveReverse, Lent
<1>6. RunsAreShort' /\ TimeoutsAreLong'
  BY <1>1, <1>5 DEF PairInv, RunsAreShort, TimeoutsAreLong, Timed
<1>7. ASSUME NEW g \in Flow, NEW q \in NatPort, Owner(Wire(g, q))' = g.client
      PROVE  Lent(g)' = q \/ Returning(g, q)'
  <2>1. Wire(g, q) \in RevKey \ {r}
    BY <1>4, <1>7, WireType, NoneIsFresh DEF Flow
  <2>2. Lent(g) = q \/ Returning(g, q)
    BY <2>1, <1>4, <1>7 DEF PairInv, OwnedIsLent
  <2>3. Returning(g, q) => g # f
    BY <2>1, <1>3 DEF Returning
  <2> QED  BY <2>2, <2>3, <1>1, <1>5 DEF Returning, HalfGone
<1>8. ASSUME NEW c \in CPU PROVE HalfOpen(c)'
  BY <1>1, <1>5 DEF PairInv, HalfOpen, At, Standing
<1> QED  BY <1>6, <1>7, <1>8 DEF PairInv, OwnedIsLent

LEMMA PairCleaner ==
  ASSUME TypeInv, LeaseInv, PairInv, LongTimeouts, CleanerStep
  PROVE  PairInv'
BY PairWaking, PairScan, PairRemoveSession, PairRemoveReverse DEF CleanerStep

-----------------------------------------------------------------------------
(* The daemon's operations and the clock. *)

LEMMA PairControl ==
  ASSUME TypeInv, PairInv, UNCHANGED <<sess, rev, cpu, cleaner>>,
         RunsAreShort', clock' \in Nat, clock <= clock',
         \A p \in Proto : timeout'[p] >= 2 * MaxRun
  PROVE  PairInv'
<1>1. cleaner.now \in Nat /\ clock \in Nat
  BY Clocks DEF TypeInv
<1>2. TimeoutsAreLong'
  BY <1>1 DEF PairInv, TimeoutsAreLong
<1>3. (\A f : Lent(f)' = Lent(f)) /\ (\A k : Owner(k)' = Owner(k))
  BY DEF Lent, Owner
<1>4. \A f \in Flow : OwnedIsLent(f)'
  BY <1>3 DEF PairInv, OwnedIsLent, Returning, HalfGone
<1>5. \A c \in CPU : HalfOpen(c)'
  BY <1>3 DEF PairInv, HalfOpen, At, Standing
<1> QED  BY <1>2, <1>4, <1>5 DEF PairInv

LEMMA PairDaemon ==
  ASSUME TypeInv, PairInv, LongTimeouts,
         \/ \E k \in RuleKey, t \in Target : AddRule(k, t)
         \/ \E k \in RuleKey : DeleteRule(k)
         \/ \E p \in Proto, s \in Seconds : SetTimeout(p, s)
         \/ Tick \/ UNCHANGED vars
  PROVE  PairInv'
<1>0. /\ clock \in Nat /\ MaxRun \in Nat /\ \A c \in CPU : cpu[c].time_ns \in Nat
      /\ timeout \in [Proto -> Nat]
  BY Clocks DEF TypeInv, TypeOK
<1>1. CASE Tick
  <2>1. clock' = clock + 1 /\ UNCHANGED <<sess, rev, timeout, cpu, cleaner>>
    BY <1>1 DEF Tick
  <2>2. RunsAreShort'
    BY <2>1, <1>0, <1>1 DEF Tick, PairInv, RunsAreShort, Timed
  <2> QED  BY <2>1, <2>2, <1>0, PairControl DEF PairInv, TimeoutsAreLong
<1>2. ASSUME NEW p \in Proto, NEW s \in Seconds, SetTimeout(p, s) PROVE PairInv'
  <2> DEFINE v == (s * NsPerSec) % U64
  <2>1. timeout' = [timeout EXCEPT ![p] = v] /\ UNCHANGED <<sess, rev, clock, cpu, cleaner>>
    BY <1>2 DEF SetTimeout
  <2>2. v >= 2 * MaxRun
    BY DEF LongTimeouts
  <2> HIDE DEF v
  <2>3. \A q \in Proto : timeout'[q] >= 2 * MaxRun
    BY <2>1, <2>2, <1>0 DEF PairInv, TimeoutsAreLong
  <2>4. RunsAreShort'
    BY <2>1 DEF PairInv, RunsAreShort, Timed
  <2> QED  BY <2>1, <2>3, <2>4, <1>0, PairControl
<1>3. CASE UNCHANGED <<sess, rev, clock, timeout, cpu, cleaner>>
  <2>1. RunsAreShort'
    BY <1>3 DEF PairInv, RunsAreShort, Timed
  <2> QED  BY <2>1, <1>0, <1>3, PairControl DEF PairInv, TimeoutsAreLong
<1> QED  BY <1>1, <1>2, <1>3 DEF AddRule, DeleteRule, vars

(* Empty maps are each other's inverse. *)
LEMMA PairInit ==
  ASSUME LongTimeouts, Init
  PROVE  PairInv
<1>1. RunsAreShort /\ \A c \in CPU : HalfOpen(c)
  BY DEF Init, RunsAreShort, Timed, HalfOpen, At, Idle
<1>2. TimeoutsAreLong
  BY DEF Init, TimeoutsAreLong, LongTimeouts, Asleep
<1>3. \A f \in Flow : OwnedIsLent(f)
  BY WireType, NoneIsFresh DEF Init, OwnedIsLent, Owner, Flow
<1> QED  BY <1>1, <1>2, <1>3 DEF PairInv

LEMMA PairRestart ==
  ASSUME LongTimeouts, clock \in Nat, Restart
  PROVE  PairInv'
<1>1. (RunsAreShort /\ \A c \in CPU : HalfOpen(c))'
  BY DEF Restart, RunsAreShort, Timed, HalfOpen, At, Idle
<1>2. TimeoutsAreLong'
  BY DEF Restart, TimeoutsAreLong, LongTimeouts, Asleep
<1>3. \A f \in Flow : OwnedIsLent(f)'
  BY WireType, NoneIsFresh DEF Restart, OwnedIsLent, Owner, Flow
<1> QED  BY <1>1, <1>2, <1>3 DEF PairInv

LEMMA PairStep ==
  ASSUME TypeInv, LeaseInv, PairInv, LongTimeouts, RevRoom, SessRoom, [Next]_vars
  PROVE  PairInv'
<1>1. ASSUME NEW c \in CPU, RunStep(c) PROVE PairInv'
  BY <1>1, PairRefresh, PairInsertSession, PairInsertReverse DEF RunStep, Refreshing
<1>2. CASE Restart
  BY <1>2, PairRestart DEF TypeInv, TypeOK
<1> QED  BY <1>1, <1>2, PairCleaner, PairReceive, PairDaemon DEF Next

(* What the maps and the runs owe each other at every step, also in the middle
   of a run and of a cleanup. *)
THEOREM PairsKept ==
  ASSUME SteeringSeparates, LongTimeouts
  PROVE  Spec /\ []RevRoom /\ []SessRoom => []PairInv
<1>1. TypeInv /\ LeaseInv /\ PairInv /\ RevRoom /\ SessRoom /\ [Next]_vars => PairInv'
  BY PairStep
<1> QED  BY <1>1, PairInit, LeasesKept, PTL DEF Spec

(* Between runs and removals every session has its way back and no reverse
   element has lost its session, so no cleanup can miss one. *)
THEOREM MapsStayPaired ==
  ASSUME SteeringSeparates, LongTimeouts
  PROVE  Spec /\ []RevRoom /\ []SessRoom => []Paired
<1>1. TypeInv /\ LeaseInv /\ PairInv => Paired
  <2> SUFFICES ASSUME TypeInv, LeaseInv, PairInv, Quiet PROVE Paired
    BY DEF Paired
  <2>1. ASSUME NEW f \in Entries(sess)
        PROVE  /\ rev[Wire(f, sess[f].nat_port)] # None
               /\ rev[Wire(f, sess[f].nat_port)].client = f.client
    <3>1. f \in Flow /\ Lent(f) = sess[f].nat_port /\ Lent(f) # None
      BY <2>1, LentSession DEF Entries, TypeInv, TypeOK
    <3>2. OwnedOrLending(f, Lent(f))
      BY <3>1 DEF LeaseInv, LentIsOwned
    <3>3. Owner(Wire(f, sess[f].nat_port)) = f.client /\ f.client # None
      BY <3>1, <3>2, NoneIsFresh DEF OwnedOrLending, Lending, Quiet, At, Flow
    <3> QED  BY <3>3 DEF Owner
  <2>2. ASSUME NEW k \in RevKey, Orphan(k) PROVE FALSE
    <3> DEFINE f == [client |-> rev[k].client, target |-> k.target, proto |-> k.proto]
    <3>1. rev[k] # None /\ rev[k].client \in Client
      BY <2>2 DEF Orphan, TypeInv, TypeOK, RevVal
    <3>2. f \in Flow /\ k.nat_port \in NatPort /\ Wire(f, k.nat_port) = k
      BY <3>1 DEF Flow, RevKey, Wire
    <3>3. Owner(Wire(f, k.nat_port)) = f.client
      BY <3>1, <3>2 DEF Owner
    <3>4. ~HalfGone(f)
      BY DEF HalfGone, Quiet
    <3>5. Lent(f) = k.nat_port
      BY <3>2, <3>3, <3>4 DEF PairInv, OwnedIsLent, Returning
    <3>6. sess[f] # None /\ sess[f].nat_port = k.nat_port
      BY <3>2, <3>5, LentSession, NoneIsFresh DEF TypeInv
    <3> QED  BY <3>6, <2>2 DEF Orphan
  <2> QED  BY <2>1, <2>2 DEF Paired
<1> QED  BY <1>1, LeasesKept, PairsKept, PTL

(* The lookup reads the client from the element, whose owner is lent the port
   or has just lost it to the cleanup. *)
LEMMA RedirectStep ==
  ASSUME TypeInv, PairInv, [Next]_vars, NEW c \in CPU, Redirected(c)
  PROVE  LET f == cpu'[c].flow
             p == cpu'[c].port
         IN Lent(f) = p \/ Returning(f, p)
<1> DEFINE f == cpu'[c].flow
           p == cpu'[c].port
           q == cpu[c].pkt
           k == [target |-> q.src, nat_port |-> q.dport, proto |-> q.proto]
<1>0. cpu \in [CPU -> CpuState] /\ cpu'[c] # cpu[c] /\ cpu[c].pc = "reverse" /\ TypeOK
  BY DEF TypeInv, TypeOK, Redirected, At
<1>1. ReverseLookup(c)
  <2>1. ASSUME NEW d \in CPU, RunStep(d) PROVE d = c
    BY <1>0, <2>1
    DEF RunStep, SessionLookup, RefreshReverse, Probe, InsertSession, InsertReverse,
        TransmitForward, ReverseLookup, RefreshOwnReverse, RefreshSession, TransmitReply,
        Goto, Finish
  <2>2. ASSUME NEW d \in CPU, NEW r \in Traffic, Receive(d, r) PROVE FALSE
    <3>1. d = c
      BY <1>0, <2>2 DEF Receive
    <3> QED  BY <1>0, <2>2, <3>1 DEF Receive, At
  <2>3. ~Restart
    BY <1>0 DEF Restart, Idle, Redirected
  <2>4. RunStep(c)
    BY <1>0, <2>1, <2>2, <2>3
    DEF Next, vars, CleanerStep, Wake, ReadTimeouts, BeginScan, EndScan, SessionsRemoved, EndPass,
        Scan, RemoveSession, RemoveReverse, AddRule, DeleteRule, SetTimeout, Tick
  <2> QED
    BY <1>0, <2>4
    DEF RunStep, SessionLookup, RefreshReverse, Probe, InsertSession, InsertReverse,
        TransmitForward, RefreshOwnReverse, RefreshSession, TransmitReply, At
<1>2. /\ k \in RevKey /\ rev[k] # None
      /\ f = [client |-> rev[k].client, target |-> q.src, proto |-> q.proto] /\ p = q.dport
  <2>1. Idle.pc # "refreshOwnRev"
    BY DEF Idle
  <2> QED  BY <1>0, <1>1, <2>1 DEF ReverseLookup, Finish, Redirected, CpuState
<1>3. f \in Flow /\ p \in NatPort /\ Wire(f, p) = k /\ Owner(k) = f.client
  <2>1. rev[k].client \in Client
    BY <1>0, <1>2 DEF TypeOK, RevVal
  <2> QED  BY <1>2, <2>1 DEF RevKey, Flow, Wire, Owner
<1> QED  BY <1>3 DEF PairInv, OwnedIsLent

(* A reply reaches the client that is lent the port it came for, or the last one
   that was, while the cleanup takes the port back. *)
THEOREM RepliesReachTheLessee ==
  ASSUME SteeringSeparates, LongTimeouts
  PROVE  Spec /\ []RevRoom /\ []SessRoom => RepliesFollowLeases
<1>1. TypeInv /\ PairInv /\ [Next]_vars
        => [\A c \in CPU : Redirected(c) =>
              LET f == cpu'[c].flow
                  p == cpu'[c].port
              IN Lent(f) = p \/ Returning(f, p)]_vars
  BY RedirectStep
<1> QED  BY <1>1, LeasesKept, PairsKept, PTL DEF Spec, RepliesFollowLeases

(* What the data plane owes its clients, from the sizes and the timeouts alone:
   the sessions implement the NAT table, leases end only by a cleanup of what was
   idle, every reply goes to the client that is lent the port, and no session and
   no reverse element loses the other. *)
THEOREM FittingNodesAreSound ==
  ASSUME SteeringSeparates, LongTimeouts, PortsFit
  PROVE  Spec => /\ TableSpec /\ LeasesEndIdle /\ RepliesFollowLeases
                 /\ []ReverseOwned /\ []NatPortOnWireIsOwned /\ []Paired
<1>1. Spec => []RevRoom /\ []SessRoom
  BY MapsHaveRoom
<1>2. Spec /\ []RevRoom => TableSpec /\ LeasesEndIdle
  BY SessionsImplementTable, LeasesEndOnlyIdle
<1>3. Spec /\ []RevRoom => []ReverseOwned /\ []NatPortOnWireIsOwned
  BY SessionsKeepTheirReverse, RepliesReachTheSender, PTL
<1>4. Spec /\ []RevRoom /\ []SessRoom => RepliesFollowLeases /\ []Paired
  BY RepliesReachTheLessee, MapsStayPaired
<1> QED  BY <1>1, <1>2, <1>3, <1>4, PTL

-----------------------------------------------------------------------------
(* One queue: the CPU that serves it is the only one with a run under way. *)

LEMMA OneQueueSeparates == OneQueue => SteeringSeparates
BY DEF OneQueue, SteeringSeparates

LEMMA OthersIdle ==
  ASSUME OneQueue, AgeInv, NEW c \in CPU, ~At(c, "idle")
  PROVE  \A d \in CPU \ {c} : At(d, "idle")
<1> SUFFICES ASSUME NEW d \in CPU, ~At(d, "idle") PROVE d = c
  OBVIOUS
<1>1. ServesSteered(c) /\ ServesSteered(d)
  BY DEF AgeInv
<1> QED  BY <1>1 DEF ServesSteered, OneQueue

LEMMA SessTouched ==
  ASSUME TypeOK, NEW g \in Flow, NEW t \in Nat, sess' = Touched(sess, g, t), NEW f \in Flow
  PROVE  /\ sess'[f] # None <=> sess[f] # None
         /\ sess[f] # None => /\ sess'[f].nat_port = sess[f].nat_port
                              /\ sess'[f].last_seen = IF f = g THEN t ELSE sess[f].last_seen
<1>1. CASE sess[g] = None \/ f # g
  BY <1>1 DEF Touched, TypeOK
<1>2. CASE sess[g] # None /\ f = g
  <2> DEFINE v == [sess[g] EXCEPT !.last_seen = t]
  <2>1. v \in SessionVal /\ v.nat_port = sess[g].nat_port /\ v.last_seen = t
    BY <1>2 DEF TypeOK, SessionVal
  <2>2. sess'[g] = v
    BY <1>2 DEF Touched, TypeOK
  <2>3. v # None
    BY <2>1, NoneAssumption DEF SessionVal
  <2> HIDE DEF v
  <2> QED  BY <1>2, <2>1, <2>2, <2>3
<1> QED  BY <1>1, <1>2

LEMMA RevTouched ==
  ASSUME TypeOK, NEW j \in RevKey, NEW t \in Nat, rev' = Touched(rev, j, t), NEW k \in RevKey
  PROVE  /\ rev'[k] # None <=> rev[k] # None
         /\ rev[k] # None => rev'[k].last_seen = IF k = j THEN t ELSE rev[k].last_seen
<1>1. CASE rev[j] = None \/ k # j
  BY <1>1 DEF Touched, TypeOK
<1>2. CASE rev[j] # None /\ k = j
  <2> DEFINE v == [rev[j] EXCEPT !.last_seen = t]
  <2>1. v \in RevVal /\ v.last_seen = t
    BY <1>2 DEF TypeOK, RevVal
  <2>2. rev'[j] = v
    BY <1>2 DEF Touched, TypeOK
  <2>3. v # None
    BY <2>1, NoneAssumption DEF RevVal
  <2> HIDE DEF v
  <2> QED  BY <1>2, <2>1, <2>2, <2>3
<1> QED  BY <1>1, <1>2

(* A run in which no reply waits to refresh its session leads everywhere. *)
Leads(f) ==
  sess[f] # None =>
    LET r == rev[Wire(f, sess[f].nat_port)] IN r # None => r.last_seen <= sess[f].last_seen

LEMMA LeadsBut ==
  ASSUME OneQueue, AgeInv, NEW c \in CPU, ~At(c, "idle"), NEW f \in Flow,
         ~(At(c, "refreshSession") /\ cpu[c].flow = f)
  PROVE  Leads(f)
<1>1. \A d \in CPU \ {c} : ~At(d, "refreshSession")
  BY OthersIdle DEF At
<1> QED  BY <1>1 DEF AgeInv, AgeLeads, Leads

(* What a step of the one run owes. *)
LEMMA AgeRun ==
  ASSUME TypeInv, AgeInv, NEW c \in CPU, NEW l, cpu' = [cpu EXCEPT ![c] = l],
         \A d \in CPU \ {c} : At(d, "idle"),
         SeenBy(clock)', ServesSteered(c)', LatestTime(c)', RefreshedInOrder(c)',
         \A f \in Flow : AgeLeads(f)'
  PROVE  AgeInv'
<1>1. \A d \in CPU \ {c} : cpu'[d] = cpu[d] /\ cpu[d].pc = "idle"
  BY DEF TypeInv, TypeOK, At
<1>2. \A d \in CPU \ {c} : (ServesSteered(d) /\ LatestTime(d) /\ RefreshedInOrder(d))'
  BY <1>1 DEF ServesSteered, LatestTime, RefreshedInOrder, Timed, At
<1> QED  BY <1>2 DEF AgeInv

(* The element a run refreshes or inserts is that of its own flow's session. *)
LEMMA OwnElement ==
  ASSUME TypeInv, LeaseInv, AgeInv, OneQueue, NEW c \in CPU, NEW f \in Flow, sess[f] # None,
         cpu[c].pc \in {"refreshRev", "refreshOwnRev", "insertReverse"},
         Wire(f, sess[f].nat_port) = Wire(cpu[c].flow, cpu[c].port)
  PROVE  f = cpu[c].flow
<1> DEFINE g == cpu[c].flow
           p == cpu[c].port
<1>1. g \in Flow /\ p \in NatPort
  BY DEF TypeInv, LocalsOf, HasFlow, HasPort
<1>2. Table!SameWire(f, g) /\ sess[f].nat_port = p
  BY <1>1, WireSplit
<1>3. Lent(f) = p /\ Lent(f) # None
  BY <1>2, LentSession DEF TypeInv
<1>4. OwnedOrLending(f, p)
  BY <1>3 DEF LeaseInv, LentIsOwned
<1>5. ASSUME NEW d \in CPU, Lending(d, f, p) PROVE f = g
  <2>1. d = c
    BY <1>5, OthersIdle DEF Lending, At
  <2> QED  BY <1>5, <2>1 DEF Lending
<1>6. Owner(Wire(g, p)) \in {None, g.client}
  BY DEF LeaseInv, PortStaysFree, AgeInv, RefreshedInOrder
<1>7. CASE Owner(Wire(f, p)) = f.client
  <2>1. f.client # None /\ Wire(f, p) = Wire(g, p)
    BY <1>1, <1>2, WireJoin, NoneIsFresh DEF Flow
  <2> QED  BY <2>1, <1>1, <1>2, <1>6, <1>7, FlowOfClient
<1> QED  BY <1>4, <1>5, <1>7 DEF OwnedOrLending

-----------------------------------------------------------------------------
(* The steps of the run. *)

LEMMA AgeReceive ==
  ASSUME TypeInv, OneQueue, AgeInv, NEW c \in CPU, NEW p \in Traffic, Receive(c, p)
  PROVE  AgeInv'
<1>0. cpu \in [CPU -> CpuState] /\ At(c, "idle") /\ c \in Steer[p] /\ clock \in Nat
  BY DEF TypeInv, TypeOK, Receive
<1>1. \A d \in CPU : At(d, "idle")
  BY <1>0 DEF AgeInv, ServesSteered, OneQueue
<1> DEFINE k == [proto |-> p.proto, local_port |-> p.dport]
           r == [Idle EXCEPT !.pc = "session", !.pkt = p, !.local_port = p.dport,
                      !.time_ns = clock,
                      !.flow = [client |-> p.src, target |-> fwd[k], proto |-> p.proto]]
           s == [Idle EXCEPT !.pc = "reverse", !.pkt = p]
<1>2. cpu' = [cpu EXCEPT ![c] = r] \/ cpu' = [cpu EXCEPT ![c] = s]
  BY DEF Receive
<1>3. r.pc = "session" /\ r.pkt = p /\ r.time_ns = clock /\ s.pc = "reverse" /\ s.pkt = p
  BY DEF Idle
<1> HIDE DEF r, s
<1>4. UNCHANGED <<sess, rev, clock>>
  BY DEF Receive
<1>5. SeenBy(clock)'
  BY <1>4 DEF AgeInv, SeenBy
<1>6. /\ cpu'[c].pc \in {"session", "reverse"} /\ cpu'[c].pkt = p
      /\ cpu'[c].pc = "session" => cpu'[c].time_ns = clock
  BY <1>0, <1>2, <1>3
<1>7. (ServesSteered(c) /\ LatestTime(c) /\ RefreshedInOrder(c))'
  BY <1>0, <1>4, <1>5, <1>6 DEF ServesSteered, LatestTime, RefreshedInOrder, Timed, At, SeenBy
<1>8. \A f \in Flow : AgeLeads(f)'
  BY <1>1, <1>4 DEF AgeInv, AgeLeads, At
<1> QED  BY <1>1, <1>2, <1>5, <1>7, <1>8, AgeRun

(* The time a run has read, when it touches or inserts something. *)
LEMMA RunTime ==
  ASSUME TypeInv, AgeInv, NEW c \in CPU, Timed(c)
  PROVE  /\ cpu[c].time_ns \in Nat /\ cpu[c].time_ns <= clock /\ clock \in Nat
         /\ \A f \in Flow : sess[f] # None =>
              sess[f].last_seen \in Nat /\ sess[f].last_seen <= cpu[c].time_ns
         /\ \A k \in RevKey : rev[k] # None =>
              rev[k].last_seen \in Nat /\ rev[k].last_seen <= cpu[c].time_ns
BY Clocks DEF TypeInv, TypeOK, SessionVal, RevVal, AgeInv, LatestTime, SeenBy

(* A run that goes on with the time it has read, which is the latest still. *)
LEMMA AgeGoes ==
  ASSUME TypeInv, OneQueue, AgeInv, NEW c \in CPU, NEW l, Timed(c),
         cpu' = [cpu EXCEPT ![c] = l], l.time_ns = cpu[c].time_ns, l.pkt = cpu[c].pkt,
         clock' = clock,
         \A f \in Flow : sess'[f] # None => sess'[f].last_seen <= cpu[c].time_ns,
         \A k \in RevKey : rev'[k] # None => rev'[k].last_seen <= cpu[c].time_ns,
         \A f \in Flow : sess'[f] # None => sess'[f].last_seen \in Nat,
         \A k \in RevKey : rev'[k] # None => rev'[k].last_seen \in Nat,
         RefreshedInOrder(c)', \A f \in Flow : AgeLeads(f)'
  PROVE  AgeInv'
<1>1. cpu'[c] = l /\ ~At(c, "idle")
  BY DEF TypeInv, TypeOK, Timed, At
<1>2. cpu[c].time_ns \in Nat /\ cpu[c].time_ns <= clock /\ clock \in Nat
  BY RunTime
<1>3. SeenBy(clock)'
  BY <1>2 DEF SeenBy
<1>4. ServesSteered(c)'
  BY <1>1 DEF AgeInv, ServesSteered
<1>5. LatestTime(c)'
  BY <1>1, <1>2 DEF LatestTime, SeenBy
<1> QED  BY <1>1, <1>3, <1>4, <1>5, OthersIdle, AgeRun

LEMMA RunGoesOn ==
  ASSUME TypeInv, NEW c \in CPU, NEW p, Goto(c, p)
  PROVE  \E l : /\ cpu' = [cpu EXCEPT ![c] = l] /\ cpu'[c] = l
                /\ l.pc = p /\ l.time_ns = cpu[c].time_ns /\ l.pkt = cpu[c].pkt
                /\ l.flow = cpu[c].flow /\ l.port = cpu[c].port
<1> DEFINE r == [cpu[c] EXCEPT !.pc = p]
<1>1. /\ cpu' = [cpu EXCEPT ![c] = r] /\ cpu'[c] = r
      /\ r.pc = p /\ r.time_ns = cpu[c].time_ns /\ r.pkt = cpu[c].pkt
      /\ r.flow = cpu[c].flow /\ r.port = cpu[c].port
  BY DEF Goto, TypeInv, TypeOK, CpuState
<1> HIDE DEF r
<1> QED  BY <1>1

(* The session is refreshed, and is then as young as anything. *)
LEMMA AgeSession ==
  ASSUME TypeInv, OneQueue, AgeInv, NEW c \in CPU, NEW l, Timed(c), cpu[c].flow \in Flow,
         cpu' = [cpu EXCEPT ![c] = l], l.time_ns = cpu[c].time_ns, l.pkt = cpu[c].pkt,
         l.flow = cpu[c].flow, l.pc \notin {"insertReverse", "refreshOwnRev"},
         sess' = Touched(sess, cpu[c].flow, cpu[c].time_ns), UNCHANGED <<rev, clock>>
  PROVE  AgeInv'
<1> DEFINE g == cpu[c].flow
           t == cpu[c].time_ns
<1>0. TypeOK /\ t \in Nat /\ ~At(c, "idle") /\ cpu'[c] = l
  BY RunTime DEF TypeInv, TypeOK, Timed, At
<1>1. ASSUME NEW f \in Flow, sess'[f] # None
      PROVE  /\ sess[f] # None /\ sess'[f].nat_port = sess[f].nat_port
             /\ sess'[f].last_seen = IF f = g THEN t ELSE sess[f].last_seen
             /\ sess'[f].last_seen <= t /\ sess'[f].last_seen \in Nat
  BY <1>0, <1>1, SessTouched, RunTime
<1>2. ASSUME NEW f \in Flow, sess'[f] # None PROVE Leads(f)'
  <2>1. Wire(f, sess[f].nat_port) \in RevKey
    BY <1>0, <1>1, <1>2, LentSession, WireType
  <2>2. CASE f = g
    BY <2>1, <2>2, <1>1, <1>2, RunTime DEF Leads
  <2>3. CASE f # g
    <3>1. Leads(f)
      BY <2>3, <1>0, LeadsBut
    <3> QED  BY <2>3, <3>1, <1>1, <1>2 DEF Leads
  <2> QED  BY <2>2, <2>3
<1>3. \A f \in Flow : AgeLeads(f)'
  BY <1>2 DEF Leads, AgeLeads
<1>4. RefreshedInOrder(c)'
  BY <1>0, <1>1 DEF RefreshedInOrder
<1>5. \A k \in RevKey : rev'[k] # None => rev'[k].last_seen <= t /\ rev'[k].last_seen \in Nat
  BY RunTime
<1> QED  BY <1>1, <1>3, <1>4, <1>5, AgeGoes

(* A reverse element is refreshed: after the session, or before it. *)
LEMMA AgeReverse ==
  ASSUME TypeInv, LeaseInv, OneQueue, AgeInv, NEW c \in CPU,
         RefreshReverse(c) \/ RefreshOwnReverse(c)
  PROVE  AgeInv'
<1> DEFINE g == cpu[c].flow
           t == cpu[c].time_ns
           k == Wire(g, cpu[c].port)
<1>0. /\ cpu[c].pc \in {"refreshRev", "refreshOwnRev"} /\ Timed(c) /\ ~At(c, "idle") /\ TypeOK
      /\ g \in Flow /\ cpu[c].port \in NatPort /\ k \in RevKey /\ t \in Nat
      /\ UNCHANGED <<sess, clock>> /\ rev' = Touched(rev, k, t)
  BY RunTime, WireType
  DEF RefreshReverse, RefreshOwnReverse, At, Timed, TypeInv, LocalsOf, HasFlow, HasPort
<1>1. PICK l : /\ cpu' = [cpu EXCEPT ![c] = l] /\ cpu'[c] = l /\ l.time_ns = t
               /\ l.pkt = cpu[c].pkt /\ l.flow = g
               /\ \/ l.pc = "txForward" /\ cpu[c].pc = "refreshRev"
                  \/ l.pc = "refreshSession" /\ cpu[c].pc = "refreshOwnRev"
  BY RunGoesOn DEF RefreshReverse, RefreshOwnReverse, At
<1> HIDE DEF k
<1>2. ASSUME NEW j \in RevKey, rev'[j] # None
      PROVE  /\ rev[j] # None /\ rev'[j].last_seen = IF j = k THEN t ELSE rev[j].last_seen
             /\ rev'[j].last_seen <= t /\ rev'[j].last_seen \in Nat
  BY <1>0, <1>2, RevTouched, RunTime
<1>3. ASSUME NEW f \in Flow, sess'[f] # None PROVE AgeLeads(f)'
  <2>1. Wire(f, sess[f].nat_port) \in RevKey /\ sess[f] # None
    BY <1>0, <1>3, LentSession, WireType
  <2>2. CASE Wire(f, sess[f].nat_port) = k
    <3>1. f = g
      BY <2>1, <2>2, <1>0, OwnElement DEF k
    <3>2. CASE l.pc = "refreshSession"
      BY <3>1, <3>2, <1>1 DEF AgeLeads, At
    <3>3. CASE cpu[c].pc = "refreshRev"
      <4>1. t <= sess[f].last_seen
        BY <2>1, <3>1, <3>3 DEF AgeInv, RefreshedInOrder
      <4> QED  BY <2>1, <2>2, <4>1, <1>0, <1>2 DEF AgeLeads
    <3> QED  BY <3>2, <3>3, <1>1
  <2>3. CASE Wire(f, sess[f].nat_port) # k
    <3>1. Leads(f)
      BY <1>0, LeadsBut DEF At
    <3> QED  BY <2>1, <2>3, <3>1, <1>0, <1>2 DEF Leads, AgeLeads
  <2> QED  BY <2>2, <2>3
<1>4. RefreshedInOrder(c)'
  BY <1>1 DEF RefreshedInOrder
<1>5. \A f \in Flow : sess'[f] # None => sess'[f].last_seen <= t /\ sess'[f].last_seen \in Nat
  BY <1>0, RunTime
<1>6. \A f \in Flow : AgeLeads(f)'
  BY <1>3 DEF AgeLeads
<1> QED  BY <1>0, <1>1, <1>2, <1>4, <1>5, <1>6, AgeGoes

(* A step of the run that leaves both maps alone. *)
LEMMA AgeQuiet ==
  ASSUME TypeInv, OneQueue, AgeInv, NEW c \in CPU, NEW l, ~At(c, "idle"), ~At(c, "refreshSession"),
         cpu' = [cpu EXCEPT ![c] = l], UNCHANGED <<sess, rev, clock>>,
         l.pc # "idle" => l.pkt = cpu[c].pkt,
         l.pc \notin {"idle", "reverse"} =>
           l.time_ns = clock \/ (Timed(c) /\ l.time_ns = cpu[c].time_ns),
         l.pc \notin {"refreshRev", "insertReverse"},
         l.pc = "refreshOwnRev" => Owner(Wire(l.flow, l.port)) \in {None, l.flow.client}
  PROVE  AgeInv'
<1>1. cpu'[c] = l /\ clock \in Nat
  BY DEF TypeInv, TypeOK
<1>2. SeenBy(clock)'
  BY DEF AgeInv, SeenBy
<1>3. ServesSteered(c)'
  BY <1>1 DEF AgeInv, ServesSteered, At
<1>4. LatestTime(c)'
  BY <1>1, <1>2 DEF AgeInv, LatestTime, Timed, SeenBy
<1>5. RefreshedInOrder(c)'
  BY <1>1 DEF RefreshedInOrder, Owner
<1>6. \A f \in Flow : AgeLeads(f)'
  BY LeadsBut DEF Leads, AgeLeads
<1> QED  BY <1>2, <1>3, <1>4, <1>5, <1>6, OthersIdle, AgeRun

LEMMA AgeLookup ==
  ASSUME TypeInv, OneQueue, AgeInv, NEW c \in CPU, SessionLookup(c) \/ RefreshSession(c)
  PROVE  AgeInv'
<1>0. cpu[c] \in CpuState /\ Timed(c) /\ ~At(c, "idle") /\ cpu[c].flow \in Flow
      /\ UNCHANGED <<rev, clock>>
  BY DEF SessionLookup, RefreshSession, At, Timed, TypeInv, TypeOK, LocalsOf, HasFlow
<1>1. CASE RefreshSession(c)
  <2>1. PICK l : /\ cpu' = [cpu EXCEPT ![c] = l] /\ l.pc = "txReply"
                 /\ l.time_ns = cpu[c].time_ns /\ l.pkt = cpu[c].pkt /\ l.flow = cpu[c].flow
    BY <1>1, RunGoesOn DEF RefreshSession
  <2>2. sess' = Touched(sess, cpu[c].flow, cpu[c].time_ns)
    BY <1>1 DEF RefreshSession
  <2> QED  BY <2>1, <2>2, <1>0, AgeSession
<1>2. CASE SessionLookup(c) /\ sess[cpu[c].flow] # None
  <2> DEFINE r == [cpu[c] EXCEPT !.pc = "refreshRev", !.port = sess[cpu[c].flow].nat_port]
  <2>1. cpu' = [cpu EXCEPT ![c] = r] /\ sess' = Touched(sess, cpu[c].flow, cpu[c].time_ns)
    BY <1>0, <1>2 DEF SessionLookup, TypeInv, TypeOK
  <2>2. /\ r.pc = "refreshRev" /\ r.time_ns = cpu[c].time_ns /\ r.pkt = cpu[c].pkt
        /\ r.flow = cpu[c].flow
    BY <1>0 DEF CpuState
  <2> HIDE DEF r
  <2> QED  BY <2>1, <2>2, <1>0, AgeSession
<1>3. CASE SessionLookup(c) /\ sess[cpu[c].flow] = None
  <2>1. PICK l : /\ cpu' = [cpu EXCEPT ![c] = l] /\ l.pc = "probe"
                 /\ l.time_ns = cpu[c].time_ns /\ l.pkt = cpu[c].pkt
    BY <1>3, RunGoesOn DEF SessionLookup
  <2>2. sess' = sess /\ ~At(c, "refreshSession")
    BY <1>3 DEF SessionLookup, At
  <2> QED  BY <2>1, <2>2, <1>0, AgeQuiet
<1> QED  BY <1>1, <1>2, <1>3

LEMMA AgeProbe ==
  ASSUME TypeInv, OneQueue, AgeInv, NEW c \in CPU, Probe(c)
  PROVE  AgeInv'
<1>0. /\ cpu \in [CPU -> CpuState] /\ cpu[c].pc = "probe" /\ Timed(c)
      /\ ~At(c, "idle") /\ ~At(c, "refreshSession") /\ UNCHANGED <<sess, rev, clock>>
  BY DEF Probe, At, Timed, TypeInv, TypeOK
<1> DEFINE p == Candidate(cpu[c].flow, cpu[c].i)
           r == [cpu[c] EXCEPT !.pc = "insertSession", !.port = p]
           s == [cpu[c] EXCEPT !.i = cpu[c].i + 1]
<1>1. \/ cpu' = [cpu EXCEPT ![c] = r]
      \/ cpu' = [cpu EXCEPT ![c] = s]
      \/ cpu' = [cpu EXCEPT ![c] = Idle]
  BY <1>0 DEF Probe, Finish
<1>2. /\ r.pc = "insertSession" /\ r.time_ns = cpu[c].time_ns /\ r.pkt = cpu[c].pkt
      /\ s.pc = "probe" /\ s.time_ns = cpu[c].time_ns /\ s.pkt = cpu[c].pkt
      /\ Idle.pc = "idle"
  BY <1>0 DEF CpuState, Idle
<1> HIDE DEF r, s
<1> QED  BY <1>0, <1>1, <1>2, AgeQuiet

LEMMA AgeReply ==
  ASSUME TypeInv, OneQueue, AgeInv, NEW c \in CPU,
         TransmitForward(c) \/ ReverseLookup(c) \/ TransmitReply(c)
  PROVE  AgeInv'
<1>0. /\ cpu \in [CPU -> CpuState] /\ ~At(c, "idle") /\ ~At(c, "refreshSession")
      /\ UNCHANGED <<sess, rev, clock>>
  BY DEF TransmitForward, ReverseLookup, TransmitReply, At, TypeInv, TypeOK
<1>1. CASE cpu' = [cpu EXCEPT ![c] = Idle]
  <2>1. Idle.pc = "idle"
    BY DEF Idle
  <2> QED  BY <2>1, <1>0, <1>1, AgeQuiet
<1>2. CASE ReverseLookup(c)
  <2> DEFINE p == cpu[c].pkt
             k == [target |-> p.src, nat_port |-> p.dport, proto |-> p.proto]
             g == [client |-> rev[k].client, target |-> p.src, proto |-> p.proto]
             r == [cpu[c] EXCEPT !.pc = "refreshOwnRev", !.port = p.dport, !.time_ns = clock,
                       !.local_port = rev[k].local_port, !.flow = g]
  <2>1. CASE cpu' = [cpu EXCEPT ![c] = r] /\ k \in RevKey /\ rev[k] # None
    <3>1. /\ r.pc = "refreshOwnRev" /\ r.time_ns = clock /\ r.pkt = p
          /\ r.flow = g /\ r.port = p.dport
      BY <1>0 DEF CpuState
    <3>2. Wire(g, p.dport) = k /\ Owner(k) = g.client
      BY <2>1 DEF Wire, Owner
    <3> HIDE DEF r, g, k
    <3> QED  BY <2>1, <3>1, <3>2, <1>0, AgeQuiet
  <2> QED  BY <2>1, <1>0, <1>1, <1>2 DEF ReverseLookup, Finish
<1> QED  BY <1>1, <1>2 DEF TransmitForward, TransmitReply, Finish

(* A new session is as young as anything, or it found no room and is none. *)
LEMMA AgeInsertSession ==
  ASSUME TypeInv, LeaseInv, OneQueue, AgeInv, NEW c \in CPU, InsertSession(c)
  PROVE  AgeInv'
<1> DEFINE g == cpu[c].flow
           t == cpu[c].time_ns
           v == [nat_port |-> cpu[c].port, last_seen |-> t]
<1>0. /\ TypeOK /\ Timed(c) /\ ~At(c, "idle") /\ ~At(c, "refreshSession")
      /\ g \in Flow /\ cpu[c].port \in NatPort /\ t \in Nat /\ UNCHANGED <<rev, clock>>
  BY RunTime DEF InsertSession, At, Timed, TypeInv, LocalsOf, HasFlow, HasPort
<1>1. sess[g] = None
  BY <1>0, LentSession DEF InsertSession, LeaseInv, PortStaysFree, At
<1>2. v.last_seen = t /\ v.nat_port = cpu[c].port
  OBVIOUS
<1>3. sess' = sess \/ sess' = [sess EXCEPT ![g] = v]
  BY DEF InsertSession, Inserted
<1> HIDE DEF v
<1>4. ASSUME NEW f \in Flow, sess'[f] # None
      PROVE  /\ sess'[f].last_seen <= t /\ sess'[f].last_seen \in Nat
             /\ IF f = g THEN sess'[f] = v ELSE sess'[f] = sess[f]
  <2>1. IF f = g THEN sess'[f] = v ELSE sess'[f] = sess[f]
    BY <1>0, <1>1, <1>3, <1>4 DEF TypeOK
  <2> QED  BY <2>1, <1>0, <1>2, <1>4, RunTime
<1>5. ASSUME NEW f \in Flow, sess'[f] # None PROVE Leads(f)'
  <2>1. CASE f = g
    <3>1. sess'[f].last_seen = t /\ Wire(f, sess'[f].nat_port) \in RevKey
      BY <2>1, <1>0, <1>2, <1>4, <1>5, WireType
    <3> QED  BY <3>1, <1>0, RunTime DEF Leads
  <2>2. CASE f # g
    <3>1. Leads(f)
      BY <1>0, LeadsBut
    <3> QED  BY <2>2, <3>1, <1>0, <1>4, <1>5 DEF Leads
  <2> QED  BY <2>1, <2>2
<1>6. PICK l : /\ cpu' = [cpu EXCEPT ![c] = l] /\ cpu'[c] = l /\ l.pc = "insertReverse"
               /\ l.time_ns = t /\ l.pkt = cpu[c].pkt /\ l.flow = g
  BY RunGoesOn DEF InsertSession
<1>7. RefreshedInOrder(c)'
  BY <1>0, <1>2, <1>4, <1>6 DEF RefreshedInOrder
<1>8. \A f \in Flow : AgeLeads(f)'
  BY <1>5 DEF Leads, AgeLeads
<1>9. \A k \in RevKey : rev'[k] # None => rev'[k].last_seen <= t /\ rev'[k].last_seen \in Nat
  BY <1>0, RunTime
<1> QED  BY <1>0, <1>4, <1>6, <1>7, <1>8, <1>9, AgeGoes

LEMMA AgeInsertReverse ==
  ASSUME TypeInv, LeaseInv, OneQueue, RevRoom, AgeInv, NEW c \in CPU, InsertReverse(c)
  PROVE  AgeInv'
<1> DEFINE g == cpu[c].flow
           t == cpu[c].time_ns
           k == Wire(g, cpu[c].port)
<1>0. /\ TypeOK /\ cpu[c].pc = "insertReverse" /\ Timed(c) /\ ~At(c, "idle")
      /\ ~At(c, "refreshSession") /\ t \in Nat /\ UNCHANGED <<sess, clock>>
  BY RunTime DEF InsertReverse, At, Timed, TypeInv
<1>1. /\ rev'[k].last_seen = t
      /\ \A j \in RevKey \ {k} : rev'[j] = rev[j]
  BY ReverseInserted
<1> HIDE DEF k
<1>2. ASSUME NEW j \in RevKey, rev'[j] # None
      PROVE  rev'[j].last_seen <= t /\ rev'[j].last_seen \in Nat
  BY <1>0, <1>1, <1>2, RunTime
<1>3. ASSUME NEW f \in Flow, sess'[f] # None PROVE Leads(f)'
  <2>1. Wire(f, sess[f].nat_port) \in RevKey /\ sess[f] # None
    BY <1>0, <1>3, LentSession, WireType
  <2>2. CASE Wire(f, sess[f].nat_port) = k
    <3>1. f = g
      BY <2>1, <2>2, <1>0, OwnElement DEF k
    <3>2. t <= sess[f].last_seen
      BY <2>1, <3>1, <1>0 DEF AgeInv, RefreshedInOrder
    <3> QED  BY <2>1, <2>2, <3>2, <1>0, <1>1 DEF Leads
  <2>3. CASE Wire(f, sess[f].nat_port) # k
    <3>1. Leads(f)
      BY <1>0, LeadsBut
    <3> QED  BY <2>1, <2>3, <3>1, <1>0, <1>1 DEF Leads
  <2> QED  BY <2>2, <2>3
<1>4. PICK l : /\ cpu' = [cpu EXCEPT ![c] = l] /\ cpu'[c] = l /\ l.pc = "txForward"
               /\ l.time_ns = t /\ l.pkt = cpu[c].pkt
  BY RunGoesOn DEF InsertReverse
<1>5. RefreshedInOrder(c)'
  BY <1>4 DEF RefreshedInOrder
<1>6. \A f \in Flow : AgeLeads(f)'
  BY <1>3 DEF Leads, AgeLeads
<1>7. \A f \in Flow : sess'[f] # None => sess'[f].last_seen <= t /\ sess'[f].last_seen \in Nat
  BY <1>0, RunTime
<1> QED  BY <1>0, <1>2, <1>4, <1>5, <1>6, <1>7, AgeGoes

-----------------------------------------------------------------------------
(* The other steps at most remove elements and let time pass. *)

LEMMA AgeShrinks ==
  ASSUME TypeInv, AgeInv, cpu' = cpu, clock' \in Nat, clock <= clock',
         \A f \in Flow : sess'[f] \in {sess[f], None},
         \A k \in RevKey : rev'[k] \in {rev[k], None}
  PROVE  AgeInv'
<1>0. /\ clock \in Nat /\ \A c \in CPU : cpu[c].time_ns \in Nat
      /\ \A f \in Flow : sess[f] # None =>
           sess[f].last_seen \in Nat /\ sess[f].nat_port \in NatPort
      /\ \A k \in RevKey : rev[k] # None => rev[k].last_seen \in Nat
  BY Clocks DEF TypeInv, TypeOK, SessionVal, RevVal
<1>1. SeenBy(clock)'
  BY <1>0 DEF AgeInv, SeenBy
<1>2. ASSUME NEW c \in CPU PROVE (ServesSteered(c) /\ LatestTime(c) /\ RefreshedInOrder(c))'
  <2>1. ServesSteered(c) /\ LatestTime(c) /\ RefreshedInOrder(c) /\ LocalsOf(cpu[c])
    BY DEF AgeInv, TypeInv
  <2>2. ServesSteered(c)'
    BY <2>1 DEF ServesSteered, At
  <2>3. LatestTime(c)'
    BY <2>1, <1>0 DEF LatestTime, Timed, SeenBy
  <2>4. cpu[c].pc \in {"refreshRev", "insertReverse", "refreshOwnRev"} =>
          cpu[c].flow \in Flow /\ Wire(cpu[c].flow, cpu[c].port) \in RevKey
    BY <2>1, WireType DEF LocalsOf, HasFlow, HasPort
  <2>5. RefreshedInOrder(c)'
    BY <2>1, <2>4 DEF RefreshedInOrder, Owner
  <2> QED  BY <2>2, <2>3, <2>5
<1>3. ASSUME NEW f \in Flow PROVE AgeLeads(f)'
  <2>1. sess[f] # None => Wire(f, sess[f].nat_port) \in RevKey
    BY <1>0, WireType
  <2>2. AgeLeads(f)
    BY DEF AgeInv
  <2> QED  BY <2>1, <2>2 DEF AgeLeads, At
<1> QED  BY <1>1, <1>2, <1>3 DEF AgeInv

LEMMA AgeOther ==
  ASSUME TypeInv, AgeInv,
         \/ CleanerStep \/ Tick \/ UNCHANGED vars
         \/ \E k \in RuleKey, t \in Target : AddRule(k, t)
         \/ \E k \in RuleKey : DeleteRule(k)
         \/ \E p \in Proto, s \in Seconds : SetTimeout(p, s)
  PROVE  AgeInv'
<1>0. clock \in Nat /\ TypeOK
  BY DEF TypeInv, TypeOK
<1>1. CASE UNCHANGED <<sess, rev, cpu>> /\ clock' \in {clock, clock + 1}
  BY <1>0, <1>1, AgeShrinks
<1>2. ASSUME NEW f \in Flow, RemoveSession(f) PROVE AgeInv'
  <2>1. \A g \in Flow : sess'[g] \in {sess[g], None}
    BY <1>0, <1>2 DEF RemoveSession, TypeOK
  <2> QED  BY <2>1, <1>0, <1>2, AgeShrinks DEF RemoveSession
<1>3. ASSUME NEW f \in Flow, RemoveReverse(f) PROVE AgeInv'
  <2> DEFINE j == Wire(f, cleaner.found[f].nat_port)
  <2>1. rev' = [rev EXCEPT ![j] = None]
    BY <1>3 DEF RemoveReverse
  <2> HIDE DEF j
  <2>2. \A k \in RevKey : rev'[k] \in {rev[k], None}
    BY <2>1, <1>0 DEF TypeOK
  <2> QED  BY <2>2, <1>0, <1>3, AgeShrinks DEF RemoveReverse
<1> QED
  BY <1>1, <1>2, <1>3
  DEF CleanerStep, Wake, ReadTimeouts, BeginScan, EndScan, SessionsRemoved, EndPass, Scan, AddRule,
      DeleteRule, SetTimeout, Tick, vars

LEMMA AgeInit == Init => AgeInv
<1> SUFFICES ASSUME Init PROVE AgeInv
  OBVIOUS
<1>1. \A c \in CPU : At(c, "idle")
  BY DEF Init, Idle, At
<1>2. SeenBy(clock)
  BY DEF Init, SeenBy
<1> QED
  BY <1>1, <1>2 DEF Init, AgeInv, AgeLeads, ServesSteered, LatestTime, RefreshedInOrder, Timed, At

LEMMA AgeRestart == Restart => AgeInv'
<1> SUFFICES ASSUME Restart PROVE AgeInv'
  OBVIOUS
<1>1. \A c \in CPU : At(c, "idle")'
  BY DEF Restart, Idle, At
<1>2. SeenBy(clock)'
  BY DEF Restart, SeenBy
<1> QED
  BY <1>1, <1>2
  DEF Restart, AgeInv, AgeLeads, ServesSteered, LatestTime, RefreshedInOrder, Timed, At

LEMMA AgeStep ==
  ASSUME TypeInv, LeaseInv, AgeInv, OneQueue, RevRoom, [Next]_vars
  PROVE  AgeInv'
<1>1. ASSUME NEW c \in CPU, RunStep(c) PROVE AgeInv'
  BY <1>1, AgeLookup, AgeReverse, AgeProbe, AgeReply, AgeInsertSession, AgeInsertReverse
  DEF RunStep
<1> QED  BY <1>1, AgeReceive, AgeOther, AgeRestart DEF Next

(* What the readings in the maps and in the run under way owe each other. *)
THEOREM AgesKept ==
  ASSUME OneQueue
  PROVE  Spec /\ []RevRoom => []AgeInv
<1>1. TypeInv /\ LeaseInv /\ AgeInv /\ RevRoom /\ [Next]_vars => AgeInv'
  BY AgeStep
<1>2. Spec /\ []RevRoom => [](TypeInv /\ LeaseInv)
  BY OneQueueSeparates, LeasesKept
<1> QED  BY <1>1, <1>2, AgeInit, PTL DEF Spec

(* On one queue a session is never older than its reverse element, so a
   cleanup that looks at the session alone cuts off no flow whose target still
   talks. *)
THEOREM SessionsLeadInAge ==
  ASSUME OneQueue
  PROVE  Spec /\ []RevRoom => []SessionAgeLeads
<1>1. TypeInv /\ AgeInv => SessionAgeLeads
  <2> SUFFICES ASSUME TypeInv, AgeInv, Quiet, NEW f \in Entries(sess),
                      rev[Wire(f, sess[f].nat_port)] # None
               PROVE  rev[Wire(f, sess[f].nat_port)].last_seen <= sess[f].last_seen
    BY DEF SessionAgeLeads
  <2>1. f \in Flow /\ sess[f] # None  BY DEF TypeInv, TypeOK, Entries
  <2>2. \A c \in CPU : ~At(c, "refreshSession")  BY DEF Quiet, At
  <2> QED  BY <2>1, <2>2 DEF AgeInv, AgeLeads
<1> QED  BY <1>1, TypeInvariant, AgesKept, PTL
=============================================================================
