--------------------------- MODULE NatLeaseProofs ---------------------------
(***************************************************************************)
(* NAT ports are never lent twice, for every value of the constants whose  *)
(* steering separates competing flows, as long as the reverse map has room *)
(* for what is inserted. Without either hypothesis the code does lend a    *)
(* port twice, or lends one it does not record.                            *)
(***************************************************************************)
EXTENDS NatLease, NatDataPlaneProofs

LEMMA NoneIsFresh == /\ None \notin NatPort
                     /\ None \notin Client
BY NoneAssumption, PortAssumption DEF NatPort

LEMMA LentType ==
  ASSUME TypeOK, NEW f \in Flow
  PROVE  Lent(f) \in NatPort \cup {None}
BY DEF TypeOK, Lent, SessionVal

(* What a run's packet says of its flow. *)
LEMMA ServesType ==
  ASSUME TypeInv, NEW c \in CPU, ServesItsPacket(c), cpu[c].pc \in Forwarding
  PROVE  /\ cpu[c].flow \in Flow
         /\ cpu[c].pkt \in Traffic /\ cpu[c].pkt.dport \in RulePort
         /\ c \in Steer[cpu[c].pkt]
         /\ cpu[c].flow.client = cpu[c].pkt.src /\ cpu[c].flow.proto = cpu[c].pkt.proto
<1>1. cpu[c].flow \in Flow
  BY DEF TypeInv, LocalsOf, Forwarding, HasFlow
<1> QED  BY <1>1 DEF ServesItsPacket, Flow

(* Two runs for flows that compete for a port are one run. *)
LEMMA OneRun ==
  ASSUME TypeInv, SteeringSeparates, NEW c \in CPU, NEW d \in CPU,
         ServesItsPacket(c), ServesItsPacket(d),
         cpu[c].pc \in Forwarding, cpu[d].pc \in Forwarding,
         Table!SameWire(cpu[c].flow, cpu[d].flow),
         \/ cpu[c].flow = cpu[d].flow
         \/ Candidates(cpu[c].flow) \cap Candidates(cpu[d].flow) # {}
  PROVE  c = d
<1> DEFINE f == cpu[c].flow
           g == cpu[d].flow
           p == cpu[c].pkt
           q == cpu[d].pkt
<1>1. /\ f \in Flow /\ p \in Traffic /\ p.dport \in RulePort /\ c \in Steer[p]
      /\ f.client = p.src /\ f.proto = p.proto
  BY ServesType
<1>2. /\ g \in Flow /\ q \in Traffic /\ q.dport \in RulePort /\ d \in Steer[q]
      /\ g.client = q.src /\ g.proto = q.proto
  BY ServesType
<1>3. f.target = g.target /\ f.proto = g.proto /\ f.target \in Target
  BY <1>1 DEF Table!SameWire, Flow
<1>4. /\ f = [client |-> p.src, target |-> f.target, proto |-> p.proto]
      /\ g = [client |-> q.src, target |-> f.target, proto |-> p.proto]
  BY <1>1, <1>2, <1>3 DEF Flow
<1>5. Compete(p, q)
  BY <1>1, <1>2, <1>3, <1>4 DEF Compete
<1> QED  BY <1>1, <1>2, <1>3, <1>5 DEF SteeringSeparates

LEMMA WireSplit ==
  ASSUME NEW f \in Flow, NEW g \in Flow, NEW p, NEW q, Wire(f, p) = Wire(g, q)
  PROVE  Table!SameWire(f, g) /\ p = q
BY DEF Wire, Table!SameWire

LEMMA WireJoin ==
  ASSUME NEW f \in Flow, NEW g \in Flow, NEW p, Table!SameWire(f, g)
  PROVE  Wire(f, p) = Wire(g, p)
BY DEF Wire, Table!SameWire

LEMMA FlowOfClient ==
  ASSUME NEW f \in Flow, NEW g \in Flow, Table!SameWire(f, g), f.client = g.client
  PROVE  f = g
BY DEF Flow, Table!SameWire

(* A port one flow of a wire owns, or is being lent, is no other flow's. *)
LEMMA OneOwner ==
  ASSUME TypeInv, SteeringSeparates, \A c \in CPU : ServesItsPacket(c) /\ PortStaysFree(c),
         NEW f \in Flow, NEW g \in Flow, Table!SameWire(f, g), NEW p,
         OwnedOrLending(f, p), OwnedOrLending(g, p)
  PROVE  f = g
<1>1. Wire(f, p) = Wire(g, p)
  BY WireJoin
<1>2. CASE Owner(Wire(f, p)) = f.client /\ Owner(Wire(g, p)) = g.client
  BY <1>1, <1>2, FlowOfClient
<1>3. ASSUME NEW h \in {f, g}, NEW c \in CPU, Lending(c, h, p)
      PROVE  Owner(Wire(f, p)) = None
  BY <1>1, <1>3 DEF Lending, At, PortStaysFree
<1>4. f.client # None /\ g.client # None
  BY NoneIsFresh DEF Flow
<1>5. ASSUME NEW c \in CPU, NEW d \in CPU, Lending(c, f, p), Lending(d, g, p)
      PROVE  f = g
  <2>1. p \in Candidates(f) /\ p \in Candidates(g)
    BY <1>5 DEF Lending, At, ServesItsPacket, Forwarding
  <2>2. c = d
    BY <1>5, <2>1, OneRun DEF Lending, At, Forwarding
  <2> QED  BY <1>5, <2>2 DEF Lending
<1> QED  BY <1>1, <1>2, <1>3, <1>4, <1>5 DEF OwnedOrLending

-----------------------------------------------------------------------------
(* Steps that change neither who is lent a port nor who owns an element. *)

LEMMA TouchedLent ==
  ASSUME TypeOK, NEW k \in Flow, NEW t \in Nat, sess' = Touched(sess, k, t)
  PROVE  \A f \in Flow : Lent(f)' = Lent(f)
<1> TAKE f \in Flow
<1>1. sess[k] # None => [sess[k] EXCEPT !.last_seen = t] \in SessionVal
  BY DEF TypeOK, SessionVal
<1>2. None \notin SessionVal
  BY NoneAssumption DEF SessionVal
<1>3. sess[k] # None => [sess[k] EXCEPT !.last_seen = t].nat_port = sess[k].nat_port
  BY DEF TypeOK, SessionVal
<1> QED  BY <1>1, <1>2, <1>3 DEF Touched, Lent, TypeOK

LEMMA TouchedOwner ==
  ASSUME TypeOK, NEW k \in RevKey, NEW t \in Nat, rev' = Touched(rev, k, t)
  PROVE  \A x \in RevKey : Owner(x)' = Owner(x)
<1> TAKE x \in RevKey
<1>1. rev[k] # None => [rev[k] EXCEPT !.last_seen = t] \in RevVal
  BY DEF TypeOK, RevVal
<1>2. None \notin RevVal
  BY NoneAssumption DEF RevVal
<1>3. rev[k] # None => [rev[k] EXCEPT !.last_seen = t].client = rev[k].client
  BY DEF TypeOK, RevVal
<1> QED  BY <1>1, <1>2, <1>3 DEF Touched, Owner, TypeOK

(* One run moves on, away from the insertion of a reverse element. *)
LEMMA RunAlone ==
  ASSUME TypeInv, LeaseInv, NEW c \in CPU, NEW l, cpu' = [cpu EXCEPT ![c] = l],
         cpu[c].pc # "insertReverse", l.pc # "insertReverse",
         ServesItsPacket(c)', PortStaysFree(c)',
         \A f \in Flow : Lent(f)' = Lent(f), \A k \in RevKey : Owner(k)' = Owner(k),
         cleaner' = cleaner
  PROVE  LeaseInv'
<1>1. cpu \in [CPU -> CpuState] /\ cleaner \in CleanerState /\ TypeOK
  BY DEF TypeInv, TypeOK
<1>2. \A d \in CPU \ {c} : cpu'[d] = cpu[d]
  BY <1>1
<1>3. cpu'[c] = l
  BY <1>1
<1>4. ASSUME NEW f \in Flow, NEW p \in NatPort
      PROVE  OwnedOrLending(f, p)' = OwnedOrLending(f, p)
  BY <1>2, <1>3, WireType DEF OwnedOrLending, Lending, At
<1>5. ASSUME NEW d \in CPU PROVE (ServesItsPacket(d) /\ PortStaysFree(d))'
  <2>1. CASE d = c
    BY <2>1
  <2>2. CASE d # c
    <3>1. cpu'[d] = cpu[d] /\ ServesItsPacket(d) /\ PortStaysFree(d) /\ LocalsOf(cpu[d])
      BY <2>2, <1>2 DEF LeaseInv, TypeInv
    <3>2. ServesItsPacket(d)'
      BY <3>1 DEF ServesItsPacket
    <3>3. cpu[d].pc \in {"probe", "insertSession", "insertReverse", "refreshRev", "txForward"}
            => cpu[d].flow \in Flow
      BY <3>1 DEF LocalsOf, HasFlow
    <3>4. cpu[d].pc \in {"insertSession", "insertReverse", "refreshRev", "txForward"}
            => Wire(cpu[d].flow, cpu[d].port) \in RevKey
      BY <3>1, <3>3, WireType DEF LocalsOf, HasPort, HasFlow
    <3>5. PortStaysFree(d)'
      BY <3>1, <3>3, <3>4 DEF PortStaysFree
    <3> QED  BY <3>2, <3>5
  <2> QED  BY <2>1, <2>2
<1>6. ASSUME NEW f \in Flow PROVE (LentIsOwned(f) /\ Condemned(f))'
  <2>1. LentIsOwned(f) /\ Condemned(f) /\ Lent(f)' = Lent(f) /\ Lent(f) \in NatPort \cup {None}
    BY <1>1, LentType DEF LeaseInv
  <2>2. LentIsOwned(f)'
    BY <2>1, <1>4 DEF LentIsOwned
  <2>3. cleaner.found[f] # None => cleaner.found[f].nat_port \in NatPort
    BY <1>1 DEF CleanerState, SessionVal
  <2>4. Condemned(f)'
    BY <2>1, <2>3, <1>4 DEF Condemned, Standing, HalfGone, Table!SameWire
  <2> QED  BY <2>2, <2>4
<1> QED  BY <1>5, <1>6 DEF LeaseInv

LEMMA LeaseReceive ==
  ASSUME TypeInv, LeaseInv, NEW c \in CPU, NEW p \in Traffic, Receive(c, p)
  PROVE  LeaseInv'
<1>1. cpu \in [CPU -> CpuState] /\ c \in Steer[p] /\ cpu[c].pc = "idle"
  BY DEF TypeInv, TypeOK, Receive, At
<1>2. /\ \A f \in Flow : Lent(f)' = Lent(f)
      /\ \A k \in RevKey : Owner(k)' = Owner(k)
      /\ cleaner' = cleaner
  BY DEF Receive, Lent, Owner
<1>3. PICK l : cpu' = [cpu EXCEPT ![c] = l] /\ l.pc \in {"session", "reverse"}
               /\ (l.pc = "session" => /\ l.pkt = p /\ p.dport \in RulePort
                                       /\ l.flow = [client |-> p.src, target |-> l.flow.target,
                                                    proto |-> p.proto])
  <2> DEFINE k == [proto |-> p.proto, local_port |-> p.dport]
  <2>1. CASE p.dport \in RulePort /\ fwd[k] # None
    <3> DEFINE r == [Idle EXCEPT !.pc = "session", !.pkt = p, !.local_port = p.dport,
                      !.time_ns = clock,
                      !.flow = [client |-> p.src, target |-> fwd[k], proto |-> p.proto]]
    <3>1. cpu' = [cpu EXCEPT ![c] = r]
      BY <2>1 DEF Receive
    <3>2. /\ r.pc = "session" /\ r.pkt = p
          /\ r.flow = [client |-> p.src, target |-> fwd[k], proto |-> p.proto]
      BY DEF Idle
    <3>3. r.flow = [client |-> p.src, target |-> r.flow.target, proto |-> p.proto]
      BY <3>2
    <3> HIDE DEF r
    <3> QED  BY <2>1, <3>1, <3>2, <3>3
  <2>2. CASE ~(p.dport \in RulePort /\ fwd[k] # None)
    <3>1. cpu' = [cpu EXCEPT ![c] = [Idle EXCEPT !.pc = "reverse", !.pkt = p]]
      BY <2>2 DEF Receive
    <3>2. [Idle EXCEPT !.pc = "reverse", !.pkt = p].pc = "reverse"
      BY DEF Idle
    <3> QED  BY <3>1, <3>2
  <2> QED  BY <2>1, <2>2
<1>4. cpu'[c] = l
  BY <1>1, <1>3
<1>5. ServesItsPacket(c)' /\ PortStaysFree(c)'
  BY <1>1, <1>3, <1>4 DEF ServesItsPacket, PortStaysFree, Forwarding
<1> QED  BY <1>1, <1>2, <1>3, <1>5, RunAlone

LEMMA LeaseLookup ==
  ASSUME TypeInv, LeaseInv, NEW c \in CPU,
         SessionLookup(c) \/ RefreshReverse(c) \/ Probe(c)
  PROVE  LeaseInv'
<1> DEFINE l == cpu[c]
           f == l.flow
<1>0. /\ cpu \in [CPU -> CpuState] /\ l \in CpuState /\ LocalsOf(l) /\ TypeOK
      /\ ServesItsPacket(c) /\ PortStaysFree(c)
  BY DEF TypeInv, TypeOK, LeaseInv
<1>1. CASE SessionLookup(c)
  <2>1. l.pc = "session" /\ f \in Flow /\ l.time_ns \in Nat
    BY <1>0, <1>1 DEF SessionLookup, At, LocalsOf, HasFlow, CpuState
  <2>2. \A k \in RevKey : Owner(k)' = Owner(k)
    BY <1>1 DEF SessionLookup, Owner
  <2>3. CASE sess[f] # None
    <3> DEFINE r == [l EXCEPT !.pc = "refreshRev", !.port = sess[f].nat_port]
    <3>1. cpu' = [cpu EXCEPT ![c] = r] /\ sess' = Touched(sess, f, l.time_ns)
      BY <1>0, <1>1, <2>3 DEF SessionLookup, Goto
    <3>2. \A g \in Flow : Lent(g)' = Lent(g)
      BY <3>1, <2>1, <1>0, TouchedLent
    <3>3. r.pc = "refreshRev" /\ r.pkt = l.pkt /\ r.flow = f /\ r.port = Lent(f)
      BY <1>0, <2>3 DEF CpuState, Lent
    <3>4. cpu'[c] = r
      BY <3>1, <1>0
    <3> HIDE DEF r
    <3>5. Lent(f) # None
      BY <2>1, <2>3, <1>0, NoneIsFresh DEF Lent, TypeOK, SessionVal
    <3>6. Lent(f) \in Candidates(f) /\ OwnedOrLending(f, Lent(f))
      BY <2>1, <3>5 DEF LeaseInv, LentIsOwned
    <3>7. Owner(Wire(f, Lent(f))) \in {None, f.client}
      BY <3>6 DEF OwnedOrLending, Lending, At, LeaseInv, PortStaysFree
    <3>8. Wire(f, Lent(f)) \in RevKey
      BY <2>1, <3>5, <1>0, LentType, WireType
    <3>9. ServesItsPacket(c)'
      BY <3>3, <3>4, <3>6, <2>1, <1>0 DEF ServesItsPacket, Forwarding
    <3>10. PortStaysFree(c)'
      BY <3>3, <3>4, <3>7, <3>8, <2>2 DEF PortStaysFree
    <3> QED  BY <2>1, <2>2, <3>1, <3>2, <3>3, <3>9, <3>10, <1>1, RunAlone DEF SessionLookup
  <2>4. CASE sess[f] = None
    <3> DEFINE r == [l EXCEPT !.pc = "probe"]
    <3>1. cpu' = [cpu EXCEPT ![c] = r] /\ sess' = sess
      BY <1>1, <2>4 DEF SessionLookup, Goto
    <3>2. \A g \in Flow : Lent(g)' = Lent(g)
      BY <3>1 DEF Lent
    <3>3. r.pc = "probe" /\ r.pkt = l.pkt /\ r.flow = f
      BY <1>0 DEF CpuState
    <3>4. cpu'[c] = r
      BY <3>1, <1>0
    <3> HIDE DEF r
    <3>5. ServesItsPacket(c)'
      BY <3>3, <3>4, <2>1, <1>0 DEF ServesItsPacket, Forwarding
    <3>6. PortStaysFree(c)'
      BY <3>3, <3>4, <2>4, <3>1 DEF PortStaysFree, Lent
    <3> QED  BY <2>1, <2>2, <3>1, <3>2, <3>3, <3>5, <3>6, <1>1, RunAlone DEF SessionLookup
  <2> QED  BY <2>3, <2>4
<1>2. CASE RefreshReverse(c)
  <2> DEFINE r == [l EXCEPT !.pc = "txForward"]
  <2>1. l.pc = "refreshRev" /\ f \in Flow /\ Wire(f, l.port) \in RevKey /\ l.time_ns \in Nat
    BY <1>0, <1>2, WireType
    DEF RefreshReverse, At, LocalsOf, HasFlow, HasPort, CpuState
  <2>2. cpu' = [cpu EXCEPT ![c] = r] /\ rev' = Touched(rev, Wire(f, l.port), l.time_ns)
    BY <1>2 DEF RefreshReverse, Goto
  <2>3. /\ \A k \in RevKey : Owner(k)' = Owner(k)
        /\ \A g \in Flow : Lent(g)' = Lent(g)
    BY <2>1, <2>2, <1>0, <1>2, TouchedOwner DEF RefreshReverse, Lent
  <2>4. r.pc = "txForward" /\ r.pkt = l.pkt /\ r.flow = f /\ r.port = l.port
    BY <1>0 DEF CpuState
  <2>5. cpu'[c] = r
    BY <2>2, <1>0
  <2> HIDE DEF r
  <2>6. ServesItsPacket(c)'
    BY <2>1, <2>4, <2>5, <1>0 DEF ServesItsPacket, Forwarding
  <2>7. PortStaysFree(c)'
    BY <2>1, <2>3, <2>4, <2>5, <1>0 DEF PortStaysFree
  <2> QED  BY <2>1, <2>2, <2>3, <2>4, <2>6, <2>7, <1>2, RunAlone DEF RefreshReverse
<1>3. CASE Probe(c)
  <2> DEFINE p == Candidate(f, l.i)
             free == Free(Wire(f, p))
  <2>1. l.pc = "probe" /\ f \in Flow /\ l.i \in 0 .. Probes - 1
    BY <1>0, <1>3, PortAssumption DEF Probe, At, LocalsOf, HasFlow, CpuState
  <2>2. p \in NatPort /\ p \in Candidates(f)
    BY <2>1, CandidateInRange DEF Candidates
  <2>3. /\ \A k \in RevKey : Owner(k)' = Owner(k)
        /\ \A g \in Flow : Lent(g)' = Lent(g)
        /\ cleaner' = cleaner
    BY <1>3 DEF Probe, Lent, Owner
  <2>4. CASE free
    <3> DEFINE r == [l EXCEPT !.pc = "insertSession", !.port = p]
    <3>1. cpu' = [cpu EXCEPT ![c] = r]
      BY <1>0, <1>3, <2>4 DEF Probe
    <3>2. r.pc = "insertSession" /\ r.pkt = l.pkt /\ r.flow = f /\ r.port = p
      BY <1>0 DEF CpuState
    <3>3. cpu'[c] = r
      BY <3>1, <1>0
    <3> HIDE DEF r, p
    <3>4. Owner(Wire(f, p)) = None /\ Lent(f) = None /\ Wire(f, p) \in RevKey
      BY <2>1, <2>2, <2>4, <1>0, WireType DEF Free, Owner, PortStaysFree
    <3>5. ServesItsPacket(c)'
      BY <2>1, <2>2, <3>2, <3>3, <1>0 DEF ServesItsPacket, Forwarding
    <3>6. PortStaysFree(c)'
      BY <2>1, <2>3, <3>2, <3>3, <3>4 DEF PortStaysFree
    <3> QED  BY <2>1, <2>3, <3>1, <3>2, <3>5, <3>6, RunAlone
  <2>5. CASE ~free /\ l.i + 1 < Probes
    <3> DEFINE r == [l EXCEPT !.i = l.i + 1]
    <3>1. cpu' = [cpu EXCEPT ![c] = r]
      BY <1>0, <1>3, <2>1, <2>5, PortAssumption DEF Probe
    <3>2. r.pc = "probe" /\ r.pkt = l.pkt /\ r.flow = f
      BY <2>1, <1>0 DEF CpuState
    <3>3. cpu'[c] = r
      BY <3>1, <1>0
    <3> HIDE DEF r, p
    <3>4. ServesItsPacket(c)'
      BY <2>1, <3>2, <3>3, <1>0 DEF ServesItsPacket, Forwarding
    <3>5. PortStaysFree(c)'
      BY <2>1, <2>3, <3>2, <3>3, <1>0 DEF PortStaysFree
    <3> QED  BY <2>1, <2>3, <3>1, <3>2, <3>4, <3>5, RunAlone
  <2>6. CASE ~free /\ l.i + 1 = Probes
    <3>1. cpu' = [cpu EXCEPT ![c] = Idle] /\ Idle.pc = "idle"
      BY <1>3, <2>1, <2>6, PortAssumption DEF Probe, Finish, Idle
    <3>2. cpu'[c] = Idle
      BY <3>1, <1>0
    <3>3. ServesItsPacket(c)' /\ PortStaysFree(c)'
      BY <3>1, <3>2 DEF ServesItsPacket, PortStaysFree, Forwarding
    <3> QED  BY <2>1, <2>3, <3>1, <3>3, RunAlone
  <2> QED  BY <1>3, <2>4, <2>5, <2>6 DEF Probe
<1> QED  BY <1>1, <1>2, <1>3

LEMMA LeaseReply ==
  ASSUME TypeInv, LeaseInv, NEW c \in CPU,
         \/ TransmitForward(c) \/ ReverseLookup(c) \/ RefreshOwnReverse(c)
         \/ RefreshSession(c) \/ TransmitReply(c)
  PROVE  LeaseInv'
<1> DEFINE l == cpu[c]
           f == l.flow
<1>0. cpu \in [CPU -> CpuState] /\ l \in CpuState /\ LocalsOf(l) /\ TypeOK
  BY DEF TypeInv, TypeOK
<1>1. /\ \A g \in Flow : Lent(g)' = Lent(g)
      /\ \A k \in RevKey : Owner(k)' = Owner(k)
      /\ cleaner' = cleaner
  <2>1. CASE TransmitForward(c) \/ ReverseLookup(c) \/ TransmitReply(c)
    BY <2>1 DEF TransmitForward, ReverseLookup, TransmitReply, Lent, Owner
  <2>2. CASE RefreshOwnReverse(c)
    <3>1. Wire(f, l.port) \in RevKey /\ l.time_ns \in Nat
      BY <1>0, <2>2, WireType
      DEF RefreshOwnReverse, At, LocalsOf, HasFlow, HasPort, CpuState
    <3> QED  BY <3>1, <1>0, <2>2, TouchedOwner DEF RefreshOwnReverse, Lent
  <2>3. CASE RefreshSession(c)
    <3>1. f \in Flow /\ l.time_ns \in Nat
      BY <1>0, <2>3 DEF RefreshSession, At, LocalsOf, HasFlow, CpuState
    <3> QED  BY <3>1, <1>0, <2>3, TouchedLent DEF RefreshSession, Owner
  <2> QED  BY <2>1, <2>2, <2>3
<1>2. \E r : /\ cpu' = [cpu EXCEPT ![c] = r]
             /\ r.pc \in {"idle", "refreshOwnRev", "refreshSession", "txReply"}
  <2>1. CASE TransmitForward(c) \/ TransmitReply(c)
    <3>1. cpu' = [cpu EXCEPT ![c] = Idle] /\ Idle.pc = "idle"
      BY <2>1 DEF TransmitForward, TransmitReply, Finish, Idle
    <3> QED  BY <3>1
  <2>2. CASE ReverseLookup(c)
    <3> DEFINE p == l.pkt
               k == [target |-> p.src, nat_port |-> p.dport, proto |-> p.proto]
               r == [l EXCEPT !.pc = "refreshOwnRev", !.port = p.dport, !.time_ns = clock,
                       !.local_port = rev[k].local_port,
                       !.flow = [client |-> rev[k].client, target |-> p.src,
                                 proto |-> p.proto]]
    <3>1. \/ cpu' = [cpu EXCEPT ![c] = r]
          \/ cpu' = [cpu EXCEPT ![c] = Idle]
      BY <1>0, <2>2 DEF ReverseLookup, Finish
    <3>2. r.pc = "refreshOwnRev" /\ Idle.pc = "idle"
      BY <1>0 DEF CpuState, Idle
    <3> HIDE DEF r
    <3> QED  BY <3>1, <3>2
  <2>3. CASE RefreshOwnReverse(c)
    <3>1. cpu' = [cpu EXCEPT ![c] = [l EXCEPT !.pc = "refreshSession"]]
      BY <2>3 DEF RefreshOwnReverse, Goto
    <3>2. [l EXCEPT !.pc = "refreshSession"].pc = "refreshSession"
      BY <1>0 DEF CpuState
    <3> QED  BY <3>1, <3>2
  <2>4. CASE RefreshSession(c)
    <3>1. cpu' = [cpu EXCEPT ![c] = [l EXCEPT !.pc = "txReply"]]
      BY <2>4 DEF RefreshSession, Goto
    <3>2. [l EXCEPT !.pc = "txReply"].pc = "txReply"
      BY <1>0 DEF CpuState
    <3> QED  BY <3>1, <3>2
  <2> QED  BY <2>1, <2>2, <2>3, <2>4
<1>3. PICK r : /\ cpu' = [cpu EXCEPT ![c] = r]
               /\ r.pc \in {"idle", "refreshOwnRev", "refreshSession", "txReply"}
  BY <1>2
<1>4. cpu'[c] = r
  BY <1>0, <1>3
<1>5. ServesItsPacket(c)' /\ PortStaysFree(c)'
  BY <1>3, <1>4 DEF ServesItsPacket, PortStaysFree, Forwarding
<1>6. l.pc # "insertReverse"
  BY DEF TransmitForward, ReverseLookup, RefreshOwnReverse, RefreshSession, TransmitReply, At
<1> QED  BY <1>1, <1>3, <1>5, <1>6, RunAlone

-----------------------------------------------------------------------------
(* The two insertions of a run that lends a port. *)

LEMMA LeaseInsertSession ==
  ASSUME TypeInv, LeaseInv, SteeringSeparates, NEW c \in CPU, InsertSession(c)
  PROVE  LeaseInv'
<1> DEFINE l == cpu[c]
<1>0. /\ cpu \in [CPU -> CpuState] /\ l \in CpuState /\ TypeOK /\ LocalsOf(l)
      /\ ServesItsPacket(c) /\ PortStaysFree(c)
  BY DEF TypeInv, TypeOK, LeaseInv
<1>1. PICK f \in Flow, p \in NatPort :
      /\ l.pc = "insertSession" /\ f = l.flow /\ p = l.port /\ p \in Candidates(f)
      /\ Owner(Wire(f, p)) = None /\ Lent(f) = None
  BY <1>0 DEF InsertSession, At, LocalsOf, HasFlow, HasPort, ServesItsPacket, Forwarding,
              PortStaysFree
<1>2. /\ cpu'[c] = [l EXCEPT !.pc = "insertReverse"]
      /\ \A d \in CPU \ {c} : cpu'[d] = cpu[d]
  BY <1>0 DEF InsertSession, Goto
<1>3. /\ cpu'[c].pc = "insertReverse" /\ cpu'[c].flow = f /\ cpu'[c].port = p
      /\ cpu'[c].pkt = l.pkt
  BY <1>0, <1>1, <1>2 DEF CpuState
<1>4. Lent(f)' \in {None, p} /\ \A g \in Flow \ {f} : Lent(g)' = Lent(g)
  <2>1. [nat_port |-> p, last_seen |-> l.time_ns] # None
    BY <1>0, <1>1, NoneAssumption DEF CpuState
  <2>2. CASE sess' = sess
    BY <2>2, <1>1 DEF Lent
  <2>3. CASE sess' = [sess EXCEPT ![f] = [nat_port |-> p, last_seen |-> l.time_ns]]
    BY <2>1, <2>3, <1>0, <1>1 DEF Lent, TypeOK
  <2> QED  BY <2>2, <2>3, <1>1 DEF InsertSession, Inserted
<1>5. (\A k : Owner(k)' = Owner(k)) /\ cleaner' = cleaner
  BY DEF InsertSession, Owner
<1>6. ASSUME NEW g, NEW q, OwnedOrLending(g, q)
      PROVE  OwnedOrLending(g, q)'
  BY <1>1, <1>2, <1>5, <1>6 DEF OwnedOrLending, Lending, At
<1>7. OwnedOrLending(f, p)'
  BY <1>3 DEF OwnedOrLending, Lending, At
<1>8. ASSUME NEW d \in CPU \ {c}
      PROVE  (ServesItsPacket(d) /\ PortStaysFree(d))'
  <2>1. cpu'[d] = cpu[d] /\ ServesItsPacket(d) /\ PortStaysFree(d) /\ LocalsOf(cpu[d])
    BY <1>2 DEF LeaseInv, TypeInv
  <2>2. ServesItsPacket(d)'
    BY <2>1 DEF ServesItsPacket
  <2>3. ASSUME cpu[d].pc \in {"probe", "insertSession", "insertReverse"}
        PROVE  cpu[d].flow \in Flow \ {f}
    <3>1. cpu[d].flow \in Flow
      BY <2>1, <2>3 DEF LocalsOf, HasFlow
    <3>2. cpu[d].flow # f
      BY <2>1, <2>3, <1>0, <1>1, OneRun DEF Forwarding, Table!SameWire
    <3> QED  BY <3>1, <3>2
  <2>4. PortStaysFree(d)'
    BY <2>1, <2>3, <1>4, <1>5 DEF PortStaysFree
  <2> QED  BY <2>2, <2>4
<1>9. (ServesItsPacket(c) /\ PortStaysFree(c))'
  <2>1. ServesItsPacket(c)'
    BY <1>0, <1>1, <1>3 DEF ServesItsPacket, Forwarding
  <2>2. PortStaysFree(c)'
    BY <1>1, <1>3, <1>4, <1>5 DEF PortStaysFree
  <2> QED  BY <2>1, <2>2
<1>10. ASSUME NEW g \in Flow PROVE LentIsOwned(g)'
  <2>1. CASE g = f
    BY <2>1, <1>1, <1>4, <1>7 DEF LentIsOwned
  <2>2. CASE g # f
    BY <2>2, <1>4, <1>6 DEF LentIsOwned, LeaseInv
  <2> QED  BY <2>1, <2>2
<1>11. ASSUME NEW g \in Flow PROVE Condemned(g)'
  <2> DEFINE q == cleaner.found[g].nat_port
  <2>0. Condemned(g)
    BY DEF LeaseInv
  <2>1. SUFFICES ASSUME cleaner.found[g] # None PROVE Condemned(g)'
    BY <1>5 DEF Condemned
  <2>2. q \in NatPort
    BY <2>1, <1>0 DEF TypeOK, CleanerState, SessionVal
  <2>3. Standing(g) => Lent(g)' = q
    BY <2>0, <2>1, <2>2, <1>1, <1>4, NoneIsFresh DEF Condemned
  <2>4. ASSUME HalfGone(g), NEW h \in Flow, Table!SameWire(g, h)
        PROVE  Lent(h)' # q
    <3>1. CASE h # f
      BY <3>1, <2>0, <2>1, <2>4, <1>4 DEF Condemned
    <3>2. CASE h = f
      <4>1. SUFFICES ASSUME p = q PROVE FALSE
        BY <3>2, <2>2, <1>4, NoneIsFresh
      <4>2. OwnedOrLending(g, p) /\ p \in Candidates(g)
        BY <2>0, <2>1, <2>4, <4>1 DEF Condemned
      <4>3. Owner(Wire(g, p)) = None
        BY <1>1, <2>4, <3>2, WireJoin
      <4>4. PICK d \in CPU : Lending(d, g, p)
        BY <4>2, <4>3, NoneIsFresh DEF OwnedOrLending, Flow
      <4>5. Table!SameWire(cpu[d].flow, f)
        BY <4>4, <3>2, <2>4 DEF Lending
      <4>6. d = c
        BY <4>2, <4>4, <4>5, <1>0, <1>1, OneRun DEF Lending, At, Forwarding, LeaseInv
      <4> QED  BY <4>4, <4>6, <1>1 DEF Lending, At
    <3> QED  BY <3>1, <3>2
  <2> QED  BY <2>0, <2>1, <2>3, <2>4, <1>5, <1>6 DEF Condemned, Standing, HalfGone
<1> QED  BY <1>8, <1>9, <1>10, <1>11 DEF LeaseInv

LEMMA LeaseInsertReverse ==
  ASSUME TypeInv, LeaseInv, SteeringSeparates, RevRoom, NEW c \in CPU, InsertReverse(c)
  PROVE  LeaseInv'
<1> DEFINE l == cpu[c]
<1>0. /\ cpu \in [CPU -> CpuState] /\ l \in CpuState /\ TypeOK /\ LocalsOf(l)
      /\ ServesItsPacket(c) /\ PortStaysFree(c)
  BY DEF TypeInv, TypeOK, LeaseInv
<1>1. PICK f \in Flow, p \in NatPort :
      /\ l.pc = "insertReverse" /\ f = l.flow /\ p = l.port /\ p \in Candidates(f)
      /\ Owner(Wire(f, p)) = None /\ Wire(f, p) \in RevKey
  BY <1>0, WireType DEF InsertReverse, At, LocalsOf, HasFlow, HasPort, ServesItsPacket,
                        Forwarding, PortStaysFree
<1>2. /\ cpu'[c] = [l EXCEPT !.pc = "txForward"]
      /\ \A d \in CPU \ {c} : cpu'[d] = cpu[d]
  BY <1>0 DEF InsertReverse, Goto
<1>3. /\ cpu'[c].pc = "txForward" /\ cpu'[c].flow = f /\ cpu'[c].port = p
      /\ cpu'[c].pkt = l.pkt
  BY <1>0, <1>1, <1>2 DEF CpuState
<1>4. /\ Owner(Wire(f, p))' = f.client
      /\ \A k \in RevKey \ {Wire(f, p)} : Owner(k)' = Owner(k)
  <2> DEFINE v == [client |-> f.client, local_port |-> l.local_port, last_seen |-> l.time_ns]
  <2>1. v \in RevVal
    BY <1>0, <1>1 DEF CpuState, LocalsOf, Opening, RevVal, Flow
  <2>2. v # None
    BY <2>1, NoneAssumption DEF RevVal
  <2>3. rev' = [rev EXCEPT ![Wire(f, p)] = v]
    BY <1>1 DEF InsertReverse, Inserted, RevRoom
  <2> QED  BY <2>2, <2>3, <1>0, <1>1 DEF Owner, TypeOK
<1>5. (\A g : Lent(g)' = Lent(g)) /\ cleaner' = cleaner
  BY DEF InsertReverse, Lent
<1>6. ASSUME NEW g \in Flow, NEW q \in NatPort, OwnedOrLending(g, q)
      PROVE  OwnedOrLending(g, q)'
  <2>1. CASE Owner(Wire(g, q)) = g.client
    <3>1. Wire(g, q) \in RevKey \ {Wire(f, p)}
      BY <2>1, <1>1, WireType, NoneIsFresh DEF Flow
    <3> QED  BY <3>1, <2>1, <1>4 DEF OwnedOrLending
  <2>2. ASSUME NEW d \in CPU, Lending(d, g, q) PROVE OwnedOrLending(g, q)'
    <3>1. CASE d = c
      BY <3>1, <2>2, <1>1, <1>4 DEF Lending, OwnedOrLending
    <3>2. CASE d # c
      BY <3>2, <2>2, <1>2 DEF Lending, OwnedOrLending, At
    <3> QED  BY <3>1, <3>2
  <2> QED  BY <2>1, <2>2, <1>6 DEF OwnedOrLending
<1>7. ASSUME NEW d \in CPU \ {c}
      PROVE  (ServesItsPacket(d) /\ PortStaysFree(d))'
  <2>1. cpu'[d] = cpu[d] /\ ServesItsPacket(d) /\ PortStaysFree(d) /\ LocalsOf(cpu[d])
    BY <1>2 DEF LeaseInv, TypeInv
  <2>2. ServesItsPacket(d)'
    BY <2>1 DEF ServesItsPacket
  <2> DEFINE g == cpu[d].flow
             q == cpu[d].port
  <2>3. ASSUME cpu[d].pc \in {"refreshRev", "insertSession", "insertReverse", "txForward"}
        PROVE  Wire(g, q) \in RevKey \ {Wire(f, p)}
    <3>1. g \in Flow /\ q \in NatPort /\ q \in Candidates(g)
      BY <2>1, <2>3 DEF LocalsOf, HasFlow, HasPort, ServesItsPacket, Forwarding
    <3>2. ASSUME Wire(g, q) = Wire(f, p) PROVE FALSE
      <4>1. Table!SameWire(f, g) /\ q = p
        BY <3>1, <3>2, <1>1, WireSplit
      <4> QED  BY <4>1, <3>1, <2>1, <2>3, <1>0, <1>1, OneRun DEF Forwarding
    <3> QED  BY <3>1, <3>2, WireType
  <2>4. PortStaysFree(d)'
    BY <2>1, <2>3, <1>4, <1>5 DEF PortStaysFree
  <2> QED  BY <2>2, <2>4
<1>8. (ServesItsPacket(c) /\ PortStaysFree(c))'
  <2>1. ServesItsPacket(c)'
    BY <1>0, <1>1, <1>3 DEF ServesItsPacket, Forwarding
  <2>2. PortStaysFree(c)'
    BY <1>1, <1>3, <1>4 DEF PortStaysFree
  <2> QED  BY <2>1, <2>2
<1>9. ASSUME NEW g \in Flow PROVE LentIsOwned(g)'
  BY <1>0, <1>5, <1>6, LentType DEF LentIsOwned, LeaseInv
<1>10. ASSUME NEW g \in Flow PROVE Condemned(g)'
  <2>1. Condemned(g) /\ (cleaner.found[g] # None => cleaner.found[g].nat_port \in NatPort)
    BY <1>0 DEF LeaseInv, TypeOK, CleanerState, SessionVal
  <2> QED  BY <2>1, <1>5, <1>6 DEF Condemned, Standing, HalfGone
<1> QED  BY <1>7, <1>8, <1>9, <1>10 DEF LeaseInv

-----------------------------------------------------------------------------
(* The cleanup task. *)

(* Steps of the task that remove nothing. *)
LEMMA LeaseTask ==
  ASSUME TypeInv, LeaseInv,
         \/ Wake \/ ReadTimeouts \/ BeginScan \/ EndScan \/ SessionsRemoved \/ EndPass
         \/ \E f \in Flow : Scan(f)
  PROVE  LeaseInv'
<1>0. cleaner \in CleanerState /\ TypeOK
  BY DEF TypeInv, TypeOK
<1>1. UNCHANGED <<sess, rev, cpu>>
  BY DEF Wake, ReadTimeouts, BeginScan, EndScan, SessionsRemoved, EndPass, Scan
<1>2. /\ \A f : Lent(f)' = Lent(f)
      /\ \A k : Owner(k)' = Owner(k)
      /\ \A f, p : OwnedOrLending(f, p)' = OwnedOrLending(f, p)
  BY <1>1 DEF Lent, Owner, OwnedOrLending, Lending, At
<1>3. \A c \in CPU : (ServesItsPacket(c) /\ PortStaysFree(c))'
  BY <1>1, <1>2 DEF LeaseInv, ServesItsPacket, PortStaysFree
<1>4. \A f \in Flow : LentIsOwned(f)'
  BY <1>2 DEF LeaseInv, LentIsOwned
<1>5. ASSUME NEW f \in Flow PROVE Condemned(f)'
  <2>0. Condemned(f)
    BY DEF LeaseInv
  <2>1. CASE Wake \/ ReadTimeouts \/ BeginScan
    <3>1. cleaner.pc \in {"sleep", "timeouts", "lock"} /\ cleaner'.found = cleaner.found
      BY <2>1, <1>0 DEF Wake, ReadTimeouts, BeginScan, CleanerState
    <3> QED  BY <2>0, <3>1 DEF Condemned
  <2>2. CASE EndPass \/ (EndScan /\ cleaner' = Asleep)
    BY <2>2 DEF EndPass, Asleep, Condemned
  <2>3. CASE EndScan /\ cleaner' = [cleaner EXCEPT !.pc = "sessions", !.todo = Found]
    <3>1. /\ cleaner.pc = "scan" /\ cleaner'.pc = "sessions"
          /\ cleaner'.found = cleaner.found /\ cleaner'.todo = Found
      BY <2>3, <1>0 DEF EndScan, CleanerState
    <3>2. cleaner.found[f] # None => f \in cleaner'.todo
      BY <3>1, <1>0 DEF Found, Entries, CleanerState
    <3> QED  BY <2>0, <3>1, <3>2, <1>2 DEF Condemned, Standing, HalfGone
  <2>4. CASE SessionsRemoved
    <3>1. /\ cleaner.pc = "sessions" /\ cleaner.todo = {} /\ cleaner'.pc = "reverses"
          /\ cleaner'.found = cleaner.found
      BY <2>4, <1>0 DEF SessionsRemoved, CleanerState
    <3>2. HalfGone(f) /\ ~Standing(f)'
      BY <3>1 DEF HalfGone, Standing
    <3> QED  BY <2>0, <3>1, <3>2, <1>2 DEF Condemned
  <2>5. ASSUME NEW g \in Flow, Scan(g) PROVE Condemned(f)'
    <3>1. /\ cleaner.pc = "scan" /\ cleaner'.pc = "scan"
          /\ cleaner'.found = [cleaner.found EXCEPT ![g] = IF Overdue(g) THEN sess[g] ELSE None]
      BY <2>5, <1>0 DEF Scan, CleanerState
    <3>2. Standing(f) /\ ~HalfGone(f)'
      BY <3>1 DEF Standing, HalfGone
    <3>3. CASE f = g
      BY <3>1, <3>2, <3>3, <1>0, <1>2 DEF Condemned, Lent, CleanerState
    <3>4. CASE f # g
      BY <2>0, <3>1, <3>2, <3>4, <1>0, <1>2 DEF Condemned, CleanerState
    <3> QED  BY <3>3, <3>4
  <2> QED  BY <2>1, <2>2, <2>3, <2>4, <2>5 DEF EndScan
<1> QED  BY <1>3, <1>4, <1>5 DEF LeaseInv

LEMMA LeaseRemoveSession ==
  ASSUME TypeInv, LeaseInv, SteeringSeparates, NEW f \in Flow, RemoveSession(f)
  PROVE  LeaseInv'
<1> DEFINE p == cleaner.found[f].nat_port
<1>0. cleaner \in CleanerState /\ TypeOK /\ CleanerLocals
  BY DEF TypeInv, TypeOK
<1>1. /\ cleaner.pc = "sessions" /\ f \in cleaner.todo /\ cleaner.found[f] # None
      /\ cleaner'.pc = "sessions" /\ cleaner'.todo = cleaner.todo \ {f}
      /\ cleaner'.found = cleaner.found
  BY <1>0 DEF RemoveSession, CleanerState, CleanerLocals, Found, Entries
<1>2. p \in NatPort /\ Lent(f) = p
  BY <1>0, <1>1 DEF LeaseInv, Condemned, Standing, CleanerState, SessionVal
<1>3. Lent(f)' = None /\ \A g \in Flow \ {f} : Lent(g)' = Lent(g)
  BY <1>0 DEF RemoveSession, Lent, TypeOK
<1>4. /\ UNCHANGED <<rev, cpu>>
      /\ \A k : Owner(k)' = Owner(k)
      /\ \A g, q : OwnedOrLending(g, q)' = OwnedOrLending(g, q)
  BY DEF RemoveSession, Owner, OwnedOrLending, Lending, At
<1>5. ASSUME NEW c \in CPU PROVE (ServesItsPacket(c) /\ PortStaysFree(c))'
  <2>1. ServesItsPacket(c) /\ PortStaysFree(c) /\ LocalsOf(cpu[c])
    BY DEF LeaseInv, TypeInv
  <2>2. ServesItsPacket(c)'
    BY <2>1, <1>4 DEF ServesItsPacket
  <2>3. cpu[c].pc \in {"probe", "insertSession", "insertReverse"}
          => Lent(cpu[c].flow)' \in {None, Lent(cpu[c].flow)}
    BY <2>1, <1>3, <1>4 DEF LocalsOf, HasFlow
  <2>4. PortStaysFree(c)'
    BY <2>1, <2>3, <1>4 DEF PortStaysFree
  <2> QED  BY <2>2, <2>4
<1>6. ASSUME NEW g \in Flow PROVE LentIsOwned(g)'
  BY <1>3, <1>4 DEF LeaseInv, LentIsOwned
<1>7. ASSUME NEW g \in Flow PROVE Condemned(g)'
  <2>0. Condemned(g)
    BY DEF LeaseInv
  <2>1. CASE g = f
    <3>1. p \in Candidates(f) /\ OwnedOrLending(f, p)
      BY <1>2, NoneIsFresh DEF LeaseInv, LentIsOwned
    <3>2. ASSUME NEW h \in Flow, Table!SameWire(f, h) PROVE Lent(h)' # p
      <4>1. CASE h = f
        BY <4>1, <1>2, <1>3, NoneIsFresh
      <4>2. CASE h # f
        <5>1. SUFFICES ASSUME Lent(h) = p PROVE FALSE
          BY <4>2, <1>3
        <5>2. OwnedOrLending(h, p)
          BY <5>1, <1>2, NoneIsFresh DEF LeaseInv, LentIsOwned
        <5> QED  BY <5>2, <4>2, <3>1, <3>2, OneOwner DEF LeaseInv
      <4> QED  BY <4>1, <4>2
    <3> QED  BY <2>1, <3>1, <3>2, <1>1, <1>4 DEF Condemned, Standing
  <2>2. CASE g # f
    <3>1. SUFFICES ASSUME cleaner.found[g] # None PROVE Condemned(g)'
      BY <1>1 DEF Condemned
    <3>2. Standing(g)' = Standing(g) /\ HalfGone(g)' = HalfGone(g)
      BY <2>2, <1>1 DEF Standing, HalfGone
    <3>3. cleaner.found[g].nat_port \in NatPort
      BY <3>1, <1>0 DEF CleanerState, SessionVal
    <3>4. \A h \in Flow : Lent(h)' \in {None, Lent(h)}
      BY <1>3
    <3> QED
      BY <2>0, <2>2, <3>1, <3>2, <3>3, <3>4, <1>1, <1>3, <1>4, NoneIsFresh DEF Condemned
  <2> QED  BY <2>1, <2>2
<1> QED  BY <1>5, <1>6, <1>7 DEF LeaseInv

LEMMA LeaseRemoveReverse ==
  ASSUME TypeInv, LeaseInv, SteeringSeparates, NEW f \in Flow, RemoveReverse(f)
  PROVE  LeaseInv'
<1> DEFINE p == cleaner.found[f].nat_port
<1>0. cleaner \in CleanerState /\ TypeOK /\ CleanerLocals
  BY DEF TypeInv, TypeOK
<1>1. /\ cleaner.pc = "reverses" /\ f \in cleaner.todo /\ cleaner.found[f] # None
      /\ cleaner'.pc = "reverses" /\ cleaner'.todo = cleaner.todo \ {f}
      /\ cleaner'.found = cleaner.found
  BY <1>0 DEF RemoveReverse, CleanerState, CleanerLocals, Found, Entries
<1>2. /\ p \in NatPort /\ Wire(f, p) \in RevKey /\ OwnedOrLending(f, p)
      /\ \A g \in Flow : Table!SameWire(f, g) => Lent(g) # p
  BY <1>0, <1>1, WireType DEF LeaseInv, Condemned, HalfGone, CleanerState, SessionVal
<1>3. PICK r \in RevKey : r = Wire(f, p)
  BY <1>2
<1>4. Owner(r)' = None /\ \A k \in RevKey \ {r} : Owner(k)' = Owner(k)
  BY <1>0, <1>3 DEF RemoveReverse, Owner, TypeOK
<1>5. UNCHANGED <<sess, cpu>> /\ \A g : Lent(g)' = Lent(g)
  BY DEF RemoveReverse, Lent
<1>6. ASSUME NEW g \in Flow, NEW q \in NatPort, OwnedOrLending(g, q),
             Table!SameWire(f, g) => q # p
      PROVE  OwnedOrLending(g, q)'
  <2>1. CASE Owner(Wire(g, q)) = g.client
    <3>1. Wire(g, q) \in RevKey \ {r}
      BY <1>3, <1>6, WireType, WireSplit DEF Table!SameWire
    <3> QED  BY <2>1, <3>1, <1>4 DEF OwnedOrLending
  <2>2. CASE \E c \in CPU : Lending(c, g, q)
    BY <2>2, <1>5 DEF OwnedOrLending, Lending, At
  <2> QED  BY <2>1, <2>2, <1>6 DEF OwnedOrLending
<1>7. ASSUME NEW c \in CPU PROVE (ServesItsPacket(c) /\ PortStaysFree(c))'
  <2>1. ServesItsPacket(c) /\ PortStaysFree(c) /\ LocalsOf(cpu[c])
    BY DEF LeaseInv, TypeInv
  <2>2. ServesItsPacket(c)'
    BY <2>1, <1>5 DEF ServesItsPacket
  <2>3. cpu[c].pc \in {"refreshRev", "insertSession", "insertReverse", "txForward"}
          => Wire(cpu[c].flow, cpu[c].port) \in RevKey
    BY <2>1, WireType DEF LocalsOf, HasFlow, HasPort
  <2>4. PortStaysFree(c)'
    BY <2>1, <2>3, <1>4, <1>5 DEF PortStaysFree
  <2> QED  BY <2>2, <2>4
<1>8. ASSUME NEW g \in Flow PROVE LentIsOwned(g)'
  BY <1>0, <1>2, <1>5, <1>6, LentType DEF LeaseInv, LentIsOwned
<1>9. ASSUME NEW g \in Flow PROVE Condemned(g)'
  <2>0. Condemned(g)
    BY DEF LeaseInv
  <2>1. SUFFICES ASSUME cleaner.found[g] # None, HalfGone(g)' PROVE Condemned(g)'
    BY <1>1 DEF Condemned, Standing
  <2>2. g # f /\ HalfGone(g)
    BY <2>1, <1>1 DEF HalfGone
  <2>3. PICK q \in NatPort : q = cleaner.found[g].nat_port
    BY <2>1, <1>0 DEF CleanerState, SessionVal
  <2>4. OwnedOrLending(g, q) /\ q \in Candidates(g)
    BY <2>0, <2>1, <2>2, <2>3 DEF Condemned
  <2>5. Table!SameWire(f, g) => q # p
    BY <2>2, <2>4, <1>2, OneOwner DEF LeaseInv
  <2>6. OwnedOrLending(g, q)'
    BY <2>4, <2>5, <1>6
  <2> QED  BY <2>0, <2>1, <2>2, <2>3, <2>4, <2>6, <1>1, <1>5 DEF Condemned, Standing
<1> QED  BY <1>7, <1>8, <1>9 DEF LeaseInv

-----------------------------------------------------------------------------
(* The invariant, and what follows from it. *)

LEMMA LeaseControl ==
  ASSUME LeaseInv, UNCHANGED <<sess, rev, cpu, cleaner>>
  PROVE  LeaseInv'
<1>1. /\ \A f : Lent(f)' = Lent(f)
      /\ \A k : Owner(k)' = Owner(k)
      /\ \A f, p : OwnedOrLending(f, p)' = OwnedOrLending(f, p)
  BY DEF Lent, Owner, OwnedOrLending, Lending, At
<1> QED
  BY <1>1 DEF LeaseInv, ServesItsPacket, PortStaysFree, LentIsOwned, Condemned,
              Standing, HalfGone

LEMMA LeaseRestart == Restart => LeaseInv'
BY DEF Restart, LeaseInv, ServesItsPacket, PortStaysFree, LentIsOwned, Condemned,
       Idle, Asleep, Lent, Forwarding

LEMMA LeaseInit == Init => LeaseInv
BY DEF Init, LeaseInv, ServesItsPacket, PortStaysFree, LentIsOwned, Condemned,
       Idle, Asleep, Lent, Forwarding

LEMMA LeaseStep ==
  ASSUME TypeInv, LeaseInv, SteeringSeparates, RevRoom, [Next]_vars
  PROVE  LeaseInv'
<1>1. ASSUME NEW c \in CPU, RunStep(c) PROVE LeaseInv'
  BY <1>1, LeaseLookup, LeaseInsertSession, LeaseInsertReverse, LeaseReply DEF RunStep
<1>2. CASE CleanerStep
  BY <1>2, LeaseTask, LeaseRemoveSession, LeaseRemoveReverse DEF CleanerStep
<1>3. ASSUME \/ \E k \in RuleKey, t \in Target : AddRule(k, t)
             \/ \E k \in RuleKey : DeleteRule(k)
             \/ \E p \in Proto, s \in Seconds : SetTimeout(p, s)
             \/ Tick \/ UNCHANGED vars
      PROVE  LeaseInv'
  BY <1>3, LeaseControl DEF AddRule, DeleteRule, SetTimeout, Tick, vars
<1> QED  BY <1>1, <1>2, <1>3, LeaseReceive, LeaseRestart DEF Next

(* The ports lent and the elements that own them, at every step of a run and of
   the cleanup: the reason for the theorems below. *)
THEOREM LeasesKept ==
  ASSUME SteeringSeparates
  PROVE  Spec /\ []RevRoom => [](TypeInv /\ LeaseInv)
<1>1. Init => TypeInv /\ LeaseInv
  BY TypeInit, LeaseInit
<1>2. TypeInv /\ LeaseInv /\ RevRoom /\ [Next]_vars => (TypeInv /\ LeaseInv)'
  BY TypeStep, LeaseStep
<1> QED  BY <1>1, <1>2, PTL DEF Spec

(* Every session keeps its way back: the two maps, written one after the other
   by the program and by the cleanup task, never disagree on who owns a port. *)
THEOREM SessionsKeepTheirReverse ==
  ASSUME SteeringSeparates
  PROVE  Spec /\ []RevRoom => []ReverseOwned
<1>1. TypeInv /\ LeaseInv => ReverseOwned
  <2> SUFFICES ASSUME TypeInv, LeaseInv, NEW f \in Flow, sess[f] # None PROVE Owns(f)
    BY DEF ReverseOwned
  <2>1. Lent(f) = sess[f].nat_port /\ Lent(f) # None
    BY NoneIsFresh DEF TypeInv, TypeOK, Lent, SessionVal
  <2>2. OwnedOrLending(f, Lent(f)) /\ f.client # None
    BY <2>1, NoneIsFresh DEF LeaseInv, LentIsOwned, Flow
  <2> QED  BY <2>1, <2>2 DEF Owns, OwnedOrLending, Owner, Lending
<1> QED  BY <1>1, LeasesKept, PTL

(* No packet leaves from a port whose replies would reach another client. *)
THEOREM RepliesReachTheSender ==
  ASSUME SteeringSeparates
  PROVE  Spec /\ []RevRoom => []NatPortOnWireIsOwned
<1>1. TypeInv /\ LeaseInv => NatPortOnWireIsOwned
  <2> SUFFICES ASSUME TypeInv, LeaseInv, NEW c \in CPU, At(c, "txForward"),
                      rev[Wire(cpu[c].flow, cpu[c].port)] # None
               PROVE  rev[Wire(cpu[c].flow, cpu[c].port)].client = cpu[c].flow.client
    BY DEF NatPortOnWireIsOwned
  <2>1. Owner(Wire(cpu[c].flow, cpu[c].port)) \in {None, cpu[c].flow.client}
    BY DEF LeaseInv, PortStaysFree, At
  <2>2. Wire(cpu[c].flow, cpu[c].port) \in RevKey
    BY WireType DEF TypeInv, LocalsOf, HasFlow, HasPort, At
  <2>3. rev[Wire(cpu[c].flow, cpu[c].port)].client # None
    BY <2>2, NoneIsFresh DEF TypeInv, TypeOK, RevVal
  <2> QED  BY <2>1, <2>3 DEF Owner
<1> QED  BY <1>1, LeasesKept, PTL

(* No two flows to one target are ever lent the same port. *)
THEOREM PortsNeverShared ==
  ASSUME SteeringSeparates
  PROVE  Spec /\ []RevRoom => []Table!PortsUnique
<1>1. TypeInv /\ LeaseInv => Table!PortsUnique
  <2> SUFFICES ASSUME TypeInv, LeaseInv, NEW f \in Flow, NEW g \in Flow, f # g,
                      Table!SameWire(f, g), Lent(f) # None
               PROVE  Lent(f) # Lent(g)
    BY DEF Table!PortsUnique, Table!Flow, Flow
  <2>1. OwnedOrLending(f, Lent(f)) /\ (Lent(f) = Lent(g) => OwnedOrLending(g, Lent(f)))
    BY DEF LeaseInv, LentIsOwned
  <2> QED  BY <2>1, OneOwner DEF LeaseInv
<1> QED  BY <1>1, LeasesKept, PTL

-----------------------------------------------------------------------------
(* The data plane implements the NAT table. *)

LEMMA TableUnchanged ==
  ASSUME \A f \in Flow : Lent(f)' = Lent(f)
  PROVE  UNCHANGED [f \in Flow |-> Lent(f)]
OBVIOUS

LEMMA TableFlow == Table!Flow = Flow
BY DEF Table!Flow, Flow

LEMMA TableInit == Init => Table!Init
BY TableFlow DEF Init, Table!Init, Lent

LEMMA TableOpens ==
  ASSUME TypeInv, LeaseInv, SteeringSeparates, NEW c \in CPU, InsertSession(c)
  PROVE  Table!Next \/ UNCHANGED [f \in Flow |-> Lent(f)]
<1>1. PICK f \in Flow, p \in NatPort :
        /\ cpu[c].pc = "insertSession" /\ f = cpu[c].flow /\ p = cpu[c].port
        /\ p \in Candidates(f) /\ Owner(Wire(f, p)) = None /\ Lent(f) = None
  BY DEF InsertSession, At, TypeInv, LocalsOf, HasFlow, HasPort, LeaseInv, ServesItsPacket,
         Forwarding, PortStaysFree
<1>2. CASE sess' = sess
  BY <1>2 DEF Lent
<1>3. CASE sess' = [sess EXCEPT ![f] = [nat_port |-> p, last_seen |-> cpu[c].time_ns]]
  <2>1. [nat_port |-> p, last_seen |-> cpu[c].time_ns] # None
    BY <1>1, NoneAssumption DEF TypeInv, TypeOK, CpuState
  <2>2. Lent(f)' = p /\ \A g \in Flow \ {f} : Lent(g)' = Lent(g)
    BY <1>3, <2>1 DEF Lent, TypeInv, TypeOK
  <2>3. [g \in Flow |-> Lent(g)]' = [[g \in Flow |-> Lent(g)] EXCEPT ![f] = p]
    BY <2>2
  <2>4. ASSUME NEW g \in Flow, Table!SameWire(f, g) PROVE Lent(g) # p
    <3>1. SUFFICES ASSUME Lent(g) = p PROVE FALSE
      OBVIOUS
    <3>2. p \in Candidates(g) /\ OwnedOrLending(g, p)
      BY <3>1, <1>1, NoneIsFresh DEF LeaseInv, LentIsOwned
    <3>3. Owner(Wire(g, p)) = None
      BY <1>1, <2>4, WireJoin
    <3>4. PICK d \in CPU : Lending(d, g, p)
      BY <3>2, <3>3, NoneIsFresh DEF OwnedOrLending, Flow
    <3>5. c = d
      BY <1>1, <2>4, <3>2, <3>4, OneRun DEF Lending, At, Forwarding, LeaseInv
    <3> QED  BY <1>1, <3>4, <3>5 DEF Lending, At
  <2>5. Table!Open(f, p)
    BY <1>1, <2>3, <2>4, TableFlow DEF Table!Open
  <2> QED  BY <2>5, TableFlow DEF Table!Next
<1> QED  BY <1>1, <1>2, <1>3 DEF InsertSession, Inserted

LEMMA TableCloses ==
  ASSUME TypeInv, LeaseInv, NEW f \in Flow, RemoveSession(f)
  PROVE  Table!Next
<1>1. Lent(f) # None
  <2>1. cleaner.found[f] # None /\ cleaner.found[f].nat_port \in NatPort
    BY DEF RemoveSession, TypeInv, TypeOK, CleanerLocals, Found, Entries, CleanerState,
           SessionVal
  <2> QED  BY <2>1, NoneIsFresh DEF RemoveSession, LeaseInv, Condemned, Standing
<1>2. Lent(f)' = None /\ \A g \in Flow \ {f} : Lent(g)' = Lent(g)
  BY DEF RemoveSession, Lent, TypeInv, TypeOK
<1>3. [g \in Flow |-> Lent(g)]' = [[g \in Flow |-> Lent(g)] EXCEPT ![f] = None]
  BY <1>2
<1>4. Table!Close(f)
  BY <1>1, <1>3 DEF Table!Close
<1> QED  BY <1>4, TableFlow DEF Table!Next

LEMMA TableStep ==
  ASSUME TypeInv, LeaseInv, SteeringSeparates, [Next]_vars
  PROVE  Table!Next \/ UNCHANGED [f \in Flow |-> Lent(f)]
<1>1. CASE Restart
  BY <1>1, TableFlow DEF Restart, Table!Next, Table!Reset, Lent
<1>2. ASSUME NEW c \in CPU, SessionLookup(c) \/ RefreshSession(c)
      PROVE  UNCHANGED [f \in Flow |-> Lent(f)]
  <2>1. cpu[c].flow \in Flow /\ cpu[c].time_ns \in Nat /\ TypeOK
    BY <1>2 DEF SessionLookup, RefreshSession, At, TypeInv, TypeOK, LocalsOf, HasFlow, CpuState
  <2>2. sess' = sess \/ sess' = Touched(sess, cpu[c].flow, cpu[c].time_ns)
    BY <1>2 DEF SessionLookup, RefreshSession
  <2>3. \A f \in Flow : Lent(f)' = Lent(f)
    BY <2>1, <2>2, TouchedLent DEF Lent
  <2> QED  BY <2>3
<1>3. ASSUME sess' = sess PROVE UNCHANGED [f \in Flow |-> Lent(f)]
  BY <1>3 DEF Lent
<1>4. CASE CleanerStep
  BY <1>4, <1>3, TableCloses
  DEF CleanerStep, Wake, ReadTimeouts, BeginScan, EndScan, SessionsRemoved, EndPass, Scan,
      RemoveReverse
<1>5. ASSUME NEW c \in CPU, RunStep(c)
      PROVE  Table!Next \/ UNCHANGED [f \in Flow |-> Lent(f)]
  BY <1>5, <1>2, <1>3, TableOpens
  DEF RunStep, RefreshReverse, Probe, InsertReverse, TransmitForward, ReverseLookup,
      RefreshOwnReverse, TransmitReply
<1> QED
  BY <1>1, <1>3, <1>4, <1>5
  DEF Next, Receive, AddRule, DeleteRule, SetTimeout, Tick, vars

(* The sessions implement NatTable: a flow keeps the port it was lent, and no
   other flow of the target is lent it meanwhile. *)
THEOREM SessionsImplementTable ==
  ASSUME SteeringSeparates
  PROVE  Spec /\ []RevRoom => TableSpec
<1>1. Init => Table!Init
  BY TableInit
<1>2. TypeInv /\ LeaseInv /\ [Next]_vars => [Table!Next]_[f \in Flow |-> Lent(f)]
  BY TableStep
<1> QED  BY <1>1, <1>2, LeasesKept, PTL DEF Spec, TableSpec, Table!Spec

-----------------------------------------------------------------------------
(* How leases end. *)

LEMMA LeaseTakenBack ==
  ASSUME TypeInv, LeaseInv, ScannedIdle, NEW g \in Flow, RemoveSession(g),
         NEW f \in Flow, LeaseEnds(f)
  PROVE  TakenBack(f)
<1>1. Lent(f)' = None /\ f = g
  BY DEF RemoveSession, LeaseEnds, Lent, TypeInv, TypeOK
<1>2. cleaner.found[f] # None /\ Standing(f)
  BY <1>1 DEF RemoveSession, TypeInv, TypeOK, CleanerLocals, Found, Entries, CleanerState,
              Standing
<1>3. Lent(f) = cleaner.found[f].nat_port
  BY <1>2 DEF LeaseInv, Condemned
<1>4. clock - cleaner.found[f].last_seen > cleaner.limit[f.proto]
  BY <1>2 DEF ScannedIdle
<1> QED  BY <1>1, <1>2, <1>3, <1>4 DEF TakenBack

LEMMA LeaseEndStep ==
  ASSUME TypeInv, LeaseInv, ScannedIdle, [Next]_vars, NEW f \in Flow, LeaseEnds(f)
  PROVE  TakenBack(f) \/ Restart
<1>1. sess' # sess
  BY DEF LeaseEnds, Lent
<1>2. ASSUME NEW c \in CPU, SessionLookup(c) \/ RefreshSession(c) PROVE FALSE
  <2>1. cpu[c].flow \in Flow /\ cpu[c].time_ns \in Nat /\ TypeOK
    BY <1>2 DEF SessionLookup, RefreshSession, At, TypeInv, TypeOK, LocalsOf, HasFlow, CpuState
  <2>2. sess' = Touched(sess, cpu[c].flow, cpu[c].time_ns)
    BY <1>1, <1>2 DEF SessionLookup, RefreshSession
  <2> QED  BY <2>1, <2>2, TouchedLent DEF LeaseEnds
<1>3. ASSUME NEW c \in CPU, InsertSession(c) PROVE FALSE
  <2> DEFINE g == cpu[c].flow
             v == [nat_port |-> cpu[c].port, last_seen |-> cpu[c].time_ns]
  <2>1. Lent(g) = None
    BY <1>3 DEF InsertSession, At, LeaseInv, PortStaysFree
  <2>2. sess' = [sess EXCEPT ![g] = v]
    BY <1>1, <1>3 DEF InsertSession, Inserted
  <2>3. \A h \in Flow \ {g} : sess'[h] = sess[h]
    BY <2>2 DEF TypeInv, TypeOK
  <2> QED  BY <2>1, <2>3 DEF LeaseEnds, Lent
<1>4. ASSUME NEW c \in CPU, RunStep(c) PROVE FALSE
  BY <1>1, <1>2, <1>3, <1>4
  DEF RunStep, RefreshReverse, Probe, InsertReverse, TransmitForward, ReverseLookup,
      RefreshOwnReverse, TransmitReply
<1>5. CASE CleanerStep
  BY <1>1, <1>5, LeaseTakenBack
  DEF CleanerStep, Wake, ReadTimeouts, BeginScan, EndScan, SessionsRemoved, EndPass, Scan,
      RemoveReverse
<1> QED
  BY <1>1, <1>4, <1>5 DEF Next, Receive, AddRule, DeleteRule, SetTimeout, Tick, vars

(* A lease ends by the cleanup that read it as idle, or with the table. *)
THEOREM LeasesEndOnlyIdle ==
  ASSUME SteeringSeparates
  PROVE  Spec /\ []RevRoom => LeasesEndIdle
<1>1. TypeInv /\ LeaseInv /\ ScannedIdle /\ [Next]_vars
        => [\A f \in Flow : LeaseEnds(f) => TakenBack(f) \/ Restart]_vars
  BY LeaseEndStep
<1> QED  BY <1>1, LeasesKept, OnlyIdleIsCondemned, PTL DEF Spec, LeasesEndIdle
=============================================================================
