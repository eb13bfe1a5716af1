---------------------------- MODULE NatDataPlane ----------------------------
(***************************************************************************)
(* The NAT data plane of one node: the XDP program running on every CPU    *)
(* (forward-ebpf/src/main.rs), the three eBPF maps it shares with the      *)
(* daemon, the daemon's session cleanup task (forward/src/main.rs) and the *)
(* rule and timeout operations (forward/src/rule.rs) as far as they touch  *)
(* the maps.                                                               *)
(*                                                                         *)
(* Every map operation is atomic (a bucket lock or an RCU read), and so is *)
(* the use of an element's fields right after its lookup; between two map  *)
(* operations the other CPUs and the cleanup task may do anything. The TCP *)
(* and the UDP branch of the program are the same algorithm, so one set of *)
(* actions stands for both, with the protocol a field of the packet.       *)
(***************************************************************************)
EXTENDS Integers, FiniteSets

CONSTANTS
  CPU,             \* CPUs that run the XDP program
  Client, Target,  \* endpoints: an IPv4 address and a port
  Proto,           \* {TCP, UDP}
  RulePort,        \* local ports that rules may be made for
  BasePort,        \* first NAT port (1024)
  PortSpan,        \* number of NAT ports (64000)
  Probes,          \* ports tried per allocation (5)
  HashMod,         \* 2^32: the hash is a u32
  Hash,            \* the xor of a flow's addresses and ports
  MaxRules, MaxSessions, MaxReverse,  \* max_entries of the three maps
  Traffic,         \* packets that arrive
  Steer,           \* the CPUs a packet may be delivered to
  Seconds,         \* values an operator passes to set_timeout
  NsPerSec, U64,   \* 10^9 and 2^64
  DefaultTimeout,  \* timeouts of a fresh daemon, in ns
  MaxClock,        \* bound of this model: the clock stops here
  MaxRun,          \* bound of this model: ticks one run of the program may span
  None             \* absent map element

NatPort == BasePort .. (BasePort + PortSpan - 1)
Port    == RulePort \cup NatPort
Flow    == [client : Client, target : Target, proto : Proto]
RuleKey == [proto : Proto, local_port : RulePort]
RevKey  == [target : Target, nat_port : NatPort, proto : Proto]
Packet  == [src : Client \cup Target, dport : Port, proto : Proto]

ASSUME PortAssumption ==
  /\ BasePort \in Nat /\ PortSpan \in Nat \ {0} /\ Probes \in Nat \ {0}
  /\ RulePort \subseteq Nat
ASSUME HashAssumption == HashMod \in Nat \ {0} /\ Hash \in [Flow -> 0 .. HashMod - 1]
ASSUME SizeAssumption == MaxRules \in Nat /\ MaxSessions \in Nat /\ MaxReverse \in Nat
ASSUME TimeAssumption ==
  /\ MaxClock \in Nat /\ MaxRun \in Nat /\ NsPerSec \in Nat /\ U64 \in Nat \ {0}
  /\ Seconds \subseteq Nat /\ DefaultTimeout \in [Proto -> Nat]
ASSUME TrafficAssumption ==
  /\ Traffic \subseteq Packet
  /\ \A p \in Traffic : p.dport \in RulePort => p.src \in Client
  /\ Steer \in [Traffic -> SUBSET CPU]
ASSUME NoneAssumption ==
  /\ None \notin Client /\ None \notin Target /\ None \notin Nat /\ None \notin Packet /\ None \notin Flow
  /\ None \notin [nat_port : NatPort, last_seen : Nat]
  /\ None \notin [client : Client, local_port : RulePort, last_seen : Nat]

VARIABLES
  fwd,      \* FORWARD_MAP: rule key -> target
  sess,     \* SESSION_MAP: flow -> NAT port and last_seen
  rev,      \* REVERSE_SESSION_MAP: target and NAT port -> client
  clock,    \* CLOCK_MONOTONIC, read by both sides
  timeout,  \* TimeoutsState: protocol -> ns
  cpu,      \* the run of the program on each CPU
  cleaner   \* the cleanup task

vars == <<fwd, sess, rev, clock, timeout, cpu, cleaner>>

SessionVal == [nat_port : NatPort, last_seen : Nat]
RevVal     == [client : Client, local_port : RulePort, last_seen : Nat]

-----------------------------------------------------------------------------
(* The shared maps: total functions whose absent keys map to None. An operator
   named Slip... is the one that follows it with a plausible slip of the code;
   only the mutation runs that PROJECT.json lists use them. *)

Entries(m) == {k \in DOMAIN m : m[k] # None}

(* BPF_ANY replaces an element; a new one needs a free slot. *)
HasRoom(m, k, max) == m[k] # None \/ Cardinality(Entries(m)) < max

(* insert whose result the caller ignores: a full map is left as it was. *)
Inserted(m, k, v, max) == IF HasRoom(m, k, max) THEN [m EXCEPT ![k] = v] ELSE m

(* get_ptr_mut and a store through the pointer, if the element is there. *)
Touched(m, k, t) == IF m[k] = None THEN m ELSE [m EXCEPT ![k].last_seen = t]

Wire(f, p) == [target |-> f.target, nat_port |-> p, proto |-> f.proto]

Candidate(f, i) == BasePort + (((Hash[f] + i) % HashMod) % PortSpan)
Candidates(f)   == {Candidate(f, i) : i \in 0 .. Probes - 1}

SlipElapsed(now, seen) == (now - seen) % U64       \* wrapping subtraction
SlipAge(now, seen) == IF seen > now THEN seen - now ELSE 0

(* u64::saturating_sub *)
Elapsed(now, seen) == IF now > seen THEN now - seen ELSE 0

Idle == [pc |-> "idle", pkt |-> None, flow |-> None, port |-> None,
         local_port |-> None, time_ns |-> 0, i |-> 0]

Asleep == [pc |-> "sleep", now |-> 0, limit |-> DefaultTimeout, todo |-> {},
           found |-> [f \in Flow |-> None]]

Init ==
  /\ fwd     = [k \in RuleKey |-> None]
  /\ sess    = [f \in Flow |-> None]
  /\ rev     = [k \in RevKey |-> None]
  /\ clock   = 0
  /\ timeout = DefaultTimeout
  /\ cpu     = [c \in CPU |-> Idle]
  /\ cleaner = Asleep

-----------------------------------------------------------------------------
(* The XDP program, one action per map operation. *)

At(c, pc) == cpu[c].pc = pc

Goto(c, pc) == cpu' = [cpu EXCEPT ![c].pc = pc]

Finish(c) == cpu' = [cpu EXCEPT ![c] = Idle]

(* A TCP or UDP packet starts a run on a CPU its queue is served by, and the
   program looks up the rule for its destination port. *)
Receive(c, p) ==
  LET k == [proto |-> p.proto, local_port |-> p.dport]
      forwarded == p.dport \in RulePort /\ fwd[k] # None
  IN
  /\ At(c, "idle") /\ c \in Steer[p]
  /\ \/ /\ forwarded
        /\ cpu' = [cpu EXCEPT ![c] =
             [Idle EXCEPT !.pc = "session", !.pkt = p, !.local_port = p.dport,
                          !.time_ns = clock,
                          !.flow = [client |-> p.src, target |-> fwd[k], proto |-> p.proto]]]
     \/ /\ ~forwarded
        /\ cpu' = [cpu EXCEPT ![c] = [Idle EXCEPT !.pc = "reverse", !.pkt = p]]
  /\ UNCHANGED <<fwd, sess, rev, clock, timeout, cleaner>>

SlipSessionLookup(c) ==
  /\ At(c, "session")
  /\ Goto(c, "probe")
  /\ UNCHANGED <<fwd, sess, rev, clock, timeout, cleaner>>

(* SESSION_MAP.get_ptr_mut: a hit reads the port and stores last_seen. *)
SessionLookup(c) ==
  LET f == cpu[c].flow IN
  /\ At(c, "session")
  /\ \/ /\ sess[f] # None
        /\ sess' = Touched(sess, f, cpu[c].time_ns)
        /\ cpu' = [cpu EXCEPT ![c].pc = "refreshRev", ![c].port = sess[f].nat_port]
     \/ /\ sess[f] = None
        /\ sess' = sess
        /\ Goto(c, "probe")
  /\ UNCHANGED <<fwd, rev, clock, timeout, cleaner>>

RefreshReverse(c) ==
  /\ At(c, "refreshRev")
  /\ rev' = Touched(rev, Wire(cpu[c].flow, cpu[c].port), cpu[c].time_ns)
  /\ Goto(c, "txForward")
  /\ UNCHANGED <<fwd, sess, clock, timeout, cleaner>>

SlipFree(k) == TRUE
Free(k) == rev[k] = None

(* One iteration of allocate_nat_port: a port is free when the reverse map
   has no element for it; after the last probe the packet is aborted. *)
Probe(c) ==
  LET p == Candidate(cpu[c].flow, cpu[c].i)
      free == Free(Wire(cpu[c].flow, p))
  IN
  /\ At(c, "probe")
  /\ \/ /\ free
        /\ cpu' = [cpu EXCEPT ![c].pc = "insertSession", ![c].port = p]
     \/ /\ ~free /\ cpu[c].i + 1 < Probes
        /\ cpu' = [cpu EXCEPT ![c].i = @ + 1]
     \/ /\ ~free /\ cpu[c].i + 1 = Probes
        /\ Finish(c)
  /\ UNCHANGED <<fwd, sess, rev, clock, timeout, cleaner>>

InsertSession(c) ==
  /\ At(c, "insertSession")
  /\ sess' = Inserted(sess, cpu[c].flow,
                      [nat_port |-> cpu[c].port, last_seen |-> cpu[c].time_ns], MaxSessions)
  /\ Goto(c, "insertReverse")
  /\ UNCHANGED <<fwd, rev, clock, timeout, cleaner>>

SlipInsertReverse(c) ==
  /\ At(c, "insertReverse")
  /\ rev' = Inserted(rev, Wire(cpu[c].flow, cpu[c].port),
                     [client |-> cpu[c].flow.client, local_port |-> cpu[c].port,
                      last_seen |-> cpu[c].time_ns], MaxReverse)
  /\ Goto(c, "txForward")
  /\ UNCHANGED <<fwd, sess, clock, timeout, cleaner>>

InsertReverse(c) ==
  /\ At(c, "insertReverse")
  /\ rev' = Inserted(rev, Wire(cpu[c].flow, cpu[c].port),
                     [client |-> cpu[c].flow.client, local_port |-> cpu[c].local_port,
                      last_seen |-> cpu[c].time_ns], MaxReverse)
  /\ Goto(c, "txForward")
  /\ UNCHANGED <<fwd, sess, clock, timeout, cleaner>>

(* XDP_TX of the packet, rewritten to come from cpu[c].port. *)
TransmitForward(c) ==
  /\ At(c, "txForward")
  /\ Finish(c)
  /\ UNCHANGED <<fwd, sess, rev, clock, timeout, cleaner>>

(* A packet no rule forwards: a reply if the reverse map knows its port,
   XDP_PASS to the host's own stack otherwise. *)
ReverseLookup(c) ==
  LET p == cpu[c].pkt
      k == [target |-> p.src, nat_port |-> p.dport, proto |-> p.proto]
      known == k \in RevKey /\ rev[k] # None
  IN
  /\ At(c, "reverse")
  /\ \/ /\ known
        /\ cpu' = [cpu EXCEPT ![c] =
             [@ EXCEPT !.pc = "refreshOwnRev", !.port = p.dport, !.time_ns = clock,
                       !.local_port = rev[k].local_port,
                       !.flow = [client |-> rev[k].client, target |-> p.src,
                                 proto |-> p.proto]]]
     \/ /\ ~known
        /\ Finish(c)
  /\ UNCHANGED <<fwd, sess, rev, clock, timeout, cleaner>>

RefreshOwnReverse(c) ==
  /\ At(c, "refreshOwnRev")
  /\ rev' = Touched(rev, Wire(cpu[c].flow, cpu[c].port), cpu[c].time_ns)
  /\ Goto(c, "refreshSession")
  /\ UNCHANGED <<fwd, sess, clock, timeout, cleaner>>

SlipRefreshSession(c) ==
  /\ At(c, "refreshSession")
  /\ Goto(c, "txReply")
  /\ UNCHANGED <<fwd, sess, rev, clock, timeout, cleaner>>

RefreshSession(c) ==
  /\ At(c, "refreshSession")
  /\ sess' = Touched(sess, cpu[c].flow, cpu[c].time_ns)
  /\ Goto(c, "txReply")
  /\ UNCHANGED <<fwd, rev, clock, timeout, cleaner>>

(* XDP_TX of the reply, rewritten to come from cpu[c].local_port. *)
TransmitReply(c) ==
  /\ At(c, "txReply")
  /\ Finish(c)
  /\ UNCHANGED <<fwd, sess, rev, clock, timeout, cleaner>>

RunStep(c) ==
  \/ SessionLookup(c) \/ RefreshReverse(c) \/ Probe(c)
  \/ InsertSession(c) \/ InsertReverse(c) \/ TransmitForward(c)
  \/ ReverseLookup(c) \/ RefreshOwnReverse(c) \/ RefreshSession(c) \/ TransmitReply(c)

-----------------------------------------------------------------------------
(* The cleanup task. It reads the clock, then the timeouts, waits for the
   daemon's mutex, scans the sessions and removes what it found from one map
   and then from the other, all against live traffic. *)

Wake ==
  /\ cleaner.pc = "sleep"
  /\ cleaner' = [cleaner EXCEPT !.pc = "timeouts", !.now = clock]
  /\ UNCHANGED <<fwd, sess, rev, clock, timeout, cpu>>

(* Two loads, of which a session meets one. *)
ReadTimeouts ==
  /\ cleaner.pc = "timeouts"
  /\ cleaner' = [cleaner EXCEPT !.pc = "lock", !.limit = timeout]
  /\ UNCHANGED <<fwd, sess, rev, clock, timeout, cpu>>

BeginScan ==
  /\ cleaner.pc = "lock"
  /\ cleaner' = [cleaner EXCEPT !.pc = "scan", !.todo = Flow]
  /\ UNCHANGED <<fwd, sess, rev, clock, timeout, cpu>>

Overdue(f) ==
  sess[f] # None /\ Elapsed(cleaner.now, sess[f].last_seen) > cleaner.limit[f.proto]

(* The iteration comes past f. An element inserted meanwhile is met or missed:
   missed when the iteration passed its place while it was absent. *)
Scan(f) ==
  /\ cleaner.pc = "scan" /\ f \in cleaner.todo
  /\ cleaner' = [cleaner EXCEPT !.todo = @ \ {f},
                                !.found[f] = IF Overdue(f) THEN sess[f] ELSE None]
  /\ UNCHANGED <<fwd, sess, rev, clock, timeout, cpu>>

Found == Entries(cleaner.found)

EndScan ==
  /\ cleaner.pc = "scan" /\ cleaner.todo = {}
  /\ \/ Found = {}  /\ cleaner' = Asleep
     \/ Found # {} /\ cleaner' = [cleaner EXCEPT !.pc = "sessions", !.todo = Found]
  /\ UNCHANGED <<fwd, sess, rev, clock, timeout, cpu>>

RemoveSession(f) ==
  /\ cleaner.pc = "sessions" /\ f \in cleaner.todo
  /\ sess' = [sess EXCEPT ![f] = None]
  /\ cleaner' = [cleaner EXCEPT !.todo = @ \ {f}]
  /\ UNCHANGED <<fwd, rev, clock, timeout, cpu>>

SessionsRemoved ==
  /\ cleaner.pc = "sessions" /\ cleaner.todo = {}
  /\ cleaner' = [cleaner EXCEPT !.pc = "reverses", !.todo = Found]
  /\ UNCHANGED <<fwd, sess, rev, clock, timeout, cpu>>

(* The port is read again, not taken from the scan. *)
SlipRemoveReread(f) ==
  /\ cleaner.pc = "reverses" /\ f \in cleaner.todo
  /\ rev' = IF sess[f] = None THEN rev ELSE [rev EXCEPT ![Wire(f, sess[f].nat_port)] = None]
  /\ cleaner' = [cleaner EXCEPT !.todo = @ \ {f}]
  /\ UNCHANGED <<fwd, sess, clock, timeout, cpu>>

RemoveReverse(f) ==
  /\ cleaner.pc = "reverses" /\ f \in cleaner.todo
  /\ rev' = [rev EXCEPT ![Wire(f, cleaner.found[f].nat_port)] = None]
  /\ cleaner' = [cleaner EXCEPT !.todo = @ \ {f}]
  /\ UNCHANGED <<fwd, sess, clock, timeout, cpu>>

EndPass ==
  /\ cleaner.pc = "reverses" /\ cleaner.todo = {}
  /\ cleaner' = Asleep
  /\ UNCHANGED <<fwd, sess, rev, clock, timeout, cpu>>

CleanerStep ==
  \/ Wake \/ ReadTimeouts \/ BeginScan \/ EndScan \/ SessionsRemoved \/ EndPass
  \/ \E f \in Flow : Scan(f) \/ RemoveSession(f) \/ RemoveReverse(f)

-----------------------------------------------------------------------------
(* The daemon's control operations and its environment. *)

(* add_forward_rule and delete_forward_rule hold the mutex the scan holds. *)
MutexFree == cleaner.pc \in {"sleep", "timeouts", "lock"}

AddRule(k, t) ==
  /\ MutexFree /\ HasRoom(fwd, k, MaxRules)
  /\ fwd' = [fwd EXCEPT ![k] = t]
  /\ UNCHANGED <<sess, rev, clock, timeout, cpu, cleaner>>

DeleteRule(k) ==
  /\ MutexFree /\ fwd[k] # None
  /\ fwd' = [fwd EXCEPT ![k] = None]
  /\ UNCHANGED <<sess, rev, clock, timeout, cpu, cleaner>>

(* set_timeout: seconds * 1_000_000_000 in u64, stored without the mutex. *)
SetTimeout(p, s) ==
  /\ timeout' = [timeout EXCEPT ![p] = (s * NsPerSec) % U64]
  /\ UNCHANGED <<fwd, sess, rev, clock, cpu, cleaner>>

(* The daemon exits and starts again: the program is detached, its maps are
   freed and new ones start empty, the timeouts are the defaults. Restored
   rules are AddRule steps, taken with the program already attached. *)
Restart ==
  /\ fwd'     = [k \in RuleKey |-> None]
  /\ sess'    = [f \in Flow |-> None]
  /\ rev'     = [k \in RevKey |-> None]
  /\ timeout' = DefaultTimeout
  /\ cpu'     = [c \in CPU |-> Idle]
  /\ cleaner' = Asleep
  /\ UNCHANGED clock

(* Time passes, but not while a run that read the clock is MaxRun old: the
   kernel runs an XDP program to completion, without preemption. *)
Tick ==
  /\ clock < MaxClock
  /\ \A c \in CPU : cpu[c].pc \notin {"idle", "reverse"} => clock - cpu[c].time_ns < MaxRun
  /\ clock' = clock + 1
  /\ UNCHANGED <<fwd, sess, rev, timeout, cpu, cleaner>>

Next ==
  \/ \E c \in CPU, p \in Traffic : Receive(c, p)
  \/ \E c \in CPU : RunStep(c)
  \/ CleanerStep
  \/ \E k \in RuleKey, t \in Target : AddRule(k, t)
  \/ \E k \in RuleKey : DeleteRule(k)
  \/ \E p \in Proto, s \in Seconds : SetTimeout(p, s)
  \/ Restart
  \/ Tick

Spec == Init /\ [][Next]_vars

(* The kernel runs a started program to its end, and the timer and the mutex
   keep waking the cleanup task. *)
FairSpec == Spec /\ WF_vars(CleanerStep) /\ \A c \in CPU : WF_vars(RunStep(c))

-----------------------------------------------------------------------------
(* What an allocation needs from the packet steering of the network card to
   be free of races: flows that may compete for a NAT port, and all packets of
   one client endpoint, are served by one CPU. *)
Compete(p, q) ==
  \/ p.src = q.src
  \/ \E t \in Target :
       LET f == [client |-> p.src, target |-> t, proto |-> p.proto]
           g == [client |-> q.src, target |-> t, proto |-> p.proto]
       IN Candidates(f) \cap Candidates(g) # {}

SteeringSeparates ==
  \A p, q \in Traffic :
    p.dport \in RulePort /\ q.dport \in RulePort /\ p.proto = q.proto /\ Compete(p, q)
      => \A c \in Steer[p], d \in Steer[q] : c = d

(* The reverse map takes the element a CPU is about to insert. *)
RevRoom ==
  \A c \in CPU :
    At(c, "insertReverse") => HasRoom(rev, Wire(cpu[c].flow, cpu[c].port), MaxReverse)

-----------------------------------------------------------------------------
CpuState ==
  [pc : {"idle", "session", "refreshRev", "probe", "insertSession", "insertReverse",
         "txForward", "reverse", "refreshOwnRev", "refreshSession", "txReply"},
   pkt : Traffic \cup {None}, flow : Flow \cup {None}, port : NatPort \cup {None},
   local_port : RulePort \cup {None}, time_ns : Nat, i : Nat]

CleanerState ==
  [pc : {"sleep", "timeouts", "lock", "scan", "sessions", "reverses"}, now : Nat,
   limit : [Proto -> Nat], todo : SUBSET Flow, found : [Flow -> SessionVal \cup {None}]]

(* Types of the maps, of a run's local variables and of the cleanup task's. *)
TypeOK ==
  /\ fwd \in [RuleKey -> Target \cup {None}]
  /\ sess \in [Flow -> SessionVal \cup {None}]
  /\ rev \in [RevKey -> RevVal \cup {None}]
  /\ clock \in Nat
  /\ timeout \in [Proto -> Nat]
  /\ cpu \in [CPU -> CpuState]
  /\ cleaner \in CleanerState

(* The session's own reverse element, or a CPU about to insert it. *)
Owns(f) ==
  LET k == Wire(f, sess[f].nat_port) IN
  \/ rev[k] # None /\ rev[k].client = f.client
  \/ \E c \in CPU : /\ At(c, "insertReverse")
                    /\ cpu[c].flow = f /\ cpu[c].port = sess[f].nat_port

(* A session in SESSION_MAP always has its way back: the reverse element of
   its target and NAT port names its client, or is just being inserted. The
   two maps are written one after the other, by the program and by the
   cleanup task. *)
ReverseOwned == \A f \in Flow : sess[f] # None => Owns(f)

(* A packet never leaves for the target from a NAT port whose replies would be
   delivered to another client. *)
NatPortOnWireIsOwned ==
  \A c \in CPU :
    At(c, "txForward") =>
      LET r == rev[Wire(cpu[c].flow, cpu[c].port)]
      IN r # None => r.client = cpu[c].flow.client

Lent(f) == IF sess[f] = None THEN None ELSE sess[f].nat_port

(* The sessions implement NatTable: no two flows to a target share a port, and
   a flow keeps its port, whatever its packets, their replies, the cleanup and
   the allocations of other flows do meanwhile. *)
Table == INSTANCE NatTable WITH bind <- [f \in Flow |-> Lent(f)]
TableSpec == Table!Spec

(* The cleanup task only condemns a session it read as idle for longer than
   the timeout, also when packets refresh the session after the task took its
   clock reading and before its scan comes past. *)
ScannedIdle ==
  \A f \in Flow : cleaner.found[f] # None =>
    clock - cleaner.found[f].last_seen > cleaner.limit[f.proto]

LeaseEnds(f) == Lent(f) # None /\ Lent(f)' # Lent(f)

TakenBack(f) ==
  LET s == cleaner.found[f] IN
  /\ Lent(f)' = None /\ s # None /\ s.nat_port = Lent(f)
  /\ clock - s.last_seen > cleaner.limit[f.proto]

(* A flow keeps its port until the cleanup takes back the very lease it read
   as idle for longer than the timeout, or the whole table is lost: packets of
   other flows, probes, replies and removals under way never end one, and no
   lease opened since the scan is taken for the one condemned. A condemned flow
   may have been active again since; that much the code does not prevent. *)
LeasesEndIdle == [][\A f \in Flow : LeaseEnds(f) => TakenBack(f) \/ Restart]_vars

(* A reverse element whose client's session is gone or holds another port. *)
Orphan(k) ==
  /\ rev[k] # None
  /\ LET s == sess[[client |-> rev[k].client, target |-> k.target, proto |-> k.proto]]
     IN s = None \/ s.nat_port # k.nat_port

(* Between runs and outside the removal steps of a cleanup, the two maps are
   each other's inverse: no session without a way back and no reverse element
   that has lost its session, which no cleanup would ever find. *)
Quiet == (\A c \in CPU : At(c, "idle")) /\ cleaner.pc \in {"sleep", "timeouts", "lock", "scan"}

Paired ==
  Quiet =>
    /\ \A f \in Entries(sess) :
         LET r == rev[Wire(f, sess[f].nat_port)]
         IN r # None /\ r.client = f.client
    /\ \A k \in RevKey : ~Orphan(k)

(* On a card with one queue a session is at least as young as its reverse
   element: replies refresh it too. So a cleanup that judges a flow by its
   session alone does not cut off a flow only its target still talks on. *)
SessionAgeLeads ==
  Quiet => \A f \in Entries(sess) :
             LET r == rev[Wire(f, sess[f].nat_port)]
             IN r # None => r.last_seen <= sess[f].last_seen

(* A session idle past its timeout does not stay in the map. *)
Expired(f) == sess[f] # None /\ clock - sess[f].last_seen > timeout[f.proto]
ExpiredPurged == \A f \in Flow : Expired(f) ~> ~Expired(f)

(* No reverse element is orphaned for good, although the cleanup task never
   looks at the reverse map: it only follows the sessions it condemns. *)
OrphansPurged == \A k \in RevKey : Orphan(k) ~> ~Orphan(k)
=============================================================================
