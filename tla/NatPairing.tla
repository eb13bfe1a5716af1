----------------------------- MODULE NatPairing -----------------------------
(***************************************************************************)
(* Why the two session maps stay each other's inverse, and why a session   *)
(* is no older than its reverse element: the inductive invariants behind   *)
(* Paired and SessionAgeLeads of NatDataPlane. Both are about the times    *)
(* the runs and the cleanup task have read, which NatLease leaves out.     *)
(***************************************************************************)
EXTENDS NatLease

(* The session map takes the element a CPU is about to insert. *)
SessRoom ==
  \A c \in CPU : At(c, "insertSession") => HasRoom(sess, cpu[c].flow, MaxSessions)

(* Either map holds an element for every port of every target. *)
PortsFit ==
  /\ IsFiniteSet(RevKey)
  /\ Cardinality(RevKey) <= MaxReverse /\ Cardinality(RevKey) <= MaxSessions

(* No timeout is shorter than two runs of the program. *)
LongTimeouts ==
  /\ \A p \in Proto : DefaultTimeout[p] >= 2 * MaxRun
  /\ \A s \in Seconds : (s * NsPerSec) % U64 >= 2 * MaxRun

(* Runs that have read the clock. *)
Timed(c) == cpu[c].pc \notin {"idle", "reverse"}

RunsAreShort ==
  \A c \in CPU : Timed(c) => cpu[c].time_ns <= clock /\ clock <= cpu[c].time_ns + MaxRun

TimeoutsAreLong ==
  /\ \A p \in Proto : timeout[p] >= 2 * MaxRun /\ cleaner.limit[p] >= 2 * MaxRun
  /\ cleaner.now <= clock

(* The cleanup has removed the session and not yet its reverse element. *)
Returning(f, p) ==
  cleaner.found[f] # None /\ cleaner.found[f].nat_port = p /\ HalfGone(f)

(* Who owns an element has the port, or the cleanup is about to take it back. *)
OwnedIsLent(f) ==
  \A p \in NatPort : Owner(Wire(f, p)) = f.client => Lent(f) = p \/ Returning(f, p)

(* Between its two insertions a run has its session in the map, too young for
   the cleanup. A reply that is refreshed meanwhile by another CPU may set its
   age back, by one run at most. *)
HalfOpen(c) ==
  At(c, "insertReverse") =>
    LET f == cpu[c].flow IN
    /\ Lent(f) = cpu[c].port
    /\ cpu[c].time_ns <= sess[f].last_seen + MaxRun
    /\ cleaner.found[f] # None => ~Standing(f)

(* The inductive invariant of a node with long timeouts and room for sessions. *)
PairInv ==
  /\ RunsAreShort /\ TimeoutsAreLong
  /\ \A f \in Flow : OwnedIsLent(f)
  /\ \A c \in CPU : HalfOpen(c)

Redirected(c) == At(c, "reverse") /\ cpu'[c].pc = "refreshOwnRev"

(* A reply that a reverse element redirects goes to the client that is lent the
   port it came for, or whose session the cleanup has just removed: never to one
   that held the port earlier, however packets, cleanups and new leases of that
   port overlap. *)
RepliesFollowLeases ==
  [][\A c \in CPU : Redirected(c) =>
       LET f == cpu'[c].flow
           p == cpu'[c].port
       IN Lent(f) = p \/ Returning(f, p)]_vars

-----------------------------------------------------------------------------
(* All packets are served by one CPU. *)
OneQueue ==
  \A p, q \in Traffic : \A c \in Steer[p], d \in Steer[q] : c = d

ServesSteered(c) ==
  ~At(c, "idle") => cpu[c].pkt \in Traffic /\ c \in Steer[cpu[c].pkt]

SeenBy(t) ==
  /\ \A f \in Flow : sess[f] # None => sess[f].last_seen <= t
  /\ \A k \in RevKey : rev[k] # None => rev[k].last_seen <= t

(* The one run that is under way knows the latest time. *)
LatestTime(c) == Timed(c) => cpu[c].time_ns <= clock /\ SeenBy(cpu[c].time_ns)

(* A run refreshes the session first and a reply its own reverse element first. *)
RefreshedInOrder(c) ==
  LET l == cpu[c] IN
  /\ l.pc \in {"refreshRev", "insertReverse"} /\ sess[l.flow] # None
       => l.time_ns <= sess[l.flow].last_seen
  /\ l.pc = "refreshOwnRev" => Owner(Wire(l.flow, l.port)) \in {None, l.flow.client}

AgeLeads(f) ==
  sess[f] # None =>
    LET r == rev[Wire(f, sess[f].nat_port)] IN
    \/ r # None => r.last_seen <= sess[f].last_seen
    \/ \E c \in CPU : At(c, "refreshSession") /\ cpu[c].flow = f

(* The inductive invariant of a node whose card has one queue. *)
AgeInv ==
  /\ SeenBy(clock)
  /\ \A c \in CPU : ServesSteered(c) /\ LatestTime(c) /\ RefreshedInOrder(c)
  /\ \A f \in Flow : AgeLeads(f)
=============================================================================
