--------------------------- MODULE MCNatDataPlane ---------------------------
(* Small instances of NatDataPlane: two clients of one target. *)
EXTENDS NatPairing

CONSTANTS c1, c2, t1, tcp, udp, cpu1, cpu2

OneProto == {tcp}

(* The second hash is the largest u32, so its second probe wraps. With two NAT
   ports, HashMod = 3 makes one port both flows' first candidate, and the second
   flow's only one; HashMod = 4 gives both flows both ports, in opposite orders. *)
TwoHashes == [f \in Flow |-> IF f.client = c1 THEN 0 ELSE HashMod - 1]

ToRule(c)  == {[src |-> c, dport |-> l, proto |-> p] : l \in RulePort, p \in Proto}
ToNat(t)   == {[src |-> t, dport |-> n, proto |-> p] : n \in NatPort, p \in Proto}

BothClients == ToRule(c1) \cup ToRule(c2) \cup ToNat(t1)
OneClient   == ToRule(c1) \cup ToNat(t1)

(* Clients that compete for ports share a queue, replies have the other. *)
ClientsTogether == [p \in Traffic |-> IF p.src = t1 THEN {cpu2} ELSE {cpu1}]

(* Each client has a queue of its own, as the card's hash may well decide. *)
ClientsApart == [p \in Traffic |-> IF p.src = c2 THEN {cpu2} ELSE {cpu1}]

(* A card with one queue. *)
SingleQueue == [p \in Traffic |-> {cpu1}]

TimeoutOne == [p \in Proto |-> 1]
TimeoutTwo == [p \in Proto |-> 2]

(* Packet steering meets the assumption under which allocations do not race. *)
ASSUME SteeringMatters == Steer = ClientsTogether \/ Steer = SingleQueue => SteeringSeparates

(* The maps hold every port, and two ticks are two runs of one tick. *)
ASSUME SizesMatter ==
  /\ PortsFit
  /\ MaxRun = 1 /\ DefaultTimeout = TimeoutTwo /\ Seconds = {} => LongTimeouts
=============================================================================
