------------------------------ MODULE NatLease ------------------------------
(***************************************************************************)
(* Why NAT ports are not lent twice: the inductive invariant behind        *)
(* ReverseOwned, NatPortOnWireIsOwned and TableSpec of NatDataPlane. It    *)
(* speaks of the maps only through who is lent which port and who owns     *)
(* which reverse element, so that the refreshing of last_seen drops out.   *)
(***************************************************************************)
EXTENDS NatDataPlane

Owner(k) == IF rev[k] = None THEN None ELSE rev[k].client

(* CPU c is about to write the reverse element that lends p to f. *)
Lending(c, f, p) == At(c, "insertReverse") /\ cpu[c].flow = f /\ cpu[c].port = p

OwnedOrLending(f, p) ==
  Owner(Wire(f, p)) = f.client \/ \E c \in CPU : Lending(c, f, p)

(* Runs that carry a client's packet. *)
Forwarding == {"session", "refreshRev", "probe", "insertSession", "insertReverse", "txForward"}

(* Such a run serves a packet that was steered to its CPU. *)
ServesItsPacket(c) ==
  LET l == cpu[c] IN
  l.pc \in Forwarding =>
    /\ l.pkt \in Traffic /\ l.pkt.dport \in RulePort /\ c \in Steer[l.pkt]
    /\ l.flow = [client |-> l.pkt.src, target |-> l.flow.target, proto |-> l.pkt.proto]
    /\ l.pc \in {"refreshRev", "insertSession", "insertReverse", "txForward"}
         => l.port \in Candidates(l.flow)

(* From the probe that found a port free to the insertion, nobody takes it. *)
PortStaysFree(c) ==
  LET l == cpu[c] IN
  /\ l.pc \in {"insertSession", "insertReverse"} => Owner(Wire(l.flow, l.port)) = None
  /\ l.pc \in {"probe", "insertSession"} => Lent(l.flow) = None
  /\ l.pc = "insertReverse" => Lent(l.flow) \in {None, l.port}
  /\ l.pc \in {"refreshRev", "txForward"}
       => Owner(Wire(l.flow, l.port)) \in {None, l.flow.client}

LentIsOwned(f) ==
  Lent(f) # None => Lent(f) \in Candidates(f) /\ OwnedOrLending(f, Lent(f))

(* A condemned session still stands, or it is removed and its reverse element
   not yet: then the port is in nobody's session. *)
Standing(f)  == cleaner.pc = "scan" \/ (cleaner.pc = "sessions" /\ f \in cleaner.todo)
HalfGone(f)  == \/ cleaner.pc = "sessions" /\ f \notin cleaner.todo
                \/ cleaner.pc = "reverses" /\ f \in cleaner.todo

Condemned(f) ==
  LET p == cleaner.found[f].nat_port IN
  cleaner.found[f] # None =>
    /\ cleaner.pc \notin {"sleep", "timeouts", "lock"}
    /\ Standing(f) => Lent(f) = p
    /\ HalfGone(f) => /\ p \in Candidates(f) /\ OwnedOrLending(f, p)
                      /\ \A g \in Flow : Table!SameWire(f, g) => Lent(g) # p

(* The inductive invariant of a node whose steering separates competing flows
   and whose reverse map has room. *)
LeaseInv ==
  /\ \A c \in CPU : ServesItsPacket(c) /\ PortStaysFree(c)
  /\ \A f \in Flow : LentIsOwned(f) /\ Condemned(f)
=============================================================================
