------------------------------ MODULE NatTable ------------------------------
(***************************************************************************)
(* What the NAT promises, free of how the XDP program keeps it: each flow  *)
(* holds at most one NAT port, it keeps that port for as long as it is     *)
(* held, and no two flows of one target and protocol hold the same port,   *)
(* because the target tells them apart by that port alone.                 *)
(***************************************************************************)
CONSTANTS
  Client,    \* client endpoints (address and port)
  Target,    \* target endpoints (address and port)
  Proto,     \* IP protocols
  NatPort,   \* ports the NAT may lend to a flow
  None       \* no port

VARIABLE bind    \* bind[f] is the port lent to flow f, or None

Flow == [client : Client, target : Target, proto : Proto]

(* Two flows the target could only tell apart by their NAT port. *)
SameWire(f, g) == f.target = g.target /\ f.proto = g.proto

Init == bind = [f \in Flow |-> None]

(* A new flow is lent a port that no flow to the same target holds. *)
Open(f, p) ==
  /\ bind[f] = None
  /\ \A g \in Flow : SameWire(f, g) => bind[g] # p
  /\ bind' = [bind EXCEPT ![f] = p]

(* A flow gives its port back. *)
Close(f) ==
  /\ bind[f] # None
  /\ bind' = [bind EXCEPT ![f] = None]

(* The table is lost with the process that held it. *)
Reset == bind' = [f \in Flow |-> None]

Next ==
  \/ \E f \in Flow, p \in NatPort : Open(f, p)
  \/ \E f \in Flow : Close(f)
  \/ Reset

Spec == Init /\ [][Next]_bind

-----------------------------------------------------------------------------
TypeOK == bind \in [Flow -> NatPort \cup {None}]

(* Two flows to one target over one protocol never hold the same port. *)
PortsUnique ==
  \A f, g \in Flow :
    f # g /\ SameWire(f, g) /\ bind[f] # None => bind[f] # bind[g]
=============================================================================
