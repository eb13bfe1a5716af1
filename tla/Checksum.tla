------------------------------ MODULE Checksum ------------------------------
(***************************************************************************)
(* The header rewriting of the XDP program (forward-ebpf/src/main.rs): a   *)
(* packet's addresses and ports are replaced and its IP and TCP or UDP     *)
(* checksums are updated from the replaced words alone, without the rest   *)
(* of the packet. A packet may pass a chain of nodes that run the program, *)
(* so rewriting is repeated; the state is the packet between two nodes.    *)
(***************************************************************************)
EXTENDS Integers

Ones == 65535
Word == 0 .. Ones          \* u16

CONSTANTS
  Address,    \* IPv4 addresses, as pairs of words
  PortWord,   \* ports
  Remainder,  \* sums of the words a rewrite leaves alone
  Check       \* checksums of the packets that arrive

ASSUME WordAssumption ==
  /\ Address \subseteq Word \X Word /\ PortWord \subseteq Word
  /\ Remainder \subseteq Word /\ Check \subseteq Word

VARIABLES
  hdr,      \* the packet
  arrived   \* what its first checksums said of it

vars == <<hdr, arrived>>

-----------------------------------------------------------------------------
Not(w) == Ones - w                              \* !w
FoldOnce(s) == (s % 65536) + (s \div 65536)     \* the identity on a word

SlipFold(s) == Not(FoldOnce(s))

csum_fold(s) == Not(FoldOnce(FoldOnce(FoldOnce(FoldOnce(s)))) % 65536)

SlipUpdate16(old_csum, old_val, new_val) == csum_fold(Not(old_csum) + old_val + new_val)

update_csum_16(old_csum, old_val, new_val) ==
  csum_fold(Not(old_csum) + Not(old_val) + new_val)

update_csum_32(old_csum, old_val, new_val) ==
  update_csum_16(update_csum_16(old_csum, old_val[1], new_val[1]), old_val[2], new_val[2])

(* The checksum of h when its addresses become src and dst. *)
ReAddressed(check, h, src, dst) ==
  update_csum_32(update_csum_32(check, h.src_ip, src), h.dst_ip, dst)

RePorted(check, h, sport, dport) ==
  update_csum_16(update_csum_16(check, h.src_port, sport), h.dst_port, dport)

SlipUdpCheck(check, h, src, dst, sport, dport) ==
  IF check = 0 THEN 0 ELSE RePorted(ReAddressed(check, h, src, dst), h, sport, dport)

(* UDP: 0 on the wire says that there is no checksum; a computed 0 is sent as
   0xFFFF. *)
UdpCheck(check, h, src, dst, sport, dport) ==
  LET sum == RePorted(ReAddressed(check, h, src, dst), h, sport, dport)
  IN IF check = 0 THEN 0 ELSE IF sum = 0 THEN Ones ELSE sum

(* The packet leaves from the address it came to. *)
Rewritten(h, dst, sport, dport, l4_check) ==
  [h EXCEPT !.src_ip = h.dst_ip, !.dst_ip = dst, !.src_port = sport, !.dst_port = dport,
            !.ip_check = ReAddressed(h.ip_check, h, h.dst_ip, dst),
            !.l4_check = l4_check]

RewriteTcp(dst, sport, dport) ==
  /\ hdr.proto = "tcp"
  /\ hdr' = Rewritten(hdr, dst, sport, dport,
              RePorted(ReAddressed(hdr.l4_check, hdr, hdr.dst_ip, dst), hdr, sport, dport))
  /\ UNCHANGED arrived

RewriteUdp(dst, sport, dport) ==
  /\ hdr.proto = "udp"
  /\ hdr' = Rewritten(hdr, dst, sport, dport,
              UdpCheck(hdr.l4_check, hdr, hdr.dst_ip, dst, sport, dport))
  /\ UNCHANGED arrived

Header ==
  [proto : {"tcp", "udp"}, src_ip : Address, dst_ip : Address,
   src_port : PortWord, dst_port : PortWord,
   ip_rest : Remainder, l4_rest : Remainder, ip_check : Word, l4_check : Word]

(* One's complement sums: 0 for an intact packet, the transmission error
   otherwise. *)
Addresses(h) == h.src_ip[1] + h.src_ip[2] + h.dst_ip[1] + h.dst_ip[2]
IpError(h) == (Addresses(h) + h.ip_rest + h.ip_check) % Ones
L4Error(h) == (Addresses(h) + h.src_port + h.dst_port + h.l4_rest + h.l4_check) % Ones
Unsummed(h) == h.proto = "udp" /\ h.l4_check = 0

Init ==
  /\ hdr \in [proto : {"tcp", "udp"}, src_ip : Address, dst_ip : Address,
               src_port : PortWord, dst_port : PortWord, ip_rest : Remainder,
               l4_rest : Remainder, ip_check : Check, l4_check : Check]
  /\ arrived = [ip |-> IpError(hdr), l4 |-> L4Error(hdr), unsummed |-> Unsummed(hdr)]

Next ==
  \E dst \in Address, sport, dport \in PortWord :
    RewriteTcp(dst, sport, dport) \/ RewriteUdp(dst, sport, dport)

Spec == Init /\ [][Next]_vars

-----------------------------------------------------------------------------
(* The words of the header and the first errors. *)
TypeOK ==
  /\ hdr \in Header
  /\ arrived \in [ip : 0 .. Ones - 1, l4 : 0 .. Ones - 1, unsummed : BOOLEAN]

(* Rewriting neither damages an intact packet nor launders a damaged one: the
   error the final receiver computes over the whole packet is the error it
   had when it first arrived, although no node ever summed the packet. *)
ErrorKept ==
  /\ IpError(hdr) = arrived.ip
  /\ ~arrived.unsummed => L4Error(hdr) = arrived.l4

(* A UDP packet with a checksum is never sent on as one without, nor one
   without as one with, whatever the updated sum comes to. *)
PresenceKept == Unsummed(hdr) = arrived.unsummed
=============================================================================
