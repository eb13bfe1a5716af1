--------------------------- MODULE ChecksumProofs ---------------------------
(***************************************************************************)
(* The rewriting keeps a packet's transmission error, proved for all words *)
(* of the header. The argument is one lemma on update_csum_16: it moves    *)
(* the checksum by exactly the difference of the replaced word, modulo     *)
(* 65535. The provers list the elements of an interval between two         *)
(* literals, so Word is only ever expanded to an interval up to the symbol *)
(* Ones, whose value is a lemma.                                           *)
(***************************************************************************)
EXTENDS Checksum, TLAPS

LEMMA OnesValue == Ones = 65535
BY DEF Ones

LEMMA WordIsBounded ==
  ASSUME NEW w
  PROVE  w \in Word <=> w \in Int /\ 0 <= w /\ w <= 65535
<1>1. w \in Word <=> w \in Int /\ 0 <= w /\ w <= Ones
  <2>1. Ones \in Int
    BY OnesValue, SMT
  <2> QED
    BY <2>1, SMT DEF Word
<1> QED
  BY <1>1, OnesValue, SMT

(* Two shifts in a row, and adding the same on both sides. *)
LEMMA ShiftsAdd ==
  ASSUME NEW c \in Int, NEW d \in Int, NEW e \in Int,
         NEW o \in Int, NEW n \in Int, NEW p \in Int, NEW m \in Int, NEW r \in Int,
         (d + n) % 65535 = (c + o) % 65535,
         (e + m) % 65535 = (d + p) % 65535
  PROVE  (e + n + m + r) % 65535 = (c + o + p + r) % 65535
BY SMT

LEMMA WordIsInt == Word \subseteq Int
BY WordIsBounded, SMT

(* FoldOnce keeps a sum's remainder and shrinks what is not a word yet. *)
LEMMA FoldOnceKeeps ==
  ASSUME NEW s \in Nat, s <= 196605
  PROVE  /\ FoldOnce(s) \in Nat
         /\ FoldOnce(s) <= 65537
         /\ FoldOnce(s) % 65535 = s % 65535
         /\ s <= 65537 => FoldOnce(s) <= 65535
BY SMT DEF FoldOnce

LEMMA FoldOnceOfWord ==
  ASSUME NEW w \in Word
  PROVE  FoldOnce(w) = w
BY WordIsBounded, SMT DEF FoldOnce

(* csum_fold: four folds of the sum of three words give a word. *)
LEMMA FoldComplements ==
  ASSUME NEW s \in Nat, s <= 196605
  PROVE  /\ csum_fold(s) \in Word
         /\ (csum_fold(s) + s) % 65535 = 0
<1> DEFINE a == FoldOnce(s)
           b == FoldOnce(a)
<1>1. a \in Nat /\ a <= 65537 /\ a % 65535 = s % 65535
  BY FoldOnceKeeps
<1>2. b \in Nat /\ b <= 65535 /\ b % 65535 = a % 65535
  BY <1>1, FoldOnceKeeps, SMT
<1>3. FoldOnce(FoldOnce(b)) = b
  BY <1>2, FoldOnceOfWord, WordIsBounded, SMT
<1>4. csum_fold(s) = Ones - (b % 65536)
  BY <1>3, SMT DEF csum_fold, Not
<1> HIDE DEF a, b
<1>5. csum_fold(s) = 65535 - b
  BY <1>2, <1>4, OnesValue, SMT
<1> QED
  BY <1>1, <1>2, <1>5, WordIsBounded, SMT

(* update_csum_16 changes the checksum by the difference of the words. *)
LEMMA Update16Shifts ==
  ASSUME NEW c \in Word, NEW o \in Word, NEW n \in Word
  PROVE  /\ update_csum_16(c, o, n) \in Word
         /\ (update_csum_16(c, o, n) + n) % 65535 = (c + o) % 65535
<1> DEFINE s == Not(c) + Not(o) + n
<1>1. s \in Nat /\ s <= 196605 /\ s = 131070 - c - o + n
  BY WordIsBounded, OnesValue, SMT DEF Not
<1>2. csum_fold(s) \in Word /\ (csum_fold(s) + s) % 65535 = 0
  BY <1>1, FoldComplements
<1>3. update_csum_16(c, o, n) = csum_fold(s)
  BY DEF update_csum_16
<1> HIDE DEF s
<1> QED
  BY <1>1, <1>2, <1>3, WordIsBounded, SMT

LEMMA Update32Shifts ==
  ASSUME NEW c \in Word, NEW o \in Word \X Word, NEW n \in Word \X Word
  PROVE  /\ update_csum_32(c, o, n) \in Word
         /\ (update_csum_32(c, o, n) + n[1] + n[2]) % 65535 = (c + o[1] + o[2]) % 65535
<1> DEFINE d == update_csum_16(c, o[1], n[1])
           e == update_csum_16(d, o[2], n[2])
<1>1. o[1] \in Word /\ o[2] \in Word /\ n[1] \in Word /\ n[2] \in Word
  OBVIOUS
<1>2. d \in Word /\ (d + n[1]) % 65535 = (c + o[1]) % 65535
  BY <1>1, Update16Shifts
<1>3. e \in Word /\ (e + n[2]) % 65535 = (d + o[2]) % 65535
  BY <1>1, <1>2, Update16Shifts
<1>4. update_csum_32(c, o, n) = e
  BY DEF update_csum_32
<1> HIDE DEF d, e
<1> QED
  BY <1>1, <1>2, <1>3, <1>4, WordIsBounded, SMT

(* The two steps of a rewrite: the addresses, then the ports. *)
LEMMA ReAddressedShifts ==
  ASSUME NEW c \in Word, NEW h,
         h.src_ip \in Word \X Word, h.dst_ip \in Word \X Word,
         NEW src \in Word \X Word, NEW dst \in Word \X Word
  PROVE  /\ ReAddressed(c, h, src, dst) \in Word
         /\ (ReAddressed(c, h, src, dst) + src[1] + src[2] + dst[1] + dst[2]) % 65535
              = (c + Addresses(h)) % 65535
<1> DEFINE o == h.src_ip
           p == h.dst_ip
           d == update_csum_32(c, o, src)
           e == update_csum_32(d, p, dst)
           O == o[1] + o[2]
           P == p[1] + p[2]
           N == src[1] + src[2]
           M == dst[1] + dst[2]
<1>1. d \in Word /\ (d + src[1] + src[2]) % 65535 = (c + o[1] + o[2]) % 65535
  <2>1. o \in Word \X Word
    OBVIOUS
  <2> HIDE DEF o
  <2> QED
    BY <2>1, Update32Shifts
<1>2. e \in Word /\ (e + dst[1] + dst[2]) % 65535 = (d + p[1] + p[2]) % 65535
  <2>1. p \in Word \X Word
    OBVIOUS
  <2> HIDE DEF p, d
  <2> QED
    BY <2>1, <1>1, Update32Shifts
<1>3. /\ ReAddressed(c, h, src, dst) = e
      /\ Addresses(h) = o[1] + o[2] + p[1] + p[2]
  BY DEF ReAddressed, Addresses
<1>4. /\ o[1] \in Word /\ o[2] \in Word /\ p[1] \in Word /\ p[2] \in Word
      /\ src[1] \in Word /\ src[2] \in Word /\ dst[1] \in Word /\ dst[2] \in Word
  OBVIOUS
<1> HIDE DEF d, e, o, p
<1>5. /\ O \in Int /\ P \in Int /\ N \in Int /\ M \in Int
      /\ c \in Int /\ d \in Int /\ e \in Int
      /\ o[1] \in Int /\ o[2] \in Int /\ p[1] \in Int /\ p[2] \in Int
      /\ src[1] \in Int /\ src[2] \in Int /\ dst[1] \in Int /\ dst[2] \in Int
  <2>1. d \in Word /\ e \in Word
    BY <1>1, <1>2
  <2>2. /\ c \in Int /\ d \in Int /\ e \in Int
        /\ o[1] \in Int /\ o[2] \in Int /\ p[1] \in Int /\ p[2] \in Int
        /\ src[1] \in Int /\ src[2] \in Int /\ dst[1] \in Int /\ dst[2] \in Int
    BY <2>1, <1>4, WordIsInt
  <2> QED
    BY <2>2, SMT
<1>6. /\ (d + N) % 65535 = (c + O) % 65535
      /\ (e + M) % 65535 = (d + P) % 65535
  BY <1>1, <1>2, <1>5, SMT
<1>7. /\ e + src[1] + src[2] + dst[1] + dst[2] = e + N + M + 0
      /\ c + Addresses(h) = c + O + P + 0
  BY <1>3, <1>5, SMT
<1> HIDE DEF O, P, N, M
<1>9. O \in Int /\ P \in Int /\ N \in Int /\ M \in Int /\ c \in Int /\ d \in Int /\ e \in Int
  BY <1>5
<1>8. (e + N + M + 0) % 65535 = (c + O + P + 0) % 65535
  BY <1>6, <1>9, ShiftsAdd
<1> QED
  BY <1>2, <1>3, <1>7, <1>8

LEMMA RePortedShifts ==
  ASSUME NEW c \in Word, NEW h, h.src_port \in Word, h.dst_port \in Word,
         NEW sport \in Word, NEW dport \in Word
  PROVE  /\ RePorted(c, h, sport, dport) \in Word
         /\ (RePorted(c, h, sport, dport) + sport + dport) % 65535
              = (c + h.src_port + h.dst_port) % 65535
<1> DEFINE o == h.src_port
           p == h.dst_port
           d == update_csum_16(c, o, sport)
           e == update_csum_16(d, p, dport)
<1>1. d \in Word /\ (d + sport) % 65535 = (c + o) % 65535
  BY Update16Shifts
<1>2. e \in Word /\ (e + dport) % 65535 = (d + p) % 65535
  BY <1>1, Update16Shifts
<1>3. RePorted(c, h, sport, dport) = e
  BY DEF RePorted
<1>4. o \in Word /\ p \in Word
  OBVIOUS
<1> HIDE DEF d, e, o, p
<1>5. /\ c \in Int /\ d \in Int /\ e \in Int /\ o \in Int /\ p \in Int
      /\ sport \in Int /\ dport \in Int
  BY <1>1, <1>2, <1>4, WordIsInt
<1>6. (e + sport + dport + 0) % 65535 = (c + o + p + 0) % 65535
  BY <1>1, <1>2, <1>5, ShiftsAdd
<1>7. /\ e + sport + dport = e + sport + dport + 0
      /\ c + o + p = c + o + p + 0
  BY <1>5, SMT
<1> QED
  BY <1>2, <1>3, <1>6, <1>7 DEF o, p

(* The checksum of the whole rewrite, as the TCP branch computes it. *)
LEMMA L4Shifts ==
  ASSUME NEW h \in Header, NEW dst \in Address,
         NEW sport \in PortWord, NEW dport \in PortWord
  PROVE  LET sum == RePorted(ReAddressed(h.l4_check, h, h.dst_ip, dst), h, sport, dport)
         IN  /\ sum \in Word
             /\ (h.dst_ip[1] + h.dst_ip[2] + dst[1] + dst[2] + sport + dport
                  + h.l4_rest + sum) % 65535 = L4Error(h)
<1> DEFINE a == ReAddressed(h.l4_check, h, h.dst_ip, dst)
           sum == RePorted(a, h, sport, dport)
           o == h.src_port
           p == h.dst_port
           c == h.l4_check
           r == h.l4_rest
           s == h.src_ip
           t == h.dst_ip
<1>1. /\ s \in Word \X Word /\ t \in Word \X Word /\ dst \in Word \X Word
      /\ o \in Word /\ p \in Word /\ c \in Word /\ r \in Word
      /\ sport \in Word /\ dport \in Word
  BY WordAssumption DEF Header
<1>2. /\ a \in Word
      /\ (a + t[1] + t[2] + dst[1] + dst[2]) % 65535 = (c + Addresses(h)) % 65535
  BY <1>1, ReAddressedShifts
<1>3. sum \in Word /\ (sum + sport + dport) % 65535 = (a + o + p) % 65535
  BY <1>1, <1>2, RePortedShifts
<1>4. /\ s[1] \in Word /\ s[2] \in Word /\ t[1] \in Word /\ t[2] \in Word
      /\ dst[1] \in Word /\ dst[2] \in Word
      /\ Addresses(h) = s[1] + s[2] + t[1] + t[2]
  BY <1>1 DEF Addresses
<1>5. L4Error(h) = (Addresses(h) + o + p + r + c) % 65535
  BY OnesValue DEF L4Error
<1> HIDE DEF a, sum, o, p, c, r, s, t
<1> DEFINE S == Addresses(h)
           T == t[1] + t[2] + dst[1] + dst[2]
           P == sport + dport
           Q == o + p
<1>7. /\ a \in Int /\ sum \in Int /\ o \in Int /\ p \in Int /\ c \in Int /\ r \in Int
      /\ sport \in Int /\ dport \in Int
      /\ s[1] \in Int /\ s[2] \in Int /\ t[1] \in Int /\ t[2] \in Int
      /\ dst[1] \in Int /\ dst[2] \in Int
  <2>1. a \in Word /\ sum \in Word
    BY <1>2, <1>3
  <2> QED
    BY <2>1, <1>1, <1>4, WordIsInt
<1>8. /\ S \in Int /\ T \in Int /\ P \in Int /\ Q \in Int
      /\ (a + T) % 65535 = (c + S) % 65535
      /\ (sum + P) % 65535 = (a + Q) % 65535
  BY <1>2, <1>3, <1>4, <1>7, SMT
<1>9. /\ t[1] + t[2] + dst[1] + dst[2] + sport + dport + r + sum = sum + T + P + r
      /\ S + o + p + r + c = c + S + Q + r
  BY <1>4, <1>7, SMT
<1> HIDE DEF S, T, P, Q
<1>10. (sum + T + P + r) % 65535 = (c + S + Q + r) % 65535
  BY <1>7, <1>8, ShiftsAdd
<1>6. /\ sum \in Word
      /\ (t[1] + t[2] + dst[1] + dst[2] + sport + dport + r + sum) % 65535 = L4Error(h)
  BY <1>3, <1>5, <1>9, <1>10 DEF S
<1> QED
  BY <1>6 DEF a, sum, o, p, c, r, s, t

LEMMA IpShifts ==
  ASSUME NEW h \in Header, NEW dst \in Address
  PROVE  LET sum == ReAddressed(h.ip_check, h, h.dst_ip, dst)
         IN  /\ sum \in Word
             /\ (h.dst_ip[1] + h.dst_ip[2] + dst[1] + dst[2] + h.ip_rest + sum) % 65535
                  = IpError(h)
<1> DEFINE sum == ReAddressed(h.ip_check, h, h.dst_ip, dst)
           c == h.ip_check
           r == h.ip_rest
           s == h.src_ip
           t == h.dst_ip
<1>1. /\ s \in Word \X Word /\ t \in Word \X Word /\ dst \in Word \X Word
      /\ c \in Word /\ r \in Word
  BY WordAssumption DEF Header
<1>2. /\ sum \in Word
      /\ (sum + t[1] + t[2] + dst[1] + dst[2]) % 65535 = (c + Addresses(h)) % 65535
  BY <1>1, ReAddressedShifts
<1>4. /\ s[1] \in Word /\ s[2] \in Word /\ t[1] \in Word /\ t[2] \in Word
      /\ dst[1] \in Word /\ dst[2] \in Word
      /\ Addresses(h) = s[1] + s[2] + t[1] + t[2]
  BY <1>1 DEF Addresses
<1>5. IpError(h) = (Addresses(h) + r + c) % 65535
  BY OnesValue DEF IpError
<1> HIDE DEF sum, c, r, s, t
<1> DEFINE S == Addresses(h)
           T == t[1] + t[2] + dst[1] + dst[2]
<1>7. /\ sum \in Int /\ c \in Int /\ r \in Int
      /\ s[1] \in Int /\ s[2] \in Int /\ t[1] \in Int /\ t[2] \in Int
      /\ dst[1] \in Int /\ dst[2] \in Int
  <2>1. sum \in Word
    BY <1>2
  <2> QED
    BY <2>1, <1>1, <1>4, WordIsInt
<1>8. S \in Int /\ T \in Int /\ (sum + T) % 65535 = (c + S) % 65535
  BY <1>2, <1>4, <1>7, SMT
<1>9. /\ t[1] + t[2] + dst[1] + dst[2] + r + sum = sum + T + r
      /\ S + r + c = c + S + r
  BY <1>4, <1>7, SMT
<1> HIDE DEF S, T
<1>10. (sum + T + r) % 65535 = (c + S + r) % 65535
  BY <1>7, <1>8, SMT
<1>6. /\ sum \in Word
      /\ (t[1] + t[2] + dst[1] + dst[2] + r + sum) % 65535 = IpError(h)
  BY <1>2, <1>5, <1>9, <1>10 DEF S
<1> QED
  BY <1>6 DEF sum, c, r, s, t

-----------------------------------------------------------------------------
(* A remainder of Ones. *)
LEMMA RemainderBounded ==
  ASSUME NEW s \in Int
  PROVE  s % Ones \in 0 .. Ones - 1
<1>1. s % Ones \in Int /\ 0 <= s % Ones /\ s % Ones <= Ones - 1
  BY OnesValue, SMT
<1> QED
  BY <1>1, SMT

LEMMA ErrorsAreRemainders ==
  ASSUME NEW h \in Header
  PROVE  IpError(h) \in 0 .. Ones - 1 /\ L4Error(h) \in 0 .. Ones - 1
<1> DEFINE s == h.src_ip
           t == h.dst_ip
<1>1. /\ s \in Word \X Word /\ t \in Word \X Word
      /\ h.src_port \in Word /\ h.dst_port \in Word
      /\ h.ip_rest \in Word /\ h.l4_rest \in Word
      /\ h.ip_check \in Word /\ h.l4_check \in Word
  BY WordAssumption DEF Header
<1>2. /\ s[1] \in Int /\ s[2] \in Int /\ t[1] \in Int /\ t[2] \in Int
      /\ h.src_port \in Int /\ h.dst_port \in Int
      /\ h.ip_rest \in Int /\ h.l4_rest \in Int
      /\ h.ip_check \in Int /\ h.l4_check \in Int
  BY <1>1, WordIsInt
<1>3. /\ Addresses(h) + h.ip_rest + h.ip_check \in Int
      /\ Addresses(h) + h.src_port + h.dst_port + h.l4_rest + h.l4_check \in Int
  BY <1>2, SMT DEF Addresses
<1> QED
  BY <1>3, RemainderBounded DEF IpError, L4Error

(* What a rewrite makes of a header whose new layer-4 checksum is given. *)
LEMMA RewrittenFields ==
  ASSUME NEW h \in Header, NEW dst \in Address,
         NEW sport \in PortWord, NEW dport \in PortWord, NEW check \in Word
  PROVE  LET g == Rewritten(h, dst, sport, dport, check)
         IN  /\ g \in Header
             /\ g.proto = h.proto /\ g.l4_check = check
             /\ IpError(g) = IpError(h)
             /\ L4Error(g) = (h.dst_ip[1] + h.dst_ip[2] + dst[1] + dst[2]
                              + sport + dport + h.l4_rest + check) % 65535
<1> DEFINE g == Rewritten(h, dst, sport, dport, check)
           sum == ReAddressed(h.ip_check, h, h.dst_ip, dst)
           t == h.dst_ip
<1>1. /\ sum \in Word
      /\ (t[1] + t[2] + dst[1] + dst[2] + h.ip_rest + sum) % 65535 = IpError(h)
  BY IpShifts
<1> HIDE DEF sum
<1>2. g = [h EXCEPT !.src_ip = t, !.dst_ip = dst, !.src_port = sport, !.dst_port = dport,
                    !.ip_check = sum, !.l4_check = check]
  BY DEF Rewritten, sum
<1> HIDE DEF g
<1>3. /\ g \in Header /\ g.proto = h.proto /\ g.l4_check = check
      /\ g.src_ip = t /\ g.dst_ip = dst /\ g.src_port = sport /\ g.dst_port = dport
      /\ g.ip_check = sum /\ g.ip_rest = h.ip_rest /\ g.l4_rest = h.l4_rest
  <2>1. sum \in Word
    BY <1>1
  <2> QED
    BY <2>1, <1>2 DEF Header
<1>4. Addresses(g) = t[1] + t[2] + dst[1] + dst[2]
  BY <1>3 DEF Addresses
<1>5. IpError(g) = IpError(h)
  <2>1. IpError(g) = (t[1] + t[2] + dst[1] + dst[2] + h.ip_rest + sum) % 65535
    BY <1>3, <1>4, OnesValue DEF IpError
  <2> QED
    BY <2>1, <1>1
<1>6. L4Error(g) = (t[1] + t[2] + dst[1] + dst[2]
                    + sport + dport + h.l4_rest + check) % 65535
  BY <1>3, <1>4, OnesValue DEF L4Error
<1> QED
  BY <1>3, <1>5, <1>6 DEF g

ChecksumInv == TypeOK /\ ErrorKept /\ PresenceKept

LEMMA ChecksumInit == Init => ChecksumInv
<1> SUFFICES ASSUME Init PROVE ChecksumInv
  OBVIOUS
<1>1. hdr \in Header
  BY WordAssumption DEF Init, Header
<1>2. arrived = [ip |-> IpError(hdr), l4 |-> L4Error(hdr), unsummed |-> Unsummed(hdr)]
  BY DEF Init
<1>3. Unsummed(hdr) \in BOOLEAN
  BY DEF Unsummed
<1>4. IpError(hdr) \in 0 .. Ones - 1 /\ L4Error(hdr) \in 0 .. Ones - 1
  BY <1>1, ErrorsAreRemainders
<1>5. TypeOK
  BY <1>1, <1>2, <1>3, <1>4 DEF TypeOK
<1> QED
  BY <1>2, <1>5 DEF ChecksumInv, ErrorKept, PresenceKept

LEMMA ChecksumStep == ChecksumInv /\ [Next]_vars => ChecksumInv'
<1> SUFFICES ASSUME ChecksumInv, [Next]_vars PROVE ChecksumInv'
  OBVIOUS
<1>0. hdr \in Header /\ hdr.l4_check \in Word
  BY DEF ChecksumInv, TypeOK, Header
<1>1. CASE UNCHANGED vars
  BY <1>1 DEF vars, ChecksumInv, TypeOK, ErrorKept, PresenceKept, IpError, L4Error,
              Addresses, Unsummed
<1>2. ASSUME NEW dst \in Address, NEW sport \in PortWord, NEW dport \in PortWord,
             NEW check \in Word, UNCHANGED arrived,
             hdr' = Rewritten(hdr, dst, sport, dport, check),
             hdr.proto = "udp" => (check = 0 <=> hdr.l4_check = 0),
             ~Unsummed(hdr) =>
               (hdr.dst_ip[1] + hdr.dst_ip[2] + dst[1] + dst[2]
                 + sport + dport + hdr.l4_rest + check) % 65535 = L4Error(hdr)
      PROVE  ChecksumInv'
  <2>1. /\ hdr' \in Header /\ hdr'.proto = hdr.proto /\ hdr'.l4_check = check
        /\ IpError(hdr') = IpError(hdr)
        /\ ~Unsummed(hdr) => L4Error(hdr') = L4Error(hdr)
    BY <1>0, <1>2, RewrittenFields
  <2>2. Unsummed(hdr') = Unsummed(hdr)
    BY <1>2, <2>1 DEF Unsummed
  <2>3. TypeOK'
    BY <1>2, <2>1 DEF ChecksumInv, TypeOK
  <2>4. ErrorKept'
    BY <1>2, <2>1 DEF ChecksumInv, ErrorKept, PresenceKept
  <2>5. PresenceKept'
    BY <1>2, <2>2 DEF ChecksumInv, PresenceKept
  <2> QED
    BY <2>3, <2>4, <2>5 DEF ChecksumInv
<1>3. ASSUME NEW dst \in Address, NEW sport \in PortWord, NEW dport \in PortWord,
             RewriteTcp(dst, sport, dport)
      PROVE  ChecksumInv'
  <2> DEFINE sum == RePorted(ReAddressed(hdr.l4_check, hdr, hdr.dst_ip, dst),
                             hdr, sport, dport)
  <2>1. /\ sum \in Word
        /\ (hdr.dst_ip[1] + hdr.dst_ip[2] + dst[1] + dst[2] + sport + dport
             + hdr.l4_rest + sum) % 65535 = L4Error(hdr)
    BY <1>0, L4Shifts
  <2>2. /\ hdr.proto # "udp" /\ UNCHANGED arrived
        /\ hdr' = Rewritten(hdr, dst, sport, dport, sum)
    BY <1>3 DEF RewriteTcp
  <2> HIDE DEF sum
  <2> QED
    BY <1>2, <2>1, <2>2
<1>4. ASSUME NEW dst \in Address, NEW sport \in PortWord, NEW dport \in PortWord,
             RewriteUdp(dst, sport, dport)
      PROVE  ChecksumInv'
  <2> DEFINE sum == RePorted(ReAddressed(hdr.l4_check, hdr, hdr.dst_ip, dst),
                             hdr, sport, dport)
             check == UdpCheck(hdr.l4_check, hdr, hdr.dst_ip, dst, sport, dport)
             base == hdr.dst_ip[1] + hdr.dst_ip[2] + dst[1] + dst[2] + sport + dport
                     + hdr.l4_rest
  <2>1. sum \in Word /\ (base + sum) % 65535 = L4Error(hdr)
    BY <1>0, L4Shifts
  <2>2. /\ hdr.proto = "udp" /\ UNCHANGED arrived
        /\ hdr' = Rewritten(hdr, dst, sport, dport, check)
    BY <1>4 DEF RewriteUdp
  <2>3. check = IF hdr.l4_check = 0 THEN 0 ELSE IF sum = 0 THEN Ones ELSE sum
    BY DEF UdpCheck
  <2>4. base \in Int
    <3>1. /\ hdr.dst_ip \in Word \X Word /\ dst \in Word \X Word
          /\ sport \in Word /\ dport \in Word /\ hdr.l4_rest \in Word
      BY <1>0, WordAssumption DEF Header
    <3>2. /\ hdr.dst_ip[1] \in Word /\ hdr.dst_ip[2] \in Word
          /\ dst[1] \in Word /\ dst[2] \in Word
      BY <3>1
    <3>3. /\ hdr.dst_ip[1] \in Int /\ hdr.dst_ip[2] \in Int
          /\ dst[1] \in Int /\ dst[2] \in Int
          /\ sport \in Int /\ dport \in Int /\ hdr.l4_rest \in Int
      BY <3>1, <3>2, WordIsInt
    <3> QED
      BY <3>3, SMT
  <2> HIDE DEF sum, check, base
  <2>5. /\ check \in Word
        /\ check = 0 <=> hdr.l4_check = 0
        /\ hdr.l4_check # 0 => (base + check) % 65535 = (base + sum) % 65535
    BY <2>1, <2>3, <2>4, WordIsBounded, OnesValue, SMT
  <2>6. ~Unsummed(hdr) => hdr.l4_check # 0
    BY <2>2 DEF Unsummed
  <2>7. ~Unsummed(hdr) => (base + check) % 65535 = L4Error(hdr)
    BY <2>1, <2>5, <2>6
  <2>8. base = hdr.dst_ip[1] + hdr.dst_ip[2] + dst[1] + dst[2] + sport + dport
               + hdr.l4_rest
    BY DEF base
  <2> QED
    BY <1>2, <2>2, <2>5, <2>7, <2>8
<1> QED
  BY <1>1, <1>3, <1>4 DEF Next

LEMMA ChecksumInvariant == Spec => []ChecksumInv
BY ChecksumInit, ChecksumStep, PTL DEF Spec

(* The header fields and checksums stay 16-bit words, whatever is folded. *)
THEOREM WordsStayWords == Spec => []TypeOK
<1>1. ChecksumInv => TypeOK
  BY DEF ChecksumInv
<1> QED
  BY <1>1, ChecksumInvariant, PTL

(* However many nodes rewrite a packet, and whatever its words, the error its
   receiver computes is the one it arrived with. *)
THEOREM ErrorsSurviveRewriting == Spec => []ErrorKept
<1>1. ChecksumInv => ErrorKept
  BY DEF ChecksumInv
<1> QED
  BY <1>1, ChecksumInvariant, PTL

(* The zero rule of UDP is applied where it must be and nowhere else. *)
THEOREM PresenceSurvivesRewriting == Spec => []PresenceKept
<1>1. ChecksumInv => PresenceKept
  BY DEF ChecksumInv
<1> QED
  BY <1>1, ChecksumInvariant, PTL
=============================================================================
