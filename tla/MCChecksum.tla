----------------------------- MODULE MCChecksum -----------------------------
(* Words at and next to the ends of the range, where folding and the two
   forms of zero differ. *)
EXTENDS Checksum

Addresses3 == {<<0, 0>>, <<49320, 257>>, <<65535, 65535>>}
Ports3 == {0, 1, 65535}
Remainders2 == {1, 65534}
Checks3 == {0, 16214, 65535}
=============================================================================
