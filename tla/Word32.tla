------------------------------- MODULE Word32 -------------------------------
(***************************************************************************)
(* 32-bit words as the routers hold them.  The C code keeps IP addresses,  *)
(* netmasks and TCP numbers in uint32_t variables of a little-endian host. *)
(* A word here is that host integer, written as its four bytes with the    *)
(* most significant byte first: 0x40201008 is <<64, 32, 16, 8>>.           *)
(* Bytes, because TLC's integers are too small for 32-bit arithmetic and   *)
(* because what htonl and ntohs do is to move bytes.                       *)
(***************************************************************************)
EXTENDS Integers

Byte == 0 .. 255
Word == Byte \X Byte \X Byte \X Byte
Zero == <<0, 0, 0, 0>>

\* Netmasks of the routing tables cover whole bytes.
Mask == {0, 255} \X {0, 255} \X {0, 255} \X {0, 255}

\* a & m, for a mask that covers whole bytes.
Masked(a, m) ==
    LET Kept(k) == IF m[k] = 255 THEN a[k] ELSE 0
    IN  <<Kept(1), Kept(2), Kept(3), Kept(4)>>

\* htonl on a little-endian host reverses the four bytes.
Htonl(w) == <<w[4], w[3], w[2], w[1]>>

\* ntohs of a uint32_t first truncates it to 16 bits, then swaps these.
Ntohs(w) == <<0, 0, w[4], w[3]>>

\* uint32_t addition: modulo 2^32, the carry moving towards the first byte.
Plus(a, b) ==
    LET s4 == a[4] + b[4]
        s3 == a[3] + b[3] + (s4 \div 256)
        s2 == a[2] + b[2] + (s3 \div 256)
        s1 == a[1] + b[1] + (s2 \div 256)
    IN  <<s1 % 256, s2 % 256, s3 % 256, s4 % 256>>

\* An int or size_t stored in a uint32_t: modulo 2^32, so -8 is 0xfffffff8.
ToWord(n) ==
    <<(n \div 16777216) % 256, (n \div 65536) % 256, (n \div 256) % 256, n % 256>>

=============================================================================
