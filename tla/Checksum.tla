------------------------------ MODULE Checksum ------------------------------
(***************************************************************************)
(* The Internet checksum: compute_headchksum, compute_icmp_checksum and    *)
(* compute_tcp_checksum add the bytes as 16-bit words of a little-endian   *)
(* host.  verify_checksum decides whether a header came whole.             *)
(***************************************************************************)
EXTENDS Integers, Sequences

CONSTANTS
    IpHeaders,      \* headers to receive: 20 bytes, with a checksum of 0
    Messages        \* what the other two functions add up

VARIABLES
    kind,       \* the function: "header", "icmp" or "tcp"
    octets,     \* the bytes it is given
    damaged,    \* whether a bit of the header has changed on the way
    s,          \* how many bytes are added up
    sum

vars == <<kind, octets, damaged, s, sum>>

Swapped(word) == ((word % 256) * 256) + (word \div 256)

\* The position of headchksum.
Field == {11, 12}

\* Mutant of Size: ihl counted in 16-bit words.
SizeHalf == IF kind = "header" THEN (octets[1] % 16) * 2 ELSE Len(octets)

\* How many bytes there are to add.
Size == IF kind = "header" THEN (octets[1] % 16) * 4 ELSE Len(octets)

\* What is added for a byte: verify_checksum sets the checksum of its copy to 0.
Counted(n) == IF kind = "header" /\ n \in Field THEN 0 ELSE octets[n]

AddWord ==
    /\ Size - s > 1
    /\ sum' = sum + Counted(s + 1) + 256 * Counted(s + 2)
    /\ s' = s + 2
    /\ UNCHANGED <<kind, octets, damaged>>

\* The last byte of an odd number; headers have none, and what TCP adds has an even
\* length unless data comes with a SYN.
AddLast ==
    /\ kind = "icmp"
    /\ Size - s = 1
    /\ sum' = sum + Counted(s + 1) + 255
    /\ s' = s + 1
    /\ UNCHANGED <<kind, octets, damaged>>

\* Mutant of Folded: the carries are dropped.
FoldedNot(n) == n % 65536

Folded(n) == (n % 65536) + (n \div 65536)

Fold ==
    /\ s = Size
    /\ sum >= 65536
    /\ sum' = Folded(sum)
    /\ UNCHANGED <<kind, octets, damaged, s>>

Done == s = Size /\ sum < 65536

\* ~sum & 0xffff.
Complement == 65535 - sum

\* compute_headchksum turns the bytes of what it returns.
Computed == IF kind = "header" THEN Swapped(Complement) ELSE Complement

\* What verify_checksum compares it with: the field as a little-endian number.
HeadChksum == octets[11] + 256 * octets[12]

Accepts == Computed \in {HeadChksum, Swapped(HeadChksum)}

-----------------------------------------------------------------------------
(* The standard (RFC 1071): the complement of the ones' complement sum of  *)
(* the words, in network order.                                            *)

\* What the first bytes add up to.
Sums(bytes) ==
    LET sums[n \in 0 .. Len(bytes)] ==
          IF n = 0 THEN 0
          ELSE sums[n - 1] + (IF n % 2 = 1 THEN 256 * bytes[n] ELSE bytes[n])
    IN  sums

Total(bytes) == Sums(bytes)[Len(bytes)]

Standard(bytes) ==
    LET total == Total(bytes)
    IN  IF total > 0 /\ total % 65535 = 0 THEN 0 ELSE 65535 - (total % 65535)

-----------------------------------------------------------------------------

\* A header whose checksum was filled in by a kernel, or by a router in the other order.
Filled(bytes, number) ==
    [bytes EXCEPT ![11] = number \div 256, ![12] = number % 256]

\* The values of the bits of a byte.
BitValues == {1, 2, 4, 8, 16, 32, 64, 128}

\* The bit whose value is v changes.
FlippedBit(byte, v) == IF (byte \div v) % 2 = 1 THEN byte - v ELSE byte + v

\* Any bit may be damaged but the four that give the header's length.  From a damaged length
\* verify_checksum copies more than the 20 bytes that its copy has place for, or adds up
\* fewer than the header has (ip.c:307-308); that is not modelled.
Damages(bytes) ==
    {[bytes EXCEPT ![n] = FlippedBit(@, v)] : n \in 2 .. 20, v \in BitValues}
        \cup {[bytes EXCEPT ![1] = FlippedBit(@, v)] : v \in BitValues \ {1, 2, 4, 8}}

InitHeader ==
    /\ kind = "header"
    /\ \E h \in IpHeaders :
        \E whole \in {Filled(h, Standard(h)), Filled(h, Swapped(Standard(h)))} :
            \/ damaged = FALSE /\ octets = whole
            \/ damaged = TRUE /\ octets \in Damages(whole)

InitMessage ==
    /\ kind \in {"icmp", "tcp"}
    /\ damaged = FALSE
    /\ octets \in Messages
    /\ kind = "tcp" => Len(octets) % 2 = 0 /\ Len(octets) >= 32

Init ==
    /\ InitHeader \/ InitMessage
    /\ s = 0
    /\ sum = 0

Next == AddWord \/ AddLast \/ Fold

Spec == Init /\ [][Next]_vars

-----------------------------------------------------------------------------

\* What the reply has where the sum was taken: the addresses change places.
Answered ==
    CASE kind = "header" -> [octets EXCEPT ![11] = 0, ![12] = 0]
      [] kind = "icmp" -> octets
      [] kind = "tcp" -> SubSeq(octets, 5, 8) \o SubSeq(octets, 1, 4) \o SubSeq(octets, 9, Len(octets))

\* The three loops compute the standard's checksum, in the order of a little-endian host,
\* from any even number of bytes, although they add in the other byte order and
\* the TCP checksum is taken before the addresses change places (tcp1.c:85, 142).
ChecksumRight ==
    Done /\ Len(octets) % 2 = 0 => Swapped(Complement) = Standard(Answered)

\* verify_checksum accepts what kernels and what routers send, and refuses it after any one bit of
\* the header has changed, the four bits of its length apart, although it accepts
\* either byte order.
DamageSeen == kind = "header" /\ Done => (Accepts <=> ~damaged)

=============================================================================
