----------------------------- MODULE MCPrograms -----------------------------
(***************************************************************************)
(* The programs for TLC, with byte strings for the check sequence: every   *)
(* single byte, which looks up every entry of the table, the data of an    *)
(* empty frame, and bytes of all sizes; and headers and messages for the   *)
(* checksums, also of zeros and of ones.                                   *)
(***************************************************************************)
EXTENDS Programs

MCData ==
    {<<b>> : b \in 0 .. 255}
        \cup {[n \in 1 .. 46 |-> 0], [n \in 1 .. 64 |-> (n * n * 37 + 11) % 256]}

\* The header of a host's message, one whose checksum has two equal bytes but one, and
\* one of the largest bytes.
MCIpHeaders == {
    <<69, 20, 0, 148, 0, 0, 0, 0, 16, 1, 0, 0, 8, 16, 32, 64, 69, 69, 175, 205>>,
    <<69, 0, 0, 60, 28, 70, 64, 0, 64, 6, 0, 0, 8, 16, 32, 64, 48, 16, 32, 8>>,
    <<245>> \o [n \in 1 .. 19 |-> IF n \in {10, 11} THEN 0 ELSE 255]}

\* An ICMP error, a pseudo header with a TCP header without and with options, zeros, ones, an
\* odd number of bytes.
MCMessages ==
    {[n \in 1 .. len |-> (n * n * 41 + 7 * len) % 256] : len \in {8, 13, 32, 36, 48}}
        \cup {[n \in 1 .. 36 |-> 0], [n \in 1 .. 36 |-> 255]}

=============================================================================
