------------------------------ MODULE MCSession -----------------------------
(***************************************************************************)
(* The router of stack.c and the kernel behind tap0, which writes twice.   *)
(***************************************************************************)
EXTENDS TcpSession

MCRouter == {"stack"}
MCPort == {"stack.1"}
MCMac == {"11:22:33:aa:bb:cc", "tap", "ff:ff:ff:ff:ff:ff"}
MCBroadcast == "ff:ff:ff:ff:ff:ff"

MCClientIp == <<64, 32, 16, 8>>

MCAddInterface ==
    [r \in MCRouter |-> <<[eth |-> "11:22:33:aa:bb:cc", ip |-> <<64, 32, 16, 48>>,
                           port |-> "stack.1"]>>]
MCAddRoute ==
    [r \in MCRouter |-> <<[dest |-> <<64, 32, 16, 0>>, netmask |-> <<255, 255, 255, 0>>,
                           gateway |-> Zero, iface |-> 1]>>]
MCAddArp == [r \in MCRouter |-> <<[eth |-> "tap", ip |-> MCClientIp]>>]

\* Three bytes, then 259: long enough to add to the second byte.
MCWriteEnds == {4, 263}
MCDataEnd == 263

\* The client reads all replies, or those to its SYN only.
MCLegible == {{"synAck", "dataAck", "finAck"}, {"synAck"}}

\* Nothing carries; the SYN, the first write, the second write or the FIN
\* carries; all four bytes turn over.
MCIsn == {<<1, 2, 3, 4>>, <<1, 2, 3, 255>>, <<1, 2, 3, 253>>, <<1, 2, 255, 7>>,
          <<1, 2, 3, 248>>, <<255, 255, 255, 255>>}

=============================================================================
