------------------------------- MODULE MCDemo -------------------------------
(***************************************************************************)
(* The network of README.md: stack joins net0 and net1, stack2 joins net1  *)
(* and net2, and each network has one host.  All addresses, tables and     *)
(* frames are those of stack.c, stack2.c and host1.c to host3.c.           *)
(***************************************************************************)
EXTENDS Paths

MCRouter == {"stack", "stack2"}
MCHost == {"host1", "host2", "host3"}
MCPort == {"stack.1", "stack.2", "stack2.1", "stack2.2", "host1", "host2", "host3"}

MCLan ==
    [p \in MCPort |->
        CASE p \in {"host1", "stack.1"} -> "net0"
          [] p \in {"host2", "stack.2", "stack2.1"} -> "net1"
          [] p \in {"host3", "stack2.2"} -> "net2"]

MCMac == {"11:22:33:aa:bb:cc", "10:10:10:10:10:10", "10:30:10:30:10:30",
          "dd:dd:dd:dd:dd:dd", "77:88:99:dd:ee:ff", "50:50:50:50:50:10",
          "20:20:20:20:20:20", "ff:ff:ff:ff:ff:ff"}
MCBroadcast == "ff:ff:ff:ff:ff:ff"

MCHostPort == [h \in MCHost |-> h]
MCHostMac ==
    [host1 |-> "77:88:99:dd:ee:ff", host2 |-> "50:50:50:50:50:10",
     host3 |-> "20:20:20:20:20:20"]
MCHostIp ==
    [host1 |-> <<64, 32, 16, 8>>, host2 |-> <<53, 53, 175, 205>>,
     host3 |-> <<238, 238, 238, 85>>]

ClassC == <<255, 255, 255, 0>>
Net1Gateway == <<34, 34, 34, 34>>

MCAddInterface ==
    [stack |-> <<[eth |-> "11:22:33:aa:bb:cc", ip |-> <<64, 32, 16, 48>>, port |-> "stack.1"],
                 [eth |-> "10:10:10:10:10:10", ip |-> <<53, 53, 175, 239>>, port |-> "stack.2"]>>,
     stack2 |-> <<[eth |-> "10:30:10:30:10:30", ip |-> Net1Gateway, port |-> "stack2.1"],
                  [eth |-> "dd:dd:dd:dd:dd:dd", ip |-> <<238, 238, 238, 221>>, port |-> "stack2.2"]>>]

Route(dest, gateway, iface) ==
    [dest |-> dest, netmask |-> ClassC, gateway |-> gateway, iface |-> iface]

MCAddRoute ==
    [stack |-> <<Route(<<64, 32, 16, 0>>, Zero, 1), Route(<<53, 53, 175, 0>>, Zero, 2),
                 Route(<<238, 238, 238, 0>>, Net1Gateway, 2)>>,
     stack2 |-> <<Route(<<53, 53, 175, 0>>, Zero, 1), Route(<<238, 238, 238, 0>>, Zero, 2)>>]

\* The first entry of stack2 has the bytes of host 1's address reversed.
MCAddArp ==
    [stack |-> <<[eth |-> "77:88:99:dd:ee:ff", ip |-> <<64, 32, 16, 8>>],
                 [eth |-> "50:50:50:50:50:10", ip |-> <<53, 53, 175, 205>>],
                 [eth |-> "10:30:10:30:10:30", ip |-> Net1Gateway]>>,
     stack2 |-> <<[eth |-> "77:88:99:dd:ee:ff", ip |-> <<8, 16, 32, 64>>],
                  [eth |-> "50:50:50:50:50:10", ip |-> <<53, 53, 175, 205>>],
                  [eth |-> "20:20:20:20:20:20", ip |-> <<238, 238, 238, 85>>]>>]

\* host1 sends to host 2 or to host 3, by its argument.
MCScript ==
    [host1 |-> {[via |-> "11:22:33:aa:bb:cc", to |-> MCHostIp.host2, ttl |-> 16, len |-> 170],
                [via |-> "11:22:33:aa:bb:cc", to |-> MCHostIp.host3, ttl |-> 48, len |-> 174]},
     host2 |-> {[via |-> "10:10:10:10:10:10", to |-> MCHostIp.host1, ttl |-> 16, len |-> 162]},
     host3 |-> {NULL}]

\* host1 is run once for each of its arguments, or twice with the same.
MCMaxRuns == [host1 |-> 2, host2 |-> 1, host3 |-> 1]

-----------------------------------------------------------------------------
(* The ways between hosts that write to each other: the hypotheses of the  *)
(* theorems about ways hold of this network.                               *)

In(p) == <<"in", p>>
Out(p) == <<"out", p>>

MCWay(g, h) ==
    CASE <<g, h>> = <<"host1", "host2">> ->
            <<Out("host1"), In("stack.1"), Out("stack.2"), In("host2")>>
      [] <<g, h>> = <<"host2", "host1">> ->
            <<Out("host2"), In("stack.2"), Out("stack.1"), In("host1")>>
      [] <<g, h>> = <<"host1", "host3">> ->
            <<Out("host1"), In("stack.1"), Out("stack.2"),
              In("stack2.1"), Out("stack2.2"), In("host3")>>
      [] OTHER -> <<Out(g)>>

\* The number of place x on a way, 0 if it is not on it.
NumberOn(way, x) ==
    LET here == {k \in DOMAIN way : way[k] = x}
    IN  IF here = {} THEN 0 ELSE CHOOSE k \in here : TRUE

MCNth == [g \in MCHost |-> [h \in MCHost |-> [x \in Place |-> NumberOn(MCWay(g, h), x)]]]

ASSUME WayAssumption == OneWay(MCNth) /\ Complete(MCNth)

=============================================================================
