------------------------------- MODULE MCLoop -------------------------------
(***************************************************************************)
(* Two routers on a middle network, each with a route to a far network by  *)
(* way of the other, as add_route allows: a message to the far network     *)
(* goes back and forth until its ttl is used up.  The left router knows    *)
(* the host in its ARP table, the right one does not.                      *)
(***************************************************************************)
EXTENDS Network

MCRouter == {"left", "right"}
MCHost == {"host"}
MCPort == {"host", "left.1", "left.2", "right.1", "right.2"}
MCLan ==
    [p \in MCPort |-> CASE p \in {"host", "left.1"} -> "net0"
                       [] p \in {"left.2", "right.1"} -> "net1"
                       [] p = "right.2" -> "net2"]
MCMac == {"host", "left.1", "left.2", "right.1", "right.2", "all"}

MCBroadcast == "all"

MCHostPort == [h \in MCHost |-> "host"]
MCHostMac == [h \in MCHost |-> "host"]
MCHostIp == [h \in MCHost |-> <<10, 0, 0, 9>>]

ClassC == <<255, 255, 255, 0>>
LeftMiddle == <<10, 0, 1, 1>>
RightMiddle == <<10, 0, 1, 2>>

MCAddInterface ==
    [left |-> <<[eth |-> "left.1", ip |-> <<10, 0, 0, 1>>, port |-> "left.1"],
                [eth |-> "left.2", ip |-> LeftMiddle, port |-> "left.2"]>>,
     right |-> <<[eth |-> "right.1", ip |-> RightMiddle, port |-> "right.1"],
                 [eth |-> "right.2", ip |-> <<10, 0, 3, 1>>, port |-> "right.2"]>>]

\* A gateway is written in the order that htonl turns into an address.
Route(dest, gateway, iface) ==
    [dest |-> dest, netmask |-> ClassC, gateway |-> gateway, iface |-> iface]
Far == <<10, 0, 2, 0>>

MCAddRoute ==
    [left |-> <<Route(<<10, 0, 0, 0>>, Zero, 1), Route(<<10, 0, 1, 0>>, Zero, 2),
                Route(Far, Htonl(RightMiddle), 2), Route(<<10, 0, 3, 0>>, Htonl(RightMiddle), 2)>>,
     right |-> <<Route(<<10, 0, 1, 0>>, Zero, 1), Route(<<10, 0, 3, 0>>, Zero, 2),
                 Route(Far, Htonl(LeftMiddle), 1)>>]

MCAddArp ==
    [left |-> <<[eth |-> "host", ip |-> <<10, 0, 0, 9>>],
                [eth |-> "right.1", ip |-> RightMiddle]>>,
     right |-> <<[eth |-> "left.2", ip |-> LeftMiddle]>>]

To(ip, ttl) == [via |-> "left.1", to |-> ip, ttl |-> ttl, len |-> 60]

\* Into the loop with a ttl that ends at the left router, and with one that ends
\* at the right; to a host that no ARP table has, on the network of the left
\* router and of the right; to a network without a route; to itself.
MCScript ==
    [h \in MCHost |->
        {To(<<10, 0, 2, 9>>, ttl) : ttl \in {0, 1, 4, 5}}
            \cup {To(<<10, 0, n, 7>>, 9) : n \in {1, 3, 7}} \cup {To(<<10, 0, 0, 9>>, 9)}]

MCMaxRuns == [h \in MCHost |-> 2]

=============================================================================
