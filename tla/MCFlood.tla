------------------------------ MODULE MCFlood -------------------------------
(***************************************************************************)
(* One router between two networks with a host each, and on the first      *)
(* network a tap whose kernel may send for ever: broadcasts the router has *)
(* no use for and ARP requests that it answers.                            *)
(***************************************************************************)
EXTENDS Network

MCRouter == {"router"}
MCHost == {"a", "b"}
MCPort == {"a", "b", "tap", "router.1", "router.2"}
MCLan == [p \in MCPort |-> IF p \in {"b", "router.2"} THEN "net1" ELSE "net0"]
MCMac == MCPort \cup {"all"}
MCBroadcast == "all"

MCHostPort == [h \in MCHost |-> h]
MCHostMac == MCHostPort
MCHostIp == [a |-> <<10, 0, 0, 9>>, b |-> <<10, 0, 1, 9>>]

MCAddInterface ==
    [r \in MCRouter |->
        <<[eth |-> "router.1", ip |-> <<10, 0, 0, 1>>, port |-> "router.1"],
          [eth |-> "router.2", ip |-> <<10, 0, 1, 1>>, port |-> "router.2"]>>]

Route(dest, iface) ==
    [dest |-> dest, netmask |-> <<255, 255, 255, 0>>, gateway |-> Zero, iface |-> iface]
MCAddRoute ==
    [r \in MCRouter |-> <<Route(<<10, 0, 0, 0>>, 1), Route(<<10, 0, 1, 0>>, 2)>>]
MCAddArp ==
    [r \in MCRouter |-> <<[eth |-> "a", ip |-> MCHostIp.a], [eth |-> "b", ip |-> MCHostIp.b]>>]

MCScript ==
    [a |-> {[via |-> "router.1", to |-> MCHostIp.b, ttl |-> 16, len |-> 162]},
     b |-> {[via |-> "router.2", to |-> MCHostIp.a, ttl |-> 16, len |-> 162]}]
MCMaxRuns == [h \in MCHost |-> 1]

ArpRequest(ip) ==
    [dst |-> "all", src |-> "tap", type |-> "arp", len |-> 60, fcs |-> FALSE,
     body |-> [opcode |-> 1, sendereth |-> "tap", senderip |-> <<10, 0, 0, 4>>,
               targeteth |-> "all", targetip |-> ip]]
Noise ==
    [dst |-> "all", src |-> "tap", type |-> "unknown", len |-> 60, fcs |-> FALSE, body |-> NULL]

MCTapTraffic ==
    {[port |-> "tap", frame |-> f] :
        f \in {Noise, ArpRequest(MCHostIp.b)}}

=============================================================================
