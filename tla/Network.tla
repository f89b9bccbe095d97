------------------------------ MODULE Network -------------------------------
(***************************************************************************)
(* The simulated network: routers (module Router) and hosts (host1.c,      *)
(* host2.c, host3.c) attached to virtual switches, each switch one local   *)
(* network.  The switches (vde_switch -hub) with the vde_plug of each      *)
(* attached process, and the kernels behind the tap devices, are not part  *)
(* of the repository; they are modelled from how the programs and the      *)
(* setup scripts use them.                                                 *)
(***************************************************************************)
EXTENDS Router

CONSTANTS
    Host,               \* the host programs
    HostPort, HostMac, HostIp,
    Script,             \* Script[h]: what a run of h may send, by its argument
    Lan,                \* Lan[p]: the switch port p is on
    TapTraffic,         \* frames the kernels behind the taps may send, and where
    MayStop,            \* processes the user terminates
    MaxRuns, MaxBoots   \* bounds: runs of each host, boots of each router

\* The frames of the hosts and of the kernels are what the types say; hosts
\* write to routers, and only their packets are messages.
ASSUME HostsAssumption ==
    /\ NULL \notin Host
    /\ MayStop \subseteq Host \cup Router
    /\ \A h \in Host :
        /\ HostPort[h] \in Port /\ HostMac[h] \in Mac /\ HostIp[h] \in Word
        /\ MaxRuns[h] \in Nat
        /\ \A s \in Script[h] \ {NULL} :
            /\ s \in [via : Mac, to : Word, ttl : Byte, len : 14 .. ETH_MAX_FRAME_LEN]
            /\ \A g \in Host : s.via # HostMac[g]
    /\ MaxBoots \in Nat
    /\ \A t \in TapTraffic :
        /\ t \in [port : Port, frame : Frame]
        /\ t.frame.type = "ip" => t.frame.body.kind = "tap"

\* Every host has its own addresses and its own pipe.
ASSUME HostsApartAssumption ==
    /\ \A g, h \in Host :
        g # h => HostIp[g] # HostIp[h] /\ HostMac[g] # HostMac[h] /\ HostPort[g] # HostPort[h]
    /\ \A h \in Host, r \in Router : HostPort[h] \notin PortsOf(r)

\* The tables agree with the hosts.  An ARP entry for an address that a route
\* delivers to directly may name a host only if the address is this host's; the
\* entry of a gateway names no host.
ASSUME TablesAgreeAssumption ==
    \A r \in Router, h \in Host :
        /\ \A k \in DOMAIN arpTbl[r] :
            LET e == arpTbl[r][k]
            IN  e.eth = HostMac[h] /\ LookupRoute(r, e.ip) # NULL => e.ip = HostIp[h]
        /\ \A k \in DOMAIN routingTbl[r] :
            LET e == routingTbl[r][k]
            IN  e.gateway # Zero => ArpLookup(r, Htonl(e.gateway)) # HostMac[h]

VARIABLES
    up,         \* up[h]: host h runs
    runs,       \* runs[h]: how often h was started
    boots,      \* boots[r]: how often router r was started
    sent,       \* the messages of the hosts so far, in the order of sending
    shown,      \* shown[h]: the messages of hosts that h displayed, oldest first
    due         \* messages to a running host that no overflow, stop or crash has excused

hostVars == <<up, runs, sent, shown, due>>
vars == <<routerVars, boots, hostVars>>

-----------------------------------------------------------------------------
(* The switches.                                                           *)

Attached ==
    {HostPort[h] : h \in {g \in Host : up[g]}}
        \cup UNION {PortsOf(r) : r \in {s \in Router : alive[s]}}

\* Who hears a frame that enters the switch at p: a hub repeats it to all others.
Hearers(p) == {q \in Attached \ {p} : Lan[q] = Lan[p]}

\* A frame that finds the pipe of a hearer full is lost to this hearer.
Full(q) == Len(inPipe[q]) >= PipeCap
Repeated(p, f) ==
    [q \in Port |-> IF q \in Hearers(p) /\ ~Full(q) THEN Append(inPipe[q], f) ELSE inPipe[q]]

MacAt(q) ==
    {HostMac[h] : h \in {g \in Host : HostPort[g] = q}}
        \cup UNION {{interfaces[r][i].eth :
                        i \in {j \in DOMAIN interfaces[r] : interfaces[r][j].port = q}}
                    : r \in Router}

IsKind(f, kinds) == f.type = "ip" /\ f.body.kind \in kinds

\* Messages excused because the station a frame is for has no room for it.
Overrun(p, f) ==
    {n \in due : /\ IsKind(f, {"data"}) /\ f.body.id = n
                 /\ \E q \in Hearers(p) : Full(q) /\ f.dst \in MacAt(q)}

\* The plug and the switch pass on what the process at p wrote, also after a crash.
Relay(p) ==
    /\ outPipe[p] # <<>>
    /\ outPipe' = [outPipe EXCEPT ![p] = Tail(@)]
    /\ inPipe' = Repeated(p, Head(outPipe[p]))
    /\ due' = due \ Overrun(p, Head(outPipe[p]))
    /\ UNCHANGED <<alive, ready, tcpTbl, established, boots, up, runs, sent, shown>>

\* The plug of a router that has crashed ends with the first frame that it cannot pass to
\* the router any more.
PlugBreaks(p) ==
    /\ \E r \in Router : ~alive[r] /\ p \in PortsOf(r)
    /\ outPipe[p] # <<>>
    /\ outPipe' = Emptied(outPipe, {p})
    /\ UNCHANGED <<alive, ready, tcpTbl, established, inPipe, boots, hostVars>>

\* The kernel behind a tap sends a frame when it likes.
TapSends ==
    \E t \in TapTraffic :
        /\ Hearers(t.port) # {}
        /\ inPipe' = Repeated(t.port, t.frame)
        /\ UNCHANGED <<alive, ready, tcpTbl, established, outPipe, boots, hostVars>>

-----------------------------------------------------------------------------
(* The hosts.                                                              *)

Addressee(ip) == IF \E h \in Host : HostIp[h] = ip
                 THEN CHOOSE h \in Host : HostIp[h] = ip ELSE NULL

\* The frame array a host's main() holds.  Neither its checksum is in network
\* order nor do its last four bytes, where sent at all, check it.
HostFrame(h, m, n) ==
    [dst |-> m.via, src |-> HostMac[h], type |-> "ip", len |-> m.len, fcs |-> FALSE,
     body |-> [src |-> HostIp[h], dst |-> m.to, ttl |-> m.ttl, chk |-> "swapped",
               seg |-> [flags |-> "other", seq |-> Zero, ack |-> Zero],
               kind |-> "data", id |-> n]]

\* A message is due when it is sent while its addressee and the routers run.
NewlyDue(to, n) ==
    IF to # NULL /\ up[to] /\ \A r \in Router : alive[r] THEN {n} ELSE {}

\* main() up to the receive loop: connect, then send what the argument asks for.
Run(h) ==
    /\ ~up[h]
    /\ runs[h] < MaxRuns[h]
    /\ up' = [up EXCEPT ![h] = TRUE]
    /\ runs' = [runs EXCEPT ![h] = @ + 1]
    /\ \E s \in Script[h] :
           \/ /\ s = NULL
              /\ UNCHANGED <<outPipe, sent, due>>
           \/ LET n == Len(sent) + 1
                  to == Addressee(s.to)
              IN  /\ s # NULL
                  /\ Send(HostPort[h], HostFrame(h, s, n))
                  /\ sent' = Append(sent, [from |-> h, to |-> to, len |-> s.len, ttl |-> s.ttl])
                  /\ due' = due \cup NewlyDue(to, n)
    /\ UNCHANGED <<alive, ready, tcpTbl, established, inPipe, boots, shown>>

\* The message that a displayed frame shows, if it has one: a host tells nothing apart.
Displayed(f) == IF IsKind(f, {"data"}) THEN <<f.body.id>> ELSE <<>>

\* Mutant of Accepts: whatever the switch repeats is displayed.
AcceptsAll(h, f) == TRUE

\* The memcmp of the destination with the host's own Ethernet address.
Accepts(h, f) == f.dst = HostMac[h]

\* A turn of the receive loop: a frame to the host's own Ethernet address is
\* displayed, any other is reported as rejected.
Receives(h) ==
    LET f == Head(inPipe[HostPort[h]])
    IN  /\ up[h]
        /\ inPipe[HostPort[h]] # <<>>
        /\ inPipe' = [inPipe EXCEPT ![HostPort[h]] = Tail(@)]
        /\ \/ /\ Accepts(h, f)
              /\ shown' = [shown EXCEPT ![h] = @ \o Displayed(f)]
              /\ due' = due \ {n \in due : sent[n].to = h /\ Displayed(f) = <<n>>}
           \/ ~Accepts(h, f) /\ UNCHANGED <<shown, due>>
        /\ UNCHANGED <<alive, ready, tcpTbl, established, outPipe, boots, up, runs, sent>>

\* Control-C, which ends the host and its vde_plug.
Stop(h) ==
    /\ h \in MayStop /\ up[h]
    /\ up' = [up EXCEPT ![h] = FALSE]
    /\ inPipe' = Emptied(inPipe, {HostPort[h]})
    /\ outPipe' = Emptied(outPipe, {HostPort[h]})
    /\ due' = {n \in due : sent[n].to # h /\ sent[n].from # h}
    /\ UNCHANGED <<alive, ready, tcpTbl, established, boots, runs, sent, shown>>

-----------------------------------------------------------------------------
(* The routers, in the network.                                            *)

RouterRuns(r) == (Poll(r) \/ Handle(r)) /\ UNCHANGED <<boots, hostVars>>

RouterStarts(r) ==
    /\ boots[r] < MaxBoots
    /\ Boot(r)
    /\ boots' = [boots EXCEPT ![r] = @ + 1]
    /\ UNCHANGED hostVars

\* The user ends a router, or a segment does: either excuses what is due.
RouterEnds(r) ==
    /\ (r \in MayStop /\ Terminate(r)) \/ Crash(r)
    /\ due' = {}
    /\ UNCHANGED <<boots, up, runs, sent, shown>>

Init ==
    /\ alive = [r \in Router |-> FALSE]
    /\ ready = [r \in Router |-> {}]
    /\ tcpTbl = [r \in Router |-> <<>>]
    /\ established = [r \in Router |-> {}]
    /\ inPipe = [p \in Port |-> <<>>]
    /\ outPipe = [p \in Port |-> <<>>]
    /\ boots = [r \in Router |-> 0]
    /\ up = [h \in Host |-> FALSE]
    /\ runs = [h \in Host |-> 0]
    /\ sent = <<>>
    /\ shown = [h \in Host |-> <<>>]
    /\ due = {}

SystemStep ==
    \/ \E r \in Router : RouterRuns(r)
    \/ \E h \in Host : Receives(h)
    \/ \E p \in Port : Relay(p)

Next ==
    \/ SystemStep
    \/ \E r \in Router : RouterStarts(r) \/ RouterEnds(r)
    \/ \E h \in Host : Run(h) \/ Stop(h)
    \/ \E p \in Port : PlugBreaks(p)
    \/ TapSends

Spec == Init /\ [][Next]_vars

\* Nobody must start or stop a process, and a kernel need not send.  Of the
\* processes and the switches it is enough that one of those that can go on does.
Progress == WF_vars(SystemStep)

\* Each process and switch that can go on does: needed only when the kernels may
\* send for ever.
Fairness ==
    /\ \A r \in Router : WF_vars(RouterRuns(r))
    /\ \A h \in Host : WF_vars(Receives(h))
    /\ \A p \in Port : WF_vars(Relay(p))

ProgressSpec == Spec /\ Progress
FairSpec == Spec /\ Fairness

-----------------------------------------------------------------------------
(* Properties.                                                             *)

Message == [from : Host, to : Host \cup {NULL}, len : Nat, ttl : Byte]

\* Every variable has its type: for the routers' that includes the bounds of the
\* TCP table (maxtcptablesize), of the pipes and of the frames (ETH_MAX_FRAME_LEN),
\* and that poll() flags interfaces.
TypeOK ==
    /\ RouterTypeOK
    /\ boots \in [Router -> Nat]
    /\ up \in [Host -> BOOLEAN]
    /\ runs \in [Host -> Nat]
    /\ sent \in Seq(Message)
    /\ shown \in [Host -> Seq(Nat)]
    /\ due \subseteq DOMAIN sent

\* An interface that a router still has to handle has a frame in its pipe: the
\* one-thread poll loop of main() never blocks in a read, which would keep the
\* router from its other interfaces, although it acts on the answer of an
\* earlier poll().
ReadsNeverBlock ==
    \A r \in Router : \A i \in ready[r] : inPipe[interfaces[r][i].port] # <<>>

\* Every frame in some pipe.
InTransit ==
    UNION {{inPipe[p][k] : k \in DOMAIN inPipe[p]} \cup
           {outPipe[p][k] : k \in DOMAIN outPipe[p]} : p \in Port}

\* A host displays only messages for it, although it accepts frames by their
\* Ethernet address alone: the routes and ARP tables of all routers on the way
\* agree with the addresses of the hosts.
NoMisdelivery ==
    \A h \in Host : \A k \in DOMAIN shown[h] : sent[shown[h][k]].to = h

\* Why: a message on its way is for the addressee of the packet, and a frame with
\* a host's Ethernet address carries only messages to this host (the part of the
\* inductive invariant that is about the frames).
Routed ==
    \A f \in InTransit :
        IsKind(f, {"data"}) =>
            /\ f.body.id \in DOMAIN sent
            /\ sent[f.body.id].to = Addressee(f.body.dst)
            /\ \A h \in Host : f.dst = HostMac[h] => sent[f.body.id].to = h

Service == INSTANCE Datagram WITH
    Nobody <- NULL,
    messages <- [n \in DOMAIN sent |-> [from |-> sent[n].from, to |-> sent[n].to]],
    display <- shown

\* The network implements the datagram service: whatever the switches repeat,
\* and however often hosts and routers are started and stopped, a message is
\* displayed at its addressee only, at most once and in the order of sending.
ImplementsDatagram == Service!Spec

\* However many routers a message passes, its frame has the length it was sent
\* with, padded to the 64 bytes of the shortest frame: what ethernet.c and ip.c
\* subtract for the header and the frame check sequence they add again.
LengthKept ==
    \A f \in InTransit :
        IsKind(f, {"data"}) =>
            f.len \in {sent[f.body.id].len, Maximum(64, sent[f.body.id].len)}

\* A message never has a longer life than its sender gave it: the ttl, a uint8_t that
\* route_packet decrements before it looks at it, does not wrap around on any way
\* through the routers (ip.c:101), also if the sender gave it none.
TtlOnlyFalls ==
    \A f \in InTransit : IsKind(f, {"data"}) => f.body.ttl <= sent[f.body.id].ttl

\* No process is in the middle of anything and all pipes are empty.
Quiet ==
    /\ \A r \in Router : ready[r] = {}
    /\ \A p \in Port : inPipe[p] = <<>> /\ outPipe[p] = <<>>

\* A message sent while its addressee and all routers run is not lost on the
\* way, unless one of them is stopped, a router crashes or a pipe overflows: when
\* all is quiet, no message is still due.
NothingLost == Quiet => due = {}

\* Such a message is displayed in the end: again and again there comes a time
\* when none is due.
Delivered == []<>(due = {})

\* Once the hosts have sent what they send, the network falls silent, even if
\* the routes form a loop: a packet is forwarded less often than its ttl says.
FallsSilent ==
    <>[](\A p \in Port : inPipe[p] = <<>> /\ outPipe[p] = <<>>)

\* A router acknowledges data only to a peer that has completed the handshake:
\* one that has an entry in the TCP table of that router, for as long as the
\* acknowledgement is on its way out and the router runs.  Stated for networks of one router, which
\* itself built every acknowledgement it sends.
DataAcksOnlyToPeers ==
    \A r \in Router : \A p \in PortsOf(r) : \A k \in DOMAIN outPipe[p] :
        LET f == outPipe[p][k]
        IN  alive[r] /\ IsKind(f, {"dataAck"}) =>
                f.body.dst \in {tcpTbl[r][j].ip : j \in DOMAIN tcpTbl[r]}

\* While a router runs, no peer loses its entry in the TCP table and no entry
\* changes: further handshakes, a full table and a FIN leave the entries alone.
PeersKept ==
    [][\A r \in Router : alive[r] /\ alive'[r] =>
            /\ Len(tcpTbl[r]) <= Len(tcpTbl'[r])
            /\ \A j \in DOMAIN tcpTbl[r] : tcpTbl'[r][j] = tcpTbl[r][j]]_vars

\* A router that nobody terminates runs on (README.md:8).
RunsUntilTerminated ==
    \A r \in Router : boots[r] > 0 /\ r \notin MayStop => alive[r]

\* "establish connection through adding tcp to tcp connnection table"
\* (tcp1.c:40): a peer reported as established has an entry.
EstablishedHasEntry ==
    \A r \in Router : established[r] \subseteq {tcpTbl[r][j].ip : j \in DOMAIN tcpTbl[r]}

\* "find ethernet address to return ICMP packet" (ip.c:216), "reroute, send it
\* back" (ip.c:266): an ICMP error leaves to the network the station it is
\* addressed to is on.
ErrorsReturn ==
    \A r \in Router : \A p \in PortsOf(r) : \A k \in DOMAIN outPipe[p] :
        LET f == outPipe[p][k]
        IN  IsKind(f, Error) => \E q \in Port : Lan[q] = Lan[p] /\ f.dst \in MacAt(q)

\* A router "checks them for [...] valid frame check sequence" (README.md:6): it
\* routes no packet that came in a frame with a wrong one.
FcsChecked ==
    [][\A r \in Router : Transit(r) => Arrived(r).fcs]_vars

=============================================================================
