------------------------------- MODULE Router -------------------------------
(***************************************************************************)
(* The router processes of the simulation (stack.c and stack2.c, with      *)
(* ethernet.c, arp.c, ip.c, tcp1.c and cs431vde.c linked into each).       *)
(*                                                                         *)
(* A router is one thread: it polls the pipes of its interfaces, then      *)
(* handles one frame of every interface the poll reported, in the order of *)
(* the interface table.  A handler reads one frame from the pipe of its    *)
(* interface and writes at most one frame to the pipe of some interface.   *)
(***************************************************************************)
EXTENDS Word32, Sequences, FiniteSetsExt

CONSTANTS
    Router,             \* the router processes
    Port,               \* where a vde_plug attaches a process to a switch
    Mac, Broadcast,     \* Ethernet addresses; the broadcast address is one
    NULL,               \* the C NULL
    AddInterface,       \* what main() of each router passes to
    AddRoute,           \*     add_interface, add_route and add_arp,
    AddArp,             \*     in call order
    MAX_INTERFACES, MAX_ROUTES, ARP_CACHE_SIZE,
    MaxTcpTableSize,    \* maxtcptablesize
    PipeCap             \* frames that fit in a pipe: a model bound

\* What main() passes are addresses and whole-byte masks; the interface of a
\* route is one that add_interface has set up before.
ASSUME TablesAssumption ==
    /\ NULL \notin Mac /\ Broadcast \in Mac
    /\ MAX_INTERFACES \in Nat /\ MAX_ROUTES \in Nat /\ ARP_CACHE_SIZE \in Nat
    /\ MaxTcpTableSize \in Nat /\ PipeCap \in Nat
    /\ \A r \in Router :
        /\ AddInterface[r] \in Seq([eth : Mac, ip : Word, port : Port])
        /\ AddRoute[r] \in Seq([dest : Word, netmask : Mask, gateway : Word, iface : Nat])
        /\ AddArp[r] \in Seq([eth : Mac, ip : Word])
        /\ \A k \in DOMAIN AddRoute[r] :
            AddRoute[r][k].iface \in (1 .. MAX_INTERFACES) \cap DOMAIN AddInterface[r]

\* Every interface has a pipe of its own.
ASSUME PortsAssumption ==
    \A r, s \in Router : \A i \in DOMAIN AddInterface[r], j \in DOMAIN AddInterface[s] :
        AddInterface[r][i].port = AddInterface[s][j].port => r = s /\ i = j

VARIABLES
    alive,          \* alive[r]: the process runs
    ready,          \* ready[r]: interfaces flagged POLLIN and not yet handled
    tcpTbl,         \* tcpTbl[r]: the occupied prefix of the TCP table
    established,    \* established[r]: peers "Connection established" was printed for
    inPipe,         \* inPipe[p]: frames the plug of p has written to its process
    outPipe         \* outPipe[p]: frames the process at p has written to its plug

routerVars == <<alive, ready, tcpTbl, established, inPipe, outPipe>>

-----------------------------------------------------------------------------
(* Frames and packets.  Contents are kept to what a handler reads.         *)

Flag == {"syn", "ack", "pshack", "finack", "other"}
Segment == [flags : Flag, seq : Word, ack : Word]

\* Who built a packet: a host or a kernel behind a tap, or a router's
\* send_ICMP or composeAck.
Reply == {"synAck", "dataAck", "finAck", "reflected"}
Error == {"ttlExceeded", "hostUnreachable"}
Kind == {"data", "tap"} \cup Error \cup Reply

\* chk tells the byte order of a right header checksum.  id names the host
\* message a packet carries or quotes (0: none).
Packet == [src : Word, dst : Word, ttl : Byte, chk : {"net", "swapped", "bad"},
           seg : Segment, kind : Kind, id : Nat]
Arp == [opcode : {1, 2}, sendereth : Mac, senderip : Word,
        targeteth : Mac, targetip : Word]

\* A handler builds its frame in an array of this size.
ETH_MAX_FRAME_LEN == 14 + 1500 + 4

\* No frame is shorter than an Ethernet header: crc32 is called for its length less 4, so
\* a frame of less than 4 bytes would send it through all memory (ethernet.c:54).

Frame ==
    LET Of(type, bodies) == [dst : Mac, src : Mac, type : {type}, len : 14 .. ETH_MAX_FRAME_LEN,
                             fcs : BOOLEAN, body : bodies]
    IN  Of("ip", Packet) \cup Of("arp", Arp) \cup Of("unknown", {NULL})

Minimum(a, b) == IF a < b THEN a ELSE b
Maximum(a, b) == IF a < b THEN b ELSE a

-----------------------------------------------------------------------------
(* The tables.  Only main() fills them, before the poll loop; a call that  *)
(* finds its table full returns -1, which main() ignores.                  *)

Filled(calls, size) == SubSeq(calls, 1, Minimum(Len(calls), size))

interfaces == [r \in Router |-> Filled(AddInterface[r], MAX_INTERFACES)]
routingTbl == [r \in Router |-> Filled(AddRoute[r], MAX_ROUTES)]
arpTbl     == [r \in Router |-> Filled(AddArp[r], ARP_CACHE_SIZE)]

PortsOf(r) == {interfaces[r][i].port : i \in DOMAIN interfaces[r]}

\* arp_lookup: the first entry for the address.  The empty slots behind the
\* entries hold address 0 and a NULL pointer, so they return NULL as well.
ArpLookup(r, ip) ==
    LET hits == {k \in DOMAIN arpTbl[r] : arpTbl[r][k].ip = ip}
    IN  IF hits = {} THEN NULL ELSE arpTbl[r][Min(hits)].eth

\* lookup_route: the first route whose destination is the masked address,
\* or is it after ntohs.
LookupRoute(r, ip) ==
    LET hits == {k \in DOMAIN routingTbl[r] :
                    LET e == routingTbl[r][k]
                    IN  Masked(ip, e.netmask) \in {e.dest, Ntohs(e.dest)}}
    IN  IF hits = {} THEN NULL ELSE routingTbl[r][Min(hits)]

\* The loop of handle_ip_packet over all MAX_INTERFACES slots: a slot that
\* main() left empty has address 0.
Local(r, ip) ==
    \/ \E i \in DOMAIN interfaces[r] : interfaces[r][i].ip = ip
    \/ ip = Zero /\ Len(interfaces[r]) < MAX_INTERFACES

\* lookup_tcp: NULL for an address without an entry.
LookupTcp(tbl, ip) ==
    LET hits == {k \in DOMAIN tbl : tbl[k].ip = ip}
    IN  IF hits = {} THEN NULL ELSE tbl[Min(hits)].eth

\* Mutants of AddTcp: no end to the search for a slot; a full table reuses one.
AddTcpUnbounded(tbl, eth, ip) == Append(tbl, [eth |-> eth, ip |-> ip])
AddTcpReuse(tbl, eth, ip) ==
    IF Len(tbl) < MaxTcpTableSize THEN Append(tbl, [eth |-> eth, ip |-> ip])
    ELSE [tbl EXCEPT ![1] = [eth |-> eth, ip |-> ip]]

\* add_tcp: the first empty slot, or -1 (ignored) when there is none.
AddTcp(tbl, eth, ip) ==
    IF Len(tbl) < MaxTcpTableSize THEN Append(tbl, [eth |-> eth, ip |-> ip]) ELSE tbl

-----------------------------------------------------------------------------
(* What the handlers compute.                                              *)

\* compose_ethernet_frame: data padded to 46 bytes, 14 of header, 4 of FCS.  That it
\* returns -1 for more than 1500 bytes of data, which the callers would take for a
\* length, never happens: RouterTypeOK.
ComposeEthernetFrame(dst, src, type, n, body) ==
    [dst |-> dst, src |-> src, type |-> type, len |-> 14 + Maximum(46, n) + 4,
     fcs |-> TRUE, body |-> body]

\* Mutant of ForMe: the Ethernet address is reported, not checked.
ForMePromiscuous(r, i, f) == f.len >= 46

\* handle_ethernet_frame: long enough, and for this interface or for everybody.
\* The frame check sequence is computed but the test of it is commented out.
ForMe(r, i, f) == f.len >= 46 /\ f.dst \in {interfaces[r][i].eth, Broadcast}

\* Mutants of Aged: the ttl is left as it is; the new checksum is computed over the old one.
AgedNot(p) == [p EXCEPT !.chk = "swapped"]
AgedUncleared(p) == [p EXCEPT !.ttl = (@ - 1) % 256, !.chk = "bad"]

\* The head of route_packet: ttl is a uint8_t, and compute_headchksum returns
\* the checksum in the order opposite to the one a header carries.
Aged(p) == [p EXCEPT !.ttl = (@ - 1) % 256, !.chk = "swapped"]

\* The station on the network of the route that takes the packet on.
NextHop(r, route, ip) ==
    IF route.gateway = Zero THEN ArpLookup(r, ip) ELSE ArpLookup(r, Htonl(route.gateway))

\* Mutant of ForwardedFrame: the check sequence is forwarded as data.
ForwardedWithFcs(r, route, f) ==
    ComposeEthernetFrame(NextHop(r, route, f.body.dst), interfaces[r][route.iface].eth,
                         "ip", f.len - 14, Aged(f.body))

\* The packet goes out without the frame check sequence it came with:
\* frame_len - 14 - 4 bytes of data.
ForwardedFrame(r, route, f) ==
    ComposeEthernetFrame(NextHop(r, route, f.body.dst), interfaces[r][route.iface].eth,
                         "ip", f.len - 18, Aged(f.body))

\* What a TCP header reads where an ICMP error has its own: handle_ip_packet does not look
\* at the protocol.  The numbers are the unused word and the start of the quoted
\* header (but for its length), the flags a byte of its id.
Misread(flags) == [flags |-> flags, seq |-> Zero, ack |-> <<69, 0, 0, 0>>]

\* send_ICMP: 20 bytes of header, 8 of ICMP and 28 of the refused packet, from
\* the interface of the route to the destination.
IcmpFrame(r, route, p, kind, flags) ==
    ComposeEthernetFrame(ArpLookup(r, p.src), interfaces[r][route.iface].eth, "ip", 56,
        [p EXCEPT !.src = interfaces[r][route.iface].ip, !.dst = p.src, !.ttl = 16,
                  !.chk = "swapped", !.seg = Misread(flags), !.kind = kind])

\* handle_arp_packet: the router answers for every address in its ARP table,
\* with its own interface as the sender.
ArpReply(r, i, f) ==
    LET me == interfaces[r][i]
    IN  ComposeEthernetFrame(f.body.sendereth, me.eth, "arp", 29,
            [f.body EXCEPT !.opcode = 2, !.sendereth = me.eth, !.senderip = me.ip,
                           !.targeteth = ArpLookup(r, f.body.targetip)])

\* Mutants of DataLen: the four bytes that handle_ip_packet took off count twice, or
\* not at all.
DataLenMore(len) == len - 50
DataLenLess(len) == len - 58

\* The data in a frame of len bytes: payload_len - 40 + 4, for the four bytes that
\* handle_ip_packet took off are data in a frame without check sequence.
DataLen(len) == len - 54

\* composeAck: the segment sent back for s in a frame of len bytes.  htonl(n) is
\* added to the number in network order as if both were host integers.
Acknowledged(s, len) ==
    CASE s.flags = "syn" ->
           [flags |-> "other", seq |-> Htonl(Plus(s.ack, ToWord(1))),
            ack |-> Plus(s.seq, Htonl(ToWord(1)))]
      [] s.flags = "pshack" ->
           [flags |-> "ack", seq |-> s.ack, ack |-> Plus(s.seq, Htonl(ToWord(DataLen(len))))]
      [] s.flags = "finack" ->
           [flags |-> "ack", seq |-> s.ack, ack |-> Plus(s.seq, Htonl(ToWord(1)))]
      [] OTHER -> s

ReplyKind(s) ==
    CASE s.flags = "syn" -> "synAck"
      [] s.flags = "pshack" -> "dataAck"
      [] s.flags = "finack" -> "finAck"
      [] OTHER -> "reflected"

\* payload_len at the end of composeAck.
ReplyLen(s, len) == IF s.flags \in {"pshack", "finack"} THEN 40 ELSE len - 18

AckFrame(r, route, f) ==
    LET p == f.body
    IN  ComposeEthernetFrame(ArpLookup(r, p.src), interfaces[r][route.iface].eth, "ip",
            ReplyLen(p.seg, f.len),
            [p EXCEPT !.src = p.dst, !.dst = p.src, !.chk = "swapped",
                      !.seg = Acknowledged(@, f.len), !.kind = ReplyKind(p.seg)])

\* Mutant of NoAck: data is acknowledged without a connection.
NoAckUnchecked(r, p) ==
    \/ ArpLookup(r, p.src) = NULL
    \/ LookupRoute(r, p.dst) = NULL

\* composeAck returns -1 before it has anything to send.
NoAck(r, p) ==
    \/ p.seg.flags = "pshack" /\ LookupTcp(tcpTbl[r], p.src) = NULL
    \/ ArpLookup(r, p.src) = NULL
    \/ LookupRoute(r, p.dst) = NULL

\* The process dies: add_tcp copies from the NULL that arp_lookup returned; a
\* length in composeAck wraps around and an array of that length is filled.
Faults(r, f) ==
    LET p == f.body
    IN  \/ /\ p.seg.flags = "ack"
           /\ ArpLookup(r, p.src) = NULL
           /\ Len(tcpTbl[r]) < MaxTcpTableSize
        \/ p.seg.flags = "syn" /\ f.len < 58
        \/ p.seg.flags = "pshack" /\ f.len < 54 /\ LookupTcp(tcpTbl[r], p.src) # NULL

-----------------------------------------------------------------------------
(* The poll loop of main().                                                *)

\* The interface the loop is at, the pipe it reads and the frame that is next.
Turn(r) == Min(ready[r])
Pipe(r) == interfaces[r][Turn(r)].port
Arrived(r) == Head(inPipe[Pipe(r)])

\* poll(): the interfaces that have something to read, as of now.  It does not fail.
Flagged(r) == {i \in DOMAIN interfaces[r] : inPipe[interfaces[r][i].port] # <<>>}

Poll(r) ==
    /\ alive[r]
    /\ ready[r] = {}
    /\ Flagged(r) # {}
    /\ ready' = [ready EXCEPT ![r] = Flagged(r)]
    /\ UNCHANGED <<alive, tcpTbl, established, inPipe, outPipe>>

\* Mutants of Remaining: the flag of the handled interface stays set; the loop
\* goes back to poll() after the first frame.
RemainingAll(r) == ready[r]
RemainingNone(r) == {}

\* What is left of the loop over the interfaces after the one at hand.
Remaining(r) == ready[r] \ {Turn(r)}

\* receive_ethernet_frame: read() blocks on an empty pipe.
Receive(r) ==
    /\ alive[r]
    /\ ready[r] # {}
    /\ inPipe[Pipe(r)] # <<>>
    /\ inPipe' = [inPipe EXCEPT ![Pipe(r)] = Tail(@)]
    /\ ready' = [ready EXCEPT ![r] = Remaining(r)]

\* send_ethernet_frame: write() blocks on a full pipe.
HasRoom(p) == Len(outPipe[p]) < PipeCap
Send(p, f) ==
    /\ HasRoom(p)
    /\ outPipe' = [outPipe EXCEPT ![p] = Append(@, f)]

IsArpRequest(r) ==
    LET f == Arrived(r) IN ForMe(r, Turn(r), f) /\ f.type = "arp" /\ f.body.opcode = 1

\* Mutant of IsIpPacket: a packet whose ttl is used up is not dropped.
IsIpPacketAny(r) ==
    LET f == Arrived(r)
    IN  ForMe(r, Turn(r), f) /\ f.type = "ip" /\ f.body.chk # "bad"

IsIpPacket(r) ==
    LET f == Arrived(r)
    IN  ForMe(r, Turn(r), f) /\ f.type = "ip" /\ f.body.ttl # 0 /\ f.body.chk # "bad"

IsSegment(r) == IsIpPacket(r) /\ Local(r, Arrived(r).body.dst)
IsTransit(r) == IsIpPacket(r) /\ ~Local(r, Arrived(r).body.dst)

\* Too short, for another station, of another type, an ARP reply, a dead
\* or a damaged packet.
Ignore(r) ==
    /\ Receive(r)
    /\ ~IsArpRequest(r) /\ ~IsIpPacket(r)
    /\ UNCHANGED <<alive, tcpTbl, established, outPipe>>

AnswerArp(r) ==
    /\ Receive(r)
    /\ IsArpRequest(r)
    /\ \/ /\ ArpLookup(r, Arrived(r).body.targetip) = NULL
          /\ UNCHANGED outPipe
       \/ /\ ArpLookup(r, Arrived(r).body.targetip) # NULL
          /\ Send(Pipe(r), ArpReply(r, Turn(r), Arrived(r)))
    /\ UNCHANGED <<alive, tcpTbl, established>>

SendIcmp(r, route, p, kind) ==
    \/ /\ ArpLookup(r, p.src) = NULL
       /\ UNCHANGED outPipe
    \/ /\ ArpLookup(r, p.src) # NULL
       /\ \E flags \in Flag :
            Send(interfaces[r][route.iface].port, IcmpFrame(r, route, p, kind, flags))

\* route_packet, one action for each of its ends.
RoutePacket(r) ==
    LET f == Arrived(r)
        p == Aged(f.body)
        route == LookupRoute(r, p.dst)
    IN  \/ /\ route = NULL              \* send_ICMP returns for a NULL route
           /\ UNCHANGED outPipe
        \/ /\ route # NULL
           /\ p.ttl = 0
           /\ SendIcmp(r, route, p, "ttlExceeded")
        \/ /\ route # NULL
           /\ p.ttl # 0
           /\ NextHop(r, route, p.dst) = NULL
           /\ SendIcmp(r, route, p, "hostUnreachable")
        \/ /\ route # NULL
           /\ p.ttl # 0
           /\ NextHop(r, route, p.dst) # NULL
           /\ Send(interfaces[r][route.iface].port, ForwardedFrame(r, route, f))

Transit(r) ==
    /\ Receive(r)
    /\ IsTransit(r)
    /\ RoutePacket(r)
    /\ UNCHANGED <<alive, tcpTbl, established>>

\* handle_tcp_packet for a bare ACK: it is reported whatever add_tcp returned.
Establish(r) ==
    LET p == Arrived(r).body
    IN  /\ Receive(r)
        /\ IsSegment(r)
        /\ p.seg.flags = "ack"
        /\ ~Faults(r, Arrived(r))
        /\ tcpTbl' = [tcpTbl EXCEPT ![r] = AddTcp(@, ArpLookup(r, p.src), p.src)]
        /\ established' = [established EXCEPT ![r] = @ \cup {p.src}]
        /\ UNCHANGED <<alive, outPipe>>

Acknowledge(r) ==
    LET f == Arrived(r)
        route == LookupRoute(r, f.body.dst)
    IN  /\ Receive(r)
        /\ IsSegment(r)
        /\ f.body.seg.flags # "ack"
        /\ ~Faults(r, f)
        /\ \/ NoAck(r, f.body) /\ UNCHANGED outPipe
           \/ /\ ~NoAck(r, f.body)
              /\ Send(interfaces[r][route.iface].port, AckFrame(r, route, f))
        /\ UNCHANGED <<alive, tcpTbl, established>>

-----------------------------------------------------------------------------
(* The process.  What it has not read goes with it; what it has written    *)
(* is left to its vde_plug children.                                       *)

Emptied(pipes, ports) == [p \in Port |-> IF p \in ports THEN <<>> ELSE pipes[p]]

Reset(r) ==
    /\ ready' = [ready EXCEPT ![r] = {}]
    /\ tcpTbl' = [tcpTbl EXCEPT ![r] = <<>>]
    /\ established' = [established EXCEPT ![r] = {}]
    /\ inPipe' = Emptied(inPipe, PortsOf(r))

\* main() up to the poll loop: new pipes, empty tables.  The user starts a router again
\* when the plugs of the process before have ended.
Boot(r) ==
    /\ ~alive[r]
    /\ \A p \in PortsOf(r) : outPipe[p] = <<>>
    /\ alive' = [alive EXCEPT ![r] = TRUE]
    /\ Reset(r)
    /\ UNCHANGED outPipe

\* Control-C reaches the plugs as well.
Terminate(r) ==
    /\ alive[r]
    /\ alive' = [alive EXCEPT ![r] = FALSE]
    /\ Reset(r)
    /\ outPipe' = Emptied(outPipe, PortsOf(r))

\* The plugs live on, until they have passed on what the process wrote.
Crash(r) ==
    /\ alive[r] /\ ready[r] # {} /\ inPipe[Pipe(r)] # <<>>
    /\ IsSegment(r)
    /\ Faults(r, Arrived(r))
    /\ alive' = [alive EXCEPT ![r] = FALSE]
    /\ Reset(r)
    /\ UNCHANGED outPipe

Handle(r) ==
    \/ Ignore(r)
    \/ AnswerArp(r)
    \/ Transit(r)
    \/ Establish(r)
    \/ Acknowledge(r)

\* The routers' variables have their types, a TCP table its maxtcptablesize slots,
\* every pipe its capacity and every frame the length that the arrays have room for.
RouterTypeOK ==
    /\ alive \in [Router -> BOOLEAN]
    /\ ready \in [Router -> SUBSET Nat]
    /\ \A r \in Router : ready[r] \subseteq DOMAIN interfaces[r]
    /\ tcpTbl \in [Router -> Seq([eth : Mac, ip : Word])]
    /\ \A r \in Router : Len(tcpTbl[r]) <= MaxTcpTableSize
    /\ established \in [Router -> SUBSET Word]
    /\ inPipe \in [Port -> Seq(Frame)]
    /\ outPipe \in [Port -> Seq(Frame)]
    /\ \A p \in Port : Len(inPipe[p]) <= PipeCap /\ Len(outPipe[p]) <= PipeCap

=============================================================================
