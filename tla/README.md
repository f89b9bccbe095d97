# A verification of the network simulation

This directory holds TLA+ models of the programs under `src/simulation` and
`src/ethernet-study`, the TLC configurations that check them on small instances, and TLAPS
proofs of what holds for every instance. All file names below are relative to
`src/simulation` unless they say otherwise.

## The system

The repository simulates a network on one machine. A *router* (`stack.c`, `stack2.c`) and a
*host* (`host1.c`, `host2.c`, `host3.c`) are processes. `vde_switch -hub` processes are the local
networks, and every process is attached to a switch by a `vde_plug` child, through one pipe for each
direction (`connect_to_vde_switch`). A router forwards IP packets between its interfaces by a static
routing table and a static ARP table, answers ARP requests, returns ICMP errors and plays the
server's part of a TCP connection. A host sends one frame, given its argument, and then displays
what comes to its Ethernet address until it is terminated. Three studies
(`src/ethernet-study`) simulate stations on a shared medium, on a hub and on a switch, and
are programs of their own.

| Component | State | Operations | Hard behaviour | Modules |
|---|---|---|---|---|
| poll loop, `stack.c`, `stack2.c` | interfaces, the answer of `poll()` | boot, `poll()`, one frame of each flagged interface, Control-C | acts on an answer of `poll()` that is stale by the time it is used; one thread for all interfaces | `Router`, `Network` |
| Ethernet, `ethernet.c` | none | `handle_ethernet_frame`, `compose_ethernet_frame` | every frame is heard by every station of a network; lengths with and without check sequence | `Router` |
| ARP, `arp.c` | `arpTbl`, filled by `main()` | `arp_lookup`, `handle_arp_packet` | byte orders | `Router` |
| IP and ICMP, `ip.c` | `routingTbl`, filled by `main()` | `handle_ip_packet`, `route_packet`, `send_ICMP`, checksums | routing loops, uint8_t ttl, errors that cannot be returned, byte orders | `Router`, `Checksum` |
| TCP, `tcp1.c` | `tcpTbl`, grows and never shrinks | `handle_tcp_packet`, `composeAck`, `add_tcp`, `lookup_tcp` | order and loss of segments, a full table, NULL from a lookup, arithmetic in the wrong byte order | `Router`, `TcpSession`, `Checksum` |
| pipes, `cs431vde.c` | bytes in two pipes per plug, descriptors | `send_ethernet_frame`, `receive_ethernet_frame`, `connect_to_vde_switch` | blocking writes and reads, two writes per frame, short reads, inherited descriptors | `VdePipe`, `Plugs` |
| hosts | the frames displayed | send by argument, receive loop, Control-C | start and stop in any order, also while frames are on their way | `Network` |
| CRC-32, `crc32.c` | the register | one byte after the other | a wrong entry among 256, the order of the stored bytes | `Crc32` |
| `src/ethernet-study` | times to send, counts of a cycle | backoff, hub, switch | collisions, times that have passed, off-by-one in a target, counts that must add up | `Backoff`, `Hub`, `Switch` |
| switches, plugs, taps (external) | attached processes | repeat a frame to all others | a kernel behind a tap sends what and when it likes | `Network`, `VdePipe`, `TcpSession` |
| hex utilities, old senders, socket example | none | formatting, one frame | see "Not modelled" | |

The components interact by frames in pipes only, but for the calls inside a router: the poll loop
calls `handle_ethernet_frame`, which calls the ARP or the IP handler, which calls the router or the
TCP handler, and every one of them may end in one `send_ethernet_frame`.

What makes them correct: a router never hangs in a read and serves all its interfaces; a pipe keeps
frames whole and never makes a process and its plug wait for each other; a message is
displayed by its addressee, only there, once, in order, in a frame of the length it was sent with, and not lost without a reason; no
packet circulates for ever; tables and buffers keep their bounds; data is acknowledged to a peer
of an established connection only, and never ahead of what it sent; a connection finishes; damage is
noticed; errors go back to the sender; plugs end with their process. `PROJECT.json` lists, under
"hazards", the lines where each of these could go wrong.

## The modules

| Module | What it models |
|---|---|
| `Word32` | uint32_t values of a little-endian host as four bytes: masks, `htonl`, `ntohs` of a 32-bit value, addition modulo 2^32 |
| `Router` | the router process and all its handlers, over its pipes |
| `Datagram` | the abstract service of `src/README.md`: a message is delivered to its addressee at most once, in order |
| `Network` | routers, hosts, switches, plugs and taps together; the specification, the fairness and their properties; implements `Datagram` |
| `Paths` | the ways of messages through a network, and the invariants of the copies of a message that are on their way |
| `FrameQueue` | the abstract pipe: a queue of frames for each interface |
| `VdePipe` | the pipes between a process and its plugs, byte by byte; implements `FrameQueue` |
| `TcpSession` | a client that retransmits, a network that loses frames, and the router of `Router` |
| `Plugs` | `pipe`, `fork`, `close`, `exec` for one interface after the other, and how the processes end |
| `Backoff`, `Hub`, `Switch` | the three studies |
| `Crc32` | `crc32()` and its table, and where the sequence is stored |
| `Checksum` | `compute_headchksum`, `compute_icmp_checksum`, `compute_tcp_checksum`, `verify_checksum` |
| `Programs` | one of six programs run by itself: a study, the start of the plugs, or a function over bytes (`Crc32`, `Checksum`) |
| `MCDemo`, `MCLoop`, `MCFlood`, `MCTcp`, `MCPipe`, `MCSession`, `MCPrograms` | instances for TLC |
| `RouterProofs`, `NetworkProofs`, `VdePipeProofs`, `TcpSessionProofs`, `PlugsProofs`, `BackoffProofs`, `SwitchProofs`, `ProgramsProofs` | lemmas and theorems |

### Correspondence: the network

*State.* `ready[r]` is the set of interfaces whose `revents` still has to be looked at in this turn
of the loop of `main()`; `tcpTbl[r]` is the occupied prefix of `tcpTbl` (slots are filled from the
front and never emptied); `inPipe[p]` and `outPipe[p]` are the two pipes of the plug at switch port
`p`; `established[r]` are the peers for which "Connection established" was printed. The routing,
ARP and interface tables change only in `main()` before the loop, so they are constants: `AddRoute`,
`AddArp` and `AddInterface` are the calls that `main()` makes, and `Filled` what is left of them when a
table is full. `sent`, `shown` and `due` are history: the messages the hosts have sent, the numbers of
those that each host has displayed, and which of them nothing has excused from arriving: a message is excused when it
meets a full pipe, when a user stops a process, or when a router crashes.

*Actions.* `Poll` is the call of `poll()`. The other actions of a router are the ends that
one call of `handle_ethernet_frame` can have: `Ignore`, `AnswerArp`, `Transit` (with a disjunct for each
exit of `route_packet`), `Establish`, `Acknowledge` and `Crash`. Each takes one frame from
the pipe of the interface whose turn it is. `Run`, `Receives` and `Stop` are the host programs.
`Relay` is the plug and the switch passing on one frame, `TapSends` a kernel. A router that crashes leaves its plugs alive:
they pass on what it wrote (`Relay`) until one of them cannot write to the router any more and ends (`PlugBreaks`).

*Abstractions.*

- A handler is one step, from its read to its write. Nothing else reads or changes the state of a
  router, and the pipe it reads only grows meanwhile, so no interleaving is lost; a write that would
  block blocks the whole step instead of its last part.
- A pipe holds whole frames, at most `PipeCap` of them, and a frame that meets a full pipe on its
  way from the switch is dropped for that listener. The two writes and reads of a frame are one;
  `VdePipe` takes them apart and shows that they behave like one.
- The content of a message is not modelled: a message arrives *whole* if its frame has the right length (`LengthKept`). Even the
  bytes of the repository's own hosts do not all arrive: `host1.c` sends 170 of the 174 bytes of its frame, and the router,
  which takes the last four for the check sequence, overwrites them with its own.
- `poll()` does not fail, so the `exit(1)` behind it is left out. A router is started again only after the plugs of its last
  run have ended.
- A checksum is the byte order it is stored in (`chk`), or bad; a check sequence is right or wrong
  (`fcs`). A header checksum is accepted in both orders, as `verify_checksum` does (`Checksum`).
- A packet is what some handler reads: addresses, ttl, flags, sequence numbers, and who built it
  (`kind`) and which message it carries or quotes (`id`). `len` is the length of the frame. An ICMP error that
  a router takes for a TCP segment (`handle_ip_packet` does not look at the protocol) shows it the bytes of the quoted header (`Misread`).
- Frames that enter have 14 to 1518 bytes and an IP header of 20 bytes. That the routers never
  *build* a longer one is proved.
- Undefined behaviour that ends the process is `Crash` (`Faults`: the copy from NULL in `add_tcp`,
  an array of negative size in `composeAck`). The over-reads of displaying code
  (`binary_to_hex`, `printf("%s")` of an unterminated array), the eight bytes that `memset` writes into
  the four that are left of an ICMP header, the seven that `host2.c:65` reads behind its array when host 1's frame comes
  (it has 163 bytes, the frame 170), what `crc32` reads for a frame of less than four bytes, and memory leaks are left out.
- Netmasks cover whole bytes, as all those in the code do.

### Correspondence: the other modules

*`VdePipe`.* `written`, `taken` and `toPlug` count the bytes of the pipes, so that a position says which
byte of which frame is read next. Every `read` and `write` of `receive_ethernet_frame` and `send_ethernet_frame` is
an action of its own (`ReadLength`, `ReadData`, `SendsLength`, `SendsData`), which the steps of the plugs
may fall between. What the handlers do with a frame is a choice: nothing, or one frame to any interface. The plug
is external: it collects what it reads until a frame is whole, writes a length and then the
data. That it has read all there is on its standard input before it takes a frame from the switch (`PlugTakes`) is an
assumption: nothing is shown of a plug that reads a bounded buffer and then turns to the switch. `write` follows POSIX: what is no longer than
`PIPE_BUF` is written at once or not at all.

*`TcpSession`* extends `Router`, whose handlers it uses unchanged. The client is the kernel that
`setuptcp.sh` puts behind the tap, external, and kept to what RFC 793 demands of every client: it counts a
SYN, its bytes and a FIN, keeps at most a window of segments unacknowledged, sends again from the
oldest one (in the old pieces or joined), answers a SYN ACK with a wrong number by a reset, and repeats its ACK. Its flags are
those the code tells apart; it closes when its data is acknowledged. What its program writes is given by the offsets
`WriteEnds` at which a write ends and by `DataEnd`, where the last one does: the bytes themselves do not matter,
as the router only counts them. Frames are lost in both directions.
The router writes the checksum of a reply's header with its bytes turned (`tcp1.c:147`), so a kernel accepts it only when both bytes are equal.
That depends on the `id` of the packet, which `composeAck` leaves as it came. If the client's kernel counts its packets, a reply that is sent again has another
checksum, and is accepted now and then; if it gives all packets the same `id`, the reply is refused each time or never. `legible`, chosen once, is the
set of the kinds of replies that it can accept; it never accepts the others. `SYN ACK` replies carry the options of the SYN back as
they are, which the model leaves out.

*`Plugs`.* `open[p]` is the set of pipe ends that process `p` has; `fork` copies it, so a later plug
holds ends of the earlier pipes. Every call that can fail may fail, and any process may be killed at any time.

*`Backoff`.* `ahead[i]` is `sendnext - time`, with -1 for every time that has passed, which makes the
state finite. `Waits` is the set of values that rounding a random byte can give (`RoundingAssumption` states why, and TLC
evaluates it for ranges up to 2^23). The program's range doubles without limit, the model's stops after `MaxCycle` collisions of the device. Up
to one collision more the model takes the program's steps; with the greatest `MaxCycle`, 30, these are the first 31 collisions
of each device, for which the program's ints suffice. After that `sendnext` may overflow, which is not modelled (`Readme` reports up to 11
collisions). *`Switch`.* A target is kept in 256ths, since the code compares the fraction. What lies behind the
array `collided`, where the last device may count a frame (`strayed`), is the compiler's choice: padding or an int that is not
used any more (gcc without optimisation has padding there, or, if `X` is a multiple of 4, `argv`), or one of `main`'s counters (`Behind`). *`Hub`.* `alone` is history.

*`Crc32`.* A 32-bit word is the set of its bits that are 1. The table's entries are written as two halves, as in TLC
a number has 32 bits with its sign. The reference is the division of polynomials bit by bit, the
one the comment at the head of the file describes. *`Checksum`.* One pass of a loop is a step; `damaged` is history: whether a bit of
the header was changed, any but the four that give its length (`ihl`). From a damaged `ihl` `verify_checksum` copies more than the 20 bytes
its copy has place for, or leaves the addresses out of the sum and may accept (`ip.c:307`); that is not modelled. The reference is RFC 1071. `sum` has no width: the 32 bits of the code hold
the words of 131072 bytes, and no frame has more than 1518. The last odd byte is modelled for ICMP, whose code adds 255 to it; TCP
with an odd length is left out, because it reaches the function only for data in a SYN.

## What TLC checks

| Run | Instance | Shows | Distinct states |
|---|---|---|---|
| `demo` | the two routers and three hosts of `stack.c`, `stack2.c`, `host*.c` with their real tables; hosts 1 and 2 may be stopped at any time | `ReadsNeverBlock`, `NoMisdelivery`, `LengthKept`, `NothingLost`, and that the network implements `Datagram`; also that its ways are lines (`WayAssumption`) | 148,751 |
| `loop` | two routers whose routes to a far network point at each other; every kind of refusal; one router may be stopped | `TtlOnlyFalls`, `FallsSilent` | 17,930 |
| `flood` | a kernel on one of two networks may send for ever | `Delivered` | 66,238 |
| `tcp` | one router, three peers, segments of all kinds and lengths in all orders, a table of two entries, crashes and one restart | `TypeOK`, `DataAcksOnlyToPeers`, `PeersKept` | 483,973 |
| `pipe` | a process and two plugs, three frames from each, pipes of eight bytes | `FramesWhole` (implements `FrameQueue`), `NoStandoff`, `CatchesUp` | 507,150 |
| `session` | two writes and a FIN, one or two segments on their way, six initial sequence numbers, any loss, a kernel that accepts all replies or only the SYN ACK | `AcksNeverAhead`, `OneAtATimeIsSafe`, `Finishes` | 31,152 |
| `programs` | three devices, two cycles, three plugs, all single bytes, headers with every bit but those of the length damaged | the properties of `Backoff`, `Hub`, `Switch`, `Plugs`, `Crc32` and `Checksum`, which `Programs` repeats for the program that runs | 15,907 |

What the newer properties say, and why one might doubt them:

- `TtlOnlyFalls`: `route_packet` decrements a uint8_t before it compares it with 0, so a message with a ttl of 0 would live
  for another 255 routers. `handle_ip_packet` drops it before.
- `FramesWhole`: `receive_ethernet_frame` does not check how much its two `read` calls got, and
  `poll` may report the length before the data is there. It works because the second `read` blocks until
  there is something, and then all of it is there, as the plug writes it in one piece.
- `NoStandoff`, `CatchesUp`: a process that writes while a plug writes would wait for ever. It takes more frames
  than a pipe holds.
- `AcksNeverAhead`: `composeAck` adds to a number in network order, so a carry goes to the wrong byte or
  is lost; the number then lags by one of four amounts and never acknowledges what was not sent. `Finishes` says
  that a connection ends when no addition carries and the client's kernel accepts the replies that acknowledge data and the FIN; otherwise the client
  sends the same segment for ever.
- `OneAtATimeIsSafe`: the router keeps no number of what it received, and yet no byte is
  acknowledged that it has not displayed, if a client has one segment at a time on its way.
- `NotStranded`, `AllReceived`: times are compared for equality, so a station with a time that has passed would
  never send, and the loop would never end.
- `HubAccounts`, `SwitchAccounts`: what is counted device by device adds up over cycles, in the switch as long as no frame is counted behind
  the array, which may be one of the counters. `OnlyLastMisaims`: the target is
  compared as a fraction, so the last device may count a frame for itself or behind the array, but no other.
- `PlugsEnd`, `PlugEndIsSeen`: wherever the start of a process fails, nothing stays attached to a switch, and
  a running process can see that a plug is gone, whatever ends other plugs have inherited.
- `CrcRight`, `Residue`, `ChecksumRight`, `DamageSeen`: the functions compute what the standards demand, and a header
  with one damaged bit, other than those of its length, is refused although either byte order is accepted.

Five runs look for a violation and find it; they are the findings of `PROJECT.json`.

| Run | What the repository says | What the code does |
|---|---|---|
| `icmp_errors` | `ip.c:216`, `ip.c:266`: the error is sent back | it leaves by the interface of the route to the destination, to a network the sender is not on |
| `tcp_table` | `tcp1.c:40`: a connection is established by adding it to the table | it is reported as established when `add_tcp` returned -1 |
| `tcp_stranger` | `src/README.md:8`: routers run until terminated | an ACK from an address without an ARP entry ends the process |
| `frame_check` | `src/README.md:6`: frames are checked for a valid frame check sequence | the comparison is commented out |
| `session_lost` | `src/README.md:6`: the TCP protocol is implemented | data is acknowledged that was lost before the segment that came |

`tcp_stranger` is kept to ACKs. A SYN without TCP options (in a frame of less than 58 bytes, `tcp1.c:85`) ends a router as well, and
the last device of the switch study writes behind its array (`switch.c:54`): the models contain both (`Faults` of `Router`, `Stray` of `Switch`),
and the passing runs go on after them.

### Bounds

`PipeCap = 2` lets pipes fill up, so that writers block and listeners overflow. `MaxRuns` lets host 1
send twice (both its arguments, or one of them twice), which is what order and duplication need.
`MaxBoots = 1`, or 2 in `tcp`, where a restart loses a table that peers still rely on. `MaxTcpTableSize = 2`
in `tcp`: the table is full after two ACKs, with two peers and repeated ACKs.
The ttl in `loop` is small (0, 1, 4, 5) so that it ends at either router.

In `pipe`, `PIPE_BUF = 2` and frames of one and two bytes keep the proportion that matters: no frame is longer than
`PIPE_BUF` (1518 bytes against 4096). `PIPE_SIZE = 8` is the least for which `NoStandoff` holds: a pipe must hold
two frames that the process can write to one plug while this plug waits for it; with 7 or fewer TLC finds them both waiting. The real
pipe holds 65536 bytes, some forty frames, and the process writes one frame for each it reads.
`MaxFrames = 3` from each plug fills both pipes.

In `session` the writes of 3 and 259 bytes change the lowest byte and the two lowest bytes of a number, and
the initial sequence numbers are chosen so that nothing carries, or the SYN, the first write, the
second write or the FIN does, or all four bytes turn over. In `programs`, three devices give collisions of two and of three, two cycles
are what a count that is not cleared needs, `MaxCycle = 3` keeps the waiting times few (the theorem is for up to 30), and three plugs give one that was
forked before and one after the plug at hand. `Data` looks up every entry of the CRC table.

Each mutant in `PROJECT.json` is a plausible bug that one of these runs finds, which shows the bounds are large enough for
the property to be at stake.

`CHECK_DEADLOCK FALSE` is set everywhere because the system may stop: when hosts
have sent what they send and no process is started or stopped, nothing happens; studies and functions end.

### Fairness

`Progress` (run `loop`) only says that the system as a whole goes on: if some router, host or switch can take
a step, one of them does. `Fairness` of `Network` (run `flood`) says so of every process and every switch port, as the
scheduler of the operating system does for a runnable process; it is needed where a tap may keep
one network busy for ever. Neither says anything of the user, who need not start or stop a process, or
of the kernels, which need not send; and neither is strong: a process that is blocked by a full pipe is not
promised anything but that it can go on when there is room. `Fairness` of `VdePipe` and of `Plugs` is of
the same kind, for the process and every plug.

`Fairness` of `TcpSession` is strong for two actions: a segment that is sent again and again arrives again and
again, and so does a reply of a kind that the client's kernel can accept (`legible`). Of the others nothing is promised, as a
kernel with constant `id`s refuses them every time. The client never gives up. A network that loses everything for ever is excluded, one that
loses any finite number is not; without this no protocol can promise anything. `Finishes` is
about connections that have an entry in `tcpTbl` and whose replies to data and to the FIN are legible: the ACK of the handshake may be lost, the router then ignores
all data, and no document says what should happen. `Fairness` of
`Backoff` is strong for the steps after which one device is first alone: `getrandom` draws a byte for each device, so
drawing together for ever has probability zero, and the fairness excludes nothing else.

## What is proved

The theorems hold for all sets of routers, hosts, interfaces and devices, all tables and all bounds that satisfy the
named assumptions.

| Theorem | Module | Statement |
|---|---|---|
| `TypeCorrect` | `NetworkProofs` | `Spec => []TypeOK`: types, at most `MaxTcpTableSize` entries, at most `PipeCap` frames, no frame longer than `ETH_MAX_FRAME_LEN` |
| `NeverBlocked` | `NetworkProofs` | `Spec => []ReadsNeverBlock` |
| `EntriesKept` | `NetworkProofs` | `Spec => PeersKept` |
| `NeverMisdelivered` | `NetworkProofs` | `Spec => []NoMisdelivery` |
| `LengthNeverDrifts` | `NetworkProofs` | `Spec => []LengthKept` |
| `LifeNeverGrows` | `NetworkProofs` | `Spec => []TtlOnlyFalls` |
| `DataAcksGoToPeers` | `NetworkProofs` | `Spec => []DataAcksOnlyToPeers`, if there is one router |
| `AcksAreEarned` | `NetworkProofs` | `Spec => []AcksEarned`: an acknowledgement of data in any pipe comes from an address of a router that was started and, if this one has run ever since, goes to a peer in its table; any number of routers |
| `FramesArriveWhole` | `VdePipeProofs` | `Spec => FramesWhole`: `VdePipe` implements `FrameQueue`, if no frame is longer than `PIPE_BUF` |
| `DatagramImplemented` | `NetworkProofs` | `Spec => ImplementsDatagram`: `Network` implements `Datagram`, if all ways are lines (`OneWay`) |
| `NoMessageLost` | `NetworkProofs` | `Spec => []NothingLost`, if the ways are lines and lead to their addressees (`OneWay`, `Complete`) |
| `NeverStandOff` | `VdePipeProofs` | `Spec => []NoStandoff`, if moreover a pipe is roomy enough for the frames of some turns of the loop (`Roomy`) |
| `NeverAhead` | `TcpSessionProofs` | `Spec => []AcksNeverAhead` |
| `OneAtATime` | `TcpSessionProofs` | `Spec => []OneAtATimeIsSafe` |
| `NeverStranded` | `ProgramsProofs` | `Spec => []NotStranded`, for the first 31 collisions of each device |
| `HubBalances` | `ProgramsProofs` | `Spec => []HubAccounts` |
| `SwitchBalances` | `ProgramsProofs` | `Spec => []SwitchAccounts`, whatever lies behind the array |
| `OthersAimRight` | `ProgramsProofs` | `Spec => OnlyLastMisaims` |
| `EndsAreSeen` | `ProgramsProofs` | `Spec => []PlugEndIsSeen` |
| `ChecksumIsStandard` | `ProgramsProofs` | `Spec => []ChecksumRight`, for all headers of 20 bytes and all messages |
| `DamageIsSeen` | `ProgramsProofs` | `Spec => []DamageSeen`, for all headers of 20 bytes and all bits but the four of `ihl` |
| `CrcIsRemainder` | `ProgramsProofs` | `Spec => []CrcRight`, for all byte strings |
| `ResidueIsMagic` | `ProgramsProofs` | `Spec => []Residue`, for all byte strings |

*Assumptions.* `TablesAssumption`: what `main()` passes to the tables has the right types, and a route
names an interface that exists. `PortsAssumption`: every interface has a pipe of its own, which `add_interface`
makes for it. `HostsAssumption`: hosts and kernels send frames, hosts send to routers. `HostsApartAssumption`:
hosts have different addresses and pipes. `TablesAgreeAssumption`: an ARP entry for a host's Ethernet address has
the host's IP address if a route leads to the entry's address, and gateways are not hosts.
The last one is what the tables of the two programs must satisfy to be right; TLC evaluates it for the real
tables in run `demo`. (It is as weak as that because `stack2.c:54` does hold a wrong entry for
host 1, which no route makes reachable.) `PipeAssumption`: frames are not empty and a length is written at once. `Atomic`
(`VdePipeProofs`) is the hypothesis of `FramesArriveWhole` that no frame is longer than `PIPE_BUF`. Without it
the plug could stop in the middle of a frame, and the second `read` would take the part for the whole.
`ProgramsAssumption` (`Programs`): there is a plug, and `MaxCycle` is 30 at most. `BytesAssumption` gives the
types of the bytes: a header has 20 and no checksum yet. `RoundingAssumption`, `PowerAssumption` and `TableAssumption` (all in `Programs`) are no
hypotheses but computations without a parameter, which TLC does in full and the provers cannot: the values that the rounding of a byte takes
(no proof uses them); that the powers of two up to 2^30 are numbers;
that each of the 256 entries of `crc32_tab` is what eight steps of the division make of its index; what four bytes of ones
leave (`Magic`); and that a byte has eight bits. `SessionAssumption` (`TcpSession`): one router, every
write of the client fits into a segment of 1460 bytes (`MSS`), it can read the acknowledgements of data and of the FIN both or neither, as they have the same header, and the stream is shorter than half the
sequence space, as the client compares numbers like RFC 793.

`OneWay(Nth)` and `Complete(Nth)` (`Paths`) are hypotheses about the tables and the switches alone, not about what happens.
`Nth` numbers the places (the pipes) on the way from a host to another; a packet passes from one place to the
next as the tables and the Ethernet addresses of the switch say (`Passes`). `OneWay` says that every step goes up by one,
that no two places have the same number, and that nothing lies behind the addressee. It cannot be left out: where a way branches
(two stations with one Ethernet address on a switch, or a broadcast address in an ARP table) messages are displayed twice, and where
one way is a short cut of another they overtake each other. `Complete` says
that wherever the way has not ended there is a next place, and that the packets are long enough for
`handle_ethernet_frame` and have a ttl for all routers. Neither is about the order of steps, the traffic
of others, full pipes, or errors. TLC evaluates both for the real tables (`WayAssumption` of `MCDemo`).

`Roomy` (`VdePipeProofs`): `Slots` is the number of interfaces; a frame with its length is between `Short` and `Long` bytes,
so `Reads` frames make room for one; and a pipe holds `Total` frames of the greatest length, where `Total` is the
number of frames that the process may send to one plug until it has read `Reads` frames from this plug. With two interfaces (`stack.c`,
`stack2.c`) and the frames that occur in the repository (42 to 174 bytes) `Total` is 8, and 1408 of
the 65536 bytes of a pipe are enough. With frames of up to 1518 bytes the hypothesis still holds if none is shorter
than 71 bytes. If very short ones meet very long ones the bound is too small, which does not say that the
process would hang. The lengths of run `pipe` on the second interface (one and two bytes) are outside it too; there TLC checks the property.

*Arguments.* `TypeOK` is inductive by itself: `HandlerSends` shows that whatever a handler does, it sends
at most one frame, on one of its own interfaces, and that the frame is well formed (`Built`: an ARP reply, an ICMP error, an
acknowledgement, or the packet it forwards; an acknowledgement of data only for a peer in the table). `ReadsNeverBlock` is inductive with `TypeOK`,
because a frame leaves a pipe only when the one interface that owns the pipe is taken off `ready`.
`NoMisdelivery` is not inductive: it says nothing of frames on their way. The strengthening is
`Routed` (a message in a pipe belongs to the addressee of its packet, and if the frame names a host it is this
host) with `ShownRight`. `FramesFrom` says where a frame in a pipe can come from, and `ForwardedRight` that
forwarding keeps a frame right, by `TablesAgreeAssumption`. `LengthKept` follows along the same lines
with `ForwardedLength`. `Routed` was checked by TLC in the network of `demo` before it was proved.
`TtlOnlyFalls` follows along these lines too (`ShortLived`, `LifeStep`): `handle_ip_packet` has dropped a ttl of 0 before `route_packet` decrements it.
`DataAcksOnlyToPeers` needs `AcksAt`: the router may also forward an acknowledgement of its own that a switch repeats to it, so
those in its input pipes must be for peers too, and no one else may write any. It is kept because the table only grows
while the router runs (`PeersGrow`), and because the pipes end with the table when it stops.
`AcksAreEarned` says the same for several routers, where an acknowledgement may be forwarded through any of them, in a loop too, and outlive the
router that built it: each router is asked only while it still runs since its first start (`boots[r] = 1`), as a router that
starts again does so with an empty table while its old acknowledgements are in other routers' pipes. `RunsOrStarts` shows that a router that runs after a step ran before or was started by it, so
with `Kept` an entry that was there is still there. `AcksEarned` and `Booted`, which it needs, were checked by TLC in the network of `tcp` before they were proved.

`FramesArriveWhole` rests on the invariant `Whole`: the frames lie in the pipe one behind the other (`Laid`), what the plug
has written of the last one (`Wrote`), and that the process has read the first `m` frames and stands at the
length of the next, or behind this length (`Took`). `LengthThere` shows that when anything can be read where a
length is due, both its bytes are there, and `DataThere` that when anything can be read behind it, the whole
frame is. With that every read is one of a whole frame, and `StepsOfQueues` maps each step to a step of
the queues or to none.

`NeverStandOff` adds `Roomed` to this. A plug that waits because the pipe to the process is full looked at its
other pipe just before, and emptied it (`Spare`). Since then the process has sent it `n` frames at most. It may send
`Chances` more before it comes to this interface in its loop, as every interface it serves before sends one at most; each time it comes to it,
it reads a frame, and `Reads` frames are room for what the plug waits to write. What `Roomy` asks is that all these frames fit.
TLC checked `Spare` on small instances before it was proved. `Reads` is needed because a long frame may have
to wait until several short ones have been read.

`DatagramImplemented` rests on `Tracked` (copies of a message are on the way of the message), `Ordered`
(of two messages between the same hosts the earlier one is ahead, so that no message has two copies that can arrive) and
`ShownBefore` (what was displayed is earlier than what is still on its way), together with `Routed`. A copy
moves by `Relay` or `Transit`, and only from the front of a pipe to the end of the next one of its way, which `OneWay`
makes unique. A run of a host is `Datagram`'s send, a frame displayed is its delivery, and every other step a stutter.
`NoMessageLost` is the other half: `Accounted` says of every message in `due` that a copy is on its way with a ttl for all routers
that are left (`Live`), a good checksum, and the Ethernet address of a station that will not ignore it. A full pipe, a user who stops a
process or the crash of a router takes the message out of `due`, so only a handler that returns could lose one, and `LiveForwarded` shows that the router does not.

`SessionInv` says of each frame of the client which bytes of the stream it holds (`Spans`, `Carries`), and of each reply that its
number is `Plus(Htonl(from), Htonl(length))` for offsets that the client has sent (`Acks`): this is what `composeAck` computes from
the segment before it, and it is independent of the entries of `tcpTbl`. The lemmas of `TcpSessionProofs` about words (`ValueOfPlus`, `AddedReversed`,
`AckLags`) show that such a sum differs from the right number by one of the four `Lags`, as lengths have two bytes. The client therefore
never moves `una` past what it has sent, and, when one segment at a time is on its way, never past what has been displayed.

`BackoffSafe`, `HubSafe` and `SwitchSafe` are what the studies need: `Waiting` gives each device that is not received a time to come
(`RangesAreNumbers` is what it takes of `PowerAssumption`);
the hub's accounts are inductive with the ranges of the counters; the switch's (`Accounted` in `SwitchProofs`) with the finiteness of the
set of frames in the array, which `FramesWhere` takes apart device by device. `Places` is the range of `i`, to which `AimedElsewhere` adds
the arithmetic of the target. `Owned` in `PlugsProofs` says who may have which end: an end that hides a hang-up is with the
parent only while it makes this interface, and with the child; all others have closed it or were forked before or after.
`ProgramsProofs` carries each of these from the part to `Programs`, whose steps are those of the part that runs.

The functions over bytes need an induction over positions, and the induction theorems of the library take an operator, which the provers
cannot instantiate. `LeastNumber` gets around this: finite sets are well-founded under inclusion (a theorem about a fixed relation), so a set of
numbers, taken as the intervals up to them, has a least one. `Induction` is then stated with a set instead of a
predicate, and `IterationExists` says that a recursive function over positions exists, so that `SumsRecur` and
`RemaindersRecur` can unfold the two reference functions.

`ChecksumIsStandard`: 256 is its own inverse modulo 65535, so a sum of little-endian words times 256 is the standard's sum, modulo
65535; and one is 0 only if the other is (`StandsFor`), which tells the two zeros of the ones' complement apart. `Summing`
says so of `sum` and the bytes added so far; folding keeps it, and in the end `ComplementRight` turns it
into equality. `SumsOfTurned` adds that the addresses of a TCP segment may change places. `DamageIsSeen` uses 255 instead: modulo 255 a byte
counts the same wherever it stands and whichever way round the checksum is stored, so the bytes of every accepted header add up to
0 (`AcceptedSum`), and no bit of any byte counts 0 (`FlippedSum`). This argument is why accepting both orders does no harm for one bit.

`CrcIsRemainder`: `StepIsBits` says that one look into the table is eight steps of the division. A step is linear over the symmetric
difference (`BitLinear`, `BitsLinear`), the bits above the lowest eight only move (`BitsOfHigh`), and for the lowest eight there is the table.
`CrcSafe` carries it over the bytes. `ResidueIsMagic`: the complement is one more symmetric difference, so by `StoredTakes` the
four stored bytes cancel the register and leave what four bytes of ones leave.

*Only model-checked:* the liveness properties (`Delivered`, `FallsSilent`, `CatchesUp`, `Finishes`, `AllReceived`, `PlugsEnd`), which
are out of the prover's reach like all that depends on fairness and ENABLED. Every invariant and every action property
of the passing runs is proved.

## Not modelled

- `util.c`, `hexdump.c`, `hexread.c`: formatting for people. No handler decides by what they return.
- `src/sender*.c`, `src/receiver.c`, `src/teststack.c`, `src/ippacket.c`, `ethernet-frame.c`: earlier versions
  of hosts and checksums that no makefile builds. `ippacket.c` no longer fits the headers it includes.
- `src/tcpexample`: two sequential lists of socket calls; all that has a state is in the kernel.
- The `.sh` scripts are lists of commands; `Network` takes from them who is attached to what. Switches and
  plugs are external, so their own failures appear only as lost frames, full pipes and ended plugs.
- Damage to the four bits of a header's length, more than 31 collisions of one device, and a plug that turns to the switch with
  its standard input half read: see the abstractions above.
- In a router: the over-reads of displaying code, memory leaks, a `poll` that fails, and what `poll` answers after a plug has ended (the loop
  then spins, because it looks at `POLLIN` only).

## The plan

All invariants of the passing runs are proved. What is left would make two hypotheses weaker:

1. `DataAcksOnlyToPeers` itself for several routers (`AcksAreEarned` is what holds for all tables): true only if no router's acknowledgements reach another as its own,
   which needs a hypothesis about the tables like `OneWay`.
2. A `Roomy` that knows the lengths on each interface.
