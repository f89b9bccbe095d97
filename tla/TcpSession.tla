----------------------------- MODULE TcpSession -----------------------------
(***************************************************************************)
(* A TCP connection from the kernel behind a tap to a router, over a       *)
(* network that loses frames in both directions.                           *)
(*                                                                         *)
(* The router is that of module Router.  The kernel is not part of the     *)
(* repository: it is a client as RFC 793 has it, which sends what a        *)
(* program writes, keeps at most a window of it unacknowledged, sends      *)
(* again from the oldest byte that is not acknowledged, without ever       *)
(* giving up, and closes.                                                  *)
(*                                                                         *)
(* Not every reply is legible to the kernel.  Its header checksum is in    *)
(* the wrong byte order (compute_headchksum), which is right only when     *)
(* both its bytes are the same, and that depends on the packet's id, which *)
(* composeAck leaves as the client's segment had it.  If the kernel counts *)
(* its packets, a reply sent again has another checksum and is legible now *)
(* and then; if it gives all the same id, then a reply is refused each     *)
(* time it is sent or never.                                               *)
(*                                                                         *)
(* The client counts its SYN, each byte and its FIN: offset 0 is the SYN.  *)
(***************************************************************************)
EXTENDS Router

CONSTANTS
    Server,             \* the router
    ClientMac, ClientIp,
    Isn,                \* initial sequence numbers the client may choose
    Legible,            \* kinds of reply that the client can read at least now and then
    Window,             \* how many segments it may have on their way
    WriteEnds,          \* where the writes of the client's program end
    DataEnd             \* where the last of them ends

\* The data that a segment can carry: 1500 bytes less two headers of 20.
MSS == 1460

\* Half the sequence space: which of two numbers is ahead is clear within it.
HalfSpace == 2147483647

\* The offsets at which a write, the SYN or the FIN begins or ends.
StreamEnd == DataEnd + 1
Boundaries == WriteEnds \cup {0, 1, DataEnd, StreamEnd}

\* The tap is at the first interface of the router, no write is longer than a
\* segment, and the stream is shorter than half the sequence space.  Acknowledgements of
\* data and of the FIN have the same header, so the client reads both or neither.
ASSUME SessionAssumption ==
    /\ Router = {Server} /\ 1 \in DOMAIN interfaces[Server]
    /\ ClientMac \in Mac /\ ClientIp \in Word
    /\ Isn \subseteq Word
    /\ \A kinds \in Legible :
        /\ kinds \subseteq {"synAck", "dataAck", "finAck"}
        /\ "dataAck" \in kinds <=> "finAck" \in kinds
    /\ Window \subseteq Nat \ {0}
    /\ DataEnd \in Nat \ {0} /\ DataEnd < HalfSpace
    /\ WriteEnds \subseteq 1 .. DataEnd
    /\ \A b \in WriteEnds \cup {1} :
        b < DataEnd => \E c \in WriteEnds : b < c /\ c <= b + MSS

VARIABLES
    client,     \* the connection: "closed", "synSent", "established" or "finished"
    isn,        \* its initial sequence number
    window,     \* segments that may be unacknowledged
    legible,    \* the kinds of reply that the client can read at least now and then
    una, nxt,   \* offsets: the oldest unacknowledged, and the next to be sent
    rcvNxt,     \* the server's sequence number the client expects next
    displayed   \* the pieces of the client's data the router has displayed

clientVars == <<client, isn, window, legible, una, nxt, rcvNxt>>
vars == <<routerVars, clientVars, displayed>>

-----------------------------------------------------------------------------
(* The stream of the client.                                               *)

\* Where a segment that begins at an offset may end: the SYN and the FIN go alone, data
\* with the rest of the write, or with further writes as well.
SegmentEnds(from) ==
    CASE from = 0 -> {1}
      [] from = DataEnd -> {StreamEnd}
      [] OTHER -> {b \in Boundaries : from < b /\ b <= DataEnd /\ b <= from + MSS}

InFlight == Cardinality({b \in Boundaries : una < b /\ b <= nxt})

\* The sequence number of an offset.
Number(offset) == Plus(isn, ToWord(offset))

Wire == interfaces[Server][1].port

\* A frame of the client, which has no check sequence and numbers in network order.
ClientFrame(flags, from, seq, len) ==
    [dst |-> interfaces[Server][1].eth, src |-> ClientMac, type |-> "ip", len |-> len,
     fcs |-> FALSE,
     body |-> [src |-> ClientIp, dst |-> interfaces[Server][1].ip, ttl |-> 64, chk |-> "net",
               seg |-> [flags |-> flags, seq |-> Htonl(seq), ack |-> Htonl(rcvNxt')],
               kind |-> "tap", id |-> from]]

\* Ethernet, IP and TCP headers; a SYN has 20 bytes of options.
Headers == 14 + 20 + 20
Syn == ClientFrame("syn", 0, isn, Headers + 20)
BareAck == ClientFrame("ack", nxt, Number(nxt), Headers)
Rst(ack) == ClientFrame("other", 0, ack, Headers)

\* The segment of the client from an offset to another.
SegmentOf(from, end) ==
    CASE from = 0 -> Syn
      [] from = DataEnd -> ClientFrame("finack", from, Number(from), Headers)
      [] OTHER -> ClientFrame("pshack", from, Number(from), Headers + end - from)

\* A frame reaches the pipe of the router, or is lost.
Arrives(f) ==
    /\ Len(inPipe[Wire]) < PipeCap
    /\ inPipe' = [inPipe EXCEPT ![Wire] = Append(@, f)]
Transmits(f) == Arrives(f) \/ UNCHANGED inPipe

-----------------------------------------------------------------------------
(* The client.                                                             *)

clientOnly == <<alive, ready, tcpTbl, established, displayed>>

Connects ==
    /\ client = "closed"
    /\ client' = "synSent"
    /\ nxt' = 1
    /\ UNCHANGED <<isn, window, legible, una, rcvNxt>>
    /\ Transmits(Syn)
    /\ UNCHANGED <<clientOnly, outPipe>>

\* The next write, or the FIN: the program closes when its data is acknowledged.
SendsNext ==
    /\ client = "established"
    /\ nxt < StreamEnd
    /\ InFlight < window
    /\ nxt = DataEnd => una = nxt
    /\ nxt' = Min(SegmentEnds(nxt))
    /\ UNCHANGED <<client, isn, window, legible, una, rcvNxt>>
    /\ Transmits(SegmentOf(nxt, nxt'))
    /\ UNCHANGED <<clientOnly, outPipe>>

\* The retransmission timer: again from the oldest byte.
SendsAgain ==
    /\ una < nxt
    /\ UNCHANGED clientVars
    /\ \E end \in SegmentEnds(una) : end <= nxt /\ Arrives(SegmentOf(una, end))
    /\ UNCHANGED <<clientOnly, outPipe>>

Answer == Head(outPipe[Wire])

\* The offsets that the reply acknowledges: one, or none.
Acked == {k \in una + 1 .. nxt : Number(k) = Htonl(Answer.body.seg.ack)}

ReplyTaken ==
    /\ outPipe[Wire] # <<>>
    /\ outPipe' = [outPipe EXCEPT ![Wire] = Tail(@)]
    /\ UNCHANGED <<isn, window, legible, nxt, clientOnly>>

\* A SYN ACK for the SYN completes the connection for the client.
Connected ==
    /\ client = "synSent"
    /\ Answer.body.kind = "synAck"
    /\ Acked # {}
    /\ client' = "established"
    /\ una' = 1
    /\ rcvNxt' = Plus(Htonl(Answer.body.seg.seq), ToWord(1))
    /\ Transmits(BareAck)

\* A SYN ACK that acknowledges another number is answered with a reset.
Refused ==
    /\ client = "synSent"
    /\ Answer.body.kind = "synAck"
    /\ Acked = {}
    /\ UNCHANGED <<client, una, rcvNxt>>
    /\ Transmits(Rst(Htonl(Answer.body.seg.ack)))

\* A SYN ACK that comes once more is answered with one more ACK.
Repeated ==
    /\ client # "synSent"
    /\ Answer.body.kind = "synAck"
    /\ UNCHANGED <<client, una, rcvNxt>>
    /\ Transmits(BareAck)

\* An acknowledgement of data or of the FIN.
Advances ==
    /\ client = "established"
    /\ Answer.body.kind \in {"dataAck", "finAck"}
    /\ Htonl(Answer.body.seg.seq) = rcvNxt
    /\ Acked # {}
    /\ \E k \in Acked :
        /\ una' = k
        /\ client' = IF k = StreamEnd THEN "finished" ELSE client
    /\ UNCHANGED <<rcvNxt, inPipe>>

\* A reply that acknowledges nothing new, or the client's own reset reflected.
Disregards ==
    /\ Answer.body.kind # "synAck"
    /\ \/ client # "established"
       \/ Answer.body.kind = "reflected"
       \/ Htonl(Answer.body.seg.seq) # rcvNxt
       \/ Acked = {}
    /\ UNCHANGED <<client, una, rcvNxt, inPipe>>

\* Whether the client reads its own reset, reflected, makes no difference to it.
ReplyArrives ==
    /\ ReplyTaken
    /\ Answer.body.kind \in legible \cup {"reflected"}
    /\ Connected \/ Refused \/ Repeated \/ Advances \/ Disregards

\* The network loses a reply, or the kernel refuses it for its header checksum.
ReplyLost == ReplyTaken /\ UNCHANGED <<client, una, rcvNxt, inPipe>>

-----------------------------------------------------------------------------
(* The router.                                                             *)

ServerPolls == Poll(Server) /\ UNCHANGED <<clientVars, displayed>>

\* Mutant of Piece: the length without the four bytes handle_ip_packet took off.
PieceShort(f) == [from |-> f.body.id, to |-> f.body.id + f.len - Headers - 4]

\* The data of a segment: printingdata in composeAck.
Piece(f) == [from |-> f.body.id, to |-> f.body.id + f.len - Headers]

\* What composeAck displays, if it comes to that.
Displays(f) ==
    IF /\ IsSegment(Server)
       /\ f.body.seg.flags = "pshack"
       /\ LookupTcp(tcpTbl[Server], f.body.src) # NULL
    THEN {Piece(f)} ELSE {}

ServerHandles ==
    /\ Handle(Server)
    /\ displayed' = displayed \cup Displays(Arrived(Server))
    /\ UNCHANGED clientVars

-----------------------------------------------------------------------------

Init ==
    /\ alive = [r \in Router |-> TRUE]
    /\ ready = [r \in Router |-> {}]
    /\ tcpTbl = [r \in Router |-> <<>>]
    /\ established = [r \in Router |-> {}]
    /\ inPipe = [p \in Port |-> <<>>]
    /\ outPipe = [p \in Port |-> <<>>]
    /\ client = "closed"
    /\ isn \in Isn
    /\ window \in Window
    /\ legible \in Legible
    /\ una = 0 /\ nxt = 0
    /\ rcvNxt = Zero
    /\ displayed = {}

Next ==
    \/ Connects
    \/ SendsNext
    \/ SendsAgain
    \/ ReplyArrives
    \/ ReplyLost
    \/ ServerPolls
    \/ ServerHandles

Spec == Init /\ [][Next]_vars

\* The network does not lose every frame: what is sent again and again arrives
\* again and again, in both directions, and is read if it is legible.
Fairness ==
    /\ WF_vars(ServerPolls) /\ WF_vars(ServerHandles)
    /\ WF_vars(SendsNext)
    /\ SF_vars(SendsAgain)
    /\ SF_vars(ReplyArrives)

FairSpec == Spec /\ Fairness

-----------------------------------------------------------------------------
(* Properties.                                                             *)

\* The right number less what composeAck loses when it adds in the wrong byte order.
Lags == {0, 256, 65535, 65791}

\* Whatever is lost and repeated, and although composeAck computes it in the wrong byte
\* order (tcp1.c:83, 105, 131), the number of an acknowledgement is never ahead of
\* what the client has sent: it is a number the client has used, or lags behind
\* one by one of four amounts.
AcksNeverAhead ==
    \A k \in DOMAIN outPipe[Wire] :
        LET p == outPipe[Wire][k].body
        IN  p.kind \in {"synAck", "dataAck", "finAck"} =>
                \E end \in 1 .. nxt, lag \in Lags :
                    Plus(Htonl(p.seg.ack), ToWord(lag)) = Number(end)

\* Every byte of data before an offset is in some piece.
AllDisplayed(end) ==
    \A o \in 1 .. end - 1 : \E d \in displayed : d.from <= o /\ o < d.to

\* The router acknowledges what it has received: all data the client takes for
\* acknowledged has been displayed.
AckedWasDisplayed == AllDisplayed(Minimum(una, DataEnd))

\* So it is if the client has one segment at a time on its way, although the
\* router keeps no number of what it has received (tcp1.c:90-124) and frames are lost and sent
\* again.
OneAtATimeIsSafe == window = 1 => AckedWasDisplayed

\* No addition composeAck makes for the client's segments carries out of a byte.
CarryFree ==
    \A from \in Boundaries \ {0} : \A end \in SegmentEnds(from) :
        LET number == Number(from)
            n == ToWord(end - from)
        IN  number[4] + n[4] < 256 /\ number[3] + n[3] < 256

HasEntry == LookupTcp(tcpTbl[Server], ClientIp) # NULL

\* A connection that both ends consider established is finished in the end,
\* whatever frames are lost, if the sequence numbers are such that composeAck
\* adds right (tcp1.c:105, 131) and the client can read the acknowledgements at all
\* (tcp1.c:146-147).
Finishes ==
    client = "established" /\ HasEntry /\ CarryFree /\ {"dataAck", "finAck"} \subseteq legible
        ~> client = "finished"

=============================================================================
