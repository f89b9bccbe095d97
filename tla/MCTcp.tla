-------------------------------- MODULE MCTcp -------------------------------
(***************************************************************************)
(* The local end of TCP in stack.c: kernels behind a tap on net0 send the  *)
(* router segments of every kind it tells apart, from two peers that are   *)
(* in its ARP table and from one that is not, in every order.              *)
(***************************************************************************)
EXTENDS Network

MCRouter == {"stack"}
MCPort == {"tap", "stack.1"}
MCLan == [p \in MCPort |-> "net0"]
MCMac == {"11:22:33:aa:bb:cc", "77:88:99:dd:ee:ff", "10:30:10:30:10:30", "tap",
          "ff:ff:ff:ff:ff:ff"}
MCBroadcast == "ff:ff:ff:ff:ff:ff"

Me == <<64, 32, 16, 48>>
Peer1 == <<64, 32, 16, 8>>
Peer2 == <<34, 34, 34, 34>>
Stranger == <<64, 32, 16, 4>>

MCAddInterface ==
    [r \in MCRouter |-> <<[eth |-> "11:22:33:aa:bb:cc", ip |-> Me, port |-> "stack.1"]>>]
MCAddRoute ==
    [r \in MCRouter |-> <<[dest |-> <<64, 32, 16, 0>>, netmask |-> <<255, 255, 255, 0>>,
                           gateway |-> Zero, iface |-> 1]>>]
MCAddArp ==
    [r \in MCRouter |-> <<[eth |-> "77:88:99:dd:ee:ff", ip |-> Peer1],
                          [eth |-> "10:30:10:30:10:30", ip |-> Peer2]>>]

\* No host programs.
MCNone == [h \in {} |-> NULL]

FrameOf(len, body) ==
    [dst |-> "11:22:33:aa:bb:cc", src |-> "tap", type |-> "ip", len |-> len, fcs |-> FALSE,
     body |-> body]
PacketOf(src, dst, flags) ==
    [src |-> src, dst |-> dst, ttl |-> 64, chk |-> "net",
     seg |-> [flags |-> flags, seq |-> Htonl(ToWord(255)), ack |-> Htonl(ToWord(1))],
     kind |-> "tap", id |-> 0]
SegmentFrom(ip, flags) == FrameOf(74, PacketOf(ip, Me, flags))

ShortSyn == FrameOf(54, PacketOf(Peer1, Me, "syn"))

Frames ==
    {SegmentFrom(Peer1, flags) : flags \in Flag \ {"other"}}
        \cup {SegmentFrom(ip, flags) : ip \in {Peer2, Stranger}, flags \in {"ack", "pshack"}}
        \cup {\* a SYN without options, and segments for the address of an empty slot
              ShortSyn,
              FrameOf(74, PacketOf(Peer1, Zero, "finack")),
              \* a damaged packet, and a frame of 42 bytes
              FrameOf(74, [PacketOf(Peer1, Me, "ack") EXCEPT !.chk = "bad"]),
              FrameOf(42, PacketOf(Peer1, Me, "ack")),
              \* a reset, or the like, in a frame as long as can be
              FrameOf(ETH_MAX_FRAME_LEN, PacketOf(Peer1, Me, "other"))}

\* ARP requests for a peer and for the router itself.
ArpFrame(opcode, ip) ==
    [dst |-> MCBroadcast, src |-> "tap", type |-> "arp", len |-> 60, fcs |-> FALSE,
     body |-> [opcode |-> opcode, sendereth |-> "tap", senderip |-> Stranger,
               targeteth |-> MCBroadcast, targetip |-> ip]]
ArpFrames == {ArpFrame(1, Peer1), ArpFrame(1, Me)}

Traffic(frames) == {[port |-> "tap", frame |-> f] : f \in frames}
MCTapTraffic == Traffic(Frames \cup ArpFrames)

\* What the run about the end of a router sends: ACKs only.
MCAckTraffic == Traffic({SegmentFrom(ip, "ack") : ip \in {Peer1, Peer2, Stranger}})

=============================================================================
