---------------------------- MODULE RouterProofs ----------------------------
(***************************************************************************)
(* Lemmas about the operators of module Router: what the lookups return    *)
(* and that every frame a handler builds is a frame.                       *)
(***************************************************************************)
EXTENDS Router, FiniteSets, FiniteSetTheorems, SequenceTheorems,
        WellFoundedInduction, TLAPS

-----------------------------------------------------------------------------
(* Words.                                                                  *)

\* Arithmetic on words and the conversions to words yield words.
LEMMA WordArithmetic ==
  /\ \A w \in Word : Htonl(w) \in Word
  /\ \A a, b \in Word : Plus(a, b) \in Word
  /\ \A n \in Int : ToWord(n) \in Word
<1>1. ASSUME NEW n \in Int
      PROVE  n % 256 \in Byte /\ n \div 256 \in Int
  BY DEF Byte
<1>2. \A w \in Word : Htonl(w) \in Word
  BY DEF Htonl, Word
<1>3. ASSUME NEW a \in Word, NEW b \in Word
      PROVE  Plus(a, b) \in Word
  <2> DEFINE s4 == a[4] + b[4]
             s3 == a[3] + b[3] + (s4 \div 256)
             s2 == a[2] + b[2] + (s3 \div 256)
             s1 == a[1] + b[1] + (s2 \div 256)
  <2>0. \A k \in 1 .. 4 : a[k] \in Int /\ b[k] \in Int
    BY SMTT(30) DEF Word, Byte
  <2>1. s4 \in Int
    BY <2>0
  <2>2. s3 \in Int
    <3> HIDE DEF s4
    <3> QED BY <2>0, <2>1, <1>1
  <2>3. s2 \in Int
    <3> HIDE DEF s3
    <3> QED BY <2>0, <2>2, <1>1
  <2>4. s1 \in Int
    <3> HIDE DEF s2
    <3> QED BY <2>0, <2>3, <1>1
  <2>5. Plus(a, b) = <<s1 % 256, s2 % 256, s3 % 256, s4 % 256>>
    BY DEF Plus
  <2> HIDE DEF s1, s2, s3, s4
  <2> QED BY <1>1, <2>1, <2>2, <2>3, <2>4, <2>5 DEF Word
<1>4. ASSUME NEW n \in Int
      PROVE  ToWord(n) \in Word
  <2>1. n \div 16777216 \in Int /\ n \div 65536 \in Int /\ n \div 256 \in Int
    OBVIOUS
  <2> QED BY <1>1, <2>1 DEF ToWord, Word
<1> QED BY <1>2, <1>3, <1>4

-----------------------------------------------------------------------------
(* The tables.                                                             *)

\* A set of natural numbers that is not empty has a least element, and Min is
\* this element.
LEMMA MinIsLeast ==
  ASSUME NEW S \in SUBSET Nat, S # {}
  PROVE  Min(S) \in S /\ \A y \in S : Min(S) <= y
<1> DEFINE Up(x) == 1 .. x
           T == {Up(x) : x \in S}
<1>1. T \subseteq FiniteSubsetsOf(Nat) /\ T # {}
  <2>1. \A x \in S : Up(x) \subseteq Nat /\ IsFiniteSet(Up(x))
    BY FS_Interval
  <2> QED BY <2>1 DEF FiniteSubsetsOf
<1>2. PICK m \in T : \A u \in T : <<u, m>> \notin StrictSubsetOrdering(Nat)
  <2> HIDE DEF T
  <2> QED BY <1>1, FS_StrictSubsetOrderingWellFounded, WFMin
<1>3. PICK x \in S : m = Up(x)
  OBVIOUS
<1>4. ASSUME NEW y \in S, y < x
      PROVE  FALSE
  <2>1. Up(y) \subseteq Up(x) /\ Up(y) # Up(x) /\ Up(x) \subseteq Nat
    <3>1. x \in Up(x) /\ x \notin Up(y)
      BY <1>4
    <3> QED BY <1>4, <3>1
  <2>2. <<Up(y), Up(x)>> \in StrictSubsetOrdering(Nat)
    <3> HIDE DEF Up
    <3> QED BY <2>1 DEF StrictSubsetOrdering
  <2> QED BY <2>2, <1>2, <1>3
<1>5. \A y \in S : x <= y
  BY <1>4
<1> QED BY <1>5 DEF Min

\* Filling a table keeps the entries that fit, in order.
LEMMA FilledPrefix ==
  ASSUME NEW S, NEW calls \in Seq(S), NEW size \in Nat
  PROVE  /\ Filled(calls, size) \in Seq(S)
         /\ DOMAIN Filled(calls, size) = (1 .. size) \cap DOMAIN calls
         /\ \A k \in DOMAIN Filled(calls, size) : Filled(calls, size)[k] = calls[k]
<1> DEFINE n == Minimum(Len(calls), size)
<1>1. n \in Nat /\ n <= Len(calls) /\ n <= size /\ (n = Len(calls) \/ n = size)
  BY LenProperties DEF Minimum
<1>2. Filled(calls, size) = SubSeq(calls, 1, n)
  BY DEF Filled
<1> HIDE DEF n
<1>3. \A k \in 1 .. n : k \in DOMAIN calls
  BY <1>1, LenProperties
<1>4. /\ SubSeq(calls, 1, n) \in Seq(S)
      /\ Len(SubSeq(calls, 1, n)) = n
      /\ \A k \in 1 .. n : SubSeq(calls, 1, n)[k] = calls[k]
  BY <1>1, <1>3, SubSeqProperties
<1> QED BY <1>1, <1>2, <1>4, LenProperties

RouteEntry == [dest : Word, netmask : Mask, gateway : Word, iface : Nat]
ArpEntry == [eth : Mac, ip : Word]
Interface == [eth : Mac, ip : Word, port : Port]

\* The tables hold what main() passed, and the interface of a route exists.
LEMMA TablesTyped ==
  ASSUME NEW r \in Router
  PROVE  /\ interfaces[r] \in Seq(Interface)
         /\ routingTbl[r] \in Seq(RouteEntry)
         /\ arpTbl[r] \in Seq(ArpEntry)
         /\ \A k \in DOMAIN routingTbl[r] : routingTbl[r][k].iface \in DOMAIN interfaces[r]
<1>1. /\ AddInterface[r] \in Seq(Interface)
      /\ AddRoute[r] \in Seq(RouteEntry)
      /\ AddArp[r] \in Seq(ArpEntry)
      /\ MAX_INTERFACES \in Nat /\ MAX_ROUTES \in Nat /\ ARP_CACHE_SIZE \in Nat
  BY TablesAssumption DEF Interface, RouteEntry, ArpEntry
<1>2. /\ interfaces[r] = Filled(AddInterface[r], MAX_INTERFACES)
      /\ routingTbl[r] = Filled(AddRoute[r], MAX_ROUTES)
      /\ arpTbl[r] = Filled(AddArp[r], ARP_CACHE_SIZE)
  BY DEF interfaces, routingTbl, arpTbl
<1>3. /\ interfaces[r] \in Seq(Interface)
      /\ DOMAIN interfaces[r] = (1 .. MAX_INTERFACES) \cap DOMAIN AddInterface[r]
  BY <1>1, <1>2, FilledPrefix, ZenonT(60)
<1>4. /\ routingTbl[r] \in Seq(RouteEntry)
      /\ \A k \in DOMAIN routingTbl[r] :
            k \in DOMAIN AddRoute[r] /\ routingTbl[r][k] = AddRoute[r][k]
  <2> DEFINE tbl == Filled(AddRoute[r], MAX_ROUTES)
  <2>1. /\ tbl \in Seq(RouteEntry)
        /\ DOMAIN tbl = (1 .. MAX_ROUTES) \cap DOMAIN AddRoute[r]
        /\ \A k \in DOMAIN tbl : tbl[k] = AddRoute[r][k]
    BY <1>1, FilledPrefix
  <2>2. routingTbl[r] = tbl
    BY <1>2
  <2> HIDE DEF tbl
  <2> QED BY <2>1, <2>2
<1>5. arpTbl[r] \in Seq(ArpEntry)
  BY <1>1, <1>2, FilledPrefix
<1>6. \A k \in DOMAIN AddRoute[r] :
        AddRoute[r][k].iface \in (1 .. MAX_INTERFACES) \cap DOMAIN AddInterface[r]
  BY TablesAssumption
<1> QED BY <1>3, <1>4, <1>5, <1>6

\* An interface of a router has an Ethernet address, an IP address and a port.
LEMMA InterfaceTyped ==
  ASSUME NEW r \in Router, NEW i \in DOMAIN interfaces[r]
  PROVE  /\ interfaces[r][i].eth \in Mac
         /\ interfaces[r][i].ip \in Word
         /\ interfaces[r][i].port \in Port
         /\ i \in Nat
<1>1. interfaces[r][i] \in Interface /\ i \in Nat
  BY TablesTyped, ElementOfSeq, LenProperties
<1> QED BY <1>1 DEF Interface

\* arp_lookup returns NULL or the Ethernet address of an entry for the address.
LEMMA ArpLookupResult ==
  ASSUME NEW r \in Router, NEW ip, ArpLookup(r, ip) # NULL
  PROVE  /\ ArpLookup(r, ip) \in Mac
         /\ \E k \in DOMAIN arpTbl[r] :
                arpTbl[r][k].ip = ip /\ arpTbl[r][k].eth = ArpLookup(r, ip)
<1> DEFINE hits == {k \in DOMAIN arpTbl[r] : arpTbl[r][k].ip = ip}
<1>1. hits # {} /\ ArpLookup(r, ip) = arpTbl[r][Min(hits)].eth
  BY DEF ArpLookup
<1>2. hits \in SUBSET Nat
  BY TablesTyped, LenProperties
<1>3. Min(hits) \in hits
  <2> HIDE DEF hits
  <2> QED BY <1>1, <1>2, MinIsLeast
<1>4. arpTbl[r][Min(hits)] \in ArpEntry
  BY <1>3, TablesTyped, ElementOfSeq, LenProperties
<1> QED BY <1>1, <1>3, <1>4 DEF ArpEntry

\* lookup_route returns NULL or a route of the table.
LEMMA LookupRouteResult ==
  ASSUME NEW r \in Router, NEW ip, LookupRoute(r, ip) # NULL
  PROVE  /\ LookupRoute(r, ip) \in RouteEntry
         /\ LookupRoute(r, ip).iface \in DOMAIN interfaces[r]
         /\ \E k \in DOMAIN routingTbl[r] : LookupRoute(r, ip) = routingTbl[r][k]
<1> DEFINE hits == {k \in DOMAIN routingTbl[r] :
                      LET e == routingTbl[r][k]
                      IN  Masked(ip, e.netmask) \in {e.dest, Ntohs(e.dest)}}
<1>1. hits # {} /\ LookupRoute(r, ip) = routingTbl[r][Min(hits)]
  BY DEF LookupRoute
<1>2. hits \in SUBSET Nat
  BY TablesTyped, LenProperties
<1>3. Min(hits) \in hits
  <2> HIDE DEF hits
  <2> QED BY <1>1, <1>2, MinIsLeast
<1>4. routingTbl[r][Min(hits)] \in RouteEntry
  BY <1>3, TablesTyped, ElementOfSeq, LenProperties
<1> QED BY <1>1, <1>3, <1>4, TablesTyped
-----------------------------------------------------------------------------
(* Frames.                                                                 *)

\* The parts of a frame, whatever its type.
LEMMA FrameParts ==
  ASSUME NEW f \in Frame
  PROVE  /\ f.dst \in Mac /\ f.src \in Mac
         /\ f.len \in Nat /\ f.len <= 1518
         /\ f.type \in {"ip", "arp", "unknown"}
         /\ f.type = "ip" => f.body \in Packet
         /\ f.type = "arp" => f.body \in Arp
<1> DEFINE Of(type, bodies) == [dst : Mac, src : Mac, type : {type}, len : 14 .. ETH_MAX_FRAME_LEN,
                                fcs : BOOLEAN, body : bodies]
<1>1. f \in Of("ip", Packet) \/ f \in Of("arp", Arp) \/ f \in Of("unknown", {NULL})
  BY DEF Frame
<1>2. ASSUME NEW type, NEW bodies, f \in Of(type, bodies)
      PROVE  /\ f.dst \in Mac /\ f.src \in Mac
             /\ f.len \in 14 .. ETH_MAX_FRAME_LEN
             /\ f.type = type /\ f.body \in bodies
  BY <1>2
<1> HIDE DEF Of
<1>3. f.dst \in Mac /\ f.src \in Mac /\ f.len \in 14 .. ETH_MAX_FRAME_LEN
  BY <1>1, <1>2
<1>4. \/ f.type = "ip" /\ f.body \in Packet
      \/ f.type = "arp" /\ f.body \in Arp
      \/ f.type = "unknown"
  BY <1>1, <1>2
<1>5. \A n \in 14 .. ETH_MAX_FRAME_LEN : n \in Nat /\ n <= 1518
  BY DEF ETH_MAX_FRAME_LEN
<1> QED
  BY <1>3, <1>4, <1>5

\* A composed frame is a frame when its addresses and its body are and the data
\* is no longer than 1500 bytes.
LEMMA ComposedTyped ==
  ASSUME NEW dst \in Mac, NEW src \in Mac, NEW n \in Int, n <= 1500
  PROVE  /\ \A p \in Packet : ComposeEthernetFrame(dst, src, "ip", n, p) \in Frame
         /\ \A a \in Arp : ComposeEthernetFrame(dst, src, "arp", n, a) \in Frame
<1>1. Maximum(46, n) \in 0 .. 1500
  BY DEF Maximum
<1>2. 14 + Maximum(46, n) + 4 \in 14 .. ETH_MAX_FRAME_LEN
  BY <1>1 DEF ETH_MAX_FRAME_LEN
<1> QED BY <1>2 DEF ComposeEthernetFrame, Frame

\* The parts of a packet.
LEMMA PacketParts ==
  ASSUME NEW p \in Packet
  PROVE  /\ p.src \in Word /\ p.dst \in Word /\ p.ttl \in Byte
         /\ p.seg \in Segment /\ p.kind \in Kind /\ p.id \in Nat
  BY DEF Packet

\* route_packet keeps a packet a packet and changes neither its addresses nor
\* what it carries.
LEMMA AgedTyped ==
  ASSUME NEW p \in Packet
  PROVE  /\ Aged(p) \in Packet
         /\ Aged(p).src = p.src /\ Aged(p).dst = p.dst
         /\ Aged(p).kind = p.kind /\ Aged(p).id = p.id
<1>1. (p.ttl - 1) % 256 \in Byte
  BY PacketParts DEF Byte
<1> QED BY <1>1, ZenonT(60) DEF Aged, Packet

\* A forwarded packet travels in a frame to the next hop.
LEMMA ForwardedTyped ==
  ASSUME NEW r \in Router, NEW f \in Frame, f.type = "ip",
         NEW route \in RouteEntry, route.iface \in DOMAIN interfaces[r],
         NextHop(r, route, f.body.dst) # NULL
  PROVE  ForwardedFrame(r, route, f) \in Frame
<1>1. NextHop(r, route, f.body.dst) \in Mac
  BY ArpLookupResult DEF NextHop
<1>2. interfaces[r][route.iface].eth \in Mac
  BY InterfaceTyped
<1>3. f.len - 18 \in Int /\ f.len - 18 <= 1500 /\ Aged(f.body) \in Packet
  BY FrameParts, AgedTyped
<1> QED BY <1>1, <1>2, <1>3, ComposedTyped DEF ForwardedFrame

\* An ICMP error is a frame of an error kind.
LEMMA IcmpTyped ==
  ASSUME NEW r \in Router, NEW p \in Packet, NEW kind \in Error, NEW flags \in Flag,
         NEW route \in RouteEntry, route.iface \in DOMAIN interfaces[r],
         ArpLookup(r, p.src) # NULL
  PROVE  /\ IcmpFrame(r, route, p, kind, flags) \in Frame
         /\ IcmpFrame(r, route, p, kind, flags).body.kind = kind
<1> DEFINE body == [p EXCEPT !.src = interfaces[r][route.iface].ip, !.dst = p.src, !.ttl = 16,
                             !.chk = "swapped", !.seg = Misread(flags), !.kind = kind]
<1>1. ArpLookup(r, p.src) \in Mac
  BY ArpLookupResult
<1>2. interfaces[r][route.iface].eth \in Mac /\ interfaces[r][route.iface].ip \in Word
  BY InterfaceTyped
<1>3. body \in Packet /\ body.kind = kind
  <2>1. kind \in Kind
    BY DEF Kind
  <2>2. body.kind = kind
    BY DEF Packet
  <2>3. body \in Packet
    <3> DEFINE q == [p EXCEPT !.ttl = 16, !.seg = Misread(flags)]
    <3>0. Misread(flags) \in Segment
      <4>1. Zero \in Word /\ <<69, 0, 0, 0>> \in Word
        BY DEF Zero, Word, Byte
      <4> QED BY <4>1 DEF Misread, Segment
    <3>1. q \in Packet
      <4>1. 16 \in Byte
        BY DEF Byte
      <4> QED BY <3>0, <4>1 DEF Packet
    <3>2. body = [q EXCEPT !.src = interfaces[r][route.iface].ip, !.dst = p.src,
                           !.chk = "swapped", !.kind = kind]
      BY DEF Packet
    <3> HIDE DEF q, body
    <3>3. p.src \in Word
      BY PacketParts
    <3> QED BY <1>2, <2>1, <3>1, <3>2, <3>3 DEF Packet
  <2> QED BY <2>2, <2>3
<1>4. IcmpFrame(r, route, p, kind, flags) =
        ComposeEthernetFrame(ArpLookup(r, p.src), interfaces[r][route.iface].eth, "ip", 56, body)
  BY DEF IcmpFrame
<1> HIDE DEF body
<1>5. ComposeEthernetFrame(ArpLookup(r, p.src), interfaces[r][route.iface].eth, "ip", 56, body)
        \in Frame
  BY <1>1, <1>2, <1>3, ComposedTyped
<1> QED BY <1>3, <1>4, <1>5 DEF ComposeEthernetFrame

\* So is the answer to an ARP request.
LEMMA ArpReplyTyped ==
  ASSUME NEW r \in Router, NEW i \in DOMAIN interfaces[r], NEW f \in Frame, f.type = "arp",
         ArpLookup(r, f.body.targetip) # NULL
  PROVE  /\ ArpReply(r, i, f) \in Frame
         /\ ArpReply(r, i, f).type = "arp"
<1> DEFINE me == interfaces[r][i]
           body == [f.body EXCEPT !.opcode = 2, !.sendereth = me.eth, !.senderip = me.ip,
                                  !.targeteth = ArpLookup(r, f.body.targetip)]
<1>1. ArpLookup(r, f.body.targetip) \in Mac
  BY ArpLookupResult
<1>2. me.eth \in Mac /\ me.ip \in Word
  BY InterfaceTyped
<1>3. f.body \in Arp /\ f.body.sendereth \in Mac
  BY FrameParts DEF Arp
<1>4. body \in Arp
  <2> HIDE DEF me
  <2> QED BY <1>1, <1>2, <1>3 DEF Arp
<1>5. ArpReply(r, i, f) = ComposeEthernetFrame(f.body.sendereth, me.eth, "arp", 29, body)
  BY DEF ArpReply
<1> HIDE DEF body
<1>6. ComposeEthernetFrame(f.body.sendereth, me.eth, "arp", 29, body) \in Frame
  <2> HIDE DEF me
  <2> QED BY <1>2, <1>3, <1>4, ComposedTyped
<1> QED BY <1>5, <1>6 DEF ComposeEthernetFrame

\* The segment that composeAck makes is one.
LEMMA AcknowledgedTyped ==
  ASSUME NEW s \in Segment, NEW len \in Nat
  PROVE  Acknowledged(s, len) \in Segment /\ ReplyKind(s) \in Reply
<1>1. s.seq \in Word /\ s.ack \in Word /\ s.flags \in Flag
  BY DEF Segment
<1>2. /\ Htonl(Plus(s.ack, ToWord(1))) \in Word
      /\ Plus(s.seq, Htonl(ToWord(1))) \in Word
      /\ Plus(s.seq, Htonl(ToWord(len - 54))) \in Word
  <2>1. ToWord(1) \in Word /\ ToWord(len - 54) \in Word
    BY WordArithmetic
  <2> QED BY <1>1, <2>1, WordArithmetic
<1>3. Acknowledged(s, len) \in Segment
  <2>1. CASE s.flags = "syn"
    BY <2>1, <1>1, <1>2 DEF Acknowledged, Segment, Flag
  <2>2. CASE s.flags = "pshack"
    BY <2>2, <1>1, <1>2 DEF Acknowledged, Segment, Flag, DataLen
  <2>3. CASE s.flags = "finack"
    BY <2>3, <1>1, <1>2 DEF Acknowledged, Segment, Flag
  <2>4. CASE s.flags \in {"ack", "other"}
    BY <2>4 DEF Acknowledged
  <2> QED BY <1>1, <2>1, <2>2, <2>3, <2>4 DEF Flag
<1>4. ReplyKind(s) \in Reply
  BY DEF ReplyKind, Reply
<1> QED BY <1>3, <1>4

\* What composeAck sends is a frame of a reply kind.
LEMMA AckTyped ==
  ASSUME NEW r \in Router, NEW f \in Frame, f.type = "ip",
         NEW route \in RouteEntry, route.iface \in DOMAIN interfaces[r],
         ArpLookup(r, f.body.src) # NULL
  PROVE  /\ AckFrame(r, route, f) \in Frame
         /\ AckFrame(r, route, f).body.kind \in Reply
<1> DEFINE p == f.body
           body == [p EXCEPT !.src = p.dst, !.dst = p.src, !.chk = "swapped",
                             !.seg = Acknowledged(p.seg, f.len), !.kind = ReplyKind(p.seg)]
<1>1. ArpLookup(r, p.src) \in Mac
  BY ArpLookupResult
<1>2. interfaces[r][route.iface].eth \in Mac
  BY InterfaceTyped
<1>3. p \in Packet /\ f.len \in Nat /\ f.len <= 1518
  BY FrameParts
<1>4. Acknowledged(p.seg, f.len) \in Segment /\ ReplyKind(p.seg) \in Reply
  <2> HIDE DEF p
  <2> QED BY <1>3, PacketParts, AcknowledgedTyped
<1>5. body \in Packet /\ body.kind \in Reply
  <2> DEFINE seg == Acknowledged(p.seg, f.len)
             kind == ReplyKind(p.seg)
  <2>1. seg \in Segment /\ kind \in Reply /\ kind \in Kind
    BY <1>4 DEF Kind
  <2> HIDE DEF p, seg, kind
  <2>2. p \in Packet /\ p.src \in Word /\ p.dst \in Word
    BY <1>3, PacketParts
  <2>3. [p EXCEPT !.src = p.dst, !.dst = p.src, !.chk = "swapped", !.seg = seg, !.kind = kind]
          \in Packet
    BY <2>1, <2>2 DEF Packet
  <2>4. body.kind = kind
    BY <2>2 DEF Packet, kind
  <2> QED BY <2>1, <2>3, <2>4 DEF seg, kind
<1>6. ReplyLen(p.seg, f.len) \in Int /\ ReplyLen(p.seg, f.len) <= 1500
  <2> HIDE DEF p
  <2> QED BY <1>3 DEF ReplyLen
<1>7. AckFrame(r, route, f) =
        ComposeEthernetFrame(ArpLookup(r, p.src), interfaces[r][route.iface].eth, "ip",
                             ReplyLen(p.seg, f.len), body)
  BY DEF AckFrame
<1> HIDE DEF body
<1>8. ComposeEthernetFrame(ArpLookup(r, p.src), interfaces[r][route.iface].eth, "ip",
                           ReplyLen(p.seg, f.len), body) \in Frame
  <2> HIDE DEF p
  <2> QED BY <1>1, <1>2, <1>5, <1>6, ComposedTyped
<1> QED BY <1>5, <1>7, <1>8 DEF ComposeEthernetFrame

-----------------------------------------------------------------------------
(* Pipes.                                                                  *)

Elements(s) == {s[k] : k \in DOMAIN s}

\* Writing to a pipe adds the frame.
LEMMA Written ==
  ASSUME NEW S, NEW s \in Seq(S), NEW e \in S
  PROVE  /\ Append(s, e) \in Seq(S) /\ Append(s, e) # <<>>
         /\ Len(Append(s, e)) = Len(s) + 1
         /\ Elements(Append(s, e)) \subseteq Elements(s) \cup {e}
<1>1. /\ Append(s, e) \in Seq(S) /\ Append(s, e) # <<>>
      /\ Len(Append(s, e)) = Len(s) + 1
      /\ \A k \in 1 .. Len(s) : Append(s, e)[k] = s[k]
      /\ Append(s, e)[Len(s) + 1] = e
  BY AppendProperties
<1>2. /\ DOMAIN Append(s, e) = 1 .. Len(s) + 1
      /\ DOMAIN s = 1 .. Len(s) /\ Len(s) \in Nat
  BY <1>1, LenProperties
<1>3. ASSUME NEW k \in 1 .. Len(s) + 1
      PROVE  k \in 1 .. Len(s) \/ k = Len(s) + 1
  BY <1>2
<1> QED BY <1>1, <1>2, <1>3 DEF Elements

\* Reading from a pipe that is not empty takes a frame from it.
LEMMA Read ==
  ASSUME NEW S, NEW s \in Seq(S), s # <<>>
  PROVE  /\ Head(s) \in S /\ Head(s) \in Elements(s)
         /\ Tail(s) \in Seq(S) /\ Len(Tail(s)) <= Len(s)
         /\ Elements(Tail(s)) \subseteq Elements(s)
<1>1. /\ Head(s) \in S /\ Tail(s) \in Seq(S) /\ Len(Tail(s)) = Len(s) - 1
      /\ \A k \in 1 .. Len(Tail(s)) : Tail(s)[k] = s[k + 1]
  BY HeadTailProperties
<1>2. DOMAIN Tail(s) = 1 .. Len(Tail(s)) /\ DOMAIN s = 1 .. Len(s) /\ Len(s) \in Nat \ {0}
  BY <1>1, LenProperties, EmptySeq
<1>3. Head(s) \in Elements(s)
  BY <1>2 DEF Elements
<1>4. \A k \in 1 .. Len(Tail(s)) : k + 1 \in 1 .. Len(s)
  BY <1>1, <1>2
<1> QED BY <1>1, <1>2, <1>3, <1>4 DEF Elements

-----------------------------------------------------------------------------
(* What a router may send for the frame it reads.                          *)

\* It forwards, to port p, a packet that is for another station.
Forwards(r, p, g) ==
    LET f == Arrived(r)
        route == LookupRoute(r, f.body.dst)
    IN  /\ f.type = "ip" /\ f.dst \in {interfaces[r][Turn(r)].eth, Broadcast}
        /\ ~Local(r, f.body.dst) /\ f.body.ttl # 0
        /\ route # NULL /\ p = interfaces[r][route.iface].port
        /\ NextHop(r, route, f.body.dst) # NULL
        /\ g = ForwardedFrame(r, route, f)

\* The addresses that have an entry in the TCP table.
Peers(r) == {tcpTbl[r][j].ip : j \in DOMAIN tcpTbl[r]}

Built(r, p, g) ==
    \/ g.type = "arp"
    \/ /\ g.type = "ip" /\ g.body.kind \in Error \cup Reply
       /\ g.body.kind = "dataAck" => Local(r, g.body.src) /\ g.body.dst \in Peers(r)
    \/ Forwards(r, p, g)

\* The interface that a router is at is one of its own and not handled yet.
LEMMA TurnTyped ==
  ASSUME RouterTypeOK, NEW r \in Router, ready[r] # {}
  PROVE  /\ Turn(r) \in ready[r] /\ Turn(r) \in DOMAIN interfaces[r]
         /\ Pipe(r) = interfaces[r][Turn(r)].port /\ Pipe(r) \in Port
<1>1. ready[r] \in SUBSET Nat /\ ready[r] \subseteq DOMAIN interfaces[r]
  BY DEF RouterTypeOK
<1>2. Turn(r) \in ready[r]
  BY <1>1, MinIsLeast DEF Turn
<1> QED BY <1>1, <1>2, InterfaceTyped DEF Pipe

\* The frame that a router reads is one.
LEMMA ArrivedTyped ==
  ASSUME RouterTypeOK, NEW r \in Router, Receive(r)
  PROVE  /\ Arrived(r) \in Frame
         /\ Turn(r) \in ready[r] /\ Turn(r) \in DOMAIN interfaces[r]
         /\ Pipe(r) = interfaces[r][Turn(r)].port /\ Pipe(r) \in Port
         /\ Arrived(r) \in Elements(inPipe[Pipe(r)])
<1>1. ready[r] # {} /\ inPipe[Pipe(r)] # <<>>
  BY DEF Receive
<1>2. /\ Turn(r) \in ready[r] /\ Turn(r) \in DOMAIN interfaces[r]
      /\ Pipe(r) = interfaces[r][Turn(r)].port /\ Pipe(r) \in Port
  BY <1>1, TurnTyped
<1>3. inPipe[Pipe(r)] \in Seq(Frame)
  BY <1>2 DEF RouterTypeOK
<1> QED BY <1>1, <1>2, <1>3, Read DEF Arrived

Sends(r) ==
    \/ UNCHANGED outPipe
    \/ \E i \in DOMAIN interfaces[r], g \in Frame :
           Built(r, interfaces[r][i].port, g) /\ Send(interfaces[r][i].port, g)

\* route_packet sends nothing, an ICMP error or the forwarded packet.
LEMMA TransitSends ==
  ASSUME RouterTypeOK, NEW r \in Router, Transit(r)
  PROVE  Sends(r)
<1> DEFINE f == Arrived(r)
           p == Aged(f.body)
           route == LookupRoute(r, p.dst)
<1>1. /\ f \in Frame /\ f.type = "ip" /\ f.dst \in {interfaces[r][Turn(r)].eth, Broadcast}
      /\ ~Local(r, f.body.dst) /\ f.body.ttl # 0
  BY ArrivedTyped DEF Transit, IsTransit, IsIpPacket, ForMe
<1>2. f.body \in Packet
  BY <1>1, FrameParts
<1>3. p \in Packet /\ p.dst = f.body.dst
  BY <1>2, AgedTyped
<1>4. CASE route = NULL
  <2>1. UNCHANGED outPipe
    BY <1>4 DEF Transit, RoutePacket
  <2> QED BY <2>1 DEF Sends
<1>5. CASE route # NULL
  <2>1. route \in RouteEntry /\ route.iface \in DOMAIN interfaces[r]
    <3> HIDE DEF p
    <3> QED BY <1>5, LookupRouteResult
  <2>2. ASSUME NEW kind \in Error, SendIcmp(r, route, p, kind)
        PROVE  Sends(r)
    <3>1. CASE UNCHANGED outPipe
      BY <3>1 DEF Sends
    <3>2. ASSUME ArpLookup(r, p.src) # NULL, NEW flags \in Flag,
                 Send(interfaces[r][route.iface].port, IcmpFrame(r, route, p, kind, flags))
          PROVE  Sends(r)
      <4> DEFINE g == IcmpFrame(r, route, p, kind, flags)
      <4>1. g \in Frame /\ g.body.kind = kind /\ g.type = "ip"
        <5>1. g \in Frame /\ g.body.kind = kind
          <6> HIDE DEF p, route
          <6> QED BY <1>3, <2>1, <3>2, IcmpTyped
        <5>2. g.type = "ip"
          BY DEF IcmpFrame, ComposeEthernetFrame
        <5> QED BY <5>1, <5>2
      <4>2. Built(r, interfaces[r][route.iface].port, g)
        <5> HIDE DEF g
        <5> QED BY <4>1 DEF Built, Error
      <4> HIDE DEF g, p, route
      <4> QED BY <2>1, <3>2, <4>1, <4>2 DEF Sends, g
    <3> QED BY <2>2, <3>1, <3>2 DEF SendIcmp
  <2>3. CASE /\ NextHop(r, route, p.dst) # NULL
             /\ Send(interfaces[r][route.iface].port, ForwardedFrame(r, route, f))
    <3> DEFINE g == ForwardedFrame(r, route, f)
    <3>1. g \in Frame
      <4> HIDE DEF p, route, f
      <4> QED BY <1>1, <1>3, <2>1, <2>3, ForwardedTyped
    <3>2. Built(r, interfaces[r][route.iface].port, g)
      BY <1>1, <1>3, <1>5, <2>3 DEF Built, Forwards
    <3> HIDE DEF g, p, route
    <3> QED BY <2>1, <2>3, <3>1, <3>2 DEF Sends, g
  <2>4. \/ SendIcmp(r, route, p, "ttlExceeded")
        \/ SendIcmp(r, route, p, "hostUnreachable")
        \/ /\ NextHop(r, route, p.dst) # NULL
           /\ Send(interfaces[r][route.iface].port, ForwardedFrame(r, route, f))
    BY <1>5 DEF Transit, RoutePacket
  <2>5. "ttlExceeded" \in Error /\ "hostUnreachable" \in Error
    BY DEF Error
  <2> QED BY <2>2, <2>3, <2>4, <2>5
<1> QED BY <1>4, <1>5

\* composeAck acknowledges data only to a peer that it has found in the table, from the
\* address that the data was sent to.
LEMMA AckToPeer ==
  ASSUME NEW r \in Router, NEW f \in Frame, f.type = "ip", ~NoAck(r, f.body), NEW route,
         AckFrame(r, route, f).body.kind = "dataAck"
  PROVE  /\ AckFrame(r, route, f).body.dst \in Peers(r)
         /\ AckFrame(r, route, f).body.src = f.body.dst
<1> DEFINE p == f.body
           g == AckFrame(r, route, f).body
<1>1. p \in Packet
  BY FrameParts
<1>2. g.dst = p.src /\ g.src = p.dst /\ g.kind = ReplyKind(p.seg)
  BY <1>1 DEF AckFrame, ComposeEthernetFrame, Packet
<1>3. p.seg.flags = "pshack"
  BY <1>2 DEF ReplyKind
<1>4. LookupTcp(tcpTbl[r], p.src) # NULL
  BY <1>3 DEF NoAck
<1>5. \E k \in DOMAIN tcpTbl[r] : tcpTbl[r][k].ip = p.src
  BY <1>4 DEF LookupTcp
<1> QED BY <1>2, <1>5 DEF Peers

\* A handler reads one frame and sends at most one, which it has built.
LEMMA HandlerSends ==
  ASSUME RouterTypeOK, NEW r \in Router, Handle(r)
  PROVE  Receive(r) /\ Sends(r) /\ UNCHANGED alive
<1>1. Receive(r) /\ UNCHANGED alive
  BY DEF Handle, Ignore, AnswerArp, Transit, Establish, Acknowledge
<1> SUFFICES Sends(r)
  BY <1>1
<1> DEFINE f == Arrived(r)
           i == Turn(r)
<1>2. /\ f \in Frame /\ i \in DOMAIN interfaces[r] /\ Pipe(r) = interfaces[r][i].port
  BY <1>1, ArrivedTyped
<1>3. CASE Ignore(r) \/ Establish(r)
  BY <1>3 DEF Ignore, Establish, Sends
<1>4. CASE AnswerArp(r)
  <2>1. CASE UNCHANGED outPipe
    BY <2>1 DEF Sends
  <2>2. CASE /\ ArpLookup(r, f.body.targetip) # NULL
             /\ Send(Pipe(r), ArpReply(r, i, f))
    <3> DEFINE g == ArpReply(r, i, f)
    <3>1. f.type = "arp"
      BY <1>4 DEF AnswerArp, IsArpRequest
    <3>2. g \in Frame /\ g.type = "arp"
      <4> HIDE DEF f, i
      <4> QED BY <1>2, <2>2, <3>1, ArpReplyTyped
    <3> HIDE DEF g, i
    <3> QED BY <1>2, <2>2, <3>2 DEF Sends, Built, g
  <2> QED BY <1>4, <2>1, <2>2 DEF AnswerArp
<1>5. CASE Transit(r)
  BY <1>5, TransitSends
<1>6. CASE Acknowledge(r)
  <2> DEFINE route == LookupRoute(r, f.body.dst)
  <2>1. CASE UNCHANGED outPipe
    BY <2>1 DEF Sends
  <2>2. CASE /\ ~NoAck(r, f.body)
             /\ Send(interfaces[r][route.iface].port, AckFrame(r, route, f))
    <3> DEFINE g == AckFrame(r, route, f)
    <3>1. /\ f.type = "ip" /\ ArpLookup(r, f.body.src) # NULL /\ route # NULL
          /\ Local(r, f.body.dst)
      BY <1>6, <2>2 DEF Acknowledge, IsSegment, IsIpPacket, NoAck
    <3>2. route \in RouteEntry /\ route.iface \in DOMAIN interfaces[r]
      <4> HIDE DEF f
      <4> QED BY <3>1, LookupRouteResult
    <3>3. g \in Frame /\ g.body.kind \in Reply
      <4> HIDE DEF f, route
      <4> QED BY <1>2, <3>1, <3>2, AckTyped
    <3>4. g.type = "ip"
      BY DEF AckFrame, ComposeEthernetFrame
    <3>5. g.body.kind = "dataAck" => Local(r, g.body.src) /\ g.body.dst \in Peers(r)
      <4> HIDE DEF f, route
      <4> QED BY <1>2, <2>2, <3>1, AckToPeer
    <3> HIDE DEF g, route
    <3> QED BY <2>2, <3>2, <3>3, <3>4, <3>5 DEF Sends, Built, g
  <2> QED BY <1>6, <2>1, <2>2 DEF Acknowledge
<1> QED BY <1>1, <1>3, <1>4, <1>5, <1>6 DEF Handle

-----------------------------------------------------------------------------
(* The steps of a router keep the types.                                   *)

\* Pipes as RouterTypeOK wants them.
PipesTyped(pipes) ==
    pipes \in [Port -> Seq(Frame)] /\ \A p \in Port : Len(pipes[p]) <= PipeCap

\* The type of the routers' variables, one by one.
LEMMA RouterTypeOKParts ==
  RouterTypeOK <=>
    /\ alive \in [Router -> BOOLEAN]
    /\ ready \in [Router -> SUBSET Nat]
    /\ \A r \in Router : ready[r] \subseteq DOMAIN interfaces[r]
    /\ tcpTbl \in [Router -> Seq(ArpEntry)]
    /\ \A r \in Router : Len(tcpTbl[r]) <= MaxTcpTableSize
    /\ established \in [Router -> SUBSET Word]
    /\ PipesTyped(inPipe)
    /\ PipesTyped(outPipe)
  BY DEF RouterTypeOK, PipesTyped, ArpEntry

\* Sending keeps the pipes typed: a full pipe blocks the sender.
LEMMA SendTyped ==
  ASSUME RouterTypeOK, NEW p \in Port, NEW f \in Frame, Send(p, f)
  PROVE  PipesTyped(outPipe')
<1>1. outPipe[p] \in Seq(Frame) /\ Len(outPipe[p]) \in Nat
  BY LenProperties DEF RouterTypeOK
<1>2. Append(outPipe[p], f) \in Seq(Frame) /\ Len(Append(outPipe[p], f)) = Len(outPipe[p]) + 1
  BY <1>1, Written
<1>3. Len(outPipe[p]) + 1 <= PipeCap
  BY <1>1, TablesAssumption DEF Send, HasRoom
<1>4. outPipe' = [outPipe EXCEPT ![p] = Append(outPipe[p], f)]
  BY DEF Send
<1> QED BY <1>2, <1>3, <1>4 DEF RouterTypeOK, PipesTyped

\* A handler leaves well-formed frames in the pipes.
LEMMA SendsTyped ==
  ASSUME RouterTypeOK, NEW r \in Router, Sends(r)
  PROVE  PipesTyped(outPipe')
<1>1. CASE UNCHANGED outPipe
  BY <1>1 DEF RouterTypeOK, PipesTyped
<1>2. ASSUME NEW i \in DOMAIN interfaces[r], NEW g \in Frame, Send(interfaces[r][i].port, g)
      PROVE  PipesTyped(outPipe')
  <2>1. interfaces[r][i].port \in Port
    BY InterfaceTyped
  <2> QED BY <1>2, <2>1, SendTyped
<1> QED BY <1>1, <1>2 DEF Sends

\* Taking a frame from a pipe keeps the pipes typed.
LEMMA TakeTyped ==
  ASSUME RouterTypeOK, NEW p \in Port, inPipe[p] # <<>>
  PROVE  PipesTyped([inPipe EXCEPT ![p] = Tail(inPipe[p])])
<1>1. inPipe[p] \in Seq(Frame) /\ Len(inPipe[p]) \in Nat /\ Len(inPipe[p]) <= PipeCap
  BY LenProperties DEF RouterTypeOK
<1>2. Tail(inPipe[p]) \in Seq(Frame) /\ Len(Tail(inPipe[p])) <= Len(inPipe[p])
  BY <1>1, Read
<1>3. Len(Tail(inPipe[p])) \in Nat
  BY <1>2, LenProperties
<1>4. Len(Tail(inPipe[p])) <= PipeCap
  BY <1>1, <1>2, <1>3, TablesAssumption
<1> QED BY <1>2, <1>4 DEF RouterTypeOK, PipesTyped

\* A pipe that ends with its process is empty when the process is started again.
LEMMA EmptiedTyped ==
  ASSUME NEW pipes, PipesTyped(pipes), NEW ports
  PROVE  PipesTyped(Emptied(pipes, ports))
<1>1. <<>> \in Seq(Frame) /\ Len(<<>>) <= PipeCap
  BY EmptySeq, TablesAssumption
<1> QED BY <1>1 DEF Emptied, PipesTyped

\* add_tcp fills the first empty slot and keeps the others.
LEMMA AddTcpKeeps ==
  ASSUME NEW tbl \in Seq(ArpEntry), Len(tbl) <= MaxTcpTableSize,
         NEW eth \in Mac, NEW ip \in Word
  PROVE  /\ AddTcp(tbl, eth, ip) \in Seq(ArpEntry)
         /\ Len(tbl) <= Len(AddTcp(tbl, eth, ip))
         /\ Len(AddTcp(tbl, eth, ip)) <= MaxTcpTableSize
         /\ \A j \in DOMAIN tbl : AddTcp(tbl, eth, ip)[j] = tbl[j]
<1> DEFINE e == [eth |-> eth, ip |-> ip]
<1>1. e \in ArpEntry
  BY DEF ArpEntry
<1>2. Len(tbl) \in Nat /\ DOMAIN tbl = 1 .. Len(tbl) /\ MaxTcpTableSize \in Nat
  BY LenProperties, TablesAssumption
<1> HIDE DEF e
<1>3. /\ Append(tbl, e) \in Seq(ArpEntry) /\ Len(Append(tbl, e)) = Len(tbl) + 1
      /\ \A j \in 1 .. Len(tbl) : Append(tbl, e)[j] = tbl[j]
  BY <1>1, AppendProperties
<1>4. AddTcp(tbl, eth, ip) = IF Len(tbl) < MaxTcpTableSize THEN Append(tbl, e) ELSE tbl
  BY DEF AddTcp, e
<1>5. CASE Len(tbl) < MaxTcpTableSize
  BY <1>2, <1>3, <1>4, <1>5
<1>6. CASE ~(Len(tbl) < MaxTcpTableSize)
  BY <1>2, <1>4, <1>6
<1> QED BY <1>5, <1>6

\* What Establish adds to the TCP table: the process would have died of a
\* NULL address.
LEMMA EstablishEffect ==
  ASSUME RouterTypeOK, NEW r \in Router, Establish(r)
  PROVE  \E eth, ip :
            /\ ip \in Word
            /\ tcpTbl' = [tcpTbl EXCEPT ![r] = AddTcp(tcpTbl[r], eth, ip)]
            /\ established' = [established EXCEPT ![r] = established[r] \cup {ip}]
            /\ Len(tcpTbl[r]) < MaxTcpTableSize => eth \in Mac
<1> DEFINE p == Arrived(r).body
<1>1. Arrived(r) \in Frame /\ Arrived(r).type = "ip"
  BY ArrivedTyped DEF Establish, IsSegment, IsIpPacket
<1>2. p.src \in Word
  BY <1>1, FrameParts, PacketParts
<1>3. /\ tcpTbl' = [tcpTbl EXCEPT ![r] = AddTcp(tcpTbl[r], ArpLookup(r, p.src), p.src)]
      /\ established' = [established EXCEPT ![r] = established[r] \cup {p.src}]
  BY DEF Establish
<1>4. ASSUME Len(tcpTbl[r]) < MaxTcpTableSize
      PROVE  ArpLookup(r, p.src) \in Mac
  <2>1. ArpLookup(r, p.src) # NULL
    BY <1>4 DEF Establish, Faults
  <2> HIDE DEF p
  <2> QED BY <2>1, ArpLookupResult
<1> HIDE DEF p
<1> QED BY <1>2, <1>3, <1>4

\* The ACK of a handshake adds at most one entry, and only if there is room.
LEMMA EstablishTyped ==
  ASSUME RouterTypeOK, NEW r \in Router, Establish(r)
  PROVE  /\ tcpTbl' \in [Router -> Seq(ArpEntry)]
         /\ \A s \in Router : Len(tcpTbl'[s]) <= MaxTcpTableSize
         /\ \A s \in Router : Len(tcpTbl[s]) <= Len(tcpTbl'[s])
         /\ \A s \in Router : \A j \in DOMAIN tcpTbl[s] : tcpTbl'[s][j] = tcpTbl[s][j]
         /\ established' \in [Router -> SUBSET Word]
<1>1. /\ tcpTbl \in [Router -> Seq(ArpEntry)] /\ established \in [Router -> SUBSET Word]
      /\ \A s \in Router : Len(tcpTbl[s]) <= MaxTcpTableSize
  BY RouterTypeOKParts
<1>2. PICK eth, ip :
            /\ ip \in Word
            /\ tcpTbl' = [tcpTbl EXCEPT ![r] = AddTcp(tcpTbl[r], eth, ip)]
            /\ established' = [established EXCEPT ![r] = established[r] \cup {ip}]
            /\ Len(tcpTbl[r]) < MaxTcpTableSize => eth \in Mac
  BY EstablishEffect
<1> DEFINE new == AddTcp(tcpTbl[r], eth, ip)
<1>3. /\ new \in Seq(ArpEntry) /\ Len(tcpTbl[r]) <= Len(new) /\ Len(new) <= MaxTcpTableSize
      /\ \A j \in DOMAIN tcpTbl[r] : new[j] = tcpTbl[r][j]
  <2>1. CASE Len(tcpTbl[r]) < MaxTcpTableSize
    BY <1>1, <1>2, <2>1, AddTcpKeeps
  <2>2. CASE ~(Len(tcpTbl[r]) < MaxTcpTableSize)
    <3>1. new = tcpTbl[r]
      BY <2>2 DEF AddTcp
    <3>2. Len(tcpTbl[r]) \in Nat
      BY <1>1, LenProperties
    <3> QED BY <1>1, <3>1, <3>2
  <2> QED BY <2>1, <2>2
<1> HIDE DEF new
<1>4. tcpTbl' = [tcpTbl EXCEPT ![r] = new]
  BY <1>2 DEF new
<1>5. \A s \in Router : Len(tcpTbl[s]) \in Nat
  BY <1>1, LenProperties
<1> QED BY <1>1, <1>2, <1>3, <1>4, <1>5

\* poll() flags interfaces; a handler takes the one it handles off.
LEMMA PollTyped ==
  ASSUME RouterTypeOK, NEW r \in Router, Poll(r)
  PROVE  RouterTypeOK'
<1>1. Flagged(r) \subseteq DOMAIN interfaces[r] /\ Flagged(r) \in SUBSET Nat
  BY TablesTyped, LenProperties DEF Flagged
<1>2. /\ ready' \in [Router -> SUBSET Nat]
      /\ \A s \in Router : ready'[s] \subseteq DOMAIN interfaces[s]
  BY <1>1 DEF Poll, RouterTypeOK
<1>3. UNCHANGED <<alive, tcpTbl, established, inPipe, outPipe>>
  BY DEF Poll
<1> QED BY <1>2, <1>3 DEF RouterTypeOK

\* Handling one frame keeps the types.
LEMMA HandleTyped ==
  ASSUME RouterTypeOK, NEW r \in Router, Handle(r)
  PROVE  RouterTypeOK'
<1>1. Receive(r) /\ Sends(r) /\ UNCHANGED alive
  BY HandlerSends
<1>2. Pipe(r) \in Port /\ inPipe[Pipe(r)] # <<>>
  BY <1>1, ArrivedTyped DEF Receive
<1>3. PipesTyped(inPipe')
  <2>1. inPipe' = [inPipe EXCEPT ![Pipe(r)] = Tail(inPipe[Pipe(r)])]
    BY <1>1 DEF Receive
  <2> QED BY <1>2, <2>1, TakeTyped
<1>4. PipesTyped(outPipe')
  BY <1>1, SendsTyped
<1>5. /\ ready' \in [Router -> SUBSET Nat]
      /\ \A s \in Router : ready'[s] \subseteq DOMAIN interfaces[s]
  BY <1>1 DEF Receive, Remaining, RouterTypeOK
<1>6. /\ tcpTbl' \in [Router -> Seq(ArpEntry)]
      /\ \A s \in Router : Len(tcpTbl'[s]) <= MaxTcpTableSize
      /\ established' \in [Router -> SUBSET Word]
  <2>1. CASE Establish(r)
    BY <2>1, EstablishTyped
  <2>2. CASE UNCHANGED <<tcpTbl, established>>
    BY <2>2, RouterTypeOKParts
  <2> QED BY <2>1, <2>2 DEF Handle, Ignore, AnswerArp, Transit, Acknowledge
<1>7. alive' \in [Router -> BOOLEAN]
  BY <1>1 DEF RouterTypeOK
<1> QED BY <1>3, <1>4, <1>5, <1>6, <1>7 DEF RouterTypeOK, PipesTyped, ArpEntry

\* A router that starts or ends has empty tables and nothing to read; what it has written
\* stays or goes.
Renewed(r) ==
    /\ \E b \in BOOLEAN : alive' = [alive EXCEPT ![r] = b]
    /\ Reset(r)
    /\ \E ports \in SUBSET PortsOf(r) : outPipe' = Emptied(outPipe, ports)

\* Emptying no pipes changes none.
LEMMA NoneEmptied == ASSUME RouterTypeOK PROVE outPipe = Emptied(outPipe, {})
  BY DEF Emptied, RouterTypeOK

\* Starting, Control-C and a crash are such steps.
LEMMA RenewedBy ==
  ASSUME RouterTypeOK, NEW r \in Router, Boot(r) \/ Terminate(r) \/ Crash(r)
  PROVE  Renewed(r)
<1>1. {} \in SUBSET PortsOf(r) /\ PortsOf(r) \in SUBSET PortsOf(r)
  OBVIOUS
<1>2. UNCHANGED outPipe => \E ports \in SUBSET PortsOf(r) : outPipe' = Emptied(outPipe, ports)
  BY <1>1, NoneEmptied
<1> QED BY <1>1, <1>2 DEF Renewed, Boot, Terminate, Crash

\* They keep the types.
LEMMA RenewedTyped ==
  ASSUME RouterTypeOK, NEW r \in Router, Renewed(r)
  PROVE  RouterTypeOK'
<1>1. PipesTyped(inPipe') /\ PipesTyped(outPipe')
  <2>1. inPipe' = Emptied(inPipe, PortsOf(r))
    BY DEF Renewed, Reset
  <2>2. PICK ports \in SUBSET PortsOf(r) : outPipe' = Emptied(outPipe, ports)
    BY DEF Renewed
  <2>3. PipesTyped(inPipe) /\ PipesTyped(outPipe)
    BY RouterTypeOKParts
  <2> QED BY <2>1, <2>2, <2>3, EmptiedTyped
<1>2. /\ tcpTbl' \in [Router -> Seq([eth : Mac, ip : Word])]
      /\ \A s \in Router : Len(tcpTbl'[s]) <= MaxTcpTableSize
  <2>1. <<>> \in Seq([eth : Mac, ip : Word]) /\ Len(<<>>) <= MaxTcpTableSize
    BY EmptySeq, TablesAssumption
  <2> QED BY <2>1 DEF Renewed, Reset, RouterTypeOK
<1>3. /\ alive' \in [Router -> BOOLEAN]
      /\ ready' \in [Router -> SUBSET Nat]
      /\ \A s \in Router : ready'[s] \subseteq DOMAIN interfaces[s]
      /\ established' \in [Router -> SUBSET Word]
  BY DEF Renewed, Reset, RouterTypeOK
<1> QED BY <1>1, <1>2, <1>3 DEF RouterTypeOK, PipesTyped

=============================================================================
