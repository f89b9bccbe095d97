-------------------------- MODULE TcpSessionProofs --------------------------
(***************************************************************************)
(* Theorems about a connection from the kernel to a router, for all        *)
(* initial sequence numbers, windows and writes of the client, and for all *)
(* tables of the router.                                                   *)
(***************************************************************************)
EXTENDS TcpSession, RouterProofs

-----------------------------------------------------------------------------
(* Words as numbers.                                                       *)

\* How many words there are, and half of that.
Space == 4294967296
Half == 2147483648

Value(w) == 16777216 * w[1] + 65536 * w[2] + 256 * w[3] + w[4]

Bytes(a, b, c, d) == a \in 0 .. 255 /\ b \in 0 .. 255 /\ c \in 0 .. 255 /\ d \in 0 .. 255

\* A word is four bytes.
LEMMA WordParts ==
  ASSUME NEW w \in Word
  PROVE  /\ w = <<w[1], w[2], w[3], w[4]>>
         /\ Bytes(w[1], w[2], w[3], w[4])
         /\ Value(w) \in Nat /\ Value(w) < Space
<1>1. w = <<w[1], w[2], w[3], w[4]>>
  BY DEF Word
<1>2. Bytes(w[1], w[2], w[3], w[4])
  BY DEF Word, Byte, Bytes
<1> DEFINE a == w[1]
           b == w[2]
           c == w[3]
           d == w[4]
<1>3. Value(w) = 16777216 * a + 65536 * b + 256 * c + d
  BY DEF Value
<1>4. Bytes(a, b, c, d)
  BY <1>2
<1> HIDE DEF a, b, c, d
<1>5. Value(w) \in Nat /\ Value(w) < Space
  BY <1>3, <1>4 DEF Bytes, Space
<1> QED BY <1>1, <1>2, <1>5

\* Words with the same value are the same.
LEMMA SameValue ==
  ASSUME NEW v \in Word, NEW w \in Word, Value(v) = Value(w)
  PROVE  v = w
<1> DEFINE a == v[1]
           b == v[2]
           c == v[3]
           d == v[4]
           p == w[1]
           q == w[2]
           r == w[3]
           s == w[4]
<1>1. Bytes(a, b, c, d) /\ Bytes(p, q, r, s)
  BY WordParts
<1>2. 16777216 * a + 65536 * b + 256 * c + d = 16777216 * p + 65536 * q + 256 * r + s
  BY DEF Value
<1>3. a = p /\ b = q /\ c = r /\ d = s
  <2> HIDE DEF a, b, c, d, p, q, r, s
  <2> QED BY <1>1, <1>2, SMTT(30) DEF Bytes
<1> QED BY <1>3 DEF Word

\* The sum of two bytes and a carry is a byte and a carry.
LEMMA ByteAndCarry ==
  ASSUME NEW n \in 0 .. 511
  PROVE  /\ n \div 256 \in {0, 1} /\ n % 256 \in 0 .. 255
         /\ n = 256 * (n \div 256) + (n % 256)
<1>1. n - (n % 256) = 256 * (n \div 256)
  OBVIOUS
<1> QED BY <1>1

\* uint32_t addition is addition modulo 2^32.
LEMMA ValueOfPlus ==
  ASSUME NEW v \in Word, NEW w \in Word
  PROVE  \E carry \in {0, 1} : Value(Plus(v, w)) = Value(v) + Value(w) - Space * carry
<1> DEFINE a == v[1]
           b == v[2]
           c == v[3]
           d == v[4]
           p == w[1]
           q == w[2]
           r == w[3]
           s == w[4]
           s4 == d + s
           c4 == s4 \div 256
           s3 == c + r + c4
           c3 == s3 \div 256
           s2 == b + q + c3
           c2 == s2 \div 256
           s1 == a + p + c2
           c1 == s1 \div 256
           r4 == s4 % 256
           r3 == s3 % 256
           r2 == s2 % 256
           r1 == s1 % 256
<1>1. Bytes(a, b, c, d) /\ Bytes(p, q, r, s)
  BY WordParts
<1>2. /\ Value(v) = 16777216 * a + 65536 * b + 256 * c + d
      /\ Value(w) = 16777216 * p + 65536 * q + 256 * r + s
  BY DEF Value
<1>3. Plus(v, w) = <<r1, r2, r3, r4>>
  BY DEF Plus
<1> HIDE DEF a, b, c, d, p, q, r, s
<1>4. c4 \in {0, 1} /\ r4 \in 0 .. 255 /\ d + s = 256 * c4 + r4
  <2>1. s4 \in 0 .. 511
    BY <1>1 DEF Bytes
  <2> QED BY <2>1, ByteAndCarry
<1> HIDE DEF c4, r4
<1>5. c3 \in {0, 1} /\ r3 \in 0 .. 255 /\ c + r + c4 = 256 * c3 + r3
  <2>1. s3 \in 0 .. 511
    BY <1>1, <1>4 DEF Bytes
  <2> QED BY <2>1, ByteAndCarry
<1> HIDE DEF c3, r3
<1>6. c2 \in {0, 1} /\ r2 \in 0 .. 255 /\ b + q + c3 = 256 * c2 + r2
  <2>1. s2 \in 0 .. 511
    BY <1>1, <1>5 DEF Bytes
  <2> QED BY <2>1, ByteAndCarry
<1> HIDE DEF c2, r2
<1>7. c1 \in {0, 1} /\ r1 \in 0 .. 255 /\ a + p + c2 = 256 * c1 + r1
  <2>1. s1 \in 0 .. 511
    BY <1>1, <1>6 DEF Bytes
  <2> QED BY <2>1, ByteAndCarry
<1> HIDE DEF c1, r1
<1>8. Value(Plus(v, w)) = 16777216 * r1 + 65536 * r2 + 256 * r3 + r4
  BY <1>3 DEF Value
<1>9. Value(Plus(v, w)) = Value(v) + Value(w) - Space * c1
  BY <1>1, <1>2, <1>4, <1>5, <1>6, <1>7, <1>8 DEF Bytes, Space
<1> QED BY <1>7, <1>9

\* ToWord is the word of a number.
LEMMA ValueOfNumber ==
  ASSUME NEW n \in Nat, n < Space
  PROVE  ToWord(n) \in Word /\ Value(ToWord(n)) = n
<1> DEFINE n3 == n \div 256
           n2 == n \div 65536
           n1 == n \div 16777216
           r4 == n % 256
           r3 == n3 % 256
           r2 == n2 % 256
           r1 == n1 % 256
<1>1. ToWord(n) = <<r1, r2, r3, r4>>
  BY DEF ToWord
<1>2. n3 \in Nat /\ n2 \in Nat /\ n1 \in Nat
  OBVIOUS
<1>3. n2 = n3 \div 256 /\ n1 = n2 \div 256
  OBVIOUS
<1>4. n = 256 * n3 + r4
  OBVIOUS
<1>5. n3 = 256 * n2 + r3
  BY <1>3
<1>6. n2 = 256 * n1 + r2
  BY <1>3
<1>7. n1 < 256
  BY DEF Space
<1>8. r1 = n1
  <2> HIDE DEF n1
  <2> QED BY <1>2, <1>7
<1>9. r1 \in Nat /\ r2 \in Nat /\ r3 \in Nat /\ r4 \in Nat
  OBVIOUS
<1> HIDE DEF n1, n2, n3, r1, r2, r3, r4
<1>10. Value(ToWord(n)) = 16777216 * r1 + 65536 * r2 + 256 * r3 + r4
  BY <1>1 DEF Value
<1>11. Value(ToWord(n)) = n
  BY <1>2, <1>4, <1>5, <1>6, <1>8, <1>9, <1>10
<1> QED BY <1>11, WordArithmetic

\* composeAck adds the reversed words and loses one of Lags.
LEMMA AddedReversed ==
  ASSUME NEW w \in Word, NEW n \in Nat, n < 65536
  PROVE  LET v == Htonl(Plus(Htonl(w), Htonl(ToWord(n))))
         IN  v \in Word /\ \E lag \in Lags : Value(v) + lag = Value(w) + n
<1> DEFINE v == Htonl(Plus(Htonl(w), Htonl(ToWord(n))))
           a == w[1]
           b == w[2]
           c == w[3]
           d == w[4]
           x == n \div 256
           y == n % 256
           s2 == c + x
           c2 == s2 \div 256
           r2 == s2 % 256
           s1 == d + y + c2
           c1 == s1 \div 256
           r1 == s1 % 256
<1>1. Bytes(a, b, c, d)
  BY WordParts
<1>2. Value(w) = 16777216 * a + 65536 * b + 256 * c + d
  BY DEF Value
<1>3. x \in 0 .. 255 /\ y \in 0 .. 255 /\ n = 256 * x + y
  <2>1. n - (n % 256) = 256 * (n \div 256)
    OBVIOUS
  <2> QED BY <2>1
<1>4. ToWord(n) = <<0, 0, x, y>>
  <2>1. (n \div 16777216) % 256 = 0 /\ (n \div 65536) % 256 = 0 /\ x % 256 = x
    <3>1. n \div 16777216 = 0 /\ n \div 65536 = 0
      OBVIOUS
    <3>2. x % 256 = x
      <4> HIDE DEF x
      <4> QED BY <1>3
    <3> QED BY <3>1, <3>2
  <2> QED BY <2>1 DEF ToWord
<1>5. Htonl(w) = <<d, c, b, a>> /\ Htonl(ToWord(n)) = <<y, x, 0, 0>>
  BY <1>4 DEF Htonl
<1> HIDE DEF a, b, c, d, x, y
<1>6. Plus(Htonl(w), Htonl(ToWord(n))) = <<r1, r2, b, a>>
  <2>1. (a + 0) \div 256 = 0 /\ (a + 0) % 256 = a
    BY <1>1 DEF Bytes
  <2>2. (b + 0 + 0) \div 256 = 0 /\ (b + 0 + 0) % 256 = b
    BY <1>1 DEF Bytes
  <2>3. c + x + 0 = s2
    BY <1>1, <1>3 DEF Bytes
  <2>4. Plus(<<d, c, b, a>>, <<y, x, 0, 0>>) =
          LET t4 == a + 0
              t3 == b + 0 + (t4 \div 256)
              t2 == c + x + (t3 \div 256)
              t1 == d + y + (t2 \div 256)
          IN  <<t1 % 256, t2 % 256, t3 % 256, t4 % 256>>
    BY DEF Plus
  <2> HIDE DEF s2
  <2>5. Plus(<<d, c, b, a>>, <<y, x, 0, 0>>) = <<(d + y + (s2 \div 256)) % 256, s2 % 256, b, a>>
    BY <2>1, <2>2, <2>3, <2>4
  <2> QED BY <1>5, <2>5
<1>7. c2 \in {0, 1} /\ r2 \in 0 .. 255 /\ c + x = 256 * c2 + r2
  <2>1. s2 \in 0 .. 511
    BY <1>1, <1>3 DEF Bytes
  <2> QED BY <2>1, ByteAndCarry
<1> HIDE DEF c2, r2
<1>8. c1 \in {0, 1} /\ r1 \in 0 .. 255 /\ d + y + c2 = 256 * c1 + r1
  <2>1. s1 \in 0 .. 511
    BY <1>1, <1>3, <1>7 DEF Bytes
  <2> QED BY <2>1, ByteAndCarry
<1> HIDE DEF c1, r1
<1>9. v = <<a, b, r2, r1>>
  BY <1>6 DEF Htonl
<1>10. Value(v) = 16777216 * a + 65536 * b + 256 * r2 + r1
  BY <1>9 DEF Value
<1>11. Value(v) + (65535 * c2 + 256 * c1) = Value(w) + n
  BY <1>1, <1>2, <1>3, <1>7, <1>8, <1>10 DEF Bytes
<1>12. 65535 * c2 + 256 * c1 \in Lags
  BY <1>7, <1>8 DEF Lags
<1>13. v \in Word
  <2>1. ToWord(n) \in Word
    BY WordArithmetic
  <2> QED BY <2>1, WordArithmetic
<1> QED BY <1>11, <1>12, <1>13

\* The acknowledgement of a segment is the number of its end, less one of Lags.
LEMMA AckLags ==
  ASSUME NEW i \in Word, NEW from \in Nat, NEW end \in Nat,
         from < end, end - from < 65536, end < Half
  PROVE  LET v == Htonl(Plus(Htonl(Plus(i, ToWord(from))), Htonl(ToWord(end - from))))
         IN  \E lag \in Lags : Plus(v, ToWord(lag)) = Plus(i, ToWord(end))
<1> DEFINE w == Plus(i, ToWord(from))
           v == Htonl(Plus(Htonl(w), Htonl(ToWord(end - from))))
<1>1. /\ ToWord(from) \in Word /\ Value(ToWord(from)) = from
      /\ ToWord(end) \in Word /\ Value(ToWord(end)) = end
  <2>1. from < Space /\ end < Space
    BY DEF Half, Space
  <2> QED BY <2>1, ValueOfNumber
<1>2. w \in Word
  BY <1>1, WordArithmetic
<1>3. end - from \in Nat /\ end - from < 65536
  OBVIOUS
<1>4. v \in Word /\ \E lag \in Lags : Value(v) + lag = Value(w) + (end - from)
  <2> HIDE DEF w
  <2> QED BY <1>2, <1>3, AddedReversed
<1>5. PICK lag \in Lags : Value(v) + lag = Value(w) + (end - from)
  BY <1>4
<1>6. lag \in Nat /\ lag < Space
  BY DEF Lags, Space
<1>7. ToWord(lag) \in Word /\ Value(ToWord(lag)) = lag
  BY <1>6, ValueOfNumber
<1>8. PICK c \in {0, 1} : Value(w) = Value(i) + from - Space * c
  BY <1>1, ValueOfPlus
<1>9. PICK e \in {0, 1} : Value(Plus(i, ToWord(end))) = Value(i) + end - Space * e
  BY <1>1, ValueOfPlus
<1> HIDE DEF v, w
<1>10. PICK g \in {0, 1} : Value(Plus(v, ToWord(lag))) = Value(v) + lag - Space * g
  BY <1>4, <1>7, ValueOfPlus
<1>11. Plus(v, ToWord(lag)) \in Word /\ Plus(i, ToWord(end)) \in Word
  BY <1>1, <1>4, <1>7, WordArithmetic
<1> DEFINE p == Value(Plus(v, ToWord(lag)))
           q == Value(Plus(i, ToWord(end)))
           s == Value(v)
           t == Value(w)
           u == Value(i)
<1>12. p \in Nat /\ p < Space /\ q \in Nat /\ q < Space
  BY <1>11, WordParts
<1>13. s \in Nat /\ t \in Nat /\ u \in Nat
  BY <1>2, <1>4, WordParts
<1>14. /\ s + lag = t + (end - from) /\ t = u + from - Space * c
       /\ q = u + end - Space * e /\ p = s + lag - Space * g
  BY <1>5, <1>8, <1>9, <1>10
<1>15. p = q
  <2> HIDE DEF p, q, s, t, u
  <2> QED BY <1>6, <1>12, <1>13, <1>14 DEF Space
<1>16. Plus(v, ToWord(lag)) = Plus(i, ToWord(end))
  BY <1>11, <1>15, SameValue
<1> QED BY <1>16 DEF v, w

\* In less than half the sequence space a number that lags behind another belongs to an
\* earlier offset.
LEMMA LagBehind ==
  ASSUME NEW i \in Word, NEW k \in Nat, NEW end \in Nat, NEW lag \in Lags,
         k < Half, end < Half,
         Plus(Plus(i, ToWord(k)), ToWord(lag)) = Plus(i, ToWord(end))
  PROVE  k + lag = end
<1> DEFINE w == Plus(i, ToWord(k))
<1>1. lag \in Nat /\ lag < 65792
  BY DEF Lags
<1>2. /\ ToWord(k) \in Word /\ Value(ToWord(k)) = k
      /\ ToWord(end) \in Word /\ Value(ToWord(end)) = end
      /\ ToWord(lag) \in Word /\ Value(ToWord(lag)) = lag
  <2>1. k < Space /\ end < Space /\ lag < Space
    BY <1>1 DEF Half, Space
  <2> QED BY <1>1, <2>1, ValueOfNumber
<1>3. w \in Word
  BY <1>2, WordArithmetic
<1>4. PICK c \in {0, 1} : Value(w) = Value(i) + k - Space * c
  BY <1>2, ValueOfPlus
<1>5. PICK e \in {0, 1} : Value(Plus(i, ToWord(end))) = Value(i) + end - Space * e
  BY <1>2, ValueOfPlus
<1> HIDE DEF w
<1>6. PICK g \in {0, 1} : Value(Plus(w, ToWord(lag))) = Value(w) + lag - Space * g
  BY <1>2, <1>3, ValueOfPlus
<1> DEFINE q == Value(Plus(i, ToWord(end)))
           t == Value(w)
           u == Value(i)
<1>7. t \in Nat /\ u \in Nat
  BY <1>3, WordParts
<1>8. q = t + lag - Space * g /\ q = u + end - Space * e /\ t = u + k - Space * c
  BY <1>4, <1>5, <1>6 DEF w
<1> HIDE DEF q, t, u
<1> QED BY <1>1, <1>7, <1>8 DEF Half, Space

-----------------------------------------------------------------------------
(* The client's segments.                                                  *)

\* What the assumptions say of the constants.
LEMMA StreamParts ==
  /\ Server \in Router /\ Wire \in Port
  /\ interfaces[Server][1].eth \in Mac /\ interfaces[Server][1].ip \in Word
  /\ ClientMac \in Mac /\ ClientIp \in Word /\ Isn \subseteq Word
  /\ Window \subseteq Nat \ {0}
  /\ DataEnd \in Nat \ {0} /\ StreamEnd = DataEnd + 1
  /\ Boundaries \subseteq 0 .. StreamEnd
<1>1. Server \in Router /\ 1 \in DOMAIN interfaces[Server]
  BY SessionAssumption
<1>2. /\ interfaces[Server][1].eth \in Mac /\ interfaces[Server][1].ip \in Word
      /\ Wire \in Port
  BY <1>1, InterfaceTyped DEF Wire
<1>3. DataEnd \in Nat \ {0} /\ WriteEnds \subseteq 1 .. DataEnd
  BY SessionAssumption
<1>4. Boundaries \subseteq 0 .. StreamEnd
  BY <1>3 DEF Boundaries, StreamEnd
<1>5. /\ ClientMac \in Mac /\ ClientIp \in Word /\ Isn \subseteq Word
      /\ Window \subseteq Nat \ {0}
  BY SessionAssumption
<1> QED BY <1>1, <1>2, <1>3, <1>4, <1>5 DEF StreamEnd

\* A segment has a byte of the stream at least and fits into a frame.
LEMMA SegmentEndsParts ==
  ASSUME NEW from \in Nat, NEW end \in SegmentEnds(from)
  PROVE  /\ end \in Boundaries /\ end \in Nat /\ from < end /\ end <= from + 1460
         /\ from = 0 => end = 1
         /\ from # 0 /\ from = DataEnd => end = StreamEnd
         /\ from # 0 /\ from # DataEnd => end <= DataEnd
<1>1. DataEnd \in Nat \ {0} /\ StreamEnd = DataEnd + 1 /\ Boundaries \subseteq 0 .. StreamEnd
  BY StreamParts
<1>2. 1 \in Boundaries /\ StreamEnd \in Boundaries
  BY DEF Boundaries
<1>3. CASE from = 0
  BY <1>1, <1>2, <1>3 DEF SegmentEnds
<1>4. CASE from # 0 /\ from = DataEnd
  BY <1>1, <1>2, <1>4 DEF SegmentEnds
<1>5. CASE from # 0 /\ from # DataEnd
  <2>1. SegmentEnds(from) = {b \in Boundaries : from < b /\ b <= DataEnd /\ b <= from + 1460}
    BY <1>5 DEF SegmentEnds, MSS
  <2>2. end \in Boundaries /\ from < end /\ end <= DataEnd /\ end <= from + 1460
    BY <2>1
  <2>3. end \in Nat
    BY <1>1, <2>2
  <2> QED BY <1>5, <2>2, <2>3
<1> QED BY <1>3, <1>4, <1>5

\* From a boundary the client can always go on to another.
LEMMA NextEnd ==
  ASSUME NEW from \in Boundaries, 0 < from, from < StreamEnd
  PROVE  Min(SegmentEnds(from)) \in SegmentEnds(from)
<1>1. /\ DataEnd \in Nat \ {0} /\ StreamEnd = DataEnd + 1 /\ Boundaries \subseteq 0 .. StreamEnd
      /\ from \in Nat
  BY StreamParts
<1>2. SegmentEnds(from) \in SUBSET Nat
  BY <1>1, SegmentEndsParts
<1>3. SegmentEnds(from) # {}
  <2>1. CASE from = DataEnd
    BY <1>1, <2>1 DEF SegmentEnds
  <2>2. CASE from # DataEnd
    <3>1. from \in WriteEnds \cup {1} /\ from < DataEnd
      BY <1>1, <2>2 DEF Boundaries
    <3>2. PICK c \in WriteEnds : from < c /\ c <= from + 1460
      BY <3>1, SessionAssumption DEF MSS
    <3>3. c \in Boundaries /\ c <= DataEnd
      BY SessionAssumption DEF Boundaries
    <3>4. SegmentEnds(from) = {b \in Boundaries : from < b /\ b <= DataEnd /\ b <= from + 1460}
      BY <2>2, <3>1, <1>1 DEF SegmentEnds, MSS
    <3> QED BY <3>2, <3>3, <3>4
  <2> QED BY <2>1, <2>2
<1> QED BY <1>2, <1>3, MinIsLeast

\* The client sends well-formed frames.
LEMMA ClientFrameTyped ==
  ASSUME NEW flags \in Flag, NEW from \in Nat, NEW seq \in Word, NEW len \in Nat,
         54 <= len, len <= 1514,
         rcvNxt' \in Word
  PROVE  LET f == ClientFrame(flags, from, seq, len)
         IN  /\ f \in Frame /\ f.type = "ip" /\ f.len = len
             /\ f.body.dst = interfaces[Server][1].ip
             /\ f.body.seg.flags = flags /\ f.body.seg.seq = Htonl(seq) /\ f.body.id = from
<1> DEFINE f == ClientFrame(flags, from, seq, len)
           seg == [flags |-> flags, seq |-> Htonl(seq), ack |-> Htonl(rcvNxt')]
           body == [src |-> ClientIp, dst |-> interfaces[Server][1].ip, ttl |-> 64, chk |-> "net",
                    seg |-> seg, kind |-> "tap", id |-> from]
<1>1. f = [dst |-> interfaces[Server][1].eth, src |-> ClientMac, type |-> "ip", len |-> len,
           fcs |-> FALSE, body |-> body]
  BY DEF ClientFrame
<1>2. seg \in Segment
  BY WordArithmetic DEF Segment
<1>3. body \in Packet
  <2> HIDE DEF seg
  <2> QED BY <1>2, StreamParts DEF Packet, Byte, Kind
<1>4. f \in Frame
  <2> HIDE DEF body
  <2>1. len \in 14 .. ETH_MAX_FRAME_LEN
    BY DEF ETH_MAX_FRAME_LEN
  <2> QED BY <1>1, <1>3, <2>1, StreamParts DEF Frame
<1>5. /\ f.type = "ip" /\ f.len = len /\ f.body.dst = interfaces[Server][1].ip
      /\ f.body.seg.flags = flags /\ f.body.seg.seq = Htonl(seq) /\ f.body.id = from
  BY <1>1
<1> QED BY <1>4, <1>5

\* The frame f carries the client's stream from an offset to another.
Carries(f, from, end) ==
    /\ f.body.seg.seq = Htonl(Number(from))
    /\ f.body.id = from
    /\ \/ f.body.seg.flags = "syn" /\ from = 0 /\ end = 1
       \/ f.body.seg.flags = "pshack" /\ 0 < from /\ end <= DataEnd /\ f.len = 54 + (end - from)
       \/ f.body.seg.flags = "finack" /\ from = DataEnd /\ end = StreamEnd

\* The SYN has the initial sequence number.
LEMMA NumberOfSyn == ASSUME isn \in Word PROVE Number(0) = isn
<1>1. ToWord(0) \in Word /\ Value(ToWord(0)) = 0
  <2>1. 0 \in Nat /\ 0 < Space
    BY DEF Space
  <2> QED BY <2>1, ValueOfNumber
<1>2. PICK c \in {0, 1} : Value(Number(0)) = Value(isn) + Value(ToWord(0)) - Space * c
  BY <1>1, ValueOfPlus DEF Number
<1>3. Number(0) \in Word
  BY <1>1, WordArithmetic DEF Number
<1>4. /\ Value(Number(0)) \in Nat
      /\ Value(isn) \in Nat /\ Value(isn) < Space
  BY <1>3, WordParts
<1>5. Value(Number(0)) = Value(isn)
  BY <1>1, <1>2, <1>4 DEF Space
<1> QED BY <1>3, <1>5, SameValue

\* A segment spans the offsets it is sent for.
LEMMA SegmentSent ==
  ASSUME isn \in Word, rcvNxt' \in Word, NEW from \in Nat, NEW end \in SegmentEnds(from)
  PROVE  LET f == SegmentOf(from, end)
         IN  /\ f \in Frame /\ f.type = "ip" /\ f.body.dst = interfaces[Server][1].ip
             /\ Carries(f, from, end)
<1>1. /\ DataEnd \in Nat \ {0} /\ end \in Nat /\ from < end /\ end <= from + 1460
      /\ from = 0 => end = 1
      /\ from # 0 /\ from = DataEnd => end = StreamEnd
      /\ from # 0 /\ from # DataEnd => end <= DataEnd
  BY StreamParts, SegmentEndsParts
<1>2. Number(from) \in Word
  BY WordArithmetic DEF Number
<1>3. {"syn", "finack", "pshack"} \subseteq Flag
  BY DEF Flag
<1>4. CASE from = 0
  <2> DEFINE f == ClientFrame("syn", 0, isn, 74)
  <2>0. Headers + 20 = 74
    BY DEF Headers
  <2>1. SegmentOf(from, end) = f
    <3>1. SegmentOf(from, end) = ClientFrame("syn", 0, isn, Headers + 20)
      BY <1>1, <1>4 DEF SegmentOf, Syn
    <3> QED BY <2>0, <3>1
  <2>2. /\ f \in Frame /\ f.type = "ip" /\ f.body.dst = interfaces[Server][1].ip
        /\ f.body.seg.flags = "syn" /\ f.body.seg.seq = Htonl(isn) /\ f.body.id = 0
    BY <1>3, ClientFrameTyped
  <2> HIDE DEF f
  <2> QED BY <1>1, <1>4, <2>1, <2>2, NumberOfSyn DEF Carries
<1>5. CASE from # 0 /\ from = DataEnd
  <2> DEFINE f == ClientFrame("finack", from, Number(from), 54)
  <2>1. SegmentOf(from, end) = f
    BY <1>5 DEF SegmentOf, Headers
  <2>2. /\ f \in Frame /\ f.type = "ip" /\ f.body.dst = interfaces[Server][1].ip
        /\ f.body.seg.flags = "finack" /\ f.body.seg.seq = Htonl(Number(from)) /\ f.body.id = from
    BY <1>2, <1>3, ClientFrameTyped
  <2> HIDE DEF f
  <2> QED BY <1>1, <1>5, <2>1, <2>2 DEF Carries
<1>6. CASE from # 0 /\ from # DataEnd
  <2> DEFINE len == 54 + end - from
             f == ClientFrame("pshack", from, Number(from), len)
  <2>1. SegmentOf(from, end) = f
    BY <1>6 DEF SegmentOf, Headers
  <2>2. len \in Nat /\ 54 <= len /\ len <= 1514 /\ len = 54 + (end - from)
    BY <1>1
  <2> HIDE DEF len
  <2>3. /\ f \in Frame /\ f.type = "ip" /\ f.body.dst = interfaces[Server][1].ip /\ f.len = len
        /\ f.body.seg.flags = "pshack" /\ f.body.seg.seq = Htonl(Number(from)) /\ f.body.id = from
    BY <1>2, <1>3, <2>2, ClientFrameTyped
  <2> HIDE DEF f
  <2> QED BY <1>1, <1>6, <2>1, <2>2, <2>3 DEF Carries
<1> QED BY <1>4, <1>5, <1>6

-----------------------------------------------------------------------------
(* The invariant: what the frames on their way say of the stream.          *)

\* A segment of the client has left it.
Spans(from, end) == from < end /\ end <= nxt /\ end - from < 65536

\* A frame to the router is a segment of the stream, or none of its data; one segment
\* at a time begins where everything before has been displayed.
FromClient(f) ==
    /\ f.type = "ip" /\ f.body.dst = interfaces[Server][1].ip
    /\ f.body.seg.flags \in {"syn", "pshack", "finack"} =>
         \E from, end \in Nat :
            /\ Spans(from, end) /\ Carries(f, from, end)
            /\ window = 1 => AllDisplayed(from)

\* What the reply g acknowledges has been sent and, one segment at a time, displayed.
Acks(g, from, end) ==
    /\ Spans(from, end)
    /\ g.body.seg.ack = Plus(Htonl(Number(from)), Htonl(ToWord(end - from)))
    /\ window = 1 => AllDisplayed(Minimum(end, DataEnd))

ToClient(g) ==
    /\ g.type = "ip"
    /\ g.body.kind \in {"synAck", "dataAck", "finAck"} => \E from, end \in Nat : Acks(g, from, end)

ClientOK ==
    /\ client \in {"closed", "synSent", "established", "finished"}
    /\ isn \in Word /\ window \in Nat \ {0} /\ rcvNxt \in Word
    /\ una \in Nat /\ nxt \in Boundaries /\ una <= nxt
    /\ nxt = 0 <=> client = "closed"

Wires ==
    /\ \A p \in Port \ {Wire} : inPipe[p] = <<>>
    /\ \A f \in Elements(inPipe[Wire]) : FromClient(f)
    /\ \A g \in Elements(outPipe[Wire]) : ToClient(g)

SessionInv == RouterTypeOK /\ ClientOK /\ Wires /\ OneAtATimeIsSafe

\* Offsets do not pass the end of the stream.
LEMMA OffsetsTyped ==
  ASSUME ClientOK
  PROVE  una \in Nat /\ nxt \in Nat /\ nxt <= StreamEnd /\ StreamEnd \in Nat
BY StreamParts DEF ClientOK

\* Offsets stay below half the sequence space.
LEMMA OffsetsBelowHalf ==
  ASSUME ClientOK
  PROVE  isn \in Word /\ nxt \in Nat /\ nxt < Half /\ Half \in Nat
<1>1. nxt \in Nat /\ nxt <= StreamEnd
  BY OffsetsTyped
<1>2. DataEnd \in Nat /\ DataEnd < HalfSpace /\ StreamEnd = DataEnd + 1
  BY StreamParts, SessionAssumption
<1>3. nxt < Half /\ Half \in Nat
  BY <1>1, <1>2 DEF Half, HalfSpace
<1> QED BY <1>1, <1>3 DEF ClientOK

\* Pieces that were displayed stay so, and what is said of frames remains true.
LEMMA StillDisplayed ==
  ASSUME displayed \subseteq displayed', NEW end, AllDisplayed(end)
  PROVE  AllDisplayed(end)'
BY DEF AllDisplayed

\* Less is displayed if more is.
LEMMA DisplayedBefore ==
  ASSUME NEW end \in Int, NEW e \in Int, e <= end, AllDisplayed(end)
  PROVE  AllDisplayed(e)
<1>1. \A o \in 1 .. e - 1 : o \in 1 .. end - 1
  OBVIOUS
<1> QED BY <1>1 DEF AllDisplayed

\* What is said of frames stays true when the client goes on and more is displayed.
LEMMA StillTrue ==
  ASSUME nxt \in Nat, nxt' \in Nat, nxt <= nxt', displayed \subseteq displayed',
         UNCHANGED <<isn, window>>
  PROVE  /\ \A f : FromClient(f) => FromClient(f)'
         /\ \A g : ToClient(g) => ToClient(g)'
<1>1. ASSUME NEW from \in Nat, NEW end \in Nat, Spans(from, end)
      PROVE  Spans(from, end)'
  BY <1>1 DEF Spans
<1>2. ASSUME NEW f, NEW from \in Nat, NEW end \in Nat, Carries(f, from, end)
      PROVE  Carries(f, from, end)'
  BY <1>2 DEF Carries, Number
<1>3. ASSUME NEW f, FromClient(f)
      PROVE  FromClient(f)'
  <2>1. /\ f.type = "ip" /\ f.body.dst = interfaces[Server][1].ip
        /\ f.body.seg.flags \in {"syn", "pshack", "finack"} =>
             \E from, end \in Nat :
                /\ Spans(from, end) /\ Carries(f, from, end)
                /\ window = 1 => AllDisplayed(from)
    BY <1>3 DEF FromClient
  <2>2. ASSUME f.body.seg.flags \in {"syn", "pshack", "finack"}
        PROVE  \E from, end \in Nat :
                /\ Spans(from, end)' /\ Carries(f, from, end)'
                /\ window' = 1 => AllDisplayed(from)'
    <3>1. PICK from \in Nat, end \in Nat :
                /\ Spans(from, end) /\ Carries(f, from, end)
                /\ window = 1 => AllDisplayed(from)
      BY <2>1, <2>2
    <3>2. window' = 1 => AllDisplayed(from)'
      BY <3>1, StillDisplayed
    <3> QED BY <1>1, <1>2, <3>1, <3>2
  <2> QED BY <2>1, <2>2 DEF FromClient
<1>4. ASSUME NEW g, ToClient(g)
      PROVE  ToClient(g)'
  <2>1. g.type = "ip"
    BY <1>4 DEF ToClient
  <2>2. ASSUME g.body.kind \in {"synAck", "dataAck", "finAck"}
        PROVE  \E from, end \in Nat : Acks(g, from, end)'
    <3>1. PICK from \in Nat, end \in Nat : Acks(g, from, end)
      BY <1>4, <2>2 DEF ToClient
    <3>2. window' = 1 => AllDisplayed(Minimum(end, DataEnd))'
      BY <3>1, StillDisplayed DEF Acks
    <3>3. Acks(g, from, end)'
      BY <1>1, <3>1, <3>2 DEF Acks, Number
    <3> QED BY <3>3
  <2> QED BY <2>1, <2>2 DEF ToClient
<1> QED BY <1>3, <1>4

-----------------------------------------------------------------------------
(* The client's steps.                                                     *)

\* A frame that the client sends arrives behind the others, or nowhere.
LEMMA TransmitsKeeps ==
  ASSUME RouterTypeOK, Wires, NEW f \in Frame, Transmits(f), FromClient(f)',
         \A e : FromClient(e) => FromClient(e)'
  PROVE  /\ PipesTyped(inPipe')
         /\ \A p \in Port \ {Wire} : inPipe'[p] = <<>>
         /\ \A e \in Elements(inPipe'[Wire]) : FromClient(e)'
<1>1. Wire \in Port
  BY StreamParts
<1>2. PipesTyped(inPipe) /\ inPipe \in [Port -> Seq(Frame)]
  BY DEF RouterTypeOK, PipesTyped
<1>3. CASE UNCHANGED inPipe
  BY <1>2, <1>3 DEF Wires, PipesTyped
<1>4. CASE Arrives(f)
  <2>1. /\ Len(inPipe[Wire]) < PipeCap
        /\ inPipe' = [inPipe EXCEPT ![Wire] = Append(inPipe[Wire], f)]
    BY <1>4 DEF Arrives
  <2>2. inPipe'[Wire] = Append(inPipe[Wire], f) /\ \A p \in Port \ {Wire} : inPipe'[p] = inPipe[p]
    BY <1>1, <1>2, <2>1
  <2>3. inPipe[Wire] \in Seq(Frame) /\ Len(inPipe[Wire]) \in Nat
    BY <1>1, <1>2, LenProperties
  <2>4. /\ Append(inPipe[Wire], f) \in Seq(Frame)
        /\ Len(Append(inPipe[Wire], f)) = Len(inPipe[Wire]) + 1
        /\ Elements(Append(inPipe[Wire], f)) \subseteq Elements(inPipe[Wire]) \cup {f}
    BY <2>3, Written
  <2>5. Len(inPipe'[Wire]) <= PipeCap
    BY <2>1, <2>2, <2>3, <2>4, TablesAssumption
  <2>6. PipesTyped(inPipe')
    BY <1>2, <2>1, <2>2, <2>4, <2>5 DEF PipesTyped
  <2>7. \A p \in Port \ {Wire} : inPipe'[p] = <<>>
    BY <2>2 DEF Wires
  <2>8. ASSUME NEW e \in Elements(inPipe'[Wire])
        PROVE  FromClient(e)'
    <3>1. e \in Elements(inPipe[Wire]) \/ e = f
      BY <2>2, <2>4, <2>8
    <3>2. CASE e = f
      BY <3>2
    <3>3. CASE e \in Elements(inPipe[Wire])
      <4>1. FromClient(e)
        BY <3>3 DEF Wires
      <4> QED BY <4>1
    <3> QED BY <3>1, <3>2, <3>3
  <2> QED BY <2>6, <2>7, <2>8
<1> QED BY <1>3, <1>4 DEF Transmits

\* Steps of the client keep the router's types if they keep those of the pipes.
LEMMA TypeKept ==
  ASSUME RouterTypeOK, UNCHANGED clientOnly, PipesTyped(inPipe'), PipesTyped(outPipe')
  PROVE  RouterTypeOK'
BY DEF RouterTypeOK, PipesTyped, clientOnly

\* The pipes of the router are typed.
LEMMA TypedPipes ==
  ASSUME RouterTypeOK
  PROVE  PipesTyped(inPipe) /\ PipesTyped(outPipe)
BY DEF RouterTypeOK, PipesTyped

\* A segment that the client sends.
LEMMA SegmentFits ==
  ASSUME isn \in Word, rcvNxt' \in Word, UNCHANGED <<isn, window>>,
         NEW from \in Nat, NEW end \in SegmentEnds(from), nxt' \in Nat, end <= nxt',
         window = 1 => AllDisplayed(from)'
  PROVE  \E f \in Frame : f = SegmentOf(from, end) /\ FromClient(f)'
<1>1. PICK f : f = SegmentOf(from, end)
  OBVIOUS
<1>2. f \in Frame /\ f.type = "ip" /\ f.body.dst = interfaces[Server][1].ip /\ Carries(f, from, end)
  BY <1>1, SegmentSent
<1>3. end \in Nat /\ from < end /\ end <= from + 1460
  BY SegmentEndsParts
<1>4. Spans(from, end)'
  BY <1>3 DEF Spans
<1>5. Carries(f, from, end)'
  BY <1>2 DEF Carries, Number
<1>6. FromClient(f)'
  BY <1>2, <1>3, <1>4, <1>5 DEF FromClient
<1> QED BY <1>1, <1>2, <1>6

\* The client sends its SYN.
LEMMA ConnectsKeeps ==
  ASSUME SessionInv, Connects
  PROVE  SessionInv'
<1>1. /\ RouterTypeOK /\ ClientOK /\ Wires /\ OneAtATimeIsSafe
      /\ client = "closed" /\ client' = "synSent" /\ nxt' = 1
      /\ UNCHANGED <<isn, window, una, rcvNxt>> /\ Transmits(Syn)
      /\ UNCHANGED clientOnly /\ UNCHANGED outPipe
  BY DEF SessionInv, Connects
<1>2. nxt = 0 /\ una = 0 /\ UNCHANGED displayed
  BY <1>1, OffsetsTyped DEF ClientOK, clientOnly
<1>3. 1 \in SegmentEnds(0)
  BY StreamParts DEF SegmentEnds
<1>4. Syn = SegmentOf(0, 1)
  BY StreamParts DEF SegmentOf
<1>5. AllDisplayed(0)'
  BY DEF AllDisplayed
<1>6. PICK f \in Frame : f = Syn /\ FromClient(f)'
  <2>1. isn \in Word /\ rcvNxt' \in Word /\ nxt' \in Nat /\ 1 <= nxt'
    BY <1>1 DEF ClientOK
  <2> QED BY <1>1, <1>3, <1>4, <1>5, <2>1, SegmentFits
<1>7. (\A e : FromClient(e) => FromClient(e)') /\ (\A g : ToClient(g) => ToClient(g)')
  BY <1>1, <1>2, StillTrue
<1>9. /\ PipesTyped(inPipe') /\ (\A p \in Port \ {Wire} : inPipe'[p] = <<>>)
      /\ \A e \in Elements(inPipe'[Wire]) : FromClient(e)'
  <2>1. Transmits(f)
    BY <1>1, <1>6
  <2> QED BY <1>1, <1>6, <1>7, <2>1, TransmitsKeeps
<1>10. RouterTypeOK'
  BY <1>1, <1>9, TypeKept, TypedPipes
<1>11. Wires'
  BY <1>1, <1>7, <1>9 DEF Wires
<1>12. ClientOK'
  BY <1>1, <1>2, StreamParts DEF ClientOK, Boundaries
<1>13. OneAtATimeIsSafe'
  BY <1>1, <1>2 DEF OneAtATimeIsSafe, AckedWasDisplayed, AllDisplayed
<1> QED BY <1>10, <1>11, <1>12, <1>13 DEF SessionInv

\* With one segment at a time all is acknowledged, hence displayed, when the next is sent.
LEMMA NothingInFlight ==
  ASSUME ClientOK, InFlight < window, window = 1
  PROVE  una = nxt
<1>1. una \in Nat /\ nxt \in Nat /\ una <= nxt /\ nxt \in Boundaries
  BY OffsetsTyped DEF ClientOK
<1> DEFINE S == {b \in Boundaries : una < b /\ b <= nxt}
<1>2. IsFiniteSet(S)
  <2>1. S \subseteq 0 .. StreamEnd
    BY StreamParts
  <2>2. IsFiniteSet(0 .. StreamEnd)
    BY StreamParts, FS_Interval
  <2> QED BY <2>1, <2>2, FS_Subset
<1>3. Cardinality(S) \in Nat /\ Cardinality(S) < 1
  <2>1. Cardinality(S) \in Nat
    BY <1>2, FS_CardinalityType
  <2> QED BY <2>1 DEF InFlight
<1>4. S = {}
  <2>1. Cardinality(S) = 0
    BY <1>3
  <2> QED BY <1>2, <2>1, FS_EmptySet
<1> QED BY <1>1, <1>4

\* It sends new data or its FIN: all before it has been acknowledged if the window is 1.
LEMMA SendsNextKeeps ==
  ASSUME SessionInv, SendsNext
  PROVE  SessionInv'
<1>1. /\ RouterTypeOK /\ ClientOK /\ Wires /\ OneAtATimeIsSafe
      /\ client = "established" /\ nxt < StreamEnd /\ InFlight < window
      /\ nxt' = Min(SegmentEnds(nxt))
      /\ UNCHANGED <<client, isn, window, una, rcvNxt>> /\ Transmits(SegmentOf(nxt, nxt'))
      /\ UNCHANGED clientOnly /\ UNCHANGED outPipe
  BY DEF SessionInv, SendsNext
<1>2. nxt \in Boundaries /\ nxt \in Nat /\ 0 < nxt /\ UNCHANGED displayed /\ una \in Nat
  BY <1>1, OffsetsTyped DEF ClientOK, clientOnly
<1>3. nxt' \in SegmentEnds(nxt)
  BY <1>1, <1>2, NextEnd
<1>4. nxt' \in Boundaries /\ nxt' \in Nat /\ nxt < nxt'
  BY <1>2, <1>3, SegmentEndsParts
<1>5. window' = 1 => AllDisplayed(nxt)
  <2>1. CASE window = 1
    <3>1. una = nxt
      BY <1>1, <2>1, NothingInFlight
    <3>2. Minimum(una, DataEnd) = nxt
      BY <1>1, <1>2, <3>1, StreamParts DEF Minimum
    <3> QED BY <1>1, <2>1, <3>2 DEF OneAtATimeIsSafe, AckedWasDisplayed
  <2> QED BY <1>1, <2>1
<1>6. PICK from : from = nxt
  OBVIOUS
<1>7. PICK end : end = nxt'
  OBVIOUS
<1>8. PICK f \in Frame : f = SegmentOf(from, end) /\ FromClient(f)'
  <2>1. isn \in Word /\ rcvNxt' \in Word /\ nxt' \in Nat /\ end <= nxt'
    BY <1>1, <1>4, <1>7 DEF ClientOK
  <2>2. from \in Nat /\ end \in SegmentEnds(from)
    BY <1>2, <1>3, <1>6, <1>7
  <2>3. window = 1 => AllDisplayed(from)'
    BY <1>1, <1>2, <1>5, <1>6, StillDisplayed
  <2> QED BY <1>1, <2>1, <2>2, <2>3, SegmentFits
<1>9. (\A e : FromClient(e) => FromClient(e)') /\ (\A g : ToClient(g) => ToClient(g)')
  BY <1>1, <1>2, <1>4, StillTrue
<1>10. /\ PipesTyped(inPipe') /\ (\A p \in Port \ {Wire} : inPipe'[p] = <<>>)
       /\ \A e \in Elements(inPipe'[Wire]) : FromClient(e)'
  <2>1. Transmits(f)
    BY <1>1, <1>6, <1>7, <1>8
  <2> QED BY <1>1, <1>8, <1>9, <2>1, TransmitsKeeps
<1>11. RouterTypeOK'
  BY <1>1, <1>10, TypeKept, TypedPipes
<1>12. Wires'
  BY <1>1, <1>9, <1>10 DEF Wires
<1>13. ClientOK'
  BY <1>1, <1>2, <1>4 DEF ClientOK
<1>14. OneAtATimeIsSafe'
  BY <1>1, <1>2 DEF OneAtATimeIsSafe, AckedWasDisplayed, AllDisplayed
<1> QED BY <1>11, <1>12, <1>13, <1>14 DEF SessionInv

\* It sends again from the oldest byte.
LEMMA SendsAgainKeeps ==
  ASSUME SessionInv, SendsAgain
  PROVE  SessionInv'
<1>1. /\ RouterTypeOK /\ ClientOK /\ Wires /\ OneAtATimeIsSafe
      /\ una < nxt /\ UNCHANGED clientVars
      /\ \E end \in SegmentEnds(una) : end <= nxt /\ Arrives(SegmentOf(una, end))
      /\ UNCHANGED clientOnly /\ UNCHANGED outPipe
  BY DEF SessionInv, SendsAgain
<1>2. /\ una \in Nat /\ nxt \in Nat /\ nxt <= StreamEnd /\ UNCHANGED displayed
      /\ UNCHANGED <<client, isn, window, una, nxt, rcvNxt>>
  BY <1>1, OffsetsTyped DEF clientOnly, clientVars
<1>3. PICK end \in SegmentEnds(una) : end <= nxt /\ Arrives(SegmentOf(una, end))
  BY <1>1
<1>4. window = 1 => AllDisplayed(una)
  <2>1. Minimum(una, DataEnd) = una
    BY <1>1, <1>2, StreamParts DEF Minimum
  <2> QED BY <1>1, <2>1 DEF OneAtATimeIsSafe, AckedWasDisplayed
<1>5. PICK from : from = una
  OBVIOUS
<1>6. PICK f \in Frame : f = SegmentOf(from, end) /\ FromClient(f)'
  <2>1. /\ isn \in Word /\ rcvNxt' \in Word /\ nxt' \in Nat /\ end <= nxt'
        /\ UNCHANGED <<isn, window>>
    BY <1>1, <1>2, <1>3 DEF ClientOK
  <2>2. from \in Nat /\ end \in SegmentEnds(from)
    BY <1>2, <1>3, <1>5
  <2>3. window = 1 => AllDisplayed(from)'
    BY <1>2, <1>4, <1>5, StillDisplayed
  <2> QED BY <2>1, <2>2, <2>3, SegmentFits
<1>7. (\A e : FromClient(e) => FromClient(e)') /\ (\A g : ToClient(g) => ToClient(g)')
  BY <1>2, StillTrue
<1>8. /\ PipesTyped(inPipe') /\ (\A p \in Port \ {Wire} : inPipe'[p] = <<>>)
      /\ \A e \in Elements(inPipe'[Wire]) : FromClient(e)'
  <2>1. Transmits(f)
    BY <1>3, <1>5, <1>6 DEF Transmits
  <2> QED BY <1>1, <1>6, <1>7, <2>1, TransmitsKeeps
<1>9. RouterTypeOK'
  BY <1>1, <1>8, TypeKept, TypedPipes
<1>10. Wires'
  BY <1>1, <1>7, <1>8 DEF Wires
<1>11. ClientOK'
  BY <1>1, <1>2 DEF ClientOK
<1>12. OneAtATimeIsSafe'
  BY <1>1, <1>2 DEF OneAtATimeIsSafe, AckedWasDisplayed, AllDisplayed
<1> QED BY <1>9, <1>10, <1>11, <1>12 DEF SessionInv

\* The reply that the client reads.
LEMMA AnswerParts ==
  ASSUME RouterTypeOK, Wires, ReplyTaken
  PROVE  /\ Answer \in Frame /\ ToClient(Answer) /\ Answer.body.seg \in Segment
         /\ PipesTyped(outPipe')
         /\ Elements(outPipe'[Wire]) \subseteq Elements(outPipe[Wire])
<1>1. Wire \in Port /\ outPipe[Wire] # <<>> /\ outPipe' = [outPipe EXCEPT ![Wire] = Tail(outPipe[Wire])]
  BY StreamParts DEF ReplyTaken
<1>2. PipesTyped(outPipe) /\ outPipe \in [Port -> Seq(Frame)]
  BY TypedPipes DEF PipesTyped
<1>3. /\ outPipe[Wire] \in Seq(Frame) /\ Len(outPipe[Wire]) \in Nat /\ Len(outPipe[Wire]) <= PipeCap
  BY <1>1, <1>2, LenProperties DEF PipesTyped
<1>4. /\ Answer \in Frame /\ Answer \in Elements(outPipe[Wire])
      /\ Tail(outPipe[Wire]) \in Seq(Frame) /\ Len(Tail(outPipe[Wire])) <= Len(outPipe[Wire])
      /\ Elements(Tail(outPipe[Wire])) \subseteq Elements(outPipe[Wire])
  BY <1>1, <1>3, Read DEF Answer
<1>5. ToClient(Answer)
  BY <1>4 DEF Wires
<1>6. Answer.body.seg \in Segment
  BY <1>4, <1>5, FrameParts, PacketParts DEF ToClient
<1>7. outPipe'[Wire] = Tail(outPipe[Wire]) /\ \A p \in Port \ {Wire} : outPipe'[p] = outPipe[p]
  BY <1>1, <1>2
<1>8. Len(Tail(outPipe[Wire])) <= PipeCap
  <2>1. Len(Tail(outPipe[Wire])) \in Nat
    BY <1>4, LenProperties
  <2> QED BY <1>3, <1>4, <2>1, TablesAssumption
<1>9. PipesTyped(outPipe')
  BY <1>1, <1>2, <1>4, <1>7, <1>8 DEF PipesTyped
<1> QED BY <1>4, <1>5, <1>6, <1>7, <1>9

\* When a reply has been read and nothing sent, or a frame that may be sent.
LEMMA ReplyKeeps ==
  ASSUME SessionInv, ReplyTaken, ClientOK', OneAtATimeIsSafe',
         \/ UNCHANGED inPipe
         \/ \E f \in Frame : Transmits(f) /\ FromClient(f)'
  PROVE  SessionInv'
<1>1. /\ RouterTypeOK /\ ClientOK /\ Wires
      /\ UNCHANGED <<isn, window, nxt>> /\ UNCHANGED clientOnly
  BY DEF SessionInv, ReplyTaken
<1>2. UNCHANGED displayed /\ nxt \in Nat
  BY <1>1, OffsetsTyped DEF clientOnly
<1>3. (\A e : FromClient(e) => FromClient(e)') /\ (\A g : ToClient(g) => ToClient(g)')
  BY <1>1, <1>2, StillTrue
<1>4. /\ PipesTyped(outPipe')
      /\ Elements(outPipe'[Wire]) \subseteq Elements(outPipe[Wire])
  BY <1>1, AnswerParts
<1>5. /\ PipesTyped(inPipe') /\ (\A p \in Port \ {Wire} : inPipe'[p] = <<>>)
      /\ \A e \in Elements(inPipe'[Wire]) : FromClient(e)'
  <2>1. CASE UNCHANGED inPipe
    BY <1>1, <1>3, <2>1, TypedPipes DEF Wires
  <2>2. ASSUME NEW f \in Frame, Transmits(f), FromClient(f)'
        PROVE  /\ PipesTyped(inPipe') /\ (\A p \in Port \ {Wire} : inPipe'[p] = <<>>)
               /\ \A e \in Elements(inPipe'[Wire]) : FromClient(e)'
    BY <1>1, <1>3, <2>2, TransmitsKeeps
  <2> QED BY <2>1, <2>2
<1>6. RouterTypeOK'
  BY <1>1, <1>4, <1>5, TypeKept
<1>7. \A g \in Elements(outPipe'[Wire]) : ToClient(g)'
  BY <1>1, <1>3, <1>4 DEF Wires
<1>8. Wires'
  BY <1>5, <1>7 DEF Wires
<1> QED BY <1>6, <1>8 DEF SessionInv

\* Frames of the client that carry nothing of its stream.
LEMMA ControlFits ==
  ASSUME isn \in Word, rcvNxt' \in Word, NEW flags \in {"ack", "other"}, NEW from \in Nat,
         NEW seq \in Word
  PROVE  \E f \in Frame : f = ClientFrame(flags, from, seq, Headers) /\ FromClient(f)'
<1>1. Headers \in Nat /\ 54 <= Headers /\ Headers <= 1514 /\ flags \in Flag
  BY DEF Headers, Flag
<1>2. PICK f : f = ClientFrame(flags, from, seq, Headers)
  OBVIOUS
<1>3. /\ f \in Frame /\ f.type = "ip" /\ f.body.dst = interfaces[Server][1].ip
      /\ f.body.seg.flags = flags
  BY <1>1, <1>2, ClientFrameTyped
<1>4. FromClient(f)'
  BY <1>3 DEF FromClient
<1> QED BY <1>2, <1>3, <1>4

\* A bare ACK of the client spans nothing.
LEMMA BareAckFits ==
  ASSUME ClientOK, rcvNxt' \in Word
  PROVE  \E f \in Frame : f = BareAck /\ FromClient(f)'
<1>1. isn \in Word /\ nxt \in Nat
  BY OffsetsTyped DEF ClientOK
<1>2. Number(nxt) \in Word
  BY <1>1, WordArithmetic DEF Number
<1> QED BY <1>1, <1>2, ControlFits DEF BareAck

\* The SYN ACK arrives with the right number.
LEMMA ConnectedKeeps ==
  ASSUME SessionInv, ReplyTaken, Connected
  PROVE  SessionInv'
<1>1. /\ RouterTypeOK /\ ClientOK /\ Wires
      /\ client = "synSent" /\ Acked # {} /\ client' = "established" /\ una' = 1
      /\ rcvNxt' = Plus(Htonl(Answer.body.seg.seq), ToWord(1))
      /\ Transmits(BareAck) /\ UNCHANGED <<isn, window, nxt>> /\ UNCHANGED clientOnly
  BY DEF SessionInv, Connected, ReplyTaken
<1>2. una \in Nat /\ nxt \in Nat /\ nxt \in Boundaries
  BY <1>1, OffsetsTyped DEF ClientOK
<1>3. 1 <= nxt
  BY <1>1, <1>2 DEF Acked
<1>4. rcvNxt' \in Word
  <2>1. Answer.body.seg.seq \in Word
    BY <1>1, AnswerParts DEF Segment
  <2> QED BY <1>1, <2>1, WordArithmetic
<1>5. ClientOK'
  BY <1>1, <1>2, <1>3, <1>4 DEF ClientOK
<1>6. OneAtATimeIsSafe'
  <2>1. Minimum(1, DataEnd) = 1
    BY StreamParts DEF Minimum
  <2>2. Minimum(una, DataEnd)' = 1
    BY <1>1, <2>1
  <2>3. \A o \in 1 .. 1 - 1 : FALSE
    OBVIOUS
  <2> QED BY <2>2, <2>3 DEF OneAtATimeIsSafe, AckedWasDisplayed, AllDisplayed
<1> QED BY <1>1, <1>4, <1>5, <1>6, BareAckFits, ReplyKeeps

\* Steps that leave what the client has sent and what was acknowledged as it is.
LEMMA UnmovedKeeps ==
  ASSUME SessionInv, ReplyTaken, UNCHANGED <<client, una, rcvNxt>>
  PROVE  ClientOK' /\ OneAtATimeIsSafe' /\ rcvNxt' \in Word
<1>1. /\ ClientOK /\ OneAtATimeIsSafe /\ UNCHANGED <<isn, window, nxt>> /\ UNCHANGED displayed
  BY DEF SessionInv, ReplyTaken, clientOnly
<1> QED BY <1>1 DEF ClientOK, OneAtATimeIsSafe, AckedWasDisplayed, AllDisplayed

\* It arrives with a wrong number: the client resets.
LEMMA RefusedKeeps ==
  ASSUME SessionInv, ReplyTaken, Refused
  PROVE  SessionInv'
<1>1. /\ RouterTypeOK /\ ClientOK /\ Wires /\ UNCHANGED <<client, una, rcvNxt>>
      /\ Transmits(Rst(Htonl(Answer.body.seg.ack)))
  BY DEF SessionInv, Refused
<1>2. ClientOK' /\ OneAtATimeIsSafe' /\ rcvNxt' \in Word
  BY <1>1, UnmovedKeeps
<1>3. PICK ack \in Word : ack = Htonl(Answer.body.seg.ack)
  <2>1. Answer.body.seg.ack \in Word
    BY <1>1, AnswerParts DEF Segment
  <2> QED BY <2>1, WordArithmetic
<1>4. \E f \in Frame : f = Rst(ack) /\ FromClient(f)'
  <2>1. isn \in Word /\ 0 \in Nat
    BY <1>1 DEF ClientOK
  <2> QED BY <1>2, <2>1, ControlFits DEF Rst
<1>5. Transmits(Rst(ack))
  BY <1>1, <1>3
<1> QED BY <1>2, <1>4, <1>5, ReplyKeeps

\* A SYN ACK arrives again.
LEMMA RepeatedKeeps ==
  ASSUME SessionInv, ReplyTaken, Repeated
  PROVE  SessionInv'
<1>1. ClientOK /\ UNCHANGED <<client, una, rcvNxt>> /\ Transmits(BareAck)
  BY DEF SessionInv, Repeated
<1>2. ClientOK' /\ OneAtATimeIsSafe' /\ rcvNxt' \in Word
  BY <1>1, UnmovedKeeps
<1> QED BY <1>1, <1>2, BareAckFits, ReplyKeeps

\* What the number of a reply stands for is at most the end of the segment it answers.
LEMMA AckedBelow ==
  ASSUME ClientOK, NEW g, NEW from \in Nat, NEW end \in Nat, Acks(g, from, end),
         NEW k \in Nat, k <= nxt, Number(k) = Htonl(g.body.seg.ack)
  PROVE  k <= end
<1>1. isn \in Word /\ nxt \in Nat /\ nxt < Half
  BY OffsetsBelowHalf
<1>2. /\ from < end /\ end <= nxt /\ end - from < 65536
      /\ Number(k) = Htonl(Plus(Htonl(Number(from)), Htonl(ToWord(end - from))))
  BY DEF Acks, Spans
<1>3. k < Half /\ end < Half
  <2>1. Half \in Nat
    BY DEF Half
  <2> QED BY <1>1, <1>2, <2>1
<1>4. PICK lag \in Lags : Plus(Number(k), ToWord(lag)) = Number(end)
  BY <1>1, <1>2, <1>3, AckLags DEF Number
<1>5. k + lag = end
  BY <1>1, <1>3, <1>4, LagBehind DEF Number
<1> QED BY <1>5 DEF Lags

\* An acknowledgement moves the oldest unacknowledged offset on.
LEMMA AdvancesKeeps ==
  ASSUME SessionInv, ReplyTaken, Advances
  PROVE  SessionInv'
<1>1. /\ RouterTypeOK /\ ClientOK /\ Wires
      /\ client = "established" /\ Answer.body.kind \in {"dataAck", "finAck"}
      /\ UNCHANGED <<isn, window, nxt, rcvNxt>> /\ UNCHANGED displayed /\ UNCHANGED inPipe
  BY DEF SessionInv, Advances, ReplyTaken, clientOnly
<1>2. PICK k \in Acked : una' = k /\ client' \in {"finished", "established"}
  BY <1>1 DEF Advances
<1>3. una \in Nat /\ nxt \in Nat /\ nxt # 0 /\ nxt \in Boundaries
  BY <1>1, OffsetsTyped DEF ClientOK
<1>4. k \in Nat /\ k <= nxt /\ Number(k) = Htonl(Answer.body.seg.ack)
  BY <1>3 DEF Acked
<1>5. ClientOK'
  BY <1>1, <1>2, <1>3, <1>4 DEF ClientOK
<1>6. OneAtATimeIsSafe'
  <2>1. ToClient(Answer)
    BY <1>1, AnswerParts
  <2>2. PICK from \in Nat, end \in Nat : Acks(Answer, from, end)
    BY <1>1, <2>1 DEF ToClient
  <2>3. k <= end
    BY <1>1, <1>4, <2>2, AckedBelow
  <2>4. /\ Minimum(k, DataEnd) \in Int /\ Minimum(end, DataEnd) \in Int
        /\ Minimum(k, DataEnd) <= Minimum(end, DataEnd)
    BY <1>4, <2>3, StreamParts DEF Minimum
  <2>5. window = 1 => AllDisplayed(Minimum(end, DataEnd))
    BY <2>2 DEF Acks
  <2>6. window = 1 => AllDisplayed(Minimum(k, DataEnd))
    BY <2>4, <2>5, DisplayedBefore
  <2> QED BY <1>1, <1>2, <2>6 DEF OneAtATimeIsSafe, AckedWasDisplayed, AllDisplayed
<1> QED BY <1>1, <1>5, <1>6, ReplyKeeps

\* A reply arrives.
LEMMA ReplyArrivesKeeps ==
  ASSUME SessionInv, ReplyArrives \/ ReplyLost
  PROVE  SessionInv'
<1>1. ReplyTaken
  BY DEF ReplyArrives, ReplyLost
<1>2. CASE UNCHANGED <<client, una, rcvNxt, inPipe>>
  BY <1>1, <1>2, UnmovedKeeps, ReplyKeeps
<1>3. CASE Connected \/ Refused \/ Repeated \/ Advances
  BY <1>1, <1>3, ConnectedKeeps, RefusedKeeps, RepeatedKeeps, AdvancesKeeps
<1> QED BY <1>2, <1>3 DEF ReplyArrives, ReplyLost, Disregards

-----------------------------------------------------------------------------
(* The router's steps.                                                     *)

\* The router calls poll().
LEMMA ServerPollsKeeps ==
  ASSUME SessionInv, ServerPolls
  PROVE  SessionInv'
<1>1. /\ RouterTypeOK /\ ClientOK /\ Wires /\ OneAtATimeIsSafe /\ Poll(Server)
      /\ UNCHANGED <<client, isn, window, una, nxt, rcvNxt>> /\ UNCHANGED displayed
      /\ UNCHANGED <<inPipe, outPipe>>
  BY DEF SessionInv, ServerPolls, Poll, clientVars
<1>2. RouterTypeOK'
  BY <1>1, StreamParts, PollTyped
<1>3. nxt \in Nat
  BY <1>1, OffsetsTyped
<1>4. (\A e : FromClient(e) => FromClient(e)') /\ (\A g : ToClient(g) => ToClient(g)')
  BY <1>1, <1>3, StillTrue
<1>5. Wires'
  BY <1>1, <1>4 DEF Wires
<1>6. ClientOK' /\ OneAtATimeIsSafe'
  BY <1>1 DEF ClientOK, OneAtATimeIsSafe, AckedWasDisplayed, AllDisplayed
<1> QED BY <1>2, <1>5, <1>6 DEF SessionInv

\* A piece that begins where everything has been displayed is displayed: then everything
\* is up to its end.
LEMMA PieceAdded ==
  ASSUME NEW from \in Nat, NEW end \in Nat, AllDisplayed(from), displayed \subseteq displayed',
         [from |-> from, to |-> end] \in displayed'
  PROVE  AllDisplayed(end)'
<1> SUFFICES ASSUME NEW o \in 1 .. end - 1
             PROVE  \E d \in displayed' : d.from <= o /\ o < d.to
  BY DEF AllDisplayed
<1>1. CASE o < from
  <2>1. o \in 1 .. from - 1
    BY <1>1
  <2> QED BY <2>1 DEF AllDisplayed
<1>2. CASE from <= o
  <2> DEFINE d == [from |-> from, to |-> end]
  <2>1. d.from <= o /\ o < d.to
    BY <1>2
  <2> QED BY <2>1
<1> QED BY <1>1, <1>2

\* composeAck acknowledges what it displays.
LEMMA ReplyRight ==
  ASSUME ClientOK, NEW f \in Frame, FromClient(f), f = Arrived(Server), IsSegment(Server),
         ~NoAck(Server, f.body), displayed' = displayed \cup Displays(f), UNCHANGED clientVars,
         NEW route, NEW g, g = AckFrame(Server, route, f)
  PROVE  ToClient(g)'
<1> DEFINE s == f.body.seg
<1>1. f.type = "ip" /\ f.body \in Packet /\ s \in Segment /\ f.len \in Nat
  BY FrameParts, PacketParts DEF FromClient
<1>2. /\ g.type = "ip" /\ g.body.kind = ReplyKind(s)
      /\ g.body.seg = Acknowledged(s, f.len)
  BY <1>1 DEF AckFrame, ComposeEthernetFrame, Packet
<1>3. UNCHANGED <<isn, window, nxt>> /\ nxt \in Nat
  BY OffsetsTyped DEF clientVars
<1> SUFFICES ASSUME g.body.kind \in {"synAck", "dataAck", "finAck"}
             PROVE  \E from, end \in Nat : Acks(g, from, end)'
  BY <1>2 DEF ToClient
<1>4. s.flags \in {"syn", "pshack", "finack"}
  BY <1>2 DEF ReplyKind
<1>5. PICK from \in Nat, end \in Nat :
         /\ Spans(from, end) /\ Carries(f, from, end)
         /\ window = 1 => AllDisplayed(from)
  BY <1>4 DEF FromClient
<1>6. s.seq = Htonl(Number(from)) /\ f.body.id = from
  BY <1>5 DEF Carries
<1>7. DataEnd \in Nat \ {0} /\ StreamEnd = DataEnd + 1
  BY StreamParts
<1>8. /\ g.body.seg.ack = Plus(Htonl(Number(from)), Htonl(ToWord(end - from)))
      /\ window = 1 => AllDisplayed(Minimum(end, DataEnd))'
  <2>1. CASE s.flags = "syn"
    <3>1. from = 0 /\ end = 1 /\ end - from = 1
      BY <1>5, <2>1 DEF Carries
    <3>2. g.body.seg.ack = Plus(s.seq, Htonl(ToWord(1)))
      BY <1>2, <2>1 DEF Acknowledged
    <3>3. Minimum(end, DataEnd) = 1
      BY <1>7, <3>1 DEF Minimum
    <3>4. AllDisplayed(Minimum(end, DataEnd))'
      BY <3>3 DEF AllDisplayed
    <3> QED BY <1>6, <3>1, <3>2, <3>4
  <2>2. CASE s.flags = "pshack"
    <3>1. end <= DataEnd /\ f.len = 54 + (end - from)
      BY <1>5, <2>2 DEF Carries
    <3>2. DataLen(f.len) = end - from
      BY <3>1 DEF DataLen
    <3>3. g.body.seg.ack = Plus(s.seq, Htonl(ToWord(DataLen(f.len))))
      BY <1>2, <2>2 DEF Acknowledged
    <3>4. Minimum(end, DataEnd) = end
      BY <1>7, <3>1 DEF Minimum
    <3>5. Piece(f) = [from |-> from, to |-> end]
      <4>1. f.body.id + f.len - Headers = end
        BY <1>6, <3>1 DEF Headers
      <4> QED BY <1>6, <4>1 DEF Piece
    <3>6. LookupTcp(tcpTbl[Server], f.body.src) # NULL
      BY <2>2 DEF NoAck
    <3>7. Piece(f) \in displayed' /\ displayed \subseteq displayed'
      BY <2>2, <3>6 DEF Displays
    <3>8. window = 1 => AllDisplayed(end)'
      BY <1>5, <3>5, <3>7, PieceAdded
    <3> QED BY <1>6, <3>2, <3>3, <3>4, <3>8
  <2>3. CASE s.flags = "finack"
    <3>1. from = DataEnd /\ end = StreamEnd /\ end - from = 1
      BY <1>5, <1>7, <2>3 DEF Carries
    <3>2. g.body.seg.ack = Plus(s.seq, Htonl(ToWord(1)))
      BY <1>2, <2>3 DEF Acknowledged
    <3>3. Minimum(end, DataEnd) = from
      BY <1>7, <3>1 DEF Minimum
    <3>4. window = 1 => AllDisplayed(from)'
      BY <1>5, StillDisplayed
    <3> QED BY <1>6, <3>1, <3>2, <3>3, <3>4
  <2> QED BY <1>4, <2>1, <2>2, <2>3
<1>9. Spans(from, end)' /\ UNCHANGED Number(from)
  BY <1>3, <1>5 DEF Spans, Number
<1>10. Acks(g, from, end)'
  BY <1>3, <1>8, <1>9 DEF Acks
<1> QED BY <1>10

\* A handler of the router answers a frame of the client, or nothing.
LEMMA HandlerReplies ==
  ASSUME SessionInv, ServerHandles
  PROVE  \A g \in Elements(outPipe'[Wire]) : ToClient(g)'
<1>1. /\ RouterTypeOK /\ ClientOK /\ Wires /\ Handle(Server) /\ UNCHANGED clientVars
      /\ displayed' = displayed \cup Displays(Arrived(Server)) /\ Server \in Router
      /\ Wire \in Port
  BY StreamParts DEF SessionInv, ServerHandles
<1>2. Receive(Server)
  BY <1>1, HandlerSends
<1>3. PICK f \in Frame : f = Arrived(Server) /\ f \in Elements(inPipe[Pipe(Server)])
  BY <1>1, <1>2, ArrivedTyped
<1>4. FromClient(f)
  <2>1. Pipe(Server) \in Port /\ inPipe[Pipe(Server)] # <<>>
    BY <1>1, <1>2, ArrivedTyped DEF Receive
  <2>2. Pipe(Server) = Wire
    BY <1>1, <2>1 DEF Wires
  <2> QED BY <1>1, <1>3, <2>2 DEF Wires
<1>5. \A g : ToClient(g) => ToClient(g)'
  <2>1. nxt \in Nat /\ UNCHANGED <<isn, window, nxt>>
    BY <1>1, OffsetsTyped DEF clientVars
  <2> QED BY <1>1, <2>1, StillTrue
<1>6. CASE UNCHANGED outPipe
  BY <1>1, <1>5, <1>6 DEF Wires
<1>7. ~IsArpRequest(Server)
  BY <1>3, <1>4 DEF IsArpRequest, FromClient
<1>8. ~IsTransit(Server)
  <2>1. 1 \in DOMAIN interfaces[Server] /\ f.body.dst = interfaces[Server][1].ip
    BY <1>4, SessionAssumption DEF FromClient
  <2>2. Local(Server, f.body.dst)
    BY <2>1 DEF Local
  <2> QED BY <1>3, <2>2 DEF IsTransit
<1>9. CASE Acknowledge(Server) /\ outPipe' # outPipe
  <2> DEFINE route == LookupRoute(Server, f.body.dst)
  <2>1. /\ IsSegment(Server) /\ ~NoAck(Server, f.body)
        /\ Send(interfaces[Server][route.iface].port, AckFrame(Server, route, f))
    BY <1>3, <1>9 DEF Acknowledge
  <2>2. f.type = "ip" /\ ArpLookup(Server, f.body.src) # NULL /\ route # NULL
    BY <1>4, <2>1 DEF NoAck, FromClient
  <2>3. route \in RouteEntry /\ route.iface \in DOMAIN interfaces[Server]
    BY <1>1, <2>2, LookupRouteResult
  <2>4. PICK g \in Frame : g = AckFrame(Server, route, f)
    <3> HIDE DEF route
    <3> QED BY <1>1, <2>2, <2>3, AckTyped
  <2>5. ToClient(g)'
    <3>1. displayed' = displayed \cup Displays(f)
      BY <1>1, <1>3
    <3> HIDE DEF route
    <3> QED BY <1>1, <1>3, <1>4, <2>1, <2>4, <3>1, ReplyRight
  <2> DEFINE p == interfaces[Server][route.iface].port
  <2>6. p \in Port /\ outPipe' = [outPipe EXCEPT ![p] = Append(outPipe[p], g)]
    BY <1>1, <2>1, <2>3, <2>4, InterfaceTyped DEF Send
  <2>7. outPipe \in [Port -> Seq(Frame)]
    BY <1>1 DEF RouterTypeOK
  <2> HIDE DEF p
  <2>8. CASE p = Wire
    <3>1. outPipe'[Wire] = Append(outPipe[Wire], g) /\ outPipe[Wire] \in Seq(Frame)
      BY <1>1, <2>6, <2>7, <2>8
    <3>2. Elements(outPipe'[Wire]) \subseteq Elements(outPipe[Wire]) \cup {g}
      BY <2>4, <3>1, Written
    <3>3. \A e \in Elements(outPipe[Wire]) : ToClient(e)'
      BY <1>1, <1>5 DEF Wires
    <3> QED BY <2>5, <3>2, <3>3
  <2>9. CASE p # Wire
    <3>1. outPipe'[Wire] = outPipe[Wire]
      BY <1>1, <2>6, <2>7, <2>9
    <3> QED BY <1>1, <1>5, <3>1 DEF Wires
  <2> QED BY <2>8, <2>9
<1>10. CASE Ignore(Server) \/ Establish(Server)
  BY <1>6, <1>10 DEF Ignore, Establish
<1>11. ~AnswerArp(Server) /\ ~Transit(Server)
  BY <1>7, <1>8 DEF AnswerArp, Transit
<1> QED BY <1>1, <1>6, <1>9, <1>10, <1>11 DEF Handle

\* The router handles a frame, and acknowledges only what it displays.
LEMMA ServerHandlesKeeps ==
  ASSUME SessionInv, ServerHandles
  PROVE  SessionInv'
<1>1. /\ RouterTypeOK /\ ClientOK /\ Wires /\ OneAtATimeIsSafe /\ Handle(Server)
      /\ UNCHANGED <<client, isn, window, una, nxt, rcvNxt>>
      /\ displayed \subseteq displayed' /\ Server \in Router /\ Wire \in Port
  BY StreamParts DEF SessionInv, ServerHandles, clientVars
<1>2. RouterTypeOK'
  BY <1>1, HandleTyped
<1>3. nxt \in Nat
  BY <1>1, OffsetsTyped
<1>4. \A e : FromClient(e) => FromClient(e)'
  BY <1>1, <1>3, StillTrue
<1>5. /\ Pipe(Server) \in Port /\ inPipe[Pipe(Server)] # <<>>
      /\ inPipe' = [inPipe EXCEPT ![Pipe(Server)] = Tail(inPipe[Pipe(Server)])]
  BY <1>1, HandlerSends, ArrivedTyped DEF Receive
<1>6. Pipe(Server) = Wire
  BY <1>1, <1>5 DEF Wires
<1>7. inPipe \in [Port -> Seq(Frame)]
  BY <1>1 DEF RouterTypeOK
<1>8. /\ inPipe'[Wire] = Tail(inPipe[Wire]) /\ inPipe[Wire] \in Seq(Frame) /\ inPipe[Wire] # <<>>
      /\ \A p \in Port \ {Wire} : inPipe'[p] = inPipe[p]
  BY <1>1, <1>5, <1>6, <1>7
<1>9. Elements(inPipe'[Wire]) \subseteq Elements(inPipe[Wire])
  BY <1>8, Read
<1>10. Wires'
  <2>1. \A g \in Elements(outPipe'[Wire]) : ToClient(g)'
    BY HandlerReplies
  <2>2. \A p \in Port \ {Wire} : inPipe'[p] = <<>>
    BY <1>1, <1>8 DEF Wires
  <2>3. \A f \in Elements(inPipe'[Wire]) : FromClient(f)'
    BY <1>1, <1>4, <1>9 DEF Wires
  <2> QED BY <2>1, <2>2, <2>3 DEF Wires
<1>11. ClientOK'
  BY <1>1 DEF ClientOK
<1>12. OneAtATimeIsSafe'
  <2>1. window = 1 => AllDisplayed(Minimum(una, DataEnd))
    BY <1>1 DEF OneAtATimeIsSafe, AckedWasDisplayed
  <2>2. window = 1 => AllDisplayed(Minimum(una, DataEnd))'
    BY <1>1, <2>1 DEF AllDisplayed
  <2> QED BY <1>1, <2>2 DEF OneAtATimeIsSafe, AckedWasDisplayed
<1> QED BY <1>2, <1>10, <1>11, <1>12 DEF SessionInv

-----------------------------------------------------------------------------
(* The theorems.                                                           *)

\* The invariant holds at first.
LEMMA SessionInit == Init => SessionInv
<1> SUFFICES ASSUME Init PROVE SessionInv
  OBVIOUS
<1>1. RouterTypeOK
  <2>1. <<>> \in Seq(Frame) /\ <<>> \in Seq([eth : Mac, ip : Word]) /\ Len(<<>>) = 0
    BY EmptySeq
  <2>2. 0 <= PipeCap /\ 0 <= MaxTcpTableSize
    BY TablesAssumption
  <2> QED BY <2>1, <2>2 DEF Init, RouterTypeOK
<1>2. ClientOK
  <2>1. Zero \in Word /\ 0 \in Boundaries
    BY DEF Zero, Word, Byte, Boundaries
  <2>2. isn \in Word /\ window \in Nat \ {0}
    BY StreamParts DEF Init
  <2> QED BY <2>1, <2>2 DEF Init, ClientOK
<1>3. Wires
  <2>1. Elements(<<>>) = {}
    BY DEF Elements
  <2> QED BY <2>1, StreamParts DEF Init, Wires
<1>4. OneAtATimeIsSafe
  <2>1. Minimum(0, DataEnd) = 0
    BY StreamParts DEF Minimum
  <2> QED BY <2>1 DEF Init, OneAtATimeIsSafe, AckedWasDisplayed, AllDisplayed
<1> QED BY <1>1, <1>2, <1>3, <1>4 DEF SessionInv

\* Every step keeps it.
LEMMA SessionStep == SessionInv /\ [Next]_vars => SessionInv'
<1> SUFFICES ASSUME SessionInv, [Next]_vars PROVE SessionInv'
  OBVIOUS
<1>1. CASE UNCHANGED vars
  <2>1. /\ RouterTypeOK /\ ClientOK /\ Wires /\ OneAtATimeIsSafe
        /\ UNCHANGED <<client, isn, window, una, nxt, rcvNxt>> /\ UNCHANGED displayed
        /\ UNCHANGED <<alive, ready, tcpTbl, established>> /\ UNCHANGED <<inPipe, outPipe>>
    BY <1>1 DEF SessionInv, vars, routerVars, clientVars
  <2>2. nxt \in Nat
    BY <2>1, OffsetsTyped
  <2>3. (\A e : FromClient(e) => FromClient(e)') /\ (\A g : ToClient(g) => ToClient(g)')
    BY <2>1, <2>2, StillTrue
  <2>4. Wires'
    BY <2>1, <2>3 DEF Wires
  <2>5. RouterTypeOK' /\ ClientOK'
    BY <2>1 DEF RouterTypeOK, ClientOK
  <2>6. OneAtATimeIsSafe'
    BY <2>1 DEF OneAtATimeIsSafe, AckedWasDisplayed, AllDisplayed
  <2> QED BY <2>4, <2>5, <2>6 DEF SessionInv
<1>2. CASE Next
  BY <1>2, ConnectsKeeps, SendsNextKeeps, SendsAgainKeeps, ReplyArrivesKeeps, ServerPollsKeeps,
     ServerHandlesKeeps DEF Next
<1> QED BY <1>1, <1>2

\* Whatever is lost and repeated, and for all sequence numbers, writes and tables, no
\* acknowledgement that the router sends the client is ahead of what the client has sent:
\* composeAck's addition in the wrong byte order gives a number the client has used, or
\* one of Lags less.
THEOREM NeverAhead == Spec => []AcksNeverAhead
<1>1. SessionInv => AcksNeverAhead
  <2> SUFFICES ASSUME SessionInv, NEW k \in DOMAIN outPipe[Wire],
                      outPipe[Wire][k].body.kind \in {"synAck", "dataAck", "finAck"}
               PROVE  \E end \in 1 .. nxt, lag \in Lags :
                        Plus(Htonl(outPipe[Wire][k].body.seg.ack), ToWord(lag)) = Number(end)
    BY DEF AcksNeverAhead
  <2> DEFINE g == outPipe[Wire][k]
  <2>1. ClientOK /\ ToClient(g)
    BY DEF SessionInv, Wires, Elements
  <2>2. PICK from \in Nat, end \in Nat : Acks(g, from, end)
    BY <2>1 DEF ToClient
  <2>3. /\ from < end /\ end <= nxt /\ end - from < 65536
        /\ g.body.seg.ack = Plus(Htonl(Number(from)), Htonl(ToWord(end - from)))
    BY <2>2 DEF Acks, Spans
  <2>4. isn \in Word /\ nxt \in Nat /\ end < Half
    BY <2>1, <2>3, OffsetsBelowHalf
  <2>5. PICK lag \in Lags : Plus(Htonl(g.body.seg.ack), ToWord(lag)) = Number(end)
    BY <2>3, <2>4, AckLags DEF Number
  <2>6. end \in 1 .. nxt
    BY <2>3, <2>4
  <2> QED BY <2>5, <2>6
<1> QED BY <1>1, SessionInit, SessionStep, PTL DEF Spec

\* A client that has one segment at a time on its way loses nothing, although the router
\* keeps no number of what it has received: whatever the network loses and the client
\* repeats, all data the client takes for acknowledged has been displayed.
THEOREM OneAtATime == Spec => []OneAtATimeIsSafe
BY SessionInit, SessionStep, PTL DEF Spec, SessionInv

=============================================================================
