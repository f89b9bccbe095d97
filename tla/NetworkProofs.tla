---------------------------- MODULE NetworkProofs ----------------------------
(***************************************************************************)
(* Theorems about the network of routers and hosts, for all topologies,    *)
(* tables and bounds that the assumptions admit.                           *)
(***************************************************************************)
EXTENDS Paths, RouterProofs

-----------------------------------------------------------------------------
(* Types.                                                                  *)

\* What a switch repeats reaches pipes that have room for it.
LEMMA RepeatedTyped ==
  ASSUME RouterTypeOK, NEW p \in Port, NEW f \in Frame
  PROVE  PipesTyped(Repeated(p, f))
<1>1. ASSUME NEW q \in Port
      PROVE  Repeated(p, f)[q] \in Seq(Frame) /\ Len(Repeated(p, f)[q]) <= PipeCap
  <2>1. inPipe[q] \in Seq(Frame) /\ Len(inPipe[q]) \in Nat /\ Len(inPipe[q]) <= PipeCap
    BY LenProperties DEF RouterTypeOK
  <2>2. Append(inPipe[q], f) \in Seq(Frame) /\ Len(Append(inPipe[q], f)) = Len(inPipe[q]) + 1
    BY <2>1, Written
  <2>3. CASE q \in Hearers(p) /\ ~Full(q)
    <3>1. Repeated(p, f)[q] = Append(inPipe[q], f)
      BY <2>3 DEF Repeated
    <3>2. Len(inPipe[q]) + 1 <= PipeCap
      BY <2>1, <2>3, TablesAssumption DEF Full
    <3> QED BY <2>2, <3>1, <3>2
  <2>4. CASE ~(q \in Hearers(p) /\ ~Full(q))
    <3>1. Repeated(p, f)[q] = inPipe[q]
      BY <2>4 DEF Repeated
    <3> QED BY <2>1, <3>1
  <2> QED BY <2>3, <2>4
<1>2. Repeated(p, f) = [q \in Port |-> Repeated(p, f)[q]]
  BY DEF Repeated
<1> QED BY <1>1, <1>2 DEF PipesTyped

\* The switch relays what the process has written.
LEMMA RelayEffect ==
  ASSUME RouterTypeOK, NEW p \in Port, Relay(p)
  PROVE  /\ Head(outPipe[p]) \in Frame
         /\ Head(outPipe[p]) \in Elements(outPipe[p])
         /\ inPipe' = Repeated(p, Head(outPipe[p]))
         /\ outPipe' = [outPipe EXCEPT ![p] = Tail(outPipe[p])]
         /\ PipesTyped(inPipe') /\ PipesTyped(outPipe')
<1>1. outPipe[p] \in Seq(Frame) /\ outPipe[p] # <<>> /\ Len(outPipe[p]) <= PipeCap
  BY DEF RouterTypeOK, Relay
<1>2. /\ Head(outPipe[p]) \in Frame /\ Head(outPipe[p]) \in Elements(outPipe[p])
      /\ Tail(outPipe[p]) \in Seq(Frame) /\ Len(Tail(outPipe[p])) <= Len(outPipe[p])
  BY <1>1, Read
<1>3. Len(Tail(outPipe[p])) <= PipeCap
  <2>1. Len(Tail(outPipe[p])) \in Nat /\ Len(outPipe[p]) \in Nat
    BY <1>1, <1>2, LenProperties
  <2> QED BY <1>1, <1>2, <2>1, TablesAssumption
<1>4. /\ inPipe' = Repeated(p, Head(outPipe[p]))
      /\ outPipe' = [outPipe EXCEPT ![p] = Tail(outPipe[p])]
  BY DEF Relay
<1>5. PipesTyped(inPipe')
  BY <1>2, <1>4, RepeatedTyped
<1>6. PipesTyped(outPipe')
  BY <1>2, <1>3, <1>4 DEF RouterTypeOK, PipesTyped
<1> QED BY <1>2, <1>4, <1>5, <1>6

\* What a host may send.
LEMMA ScriptTyped ==
  ASSUME NEW h \in Host, NEW s \in Script[h] \ {NULL}
  PROVE  /\ s.via \in Mac /\ s.to \in Word /\ s.ttl \in Byte
         /\ s.len \in 14 .. ETH_MAX_FRAME_LEN /\ s.len \in Nat
         /\ \A g \in Host : s.via # HostMac[g]
<1>1. s \in [via : Mac, to : Word, ttl : Byte, len : 14 .. ETH_MAX_FRAME_LEN]
  BY HostsAssumption
<1> QED BY <1>1, HostsAssumption

\* The frame of a host is one.
LEMMA HostFrameTyped ==
  ASSUME NEW h \in Host, NEW m \in Script[h] \ {NULL}, NEW n \in Nat
  PROVE  HostFrame(h, m, n) \in Frame
<1>1. /\ m \in [via : Mac, to : Word, ttl : Byte, len : 14 .. ETH_MAX_FRAME_LEN]
      /\ HostMac[h] \in Mac /\ HostIp[h] \in Word
  BY HostsAssumption
<1> DEFINE seg == [flags |-> "other", seq |-> Zero, ack |-> Zero]
           body == [src |-> HostIp[h], dst |-> m.to, ttl |-> m.ttl, chk |-> "swapped",
                    seg |-> seg, kind |-> "data", id |-> n]
<1>2. Zero \in Word
  BY DEF Zero, Word, Byte
<1>3. seg \in Segment
  BY <1>2 DEF Segment, Flag
<1>4. body \in Packet
  <2> HIDE DEF seg
  <2>1. m.to \in Word /\ m.ttl \in Byte
    BY <1>1
  <2>2. "data" \in Kind
    BY DEF Kind
  <2> QED BY <1>1, <1>3, <2>1, <2>2 DEF Packet
<1>5. HostFrame(h, m, n) = [dst |-> m.via, src |-> HostMac[h], type |-> "ip", len |-> m.len,
                            fcs |-> FALSE, body |-> body]
  BY DEF HostFrame
<1> HIDE DEF body
<1>6. m.via \in Mac /\ m.len \in 14 .. ETH_MAX_FRAME_LEN
  BY <1>1
<1> QED BY <1>1, <1>4, <1>5, <1>6 DEF Frame

\* The addressee is a host with the address, if there is one.
LEMMA AddresseeTyped ==
  /\ \A ip : Addressee(ip) \in Host \cup {NULL}
  /\ \A h \in Host : Addressee(HostIp[h]) = h
<1>1. \A ip : Addressee(ip) \in Host \cup {NULL}
  BY DEF Addressee
<1>2. ASSUME NEW h \in Host
      PROVE  Addressee(HostIp[h]) = h
  <2>1. \A g \in Host : HostIp[g] = HostIp[h] => g = h
    BY HostsApartAssumption
  <2> QED BY <2>1 DEF Addressee
<1> QED BY <1>1, <1>2

\* What Run sends, if it sends.
RunSends(h) ==
    \E s \in Script[h] \ {NULL} :
        /\ Send(HostPort[h], HostFrame(h, s, Len(sent) + 1))
        /\ sent' = Append(sent, [from |-> h, to |-> Addressee(s.to), len |-> s.len, ttl |-> s.ttl])
        /\ due' = due \cup NewlyDue(Addressee(s.to), Len(sent) + 1)

\* What a run of a host changes.
LEMMA RunEffect ==
  ASSUME NEW h \in Host, Run(h)
  PROVE  /\ RunSends(h) \/ UNCHANGED <<outPipe, sent, due>>
         /\ UNCHANGED <<alive, ready, tcpTbl, established, inPipe, boots, shown>>
         /\ up' = [up EXCEPT ![h] = TRUE]
         /\ runs' = [runs EXCEPT ![h] = runs[h] + 1]
  BY DEF Run, RunSends

\* Messages keep their numbers when a message is added.
LEMMA MessageAdded ==
  ASSUME NEW s \in Seq(Message), NEW m \in Message
  PROVE  /\ Append(s, m) \in Seq(Message)
         /\ DOMAIN Append(s, m) = DOMAIN s \cup {Len(s) + 1}
         /\ \A n \in DOMAIN s : Append(s, m)[n] = s[n]
         /\ Append(s, m)[Len(s) + 1] = m
         /\ Len(s) + 1 \in Nat
<1>1. DOMAIN s = 1 .. Len(s) /\ Len(s) \in Nat
  BY LenProperties
<1>2. /\ Append(s, m) \in Seq(Message) /\ Len(Append(s, m)) = Len(s) + 1
      /\ \A n \in 1 .. Len(s) : Append(s, m)[n] = s[n]
      /\ Append(s, m)[Len(s) + 1] = m
  BY AppendProperties
<1>3. DOMAIN Append(s, m) = 1 .. Len(s) + 1
  BY <1>2, LenProperties
<1>4. 1 .. Len(s) + 1 = (1 .. Len(s)) \cup {Len(s) + 1}
  BY <1>1
<1> QED BY <1>1, <1>2, <1>3, <1>4

\* TypeOK holds at first.
LEMMA InitTypeOK == Init => TypeOK
<1> SUFFICES ASSUME Init PROVE TypeOK
  OBVIOUS
<1>1. \A S : <<>> \in Seq(S) /\ Len(<<>>) = 0
  BY EmptySeq
<1>2. MaxTcpTableSize >= 0 /\ PipeCap >= 0
  BY TablesAssumption
<1>3. RouterTypeOK
  BY <1>1, <1>2 DEF Init, RouterTypeOK
<1>4. DOMAIN sent = {} /\ sent \in Seq(Message)
  BY <1>1, LenProperties DEF Init
<1> QED BY <1>1, <1>3, <1>4 DEF Init, TypeOK

\* A running host shows a frame of its pipe.
LEMMA ReceivesTyped ==
  ASSUME TypeOK, NEW h \in Host, Receives(h)
  PROVE  TypeOK'
<1> DEFINE p == HostPort[h]
           f == Head(inPipe[p])
<1>1. p \in Port /\ inPipe[p] # <<>>
  BY HostsAssumption DEF Receives
<1>2. PipesTyped(inPipe')
  <2>1. inPipe' = [inPipe EXCEPT ![p] = Tail(inPipe[p])]
    BY DEF Receives
  <2> QED BY <1>1, <2>1, TakeTyped DEF TypeOK
<1>3. RouterTypeOK'
  <2>1. UNCHANGED <<alive, ready, tcpTbl, established, outPipe>>
    BY DEF Receives
  <2> QED BY <1>2, <2>1 DEF TypeOK, RouterTypeOK, PipesTyped
<1>4. f \in Frame
  <2>1. inPipe[p] \in Seq(Frame)
    BY <1>1 DEF TypeOK, RouterTypeOK
  <2> QED BY <1>1, <2>1, Read
<1>5. Displayed(f) \in Seq(Nat)
  <2> HIDE DEF f
  <2>1. CASE IsKind(f, {"data"})
    <3>1. f.body.id \in Nat
      BY <1>4, <2>1, FrameParts, PacketParts DEF IsKind
    <3> QED BY <2>1, <3>1 DEF Displayed
  <2>2. CASE ~IsKind(f, {"data"})
    BY <2>2, EmptySeq DEF Displayed
  <2> QED BY <2>1, <2>2
<1>6. shown' \in [Host -> Seq(Nat)] /\ due' \subseteq due
  <2>1. CASE UNCHANGED <<shown, due>>
    BY <2>1 DEF TypeOK
  <2>2. CASE /\ shown' = [shown EXCEPT ![h] = shown[h] \o Displayed(f)]
             /\ due' = due \ {n \in due : sent[n].to = h /\ Displayed(f) = <<n>>}
    <3>1. shown[h] \in Seq(Nat)
      BY DEF TypeOK
    <3>2. shown[h] \o Displayed(f) \in Seq(Nat)
      <4> HIDE DEF f
      <4> QED BY <1>5, <3>1, ConcatProperties
    <3> QED BY <2>2, <3>2 DEF TypeOK
  <2> QED BY <2>1, <2>2 DEF Receives
<1>7. UNCHANGED <<boots, up, runs, sent>>
  BY DEF Receives
<1> QED BY <1>3, <1>6, <1>7 DEF TypeOK

\* A host that starts, with or without a message.
LEMMA RunTyped ==
  ASSUME TypeOK, NEW h \in Host, Run(h)
  PROVE  TypeOK'
<1>1. RouterTypeOK /\ HostPort[h] \in Port /\ sent \in Seq(Message) /\ Len(sent) \in Nat
  BY HostsAssumption, LenProperties DEF TypeOK
<1>2. /\ UNCHANGED <<alive, ready, tcpTbl, established, inPipe, boots, shown>>
      /\ up' = [up EXCEPT ![h] = TRUE] /\ runs' = [runs EXCEPT ![h] = runs[h] + 1]
  BY RunEffect
<1>3. PipesTyped(outPipe') /\ sent' \in Seq(Message) /\ due' \subseteq DOMAIN sent'
  <2>1. CASE UNCHANGED <<outPipe, sent, due>>
    BY <2>1 DEF TypeOK, RouterTypeOK, PipesTyped
  <2>2. ASSUME NEW s \in Script[h] \ {NULL},
               Send(HostPort[h], HostFrame(h, s, Len(sent) + 1)),
               sent' = Append(sent, [from |-> h, to |-> Addressee(s.to), len |-> s.len, ttl |-> s.ttl]),
               due' = due \cup NewlyDue(Addressee(s.to), Len(sent) + 1)
        PROVE  PipesTyped(outPipe') /\ sent' \in Seq(Message) /\ due' \subseteq DOMAIN sent'
    <3>1. HostFrame(h, s, Len(sent) + 1) \in Frame
      BY <1>1, HostFrameTyped
    <3>2. PipesTyped(outPipe')
      BY <1>1, <2>2, <3>1, SendTyped
    <3>3. [from |-> h, to |-> Addressee(s.to), len |-> s.len, ttl |-> s.ttl] \in Message
      BY AddresseeTyped, ScriptTyped DEF Message
    <3>4. sent' \in Seq(Message) /\ DOMAIN sent' = DOMAIN sent \cup {Len(sent) + 1}
      BY <1>1, <2>2, <3>3, MessageAdded
    <3>5. NewlyDue(Addressee(s.to), Len(sent) + 1) \subseteq {Len(sent) + 1}
      BY DEF NewlyDue
    <3> QED BY <2>2, <3>2, <3>4, <3>5 DEF TypeOK
  <2> QED BY <2>1, <2>2, RunEffect DEF RunSends
<1>4. RouterTypeOK'
  BY <1>2, <1>3 DEF TypeOK, RouterTypeOK, PipesTyped
<1>5. up' \in [Host -> BOOLEAN] /\ runs' \in [Host -> Nat]
  <2>1. runs[h] + 1 \in Nat
    BY DEF TypeOK
  <2> QED BY <1>2, <2>1 DEF TypeOK
<1> QED BY <1>2, <1>3, <1>4, <1>5 DEF TypeOK

\* What the switch of a port repeats.
LEMMA RelayTyped ==
  ASSUME TypeOK, NEW p \in Port, Relay(p)
  PROVE  TypeOK'
<1>1. PipesTyped(inPipe') /\ PipesTyped(outPipe')
  BY RelayEffect DEF TypeOK
<1>2. /\ UNCHANGED <<alive, ready, tcpTbl, established, boots, up, runs, sent, shown>>
      /\ due' \subseteq due
  BY DEF Relay
<1> QED BY <1>1, <1>2 DEF TypeOK, RouterTypeOK, PipesTyped

\* A frame of a kernel reaches the pipes of the network it is on.
LEMMA TapTyped ==
  ASSUME TypeOK, TapSends
  PROVE  TypeOK'
<1>1. PICK t \in TapTraffic : inPipe' = Repeated(t.port, t.frame)
  BY DEF TapSends
<1>2. t.port \in Port /\ t.frame \in Frame
  BY HostsAssumption
<1>3. PipesTyped(inPipe')
  BY <1>1, <1>2, RepeatedTyped DEF TypeOK
<1>4. UNCHANGED <<alive, ready, tcpTbl, established, outPipe, boots, hostVars>>
  BY DEF TapSends
<1> QED BY <1>3, <1>4 DEF TypeOK, RouterTypeOK, PipesTyped, hostVars

\* A plug that ends leaves an empty pipe.
LEMMA PlugTyped ==
  ASSUME TypeOK, NEW p \in Port, PlugBreaks(p)
  PROVE  TypeOK'
<1>1. PipesTyped(outPipe')
  BY EmptiedTyped DEF PlugBreaks, TypeOK, RouterTypeOK, PipesTyped
<1>2. UNCHANGED <<alive, ready, tcpTbl, established, inPipe, boots, hostVars>>
  BY DEF PlugBreaks
<1> QED BY <1>1, <1>2 DEF TypeOK, RouterTypeOK, PipesTyped, hostVars

\* A router that starts or ends renews its state.
LEMMA RouterRenewed ==
  ASSUME TypeOK, NEW r \in Router, RouterStarts(r) \/ RouterEnds(r)
  PROVE  Renewed(r)
  BY RenewedBy DEF RouterStarts, RouterEnds, TypeOK

\* Every step keeps the types.
LEMMA TypeOKStep == TypeOK /\ [Next]_vars => TypeOK'
<1> SUFFICES ASSUME TypeOK, [Next]_vars
             PROVE  TypeOK'
  OBVIOUS
<1>1. ASSUME NEW r \in Router, RouterRuns(r)
      PROVE  TypeOK'
  <2>1. RouterTypeOK'
    BY <1>1, PollTyped, HandleTyped DEF RouterRuns, TypeOK
  <2> QED BY <1>1, <2>1 DEF RouterRuns, TypeOK, hostVars
<1>2. ASSUME NEW h \in Host, Receives(h)
      PROVE  TypeOK'
  BY <1>2, ReceivesTyped
<1>3. ASSUME NEW p \in Port, Relay(p)
      PROVE  TypeOK'
  BY <1>3, RelayTyped
<1>4. ASSUME NEW r \in Router, RouterStarts(r)
      PROVE  TypeOK'
  <2>1. RouterTypeOK'
    BY <1>4, RenewedBy, RenewedTyped DEF RouterStarts, TypeOK
  <2>2. boots' \in [Router -> Nat]
    <3>1. boots[r] + 1 \in Nat
      BY DEF TypeOK
    <3> QED BY <1>4, <3>1 DEF RouterStarts, TypeOK
  <2> QED BY <1>4, <2>1, <2>2 DEF RouterStarts, TypeOK, hostVars
<1>5. ASSUME NEW r \in Router, RouterEnds(r)
      PROVE  TypeOK'
  <2>1. RouterTypeOK'
    BY <1>5, RenewedBy, RenewedTyped DEF RouterEnds, TypeOK
  <2> QED BY <1>5, <2>1 DEF RouterEnds, TypeOK
<1>6. ASSUME NEW h \in Host, Run(h)
      PROVE  TypeOK'
  BY <1>6, RunTyped
<1>7. ASSUME NEW h \in Host, Stop(h)
      PROVE  TypeOK'
  <2>1. PipesTyped(inPipe') /\ PipesTyped(outPipe')
    BY <1>7, EmptiedTyped DEF Stop, TypeOK, RouterTypeOK, PipesTyped
  <2>2. RouterTypeOK'
    BY <1>7, <2>1 DEF Stop, TypeOK, RouterTypeOK, PipesTyped
  <2> QED BY <1>7, <2>2 DEF Stop, TypeOK
<1>8. CASE TapSends
  BY <1>8, TapTyped
<1>9. CASE UNCHANGED vars
  BY <1>9 DEF vars, routerVars, hostVars, TypeOK, RouterTypeOK
<1>10. ASSUME NEW p \in Port, PlugBreaks(p)
       PROVE  TypeOK'
  BY <1>10, PlugTyped
<1> QED BY <1>1, <1>2, <1>3, <1>4, <1>5, <1>6, <1>7, <1>8, <1>9, <1>10 DEF Next, SystemStep

\* Every variable has its type in every reachable state, and the TCP tables and
\* the pipes keep within their bounds, whatever the routers are sent.
THEOREM TypeCorrect == Spec => []TypeOK
<1> QED BY InitTypeOK, TypeOKStep, PTL DEF Spec

-----------------------------------------------------------------------------
(* The poll loop never blocks.                                             *)

\* Different interfaces have different pipes.
LEMMA PipesApart ==
  ASSUME NEW r \in Router, NEW i \in DOMAIN interfaces[r],
         NEW s \in Router, NEW j \in DOMAIN interfaces[s],
         interfaces[r][i].port = interfaces[s][j].port
  PROVE  r = s /\ i = j
<1>1. ASSUME NEW q \in Router, NEW k \in DOMAIN interfaces[q]
      PROVE  k \in DOMAIN AddInterface[q] /\ interfaces[q][k] = AddInterface[q][k]
  <2>1. AddInterface[q] \in Seq(Interface) /\ MAX_INTERFACES \in Nat
    BY TablesAssumption DEF Interface
  <2>2. interfaces[q] = Filled(AddInterface[q], MAX_INTERFACES)
    BY DEF interfaces
  <2>3. /\ DOMAIN Filled(AddInterface[q], MAX_INTERFACES)
             = (1 .. MAX_INTERFACES) \cap DOMAIN AddInterface[q]
        /\ \A n \in DOMAIN Filled(AddInterface[q], MAX_INTERFACES) :
             Filled(AddInterface[q], MAX_INTERFACES)[n] = AddInterface[q][n]
    BY <2>1, FilledPrefix
  <2> QED BY <2>2, <2>3
<1> QED BY <1>1, PortsAssumption

\* No step empties the pipe of an interface that is still to be handled.
LEMMA ReadsStep == TypeOK /\ ReadsNeverBlock /\ [Next]_vars => ReadsNeverBlock'
<1> SUFFICES ASSUME TypeOK, ReadsNeverBlock, [Next]_vars,
                    NEW s \in Router, NEW j \in ready'[s]
             PROVE  inPipe'[interfaces[s][j].port] # <<>>
  BY DEF ReadsNeverBlock
<1> DEFINE q == interfaces[s][j].port
<1>0. j \in DOMAIN interfaces[s] /\ q \in Port /\ q \in PortsOf(s)
  <2>1. TypeOK'
    BY TypeOKStep
  <2>2. j \in DOMAIN interfaces[s]
    BY <2>1 DEF TypeOK, RouterTypeOK
  <2> QED BY <2>2, InterfaceTyped DEF PortsOf
<1> DEFINE Grows == ready' = ready /\ (inPipe[q] # <<>> => inPipe'[q] # <<>>)
<1>1. CASE Grows
  BY <1>1 DEF ReadsNeverBlock
<1>2. ASSUME NEW p \in Port, NEW f \in Frame,
             inPipe' = Repeated(p, f), ready' = ready
      PROVE  Grows
  <2>1. Append(inPipe[q], f) # <<>>
    <3>1. inPipe[q] \in Seq(Frame)
      BY <1>0 DEF TypeOK, RouterTypeOK
    <3> HIDE DEF q
    <3> QED BY <3>1, Written
  <2> QED BY <1>0, <1>2, <2>1 DEF Repeated
<1>3. ASSUME NEW r \in Router, RouterRuns(r)
      PROVE  inPipe'[q] # <<>>
  <2>1. CASE Poll(r)
    BY <2>1, <1>0 DEF Poll, Flagged, ReadsNeverBlock, TypeOK, RouterTypeOK
  <2>2. CASE Handle(r)
    <3>1. Receive(r)
      BY <2>2, HandlerSends DEF TypeOK
    <3>2. /\ Turn(r) \in ready[r] /\ Turn(r) \in DOMAIN interfaces[r]
          /\ Pipe(r) = interfaces[r][Turn(r)].port
      BY <3>1, ArrivedTyped DEF TypeOK
    <3>3. ready' = [ready EXCEPT ![r] = ready[r] \ {Turn(r)}]
      BY <3>1 DEF Receive, Remaining
    <3>4. ready \in [Router -> SUBSET Nat]
      BY DEF TypeOK, RouterTypeOK
    <3>5. j \in ready[s] /\ ~(s = r /\ j = Turn(r))
      BY <3>3, <3>4
    <3>6. q # Pipe(r)
      BY <1>0, <3>2, <3>5, PipesApart
    <3>7. inPipe'[q] = inPipe[q]
      BY <1>0, <3>1, <3>6 DEF Receive, TypeOK, RouterTypeOK
    <3> QED BY <3>5, <3>7 DEF ReadsNeverBlock
  <2> QED BY <1>3, <2>1, <2>2 DEF RouterRuns
<1>4. ASSUME NEW r \in Router, RouterStarts(r) \/ RouterEnds(r)
      PROVE  inPipe'[q] # <<>>
  <2>0. Reset(r)
    BY <1>4, RouterRenewed DEF Renewed
  <2>1. s # r /\ j \in ready[s]
    BY <2>0 DEF Reset, TypeOK, RouterTypeOK
  <2>2. q \notin PortsOf(r)
    BY <1>0, <2>1, PipesApart DEF PortsOf
  <2>3. inPipe'[q] = inPipe[q]
    BY <1>0, <2>0, <2>2 DEF Reset, Emptied
  <2> QED BY <2>1, <2>3 DEF ReadsNeverBlock
<1>5. ASSUME NEW h \in Host, Receives(h) \/ Stop(h)
      PROVE  Grows
  <2>1. q # HostPort[h]
    BY <1>0, HostsApartAssumption
  <2>2. inPipe'[q] = inPipe[q] /\ ready' = ready
    BY <1>0, <1>5, <2>1 DEF Receives, Stop, Emptied, TypeOK, RouterTypeOK
  <2> QED BY <2>2
<1>6. ASSUME NEW p \in Port, Relay(p)
      PROVE  Grows
  <2>1. inPipe' = Repeated(p, Head(outPipe[p])) /\ Head(outPipe[p]) \in Frame
    BY <1>6, RelayEffect DEF TypeOK
  <2>2. ready' = ready
    BY <1>6 DEF Relay
  <2> HIDE DEF Grows
  <2> QED BY <1>2, <2>1, <2>2
<1>7. CASE TapSends
  <2>1. PICK t \in TapTraffic : inPipe' = Repeated(t.port, t.frame)
    BY <1>7 DEF TapSends
  <2>2. t.port \in Port /\ t.frame \in Frame
    BY HostsAssumption
  <2>3. ready' = ready
    BY <1>7 DEF TapSends
  <2>4. Grows
    <3> HIDE DEF Grows
    <3> QED BY <1>2, <2>1, <2>2, <2>3
  <2> QED BY <1>1, <2>4
<1>8. CASE (\E h \in Host : Run(h)) \/ UNCHANGED vars
  <2>1. UNCHANGED <<inPipe, ready>>
    BY <1>8, RunEffect DEF vars, routerVars
  <2> QED BY <1>1, <2>1
<1>9. ASSUME NEW p \in Port, PlugBreaks(p)
      PROVE  Grows
  BY <1>9 DEF PlugBreaks
<1> HIDE DEF Grows, q
<1> QED BY <1>1, <1>3, <1>4, <1>5, <1>6, <1>7, <1>8, <1>9 DEF Next, SystemStep, q

\* No router ever blocks in a read: the frame that poll() reported is there when
\* its turn comes, in whatever order other processes and switches run.
THEOREM NeverBlocked == Spec => []ReadsNeverBlock
<1>1. Init => ReadsNeverBlock
  BY DEF Init, ReadsNeverBlock
<1> QED BY <1>1, TypeCorrect, ReadsStep, PTL DEF Spec

-----------------------------------------------------------------------------
(* The TCP table.                                                          *)

Kept ==
    \A r \in Router : alive[r] /\ alive'[r] =>
        /\ Len(tcpTbl[r]) <= Len(tcpTbl'[r])
        /\ \A j \in DOMAIN tcpTbl[r] : tcpTbl'[r][j] = tcpTbl[r][j]

\* The tables keep their entries.
LEMMA KeptStep == TypeOK /\ [Next]_vars => Kept
<1> SUFFICES ASSUME TypeOK, [Next]_vars
             PROVE  Kept
  OBVIOUS
<1>0. \A r \in Router : Len(tcpTbl[r]) \in Nat
  BY LenProperties DEF TypeOK, RouterTypeOK
<1>1. CASE UNCHANGED tcpTbl
  BY <1>0, <1>1 DEF Kept
<1>2. ASSUME NEW r \in Router, RouterRuns(r)
      PROVE  Kept
  <2>1. CASE Establish(r)
    BY <2>1, EstablishTyped DEF Kept, TypeOK
  <2>2. CASE ~Establish(r)
    BY <1>1, <1>2, <2>2
       DEF RouterRuns, Poll, Handle, Ignore, AnswerArp, Transit, Acknowledge
  <2> QED BY <2>1, <2>2
<1>3. ASSUME NEW r \in Router, RouterStarts(r) \/ RouterEnds(r)
      PROVE  Kept
  <2>1. /\ tcpTbl' = [tcpTbl EXCEPT ![r] = <<>>]
        /\ \/ ~alive[r]
           \/ alive' = [alive EXCEPT ![r] = FALSE]
    BY <1>3 DEF RouterStarts, RouterEnds, Boot, Terminate, Crash, Reset
  <2>2. ~(alive[r] /\ alive'[r])
    BY <2>1 DEF TypeOK, RouterTypeOK
  <2>3. \A s \in Router \ {r} : tcpTbl'[s] = tcpTbl[s]
    BY <2>1 DEF TypeOK, RouterTypeOK
  <2> QED BY <1>0, <2>2, <2>3 DEF Kept
<1>4. ASSUME NEW h \in Host, Receives(h) \/ Run(h) \/ Stop(h)
      PROVE  UNCHANGED tcpTbl
  BY <1>4, RunEffect DEF Receives, Stop
<1>5. ASSUME NEW p \in Port, Relay(p) \/ PlugBreaks(p)
      PROVE  UNCHANGED tcpTbl
  BY <1>5 DEF Relay, PlugBreaks
<1>6. CASE TapSends \/ UNCHANGED vars
  <2>1. UNCHANGED tcpTbl
    BY <1>6 DEF TapSends, vars, routerVars
  <2> QED BY <1>1, <2>1
<1> QED BY <1>1, <1>2, <1>3, <1>4, <1>5, <1>6 DEF Next, SystemStep

\* While a router runs, the entries of its TCP table stay what they are, whatever
\* segments arrive, a full table and unknown peers included.
THEOREM EntriesKept == Spec => PeersKept
<1>1. TypeOK /\ [Next]_vars => [Kept]_vars
  BY KeptStep
<1>2. PeersKept <=> [][Kept]_vars
  BY DEF PeersKept, Kept
<1> QED BY <1>1, <1>2, TypeCorrect, PTL DEF Spec

-----------------------------------------------------------------------------
(* Where the frames in the pipes come from.                                *)

\* A frame in transit is in some pipe.
LEMMA InTransitMembers ==
  /\ \A f : f \in InTransit <=>
        \E p \in Port : f \in Elements(inPipe[p]) \/ f \in Elements(outPipe[p])
  /\ \A f : f \in InTransit' <=>
        \E p \in Port : f \in Elements(inPipe'[p]) \/ f \in Elements(outPipe'[p])
  BY DEF InTransit, Elements

\* What each operation on pipes adds.
LEMMA SendElements ==
  ASSUME RouterTypeOK, NEW p \in Port, NEW f \in Frame, Send(p, f), NEW q \in Port
  PROVE  Elements(outPipe'[q]) \subseteq Elements(outPipe[q]) \cup {f}
<1>1. outPipe \in [Port -> Seq(Frame)] /\ outPipe[p] \in Seq(Frame)
  BY DEF RouterTypeOK
<1>2. Elements(Append(outPipe[p], f)) \subseteq Elements(outPipe[p]) \cup {f}
  BY <1>1, Written
<1>3. outPipe' = [outPipe EXCEPT ![p] = Append(outPipe[p], f)]
  BY DEF Send
<1> QED BY <1>1, <1>2, <1>3

\* Taking a frame out of a pipe puts none in.
LEMMA TakeElements ==
  ASSUME NEW pipes \in [Port -> Seq(Frame)], NEW p \in Port, pipes[p] # <<>>, NEW q \in Port
  PROVE  Elements([pipes EXCEPT ![p] = Tail(pipes[p])][q]) \subseteq Elements(pipes[q])
<1>1. Elements(Tail(pipes[p])) \subseteq Elements(pipes[p])
  BY Read
<1> QED BY <1>1

\* What a switch repeats is all that is new in the pipes behind it.
LEMMA RepeatedElements ==
  ASSUME RouterTypeOK, NEW p \in Port, NEW f \in Frame, NEW q \in Port
  PROVE  Elements(Repeated(p, f)[q]) \subseteq Elements(inPipe[q]) \cup {f}
<1>1. inPipe[q] \in Seq(Frame)
  BY DEF RouterTypeOK
<1>2. Elements(Append(inPipe[q], f)) \subseteq Elements(inPipe[q]) \cup {f}
  BY <1>1, Written
<1> QED BY <1>2 DEF Repeated

\* Emptying pipes puts no frame in.
LEMMA EmptiedElements ==
  ASSUME NEW pipes, NEW ports, NEW q \in Port
  PROVE  Elements(Emptied(pipes, ports)[q]) \subseteq Elements(pipes[q])
<1>1. Elements(<<>>) = {}
  BY DEF Elements
<1> QED BY <1>1 DEF Emptied

\* A frame in a pipe after a step was in one before, or the step has built it
\* from a frame that was, or it comes from a host or from a kernel.
NewFrame(f) ==
    \/ \E r \in Router, p \in Port :
           /\ Arrived(r) \in InTransit /\ Arrived(r) \in Frame
           /\ Built(r, p, f)
           /\ alive[r] /\ UNCHANGED <<alive, boots, sent>>
    \/ \E h \in Host : \E s \in Script[h] \ {NULL} :
           /\ f = HostFrame(h, s, Len(sent) + 1)
           /\ sent' = Append(sent, [from |-> h, to |-> Addressee(s.to), len |-> s.len, ttl |-> s.ttl])
    \/ \E t \in TapTraffic : f = t.frame /\ UNCHANGED sent

\* A frame in transit was in transit before or has just been built or sent.
LEMMA FramesFrom ==
  ASSUME TypeOK, [Next]_vars, NEW f \in InTransit'
  PROVE  f \in InTransit \/ NewFrame(f)
<1> DEFINE Before(q) == Elements(inPipe[q]) \cup Elements(outPipe[q])
           After(q) == Elements(inPipe'[q]) \cup Elements(outPipe'[q])
<1>1. PICK q \in Port : f \in After(q)
  BY InTransitMembers
<1>2. ASSUME NEW p \in Port
      PROVE  Before(p) \subseteq InTransit
  BY InTransitMembers
<1>3. CASE f \in Before(q)
  BY <1>2, <1>3
<1>t. /\ RouterTypeOK /\ inPipe \in [Port -> Seq(Frame)] /\ outPipe \in [Port -> Seq(Frame)]
  BY DEF TypeOK, RouterTypeOK
<1>4. ASSUME NEW r \in Router, RouterRuns(r)
      PROVE  f \in Before(q) \/ NewFrame(f)
  <2>1. CASE Poll(r)
    BY <1>1, <2>1 DEF Poll
  <2>2. CASE Handle(r)
    <3>1. Receive(r) /\ Sends(r)
      BY <1>t, <2>2, HandlerSends
    <3>2. /\ Pipe(r) \in Port /\ inPipe[Pipe(r)] # <<>>
          /\ Arrived(r) \in Frame /\ Arrived(r) \in Elements(inPipe[Pipe(r)])
      BY <1>t, <3>1, ArrivedTyped DEF Receive
    <3>3. Elements(inPipe'[q]) \subseteq Elements(inPipe[q])
      <4>1. inPipe' = [inPipe EXCEPT ![Pipe(r)] = Tail(inPipe[Pipe(r)])]
        BY <3>1 DEF Receive
      <4> QED BY <1>t, <3>2, <4>1, TakeElements
    <3>4. CASE UNCHANGED outPipe
      BY <1>1, <3>3, <3>4
    <3>5. ASSUME NEW i \in DOMAIN interfaces[r], NEW g \in Frame,
                 Built(r, interfaces[r][i].port, g), Send(interfaces[r][i].port, g)
          PROVE  f \in Before(q) \/ NewFrame(f)
      <4>1. Elements(outPipe'[q]) \subseteq Elements(outPipe[q]) \cup {g}
        BY <1>t, <3>5, InterfaceTyped, SendElements
      <4>2. CASE f = g
        <5>1. /\ Arrived(r) \in InTransit
              /\ alive[r] /\ UNCHANGED <<alive, boots, sent>>
          BY <1>2, <1>4, <1>t, <2>2, <3>1, <3>2, HandlerSends DEF RouterRuns, Receive, hostVars
        <5>2. interfaces[r][i].port \in Port
          BY InterfaceTyped
        <5> QED BY <3>2, <3>5, <4>2, <5>1, <5>2 DEF NewFrame
      <4> QED BY <1>1, <3>3, <4>1, <4>2
    <3> QED BY <3>1, <3>4, <3>5 DEF Sends
  <2> QED BY <1>4, <2>1, <2>2 DEF RouterRuns
<1>5. ASSUME NEW p \in Port, Relay(p)
      PROVE  f \in InTransit
  <2>1. /\ Head(outPipe[p]) \in Frame /\ Head(outPipe[p]) \in Elements(outPipe[p])
        /\ inPipe' = Repeated(p, Head(outPipe[p]))
        /\ outPipe' = [outPipe EXCEPT ![p] = Tail(outPipe[p])]
        /\ outPipe[p] # <<>>
    BY <1>t, <1>5, RelayEffect DEF Relay
  <2>2. Elements(inPipe'[q]) \subseteq Elements(inPipe[q]) \cup {Head(outPipe[p])}
    BY <1>t, <2>1, RepeatedElements
  <2>3. Elements(outPipe'[q]) \subseteq Elements(outPipe[q])
    BY <1>t, <2>1, TakeElements
  <2> QED BY <1>1, <1>2, <2>1, <2>2, <2>3
<1>6. ASSUME NEW h \in Host, Receives(h)
      PROVE  f \in Before(q)
  <2>1. /\ inPipe' = [inPipe EXCEPT ![HostPort[h]] = Tail(inPipe[HostPort[h]])]
        /\ HostPort[h] \in Port /\ inPipe[HostPort[h]] # <<>> /\ UNCHANGED outPipe
    BY <1>6, HostsAssumption DEF Receives
  <2>2. Elements(inPipe'[q]) \subseteq Elements(inPipe[q])
    BY <1>t, <2>1, TakeElements
  <2> QED BY <1>1, <2>1, <2>2
<1>7. ASSUME NEW r \in Router, RouterStarts(r) \/ RouterEnds(r)
      PROVE  f \in Before(q)
  BY <1>1, <1>7, EmptiedElements, RouterRenewed DEF Renewed, Reset
<1>8. ASSUME NEW h \in Host, Stop(h)
      PROVE  f \in Before(q)
  BY <1>1, <1>8, EmptiedElements DEF Stop
<1>9. ASSUME NEW h \in Host, Run(h)
      PROVE  f \in Before(q) \/ NewFrame(f)
  <2>1. CASE UNCHANGED <<outPipe, sent, due>>
    BY <1>1, <1>9, <2>1, RunEffect
  <2>2. ASSUME NEW s \in Script[h] \ {NULL},
               Send(HostPort[h], HostFrame(h, s, Len(sent) + 1)),
               sent' = Append(sent, [from |-> h, to |-> Addressee(s.to), len |-> s.len, ttl |-> s.ttl])
        PROVE  f \in Before(q) \/ NewFrame(f)
    <3>1. HostFrame(h, s, Len(sent) + 1) \in Frame /\ HostPort[h] \in Port
      <4>1. Len(sent) + 1 \in Nat
        BY LenProperties DEF TypeOK
      <4> QED BY <4>1, HostFrameTyped, HostsAssumption
    <3>2. Elements(outPipe'[q]) \subseteq Elements(outPipe[q]) \cup {HostFrame(h, s, Len(sent) + 1)}
      BY <1>t, <2>2, <3>1, SendElements
    <3>3. UNCHANGED inPipe
      BY <1>9, RunEffect
    <3> QED BY <1>1, <2>2, <3>2, <3>3 DEF NewFrame
  <2> QED BY <1>9, <2>1, <2>2, RunEffect DEF RunSends
<1>10. CASE TapSends
  <2>1. PICK t \in TapTraffic : inPipe' = Repeated(t.port, t.frame)
    BY <1>10 DEF TapSends
  <2>2. t.port \in Port /\ t.frame \in Frame
    BY HostsAssumption
  <2>3. UNCHANGED <<outPipe, sent>>
    BY <1>10 DEF TapSends, hostVars
  <2>4. Elements(inPipe'[q]) \subseteq Elements(inPipe[q]) \cup {t.frame}
    BY <1>t, <2>1, <2>2, RepeatedElements
  <2> QED BY <1>1, <1>2, <2>3, <2>4 DEF NewFrame
<1>11. CASE UNCHANGED vars
  BY <1>1, <1>2, <1>11 DEF vars, routerVars
<1>12. ASSUME NEW p \in Port, PlugBreaks(p)
       PROVE  f \in Before(q)
  BY <1>1, <1>12, EmptiedElements DEF PlugBreaks
<1> HIDE DEF Before, After
<1> QED BY <1>3, <1>4, <1>5, <1>6, <1>7, <1>8, <1>9, <1>10, <1>11, <1>12 DEF Next, SystemStep

\* Messages that were sent stay what they are.
LEMMA SentKept ==
  ASSUME TypeOK, [Next]_vars
  PROVE  \A n \in DOMAIN sent : n \in DOMAIN sent' /\ sent'[n] = sent[n]
<1>1. CASE UNCHANGED sent
  BY <1>1
<1>2. ASSUME NEW h \in Host, Run(h)
      PROVE  \A n \in DOMAIN sent : n \in DOMAIN sent' /\ sent'[n] = sent[n]
  <2>1. ASSUME NEW s \in Script[h] \ {NULL},
               sent' = Append(sent, [from |-> h, to |-> Addressee(s.to), len |-> s.len, ttl |-> s.ttl])
        PROVE  \A n \in DOMAIN sent : n \in DOMAIN sent' /\ sent'[n] = sent[n]
    <3>1. [from |-> h, to |-> Addressee(s.to), len |-> s.len, ttl |-> s.ttl] \in Message
      BY AddresseeTyped, ScriptTyped DEF Message
    <3>2. sent \in Seq(Message)
      BY DEF TypeOK
    <3> QED BY <2>1, <3>1, <3>2, MessageAdded
  <2> QED BY <1>1, <1>2, <2>1, RunEffect DEF RunSends
<1>3. ~(\E h \in Host : Run(h)) => UNCHANGED sent
  BY DEF Next, SystemStep, RouterRuns, Receives, Relay, PlugBreaks, RouterStarts, RouterEnds,
         Stop, TapSends, vars, hostVars
<1> QED BY <1>1, <1>2, <1>3

-----------------------------------------------------------------------------
(* Messages reach their addressees.                                        *)

\* What Routed says of one frame, with the messages sent so far.
Right(f, messages) ==
    IsKind(f, {"data"}) =>
        /\ f.body.id \in DOMAIN messages
        /\ messages[f.body.id].to = Addressee(f.body.dst)
        /\ \A h \in Host : f.dst = HostMac[h] => messages[f.body.id].to = h

\* A router sends a packet that it forwards to a host only if the packet is for
\* this host: the tables agree with the addresses of the hosts.
LEMMA ForwardedRight ==
  ASSUME NEW r \in Router, NEW f \in Frame, f.type = "ip", Right(f, sent),
         LookupRoute(r, f.body.dst) # NULL
  PROVE  Right(ForwardedFrame(r, LookupRoute(r, f.body.dst), f), sent)
<1> DEFINE route == LookupRoute(r, f.body.dst)
           g == ForwardedFrame(r, route, f)
           p == f.body
<1>1. p \in Packet
  BY FrameParts
<1>2. /\ g.type = "ip" /\ g.body = Aged(p)
      /\ g.dst = NextHop(r, route, p.dst)
  BY DEF ForwardedFrame, ComposeEthernetFrame
<1>3. g.body.dst = p.dst /\ g.body.kind = p.kind /\ g.body.id = p.id
  BY <1>1, <1>2, AgedTyped
<1>4. ASSUME NEW h \in Host, g.dst = HostMac[h]
      PROVE  p.dst = HostIp[h]
  <2>0. HostMac[h] \in Mac /\ HostMac[h] # NULL
    BY HostsAssumption, TablesAssumption
  <2>1. CASE route.gateway = Zero
    <3>1. ArpLookup(r, p.dst) = HostMac[h]
      BY <1>2, <1>4, <2>1 DEF NextHop
    <3>2. PICK k \in DOMAIN arpTbl[r] : arpTbl[r][k].ip = p.dst /\ arpTbl[r][k].eth = HostMac[h]
      <4> HIDE DEF p
      <4> QED BY <2>0, <3>1, ArpLookupResult
    <3> QED BY <3>2, TablesAgreeAssumption
  <2>2. CASE route.gateway # Zero
    <3>1. ArpLookup(r, Htonl(route.gateway)) = HostMac[h]
      BY <1>2, <1>4, <2>2 DEF NextHop
    <3>2. \E k \in DOMAIN routingTbl[r] : route = routingTbl[r][k]
      <4> HIDE DEF p
      <4> QED BY LookupRouteResult
    <3> HIDE DEF route
    <3> QED BY <2>2, <3>1, <3>2, TablesAgreeAssumption
  <2> QED BY <2>1, <2>2
<1> HIDE DEF g, p, route
<1>5. IsKind(g, {"data"}) <=> IsKind(f, {"data"})
  BY <1>2, <1>3 DEF IsKind, p
<1> QED BY <1>3, <1>4, <1>5, AddresseeTyped DEF Right, g, p, route

\* What a router builds is right when what it has read is.
LEMMA BuiltRight ==
  ASSUME NEW r \in Router, Arrived(r) \in Frame, Right(Arrived(r), sent),
         NEW p, NEW g, Built(r, p, g)
  PROVE  Right(g, sent)
<1>1. CASE g.type = "arp"
  BY <1>1 DEF Right, IsKind
<1>2. CASE g.type = "ip" /\ g.body.kind \in Error \cup Reply
  BY <1>2 DEF Right, IsKind, Error, Reply
<1>3. CASE Forwards(r, p, g)
  BY <1>3, ForwardedRight DEF Forwards
<1> QED BY <1>1, <1>2, <1>3 DEF Built

\* The frames on their way stay right.
LEMMA RoutedStep == TypeOK /\ Routed /\ [Next]_vars => Routed'
<1> SUFFICES ASSUME TypeOK, Routed, [Next]_vars, NEW f \in InTransit'
             PROVE  Right(f, sent')
  BY DEF Routed, Right
<1>1. \A e \in InTransit : Right(e, sent)
  BY DEF Routed, Right
<1>2. ASSUME NEW e, Right(e, sent)
      PROVE  Right(e, sent')
  BY <1>2, SentKept DEF Right
<1>3. CASE f \in InTransit
  BY <1>1, <1>2, <1>3
<1>4. ASSUME NEW r \in Router, NEW p \in Port,
             Arrived(r) \in InTransit, Arrived(r) \in Frame, Built(r, p, f)
      PROVE  Right(f, sent')
  BY <1>1, <1>2, <1>4, BuiltRight
<1>5. ASSUME NEW h \in Host, NEW s \in Script[h] \ {NULL},
             f = HostFrame(h, s, Len(sent) + 1),
             sent' = Append(sent, [from |-> h, to |-> Addressee(s.to), len |-> s.len, ttl |-> s.ttl])
      PROVE  Right(f, sent')
  <2>1. /\ \A g \in Host : s.via # HostMac[g]
        /\ [from |-> h, to |-> Addressee(s.to), len |-> s.len, ttl |-> s.ttl] \in Message
    BY ScriptTyped, AddresseeTyped DEF Message
  <2>2. /\ Len(sent) + 1 \in DOMAIN sent'
        /\ sent'[Len(sent) + 1].to = Addressee(s.to)
    <3>1. sent \in Seq(Message)
      BY DEF TypeOK
    <3> QED BY <1>5, <2>1, <3>1, MessageAdded
  <2>3. f.dst = s.via /\ f.body.dst = s.to /\ f.body.id = Len(sent) + 1
    BY <1>5 DEF HostFrame
  <2> QED BY <2>1, <2>2, <2>3 DEF Right
<1>6. ASSUME NEW t \in TapTraffic, f = t.frame
      PROVE  Right(f, sent')
  BY <1>6, HostsAssumption, SMTT(30) DEF Right, IsKind
<1> QED BY <1>3, <1>4, <1>5, <1>6, FramesFrom DEF NewFrame

\* What a host displays.
LEMMA ReceivesEffect ==
  ASSUME TypeOK, NEW h \in Host, Receives(h)
  PROVE  LET f == Head(inPipe[HostPort[h]])
         IN  /\ HostPort[h] \in Port /\ inPipe[HostPort[h]] # <<>>
             /\ inPipe' = [inPipe EXCEPT ![HostPort[h]] = Tail(inPipe[HostPort[h]])]
             /\ f \in Frame /\ f \in Elements(inPipe[HostPort[h]])
             /\ UNCHANGED <<alive, ready, tcpTbl, established, outPipe, boots, up, runs, sent>>
             /\ \/ /\ f.dst = HostMac[h] /\ IsKind(f, {"data"}) /\ f.body.id \in Nat
                   /\ shown' = [shown EXCEPT ![h] = Append(shown[h], f.body.id)]
                   /\ due' = due \ {n \in due : sent[n].to = h /\ f.body.id = n}
                \/ /\ f.dst = HostMac[h] => ~IsKind(f, {"data"})
                   /\ UNCHANGED <<shown, due>>
<1> DEFINE p == HostPort[h]
           f == Head(inPipe[p])
<1>1. /\ inPipe[p] # <<>> /\ inPipe' = [inPipe EXCEPT ![p] = Tail(inPipe[p])]
      /\ \/ /\ f.dst = HostMac[h]
            /\ shown' = [shown EXCEPT ![h] = shown[h] \o Displayed(f)]
            /\ due' = due \ {n \in due : sent[n].to = h /\ Displayed(f) = <<n>>}
         \/ f.dst # HostMac[h] /\ UNCHANGED <<shown, due>>
      /\ UNCHANGED <<alive, ready, tcpTbl, established, outPipe, boots, up, runs, sent>>
  BY DEF Receives, Accepts
<1>2. p \in Port /\ inPipe[p] \in Seq(Frame)
  BY HostsAssumption DEF TypeOK, RouterTypeOK
<1>3. f \in Frame /\ f \in Elements(inPipe[p])
  BY <1>1, <1>2, Read
<1> HIDE DEF f
<1>4. CASE f.dst = HostMac[h] /\ IsKind(f, {"data"})
  <2>1. f.body.id \in Nat
    BY <1>3, <1>4, FrameParts, PacketParts DEF IsKind
  <2>2. Displayed(f) = <<f.body.id>> /\ shown[h] \in Seq(Nat)
    BY <1>4 DEF Displayed, TypeOK
  <2>3. shown[h] \o <<f.body.id>> = Append(shown[h], f.body.id)
    BY <2>1, <2>2, AppendIsConcat
  <2>4. \A n : Displayed(f) = <<n>> <=> f.body.id = n
    BY <2>2
  <2> QED BY <1>1, <1>2, <1>3, <1>4, <2>1, <2>2, <2>3, <2>4 DEF f
<1>5. CASE f.dst = HostMac[h] /\ ~IsKind(f, {"data"})
  <2>1. Displayed(f) = <<>> /\ shown[h] \in Seq(Nat) /\ shown \in [Host -> Seq(Nat)]
    BY <1>5 DEF Displayed, TypeOK
  <2>2. shown[h] \o <<>> = shown[h]
    BY <2>1, ConcatEmptySeq
  <2>3. \A n : <<>> # <<n>>
    OBVIOUS
  <2>4. shown' = shown
    <3>1. shown' = [shown EXCEPT ![h] = shown[h]]
      BY <1>1, <1>5, <2>1, <2>2
    <3> QED BY <2>1, <3>1
  <2>5. due' = due
    BY <1>1, <1>5, <2>1, <2>3
  <2> QED BY <1>1, <1>2, <1>3, <1>5, <2>4, <2>5 DEF f
<1> QED BY <1>1, <1>2, <1>3, <1>4, <1>5 DEF f

\* Nothing else displays.
LEMMA ShownUnchanged ==
  ASSUME [Next]_vars, \A h \in Host : ~Receives(h)
  PROVE  UNCHANGED shown
  BY RunEffect
     DEF Next, SystemStep, RouterRuns, Relay, PlugBreaks, RouterStarts, RouterEnds, Stop,
         TapSends, vars, hostVars

\* A number is added to a display.
LEMMA NumberAdded ==
  ASSUME NEW s \in Seq(Nat), NEW n \in Nat
  PROVE  /\ DOMAIN Append(s, n) = DOMAIN s \cup {Len(s) + 1}
         /\ \A k \in DOMAIN s : Append(s, n)[k] = s[k]
         /\ Append(s, n)[Len(s) + 1] = n
<1>1. DOMAIN s = 1 .. Len(s) /\ Len(s) \in Nat
  BY LenProperties
<1>2. /\ Append(s, n) \in Seq(Nat) /\ Len(Append(s, n)) = Len(s) + 1
      /\ \A k \in 1 .. Len(s) : Append(s, n)[k] = s[k]
      /\ Append(s, n)[Len(s) + 1] = n
  BY AppendProperties
<1>3. DOMAIN Append(s, n) = 1 .. Len(s) + 1
  BY <1>2, LenProperties
<1> QED BY <1>1, <1>2, <1>3

\* What the hosts have displayed, with the messages known to have been sent.
ShownRight ==
    \A h \in Host : \A k \in DOMAIN shown[h] :
        shown[h][k] \in DOMAIN sent /\ sent[shown[h][k]].to = h

\* What is displayed was meant for this host.
LEMMA ShownStep == TypeOK /\ Routed /\ ShownRight /\ [Next]_vars => ShownRight'
<1> SUFFICES ASSUME TypeOK, Routed, ShownRight, [Next]_vars,
                    NEW h \in Host, NEW k \in DOMAIN shown'[h]
             PROVE  shown'[h][k] \in DOMAIN sent' /\ sent'[shown'[h][k]].to = h
  BY DEF ShownRight
<1>1. shown \in [Host -> Seq(Nat)]
  BY DEF TypeOK
<1>2. CASE k \in DOMAIN shown[h] /\ shown'[h][k] = shown[h][k]
  BY <1>2, SentKept DEF ShownRight
<1>3. ASSUME NEW g \in Host, Receives(g)
      PROVE  shown'[h][k] \in DOMAIN sent' /\ sent'[shown'[h][k]].to = h
  <2> DEFINE f == Head(inPipe[HostPort[g]])
  <2>1. CASE UNCHANGED shown
    BY <1>2, <2>1
  <2>2. CASE /\ f.dst = HostMac[g] /\ IsKind(f, {"data"}) /\ f.body.id \in Nat
             /\ shown' = [shown EXCEPT ![g] = Append(shown[g], f.body.id)]
    <3>1. f \in InTransit
      BY <1>3, ReceivesEffect, InTransitMembers
    <3>2. f.body.id \in DOMAIN sent /\ sent[f.body.id].to = g /\ UNCHANGED sent
      BY <1>3, <2>2, <3>1, ReceivesEffect DEF Routed
    <3> HIDE DEF f
    <3>3. CASE h # g
      BY <1>1, <1>2, <2>2, <3>3
    <3>4. CASE h = g
      <4>1. shown'[h] = Append(shown[h], f.body.id) /\ shown[h] \in Seq(Nat)
        BY <1>1, <2>2, <3>4
      <4> QED BY <1>2, <2>2, <3>2, <3>4, <4>1, NumberAdded
    <3> QED BY <3>3, <3>4
  <2> QED BY <1>3, <2>1, <2>2, ReceivesEffect
<1> QED BY <1>2, <1>3, ShownUnchanged

\* A host displays only messages for it: for every topology, and for all routing
\* and ARP tables that agree with the addresses of the hosts.
THEOREM NeverMisdelivered == Spec => []NoMisdelivery
<1>1. Init => Routed /\ ShownRight
  <2> SUFFICES ASSUME Init PROVE Routed /\ ShownRight
    OBVIOUS
  <2>1. DOMAIN <<>> = {}
    OBVIOUS
  <2>2. InTransit = {}
    BY <2>1 DEF Init, InTransit
  <2> QED BY <2>1, <2>2 DEF Init, Routed, ShownRight
<1>2. ShownRight => NoMisdelivery
  BY DEF ShownRight, NoMisdelivery
<1> QED BY <1>1, <1>2, TypeCorrect, RoutedStep, ShownStep, PTL DEF Spec

-----------------------------------------------------------------------------
(* Lengths of frames.                                                      *)

\* What LengthKept says of one frame, with the messages sent so far.
FullLength(f, messages) ==
    IsKind(f, {"data"}) =>
        /\ f.body.id \in DOMAIN messages
        /\ f.len \in {messages[f.body.id].len, Maximum(64, messages[f.body.id].len)}

\* Forwarding a frame pads it to 64 bytes and changes its length no further.
LEMMA ForwardedLength ==
  ASSUME NEW r \in Router, NEW route, NEW f \in Frame, f.type = "ip"
  PROVE  ForwardedFrame(r, route, f).len = Maximum(64, f.len)
<1>1. f.len \in Nat
  BY FrameParts
<1>2. ForwardedFrame(r, route, f).len = 14 + Maximum(46, f.len - 18) + 4
  BY DEF ForwardedFrame, ComposeEthernetFrame
<1> QED BY <1>1, <1>2 DEF Maximum

\* Forwarding keeps the length of a message's frame, but for the padding.
LEMMA ForwardedFullLength ==
  ASSUME TypeOK, NEW r \in Router, NEW f \in Frame, f.type = "ip", FullLength(f, sent),
         NEW route
  PROVE  FullLength(ForwardedFrame(r, route, f), sent)
<1> DEFINE g == ForwardedFrame(r, route, f)
<1>1. g.body = Aged(f.body) /\ g.type = "ip" /\ g.len = Maximum(64, f.len)
  BY ForwardedLength DEF ForwardedFrame, ComposeEthernetFrame
<1>2. g.body.kind = f.body.kind /\ g.body.id = f.body.id
  BY <1>1, FrameParts, AgedTyped
<1>3. ASSUME NEW n \in DOMAIN sent
      PROVE  sent[n].len \in Nat
  <2>1. sent \in Seq(Message)
    BY DEF TypeOK
  <2>2. sent[n] \in Message
    BY <2>1, ElementOfSeq, LenProperties
  <2> QED BY <2>2 DEF Message
<1>4. \A n \in Nat : Maximum(64, Maximum(64, n)) = Maximum(64, n)
  BY DEF Maximum
<1> HIDE DEF g
<1> QED BY <1>1, <1>2, <1>3, <1>4 DEF FullLength, IsKind, g

AllFullLength == \A f \in InTransit : FullLength(f, sent)

\* So does every step.
LEMMA LengthStep == TypeOK /\ AllFullLength /\ [Next]_vars => AllFullLength'
<1> SUFFICES ASSUME TypeOK, AllFullLength, [Next]_vars, NEW f \in InTransit'
             PROVE  FullLength(f, sent')
  BY DEF AllFullLength
<1>1. ASSUME NEW e, FullLength(e, sent)
      PROVE  FullLength(e, sent')
  BY <1>1, SentKept DEF FullLength
<1>2. CASE f \in InTransit
  BY <1>1, <1>2 DEF AllFullLength
<1>3. ASSUME NEW r \in Router, NEW p \in Port,
             Arrived(r) \in InTransit, Arrived(r) \in Frame, Built(r, p, f)
      PROVE  FullLength(f, sent')
  <2>1. FullLength(Arrived(r), sent)
    BY <1>3 DEF AllFullLength
  <2>2. CASE f.type = "arp"
    BY <2>2 DEF FullLength, IsKind
  <2>3. CASE f.type = "ip" /\ f.body.kind \in Error \cup Reply
    BY <2>3 DEF FullLength, IsKind, Error, Reply
  <2>4. CASE Forwards(r, p, f)
    BY <1>1, <1>3, <2>1, <2>4, ForwardedFullLength DEF Forwards
  <2> QED BY <1>3, <2>2, <2>3, <2>4 DEF Built
<1>4. ASSUME NEW h \in Host, NEW s \in Script[h] \ {NULL},
             f = HostFrame(h, s, Len(sent) + 1),
             sent' = Append(sent, [from |-> h, to |-> Addressee(s.to), len |-> s.len, ttl |-> s.ttl])
      PROVE  FullLength(f, sent')
  <2>1. [from |-> h, to |-> Addressee(s.to), len |-> s.len, ttl |-> s.ttl] \in Message
    BY ScriptTyped, AddresseeTyped DEF Message
  <2>2. Len(sent) + 1 \in DOMAIN sent' /\ sent'[Len(sent) + 1].len = s.len
    <3>1. sent \in Seq(Message)
      BY DEF TypeOK
    <3> QED BY <1>4, <2>1, <3>1, MessageAdded
  <2>3. f.len = s.len /\ f.body.id = Len(sent) + 1
    BY <1>4 DEF HostFrame
  <2> QED BY <2>2, <2>3 DEF FullLength
<1>5. ASSUME NEW t \in TapTraffic, f = t.frame
      PROVE  FullLength(f, sent')
  BY <1>5, HostsAssumption DEF FullLength, IsKind
<1> QED BY <1>2, <1>3, <1>4, <1>5, FramesFrom DEF NewFrame

\* However many routers forward a message, in however long a network, its frame
\* never grows or shrinks except for the one padding to 64 bytes.
THEOREM LengthNeverDrifts == Spec => []LengthKept
<1>1. Init => AllFullLength
  <2> SUFFICES ASSUME Init PROVE AllFullLength
    OBVIOUS
  <2>1. DOMAIN <<>> = {}
    OBVIOUS
  <2>2. InTransit = {}
    BY <2>1 DEF Init, InTransit
  <2> QED BY <2>2 DEF AllFullLength
<1>2. AllFullLength => LengthKept
  BY DEF AllFullLength, FullLength, LengthKept
<1> QED BY <1>1, <1>2, TypeCorrect, LengthStep, PTL DEF Spec

-----------------------------------------------------------------------------
(* Lives of messages.                                                      *)

\* What TtlOnlyFalls says of one frame, with the messages sent so far.
ShortLived(f, messages) ==
    IsKind(f, {"data"}) =>
        f.body.id \in DOMAIN messages /\ f.body.ttl <= messages[f.body.id].ttl

\* A packet that is forwarded has a ttl to count down: the uint8_t does not wrap around.
LEMMA ForwardedShortLived ==
  ASSUME TypeOK, NEW r \in Router, NEW f \in Frame, f.type = "ip", f.body.ttl # 0,
         ShortLived(f, sent), NEW route
  PROVE  ShortLived(ForwardedFrame(r, route, f), sent)
<1> DEFINE g == ForwardedFrame(r, route, f)
<1>1. g.body = Aged(f.body) /\ g.type = "ip"
  BY DEF ForwardedFrame, ComposeEthernetFrame
<1>2. f.body \in Packet /\ f.body.ttl \in 0 .. 255
  BY FrameParts, PacketParts DEF Byte
<1>3. g.body.kind = f.body.kind /\ g.body.id = f.body.id
  BY <1>1, <1>2, AgedTyped
<1>4. g.body.ttl = f.body.ttl - 1
  <2>1. g.body.ttl = (f.body.ttl - 1) % 256
    BY <1>1, <1>2, ZenonT(60) DEF Aged, Packet
  <2> QED BY <1>2, <2>1
<1>5. ASSUME NEW n \in DOMAIN sent
      PROVE  sent[n].ttl \in Int
  <2>1. sent \in Seq(Message)
    BY DEF TypeOK
  <2>2. sent[n] \in Message
    BY <2>1, ElementOfSeq, LenProperties
  <2> QED BY <2>2 DEF Message, Byte
<1>6. CASE IsKind(g, {"data"})
  <2> DEFINE n == f.body.id
             ttl == f.body.ttl
  <2>1. n \in DOMAIN sent /\ ttl <= sent[n].ttl
    BY <1>1, <1>3, <1>6 DEF ShortLived, IsKind
  <2>2. sent[n].ttl \in Int /\ ttl \in Int
    BY <1>2, <1>5, <2>1
  <2>3. ttl - 1 <= sent[n].ttl
    <3> HIDE DEF ttl, n
    <3> QED BY <2>1, <2>2
  <2> QED BY <1>3, <1>4, <2>1, <2>3 DEF ShortLived
<1> QED BY <1>6 DEF ShortLived

AllShortLived == \A f \in InTransit : ShortLived(f, sent)

\* No step lengthens a life.
LEMMA LifeStep == TypeOK /\ AllShortLived /\ [Next]_vars => AllShortLived'
<1> SUFFICES ASSUME TypeOK, AllShortLived, [Next]_vars, NEW f \in InTransit'
             PROVE  ShortLived(f, sent')
  BY DEF AllShortLived
<1>1. ASSUME NEW e, ShortLived(e, sent)
      PROVE  ShortLived(e, sent')
  BY <1>1, SentKept DEF ShortLived
<1>2. CASE f \in InTransit
  BY <1>1, <1>2 DEF AllShortLived
<1>3. ASSUME NEW r \in Router, NEW p \in Port,
             Arrived(r) \in InTransit, Arrived(r) \in Frame, Built(r, p, f)
      PROVE  ShortLived(f, sent')
  <2>1. ShortLived(Arrived(r), sent)
    BY <1>3 DEF AllShortLived
  <2>2. CASE f.type = "arp"
    BY <2>2 DEF ShortLived, IsKind
  <2>3. CASE f.type = "ip" /\ f.body.kind \in Error \cup Reply
    BY <2>3 DEF ShortLived, IsKind, Error, Reply
  <2>4. CASE Forwards(r, p, f)
    BY <1>1, <1>3, <2>1, <2>4, ForwardedShortLived DEF Forwards
  <2> QED BY <1>3, <2>2, <2>3, <2>4 DEF Built
<1>4. ASSUME NEW h \in Host, NEW s \in Script[h] \ {NULL},
             f = HostFrame(h, s, Len(sent) + 1),
             sent' = Append(sent, [from |-> h, to |-> Addressee(s.to), len |-> s.len, ttl |-> s.ttl])
      PROVE  ShortLived(f, sent')
  <2>1. [from |-> h, to |-> Addressee(s.to), len |-> s.len, ttl |-> s.ttl] \in Message
    BY ScriptTyped, AddresseeTyped DEF Message
  <2>2. Len(sent) + 1 \in DOMAIN sent' /\ sent'[Len(sent) + 1].ttl = s.ttl
    <3>1. sent \in Seq(Message)
      BY DEF TypeOK
    <3> QED BY <1>4, <2>1, <3>1, MessageAdded
  <2>3. f.body.ttl = s.ttl /\ f.body.id = Len(sent) + 1
    BY <1>4 DEF HostFrame
  <2>4. s.ttl <= s.ttl
    BY ScriptTyped DEF Byte
  <2> QED BY <2>2, <2>3, <2>4 DEF ShortLived
<1>5. ASSUME NEW t \in TapTraffic, f = t.frame
      PROVE  ShortLived(f, sent')
  BY <1>5, HostsAssumption DEF ShortLived, IsKind
<1> QED BY <1>2, <1>3, <1>4, <1>5, FramesFrom DEF NewFrame

\* However many routers forward a message and whatever ttl its sender gave it, 0 and 255
\* included, no frame that carries it has a greater one: route_packet, which decrements the
\* uint8_t before it looks at it, never sees 0 (handle_ip_packet).
THEOREM LifeNeverGrows == Spec => []TtlOnlyFalls
<1>1. Init => AllShortLived
  <2> SUFFICES ASSUME Init PROVE AllShortLived
    OBVIOUS
  <2>1. DOMAIN <<>> = {}
    OBVIOUS
  <2>2. InTransit = {}
    BY <2>1 DEF Init, InTransit
  <2> QED BY <2>2 DEF AllShortLived
<1>2. AllShortLived => TtlOnlyFalls
  BY DEF AllShortLived, ShortLived, TtlOnlyFalls
<1> QED BY <1>1, <1>2, TypeCorrect, LifeStep, PTL DEF Spec

-----------------------------------------------------------------------------
(* Acknowledgements of data.                                               *)

ToPeer(r, f) == IsKind(f, {"dataAck"}) => f.body.dst \in Peers(r)

\* The acknowledgements of data in the pipes of the one router, those that it may
\* yet forward included, go to its peers while it runs; no one else writes any.
AcksAt(r, q) ==
    /\ q \in PortsOf(r) /\ alive[r] =>
          \A f \in Elements(inPipe[q]) \cup Elements(outPipe[q]) : ToPeer(r, f)
    /\ q \notin PortsOf(r) => \A f \in Elements(outPipe[q]) : ~IsKind(f, {"dataAck"})

\* What a step may add to the pipes at q.
LEMMA AcksKept ==
  ASSUME NEW r \in Router, NEW q \in Port, AcksAt(r, q),
         alive'[r] => alive[r] /\ Peers(r) \subseteq Peers(r)',
         \A f \in Elements(inPipe'[q]) :
             f \in Elements(inPipe[q]) \/ (q \in PortsOf(r) /\ alive[r] => ToPeer(r, f)),
         \A f \in Elements(outPipe'[q]) :
             \/ f \in Elements(outPipe[q])
             \/ ~IsKind(f, {"dataAck"})
             \/ q \in PortsOf(r) /\ ToPeer(r, f)
  PROVE  AcksAt(r, q)'
<1>1. ASSUME NEW f, ToPeer(r, f), alive'[r]
      PROVE  ToPeer(r, f)'
  BY <1>1 DEF ToPeer
<1>2. Elements(inPipe[q])' = Elements(inPipe'[q]) /\ Elements(outPipe[q])' = Elements(outPipe'[q])
  BY DEF Elements
<1>3. CASE q \in PortsOf(r)
  <2>1. ASSUME NEW f \in Elements(inPipe'[q]) \cup Elements(outPipe'[q]), alive'[r]
        PROVE  ToPeer(r, f)
    BY <1>3, <2>1 DEF AcksAt, ToPeer
  <2> QED BY <1>1, <1>2, <1>3, <2>1 DEF AcksAt
<1>4. CASE q \notin PortsOf(r)
  BY <1>2, <1>4 DEF AcksAt
<1> QED BY <1>3, <1>4

\* What the router builds from a frame of its pipes.
LEMMA BuiltToPeer ==
  ASSUME NEW r \in Router, Arrived(r) \in Frame, ToPeer(r, Arrived(r)),
         NEW p, NEW g, Built(r, p, g)
  PROVE  ToPeer(r, g)
<1>1. CASE g.type = "arp"
  BY <1>1 DEF ToPeer, IsKind
<1>2. CASE /\ g.type = "ip"
           /\ g.body.kind = "dataAck" => Local(r, g.body.src) /\ g.body.dst \in Peers(r)
  BY <1>2 DEF ToPeer, IsKind
<1>3. CASE Forwards(r, p, g)
  <2>1. g.body = Aged(Arrived(r).body) /\ Arrived(r).type = "ip"
    BY <1>3 DEF Forwards, ForwardedFrame, ComposeEthernetFrame
  <2>2. g.body.kind = Arrived(r).body.kind /\ g.body.dst = Arrived(r).body.dst
    BY <2>1, FrameParts, AgedTyped
  <2> QED BY <2>1, <2>2 DEF ToPeer, IsKind
<1> QED BY <1>1, <1>2, <1>3 DEF Built

\* The TCP table of a router only grows while the router handles frames.
LEMMA PeersGrow ==
  ASSUME TypeOK, NEW r \in Router, Handle(r)
  PROVE  Peers(r) \subseteq Peers(r)'
<1>1. CASE Establish(r)
  <2>1. /\ Len(tcpTbl[r]) <= Len(tcpTbl'[r])
        /\ \A j \in DOMAIN tcpTbl[r] : tcpTbl'[r][j] = tcpTbl[r][j]
        /\ tcpTbl'[r] \in Seq(ArpEntry) /\ tcpTbl[r] \in Seq(ArpEntry)
    BY <1>1, EstablishTyped, RouterTypeOKParts DEF TypeOK
  <2>2. \A j \in DOMAIN tcpTbl[r] : j \in DOMAIN tcpTbl'[r]
    BY <2>1, LenProperties
  <2> QED BY <2>1, <2>2 DEF Peers
<1>2. CASE UNCHANGED tcpTbl
  BY <1>2 DEF Peers
<1> QED BY <1>1, <1>2 DEF Handle, Ignore, AnswerArp, Transit, Acknowledge

\* Acknowledgements of data go to peers, and stay in the pipes of peers.
LEMMA AcksStep ==
  ASSUME NEW r \in Router, Router = {r},
         TypeOK, \A p \in Port : AcksAt(r, p), [Next]_vars, NEW q \in Port
  PROVE  AcksAt(r, q)'
<1>t. RouterTypeOK /\ inPipe \in [Port -> Seq(Frame)] /\ outPipe \in [Port -> Seq(Frame)]
  BY DEF TypeOK, RouterTypeOK
<1>1. CASE UNCHANGED <<alive, tcpTbl, inPipe, outPipe>>
  BY <1>1, AcksKept DEF Peers
<1>2. CASE Handle(r)
  <2>1. Receive(r) /\ Sends(r) /\ alive[r]
    BY <1>2, <1>t, HandlerSends DEF Receive
  <2>2. /\ Arrived(r) \in Frame /\ Arrived(r) \in Elements(inPipe[Pipe(r)])
        /\ Pipe(r) \in Port /\ Pipe(r) \in PortsOf(r) /\ inPipe[Pipe(r)] # <<>>
    BY <1>t, <2>1, ArrivedTyped DEF Receive, PortsOf
  <2>3. ToPeer(r, Arrived(r))
    BY <2>1, <2>2 DEF AcksAt
  <2>4. Elements(inPipe'[q]) \subseteq Elements(inPipe[q])
    <3>1. inPipe' = [inPipe EXCEPT ![Pipe(r)] = Tail(inPipe[Pipe(r)])]
      BY <2>1 DEF Receive
    <3> QED BY <1>t, <2>2, <3>1, TakeElements
  <2>5. ASSUME NEW f \in Elements(outPipe'[q]), f \notin Elements(outPipe[q])
        PROVE  q \in PortsOf(r) /\ ToPeer(r, f)
    <3>1. PICK i \in DOMAIN interfaces[r], g \in Frame :
             Built(r, interfaces[r][i].port, g) /\ Send(interfaces[r][i].port, g)
      BY <2>1, <2>5 DEF Sends
    <3>2. interfaces[r][i].port \in Port /\ interfaces[r][i].port \in PortsOf(r)
      BY InterfaceTyped DEF PortsOf
    <3>3. f = g
      BY <1>t, <2>5, <3>1, <3>2, SendElements
    <3>4. q = interfaces[r][i].port
      BY <1>t, <2>5, <3>1, <3>2 DEF Send
    <3> QED BY <2>2, <2>3, <3>1, <3>2, <3>3, <3>4, BuiltToPeer
  <2> QED BY <1>2, <2>1, <2>4, <2>5, AcksKept, PeersGrow
<1>3. ASSUME NEW p \in Port, Relay(p)
      PROVE  AcksAt(r, q)'
  <2> DEFINE e == Head(outPipe[p])
  <2>1. /\ e \in Frame /\ e \in Elements(outPipe[p]) /\ outPipe[p] # <<>>
        /\ inPipe' = Repeated(p, e)
        /\ outPipe' = [outPipe EXCEPT ![p] = Tail(outPipe[p])]
        /\ UNCHANGED <<alive, tcpTbl>>
    BY <1>t, <1>3, RelayEffect DEF Relay
  <2> HIDE DEF e
  <2>2. alive[r] => ToPeer(r, e)
    BY <2>1 DEF AcksAt, ToPeer
  <2>3. Elements(inPipe'[q]) \subseteq Elements(inPipe[q]) \cup {e}
    BY <1>t, <2>1, RepeatedElements
  <2>4. Elements(outPipe'[q]) \subseteq Elements(outPipe[q])
    BY <1>t, <2>1, TakeElements
  <2>5. Peers(r)' = Peers(r)
    BY <2>1 DEF Peers
  <2> QED BY <2>1, <2>2, <2>3, <2>4, <2>5, AcksKept
<1>4. ASSUME NEW h \in Host, Receives(h)
      PROVE  AcksAt(r, q)'
  <2>1. /\ inPipe' = [inPipe EXCEPT ![HostPort[h]] = Tail(inPipe[HostPort[h]])]
        /\ HostPort[h] \in Port /\ inPipe[HostPort[h]] # <<>>
        /\ UNCHANGED <<alive, outPipe, tcpTbl>>
    BY <1>4, HostsAssumption DEF Receives
  <2>2. Elements(inPipe'[q]) \subseteq Elements(inPipe[q])
    BY <1>t, <2>1, TakeElements
  <2>3. Peers(r)' = Peers(r)
    BY <2>1 DEF Peers
  <2> QED BY <2>1, <2>2, <2>3, AcksKept
<1>5. ASSUME NEW h \in Host, Run(h)
      PROVE  AcksAt(r, q)'
  <2>1. UNCHANGED <<alive, inPipe, tcpTbl>> /\ Peers(r)' = Peers(r)
    BY <1>5, RunEffect DEF Peers
  <2>2. CASE UNCHANGED outPipe
    BY <1>1, <2>1, <2>2
  <2>3. ASSUME NEW s \in Script[h] \ {NULL}, Send(HostPort[h], HostFrame(h, s, Len(sent) + 1))
        PROVE  AcksAt(r, q)'
    <3> DEFINE e == HostFrame(h, s, Len(sent) + 1)
    <3>1. e \in Frame /\ HostPort[h] \in Port
      <4>1. Len(sent) + 1 \in Nat
        BY LenProperties DEF TypeOK
      <4> QED BY <4>1, HostFrameTyped, HostsAssumption
    <3>2. ~IsKind(e, {"dataAck"})
      BY DEF HostFrame, IsKind
    <3> HIDE DEF e
    <3>3. Elements(outPipe'[q]) \subseteq Elements(outPipe[q]) \cup {e}
      BY <1>t, <2>3, <3>1, SendElements DEF e
    <3> QED BY <2>1, <3>2, <3>3, AcksKept
  <2> QED BY <1>5, <2>2, <2>3, RunEffect DEF RunSends
<1>6. ASSUME NEW h \in Host, Stop(h)
      PROVE  AcksAt(r, q)'
  <2>1. /\ Elements(inPipe'[q]) \subseteq Elements(inPipe[q])
        /\ Elements(outPipe'[q]) \subseteq Elements(outPipe[q])
        /\ Peers(r)' = Peers(r) /\ UNCHANGED alive
    BY <1>6, EmptiedElements DEF Stop, Peers
  <2> QED BY <2>1, AcksKept
<1>7. CASE TapSends
  <2>1. PICK t \in TapTraffic : inPipe' = Repeated(t.port, t.frame)
    BY <1>7 DEF TapSends
  <2>2. t.port \in Port /\ t.frame \in Frame /\ ToPeer(r, t.frame)
    BY HostsAssumption DEF ToPeer, IsKind
  <2>3. UNCHANGED <<alive, outPipe>> /\ Peers(r)' = Peers(r)
    BY <1>7 DEF TapSends, Peers
  <2>4. Elements(inPipe'[q]) \subseteq Elements(inPipe[q]) \cup {t.frame}
    BY <1>t, <2>1, <2>2, RepeatedElements
  <2> QED BY <2>2, <2>3, <2>4, AcksKept
<1>8. CASE RouterStarts(r) \/ RouterEnds(r)
  <2>1. Renewed(r)
    BY <1>8, RouterRenewed
  <2>2. CASE q \notin PortsOf(r)
    <3>1. outPipe'[q] = outPipe[q]
      BY <2>1, <2>2 DEF Renewed, Emptied
    <3>2. Elements(outPipe[q])' = Elements(outPipe[q])
      BY <3>1 DEF Elements
    <3> QED BY <2>2, <3>2 DEF AcksAt
  <2>3. CASE q \in PortsOf(r) /\ RouterStarts(r)
    <3>1. inPipe'[q] = <<>> /\ outPipe'[q] = <<>>
      BY <2>1, <2>3 DEF Renewed, Reset, Emptied, RouterStarts, Boot
    <3>2. Elements(inPipe[q])' = {} /\ Elements(outPipe[q])' = {}
      BY <3>1 DEF Elements
    <3> QED BY <2>3, <3>2 DEF AcksAt
  <2>4. CASE q \in PortsOf(r) /\ RouterEnds(r)
    <3>1. ~alive'[r]
      BY <2>4 DEF RouterEnds, Terminate, Crash, TypeOK, RouterTypeOK
    <3> QED BY <2>4, <3>1 DEF AcksAt
  <2> QED BY <1>8, <2>2, <2>3, <2>4
<1>9. ASSUME NEW p \in Port, PlugBreaks(p)
      PROVE  AcksAt(r, q)'
  <2>1. /\ UNCHANGED <<alive, inPipe>> /\ Peers(r)' = Peers(r)
        /\ Elements(outPipe'[q]) \subseteq Elements(outPipe[q])
    BY <1>9, EmptiedElements DEF PlugBreaks, Peers
  <2> QED BY <2>1, AcksKept
<1>10. CASE UNCHANGED vars
  BY <1>1, <1>10 DEF vars, routerVars
<1>11. (\E s \in Router : RouterRuns(s))
           => Handle(r) \/ UNCHANGED <<alive, tcpTbl, inPipe, outPipe>>
  BY DEF RouterRuns, Poll
<1> QED BY <1>1, <1>2, <1>3, <1>4, <1>5, <1>6, <1>7, <1>8, <1>9, <1>10, <1>11 DEF Next, SystemStep

\* In a network of one router, whatever the hosts and kernels send and however
\* often processes restart, a router that runs has acknowledged data only to peers in its
\* TCP table.
THEOREM DataAcksGoToPeers ==
  ASSUME NEW r \in Router, Router = {r}
  PROVE  Spec => []DataAcksOnlyToPeers
<1> DEFINE Acks == \A q \in Port : AcksAt(r, q)
<1>1. Init => Acks
  <2> SUFFICES ASSUME Init, NEW q \in Port PROVE AcksAt(r, q)
    OBVIOUS
  <2>1. Elements(inPipe[q]) = {} /\ Elements(outPipe[q]) = {}
    BY DEF Init, Elements
  <2> QED BY <2>1 DEF AcksAt
<1>2. TypeOK /\ Acks /\ [Next]_vars => Acks'
  BY AcksStep
<1>3. Acks => DataAcksOnlyToPeers
  <2> SUFFICES ASSUME Acks, NEW s \in Router, NEW p \in PortsOf(s), NEW k \in DOMAIN outPipe[p],
                      alive[s], IsKind(outPipe[p][k], {"dataAck"})
               PROVE  outPipe[p][k].body.dst \in Peers(s)
    BY DEF DataAcksOnlyToPeers, Peers
  <2>1. s = r /\ p \in Port
    BY InterfaceTyped DEF PortsOf
  <2>2. outPipe[p][k] \in Elements(outPipe[p])
    BY DEF Elements
  <2> QED BY <2>1, <2>2 DEF AcksAt, ToPeer
<1> HIDE DEF Acks
<1> QED BY <1>1, <1>2, <1>3, TypeCorrect, PTL DEF Spec

\* An acknowledgement of data was built by a router that has its source address, for a
\* peer, which this router still knows if it has run ever since it was first started.
Earned(f) ==
    IsKind(f, {"dataAck"}) =>
        \E r \in Router :
            /\ Local(r, f.body.src) /\ boots[r] > 0
            /\ alive[r] /\ boots[r] = 1 => f.body.dst \in Peers(r)

AcksEarned == \A f \in InTransit : Earned(f)

\* A router that runs was started.
Booted == \A r \in Router : alive[r] => boots[r] > 0

\* A router that runs after a step ran before or was started by the step.
LEMMA RunsOrStarts ==
  ASSUME TypeOK, [Next]_vars, NEW r \in Router
  PROVE  /\ boots[r] \in Nat /\ boots'[r] \in Nat /\ boots'[r] >= boots[r]
         /\ alive'[r] => alive[r] \/ boots'[r] > boots[r]
<1>t. boots \in [Router -> Nat] /\ alive \in [Router -> BOOLEAN]
  BY DEF TypeOK, RouterTypeOK
<1>1. CASE UNCHANGED <<alive, boots>>
  BY <1>t, <1>1
<1>2. ASSUME NEW s \in Router, RouterStarts(s)
      PROVE  boots'[r] \in Nat /\ boots'[r] >= boots[r] /\ (r = s => boots'[r] > boots[r])
  BY <1>t, <1>2 DEF RouterStarts
<1>3. ASSUME NEW s \in Router, RouterStarts(s)
      PROVE  r # s => alive'[r] = alive[r]
  BY <1>t, <1>3 DEF RouterStarts, Boot
<1>4. ASSUME NEW s \in Router, RouterEnds(s)
      PROVE  boots' = boots /\ (alive'[r] => alive[r])
  BY <1>t, <1>4 DEF RouterEnds, Terminate, Crash
<1>5. ASSUME NEW s \in Router, RouterRuns(s)
      PROVE  UNCHANGED <<alive, boots>>
  BY <1>5, HandlerSends DEF RouterRuns, Poll, TypeOK
<1>6. ASSUME NEW h \in Host, Run(h) \/ Receives(h) \/ Stop(h)
      PROVE  UNCHANGED <<alive, boots>>
  BY <1>6 DEF Run, Receives, Stop
<1>7. ASSUME NEW p \in Port, Relay(p) \/ PlugBreaks(p)
      PROVE  UNCHANGED <<alive, boots>>
  BY <1>7 DEF Relay, PlugBreaks
<1>8. TapSends \/ UNCHANGED vars => UNCHANGED <<alive, boots>>
  BY DEF TapSends, vars, routerVars
<1>9. \/ UNCHANGED <<alive, boots>>
      \/ \E s \in Router : RouterStarts(s) \/ RouterEnds(s)
  BY <1>5, <1>6, <1>7, <1>8, Zenon DEF Next, SystemStep
<1>10. CASE boots' = boots /\ (alive'[r] => alive[r])
  BY <1>t, <1>10
<1>11. ASSUME NEW s \in Router, RouterStarts(s)
       PROVE  /\ boots'[r] \in Nat /\ boots'[r] >= boots[r]
              /\ alive'[r] => alive[r] \/ boots'[r] > boots[r]
  BY <1>2, <1>3, <1>11
<1> QED BY <1>t, <1>1, <1>4, <1>9, <1>10, <1>11

\* It stays so.
LEMMA BootedStep == TypeOK /\ Booted /\ [Next]_vars => Booted'
  BY RunsOrStarts DEF Booted

\* An acknowledgement stays earned: the router keeps its peers while it runs.
LEMMA EarnedStays ==
  ASSUME TypeOK, [Next]_vars, NEW f, Earned(f)
  PROVE  Earned(f)'
<1> SUFFICES ASSUME IsKind(f, {"dataAck"}) PROVE Earned(f)'
  BY DEF Earned
<1>1. PICK r \in Router :
        /\ Local(r, f.body.src) /\ boots[r] > 0
        /\ alive[r] /\ boots[r] = 1 => f.body.dst \in Peers(r)
  BY DEF Earned
<1>2. /\ boots[r] \in Nat /\ boots'[r] \in Nat /\ boots'[r] >= boots[r]
      /\ alive'[r] => alive[r] \/ boots'[r] > boots[r]
  BY RunsOrStarts
<1>3. ASSUME alive'[r], boots'[r] = 1
      PROVE  f.body.dst \in Peers(r)'
  <2>1. boots[r] = 1 /\ alive[r]
    BY <1>1, <1>2, <1>3
  <2>2. PICK j \in DOMAIN tcpTbl[r] : tcpTbl[r][j].ip = f.body.dst
    BY <1>1, <2>1 DEF Peers
  <2>3. Len(tcpTbl[r]) <= Len(tcpTbl'[r]) /\ tcpTbl'[r][j] = tcpTbl[r][j]
    <3>1. Kept
      BY KeptStep
    <3> QED BY <1>3, <2>1, <3>1 DEF Kept
  <2>4. tcpTbl[r] \in Seq(ArpEntry) /\ tcpTbl'[r] \in Seq(ArpEntry)
    <3>1. TypeOK /\ TypeOK'
      BY TypeOKStep
    <3>2. /\ tcpTbl \in [Router -> Seq([eth : Mac, ip : Word])]
          /\ tcpTbl' \in [Router -> Seq([eth : Mac, ip : Word])]
      BY <3>1 DEF TypeOK, RouterTypeOK
    <3> QED BY <3>2 DEF ArpEntry
  <2>5. j \in DOMAIN tcpTbl'[r]
    BY <2>2, <2>3, <2>4, LenProperties
  <2> QED BY <2>2, <2>3, <2>5 DEF Peers
<1>4. /\ Local(r, f.body.src)' /\ boots'[r] > 0
      /\ (alive[r] /\ boots[r] = 1 => f.body.dst \in Peers(r))'
  BY <1>1, <1>2, <1>3 DEF Local
<1> QED BY <1>4, Zenon DEF Earned

\* Those that a router has just built are earned.
LEMMA EarnedStep == TypeOK /\ Booted /\ AcksEarned /\ [Next]_vars => AcksEarned'
<1> SUFFICES ASSUME TypeOK, Booted, AcksEarned, [Next]_vars, NEW f \in InTransit'
             PROVE  Earned(f)'
  BY DEF AcksEarned
<1>1. CASE f \in InTransit
  BY <1>1, EarnedStays DEF AcksEarned
<1>2. ASSUME NEW r \in Router, NEW p \in Port, Arrived(r) \in InTransit, Arrived(r) \in Frame,
             Built(r, p, f), alive[r]
      PROVE  Earned(f)
  <2>1. CASE f.type = "arp"
    BY <2>1 DEF Earned, IsKind
  <2>2. CASE f.body.kind = "dataAck" => Local(r, f.body.src) /\ f.body.dst \in Peers(r)
    BY <1>2, <2>2 DEF Earned, IsKind, Booted
  <2>3. CASE Forwards(r, p, f)
    <3>1. f.body = Aged(Arrived(r).body) /\ Arrived(r).type = "ip"
      BY <2>3 DEF Forwards, ForwardedFrame, ComposeEthernetFrame
    <3>2. /\ f.body.kind = Arrived(r).body.kind
          /\ f.body.src = Arrived(r).body.src /\ f.body.dst = Arrived(r).body.dst
      BY <1>2, <3>1, FrameParts, AgedTyped
    <3>3. Earned(Arrived(r))
      BY <1>2 DEF AcksEarned
    <3> QED BY <3>1, <3>2, <3>3 DEF Earned, IsKind
  <2> QED BY <1>2, <2>1, <2>2, <2>3 DEF Built
<1>3. ASSUME NEW h \in Host, NEW s, f = HostFrame(h, s, Len(sent) + 1)
      PROVE  Earned(f)
  BY <1>3 DEF HostFrame, Earned, IsKind
<1>4. ASSUME NEW t \in TapTraffic, f = t.frame
      PROVE  Earned(f)
  BY <1>4, HostsAssumption DEF Earned, IsKind
<1> QED BY <1>1, <1>2, <1>3, <1>4, FramesFrom, EarnedStays DEF NewFrame

\* In a network of any number of routers, with any tables, loops among them included, and
\* whatever is sent: an acknowledgement of data, in whatever pipe and however often it was
\* forwarded, comes from an address of a router that was started and, if this router has run
\* ever since, goes to an address in its TCP table (handleTCP() and composeAck()).
THEOREM AcksAreEarned == Spec => []AcksEarned
<1>1. Init => Booted /\ AcksEarned
  <2> SUFFICES ASSUME Init PROVE Booted /\ AcksEarned
    OBVIOUS
  <2>1. DOMAIN <<>> = {}
    OBVIOUS
  <2>2. InTransit = {}
    BY <2>1 DEF Init, InTransit
  <2> QED BY <2>2 DEF AcksEarned, Booted, Init
<1> QED BY <1>1, TypeCorrect, BootedStep, EarnedStep, PTL DEF Spec

-----------------------------------------------------------------------------
(* How frames move.                                                        *)

\* A place is a pipe in one of two directions.
LEMMA PlaceParts ==
  /\ \A p \in Port : <<"in", p>> \in Place /\ <<"out", p>> \in Place
  /\ \A p : Content(<<"in", p>>) = inPipe[p] /\ Content(<<"out", p>>) = outPipe[p]
  /\ \A p : Content(<<"in", p>>)' = inPipe'[p] /\ Content(<<"out", p>>)' = outPipe'[p]
  /\ \A x \in Place : x[1] \in {"in", "out"} /\ x[2] \in Port /\ x = <<x[1], x[2]>>
  BY DEF Place, Content

\* What a router does to a message that it forwards from port q to port p.
Forwarded(q, p, e, f) ==
    \E r \in Router :
        /\ q \in PortsOf(r) /\ Onward(r, e.body.dst, p)
        /\ e.dst \in MacAt(q) \cup {Broadcast}
        /\ f.dst = NextHop(r, LookupRoute(r, e.body.dst), e.body.dst)

\* The frame e of a message becomes frame f in moving from y to x.
Moves(y, x, e, f) ==
    /\ IsKind(e, {"data"}) /\ IsKind(f, {"data"}) /\ f.body.id = e.body.id
    /\ \/ /\ y[1] = "out" /\ x[1] = "in" /\ f = e
          /\ x[2] # y[2] /\ Lan[y[2]] = Lan[x[2]]
       \/ /\ y[1] = "in" /\ x[1] = "out"
          /\ Forwarded(y[2], x[2], e, f)

\* A host sends frame f, with a message of its own.
Submits(x, f) ==
    \E h \in Host : \E t \in Script[h] \ {NULL} :
        /\ x = Outlet(h) /\ f = HostFrame(h, t, Len(sent) + 1)
        /\ sent' = Append(sent, [from |-> h, to |-> Addressee(t.to), len |-> t.len, ttl |-> t.ttl])

\* Where frame f may come from that is new at place x, if the step takes from each place as
\* many frames as shift says.
Comes(shift, x, f) ==
    \/ ~IsKind(f, {"data"})
    \/ \E y \in Place : shift[y] = 1 /\ 1 \in DOMAIN Content(y) /\ Moves(y, x, Content(y)[1], f)
    \/ Submits(x, f)

Last(x, k) == \A j \in DOMAIN Content(x) : j <= k

\* A step takes a frame from the head of some places, and adds one at the end of others.
Flows(shift, x, k) ==
    \/ /\ k + shift[x] \in DOMAIN Content(x)
       /\ Content(x)'[k] = Content(x)[k + shift[x]]
    \/ shift[x] = 0 /\ Last(x, k)' /\ Comes(shift, x, Content(x)'[k])

Flow(shift) == \A x \in Place : \A k \in DOMAIN Content(x)' : Flows(shift, x, k)

None == [x \in Place |-> 0]
One(y) == [x \in Place |-> IF x = y THEN 1 ELSE 0]

\* When the first frame of a pipe is taken, the others move up by one.
LEMMA TakeFlows ==
  ASSUME NEW S, NEW s \in Seq(S), s # <<>>
  PROVE  /\ 1 \in DOMAIN s /\ Head(s) = s[1]
         /\ \A k \in DOMAIN Tail(s) : k + 1 \in DOMAIN s /\ Tail(s)[k] = s[k + 1]
<1>1. /\ Tail(s) \in Seq(S) /\ Len(Tail(s)) = Len(s) - 1 /\ Head(s) = s[1]
      /\ \A k \in 1 .. Len(Tail(s)) : Tail(s)[k] = s[k + 1]
  BY HeadTailProperties
<1>2. DOMAIN Tail(s) = 1 .. Len(Tail(s)) /\ DOMAIN s = 1 .. Len(s) /\ Len(s) \in Nat \ {0}
  BY <1>1, LenProperties, EmptySeq
<1> QED BY <1>1, <1>2

\* When a frame is added to a pipe, the others keep their positions and it is the last.
LEMMA AddFlows ==
  ASSUME NEW S, NEW s \in Seq(S), NEW e \in S
  PROVE  \A k \in DOMAIN Append(s, e) :
            \/ k \in DOMAIN s /\ k + 0 = k /\ Append(s, e)[k] = s[k]
            \/ Append(s, e)[k] = e /\ \A j \in DOMAIN Append(s, e) : j <= k
<1>1. /\ Append(s, e) \in Seq(S) /\ Len(Append(s, e)) = Len(s) + 1
      /\ \A k \in 1 .. Len(s) : Append(s, e)[k] = s[k]
      /\ Append(s, e)[Len(s) + 1] = e
  BY AppendProperties
<1>2. DOMAIN Append(s, e) = 1 .. Len(s) + 1 /\ DOMAIN s = 1 .. Len(s) /\ Len(s) \in Nat
  BY <1>1, LenProperties
<1> QED BY <1>1, <1>2

\* A pipe that does not change flows.
LEMMA SameFlows ==
  ASSUME TypeOK, NEW shift, NEW x \in Place, shift[x] = 0, Content(x)' = Content(x)
  PROVE  \A k \in DOMAIN Content(x)' : Flows(shift, x, k)
<1>1. Content(x) \in Seq(Frame)
  BY PlaceParts DEF TypeOK, RouterTypeOK, Content
<1>2. \A k \in DOMAIN Content(x) : k + 0 = k
  BY <1>1, LenProperties
<1> QED BY <1>2 DEF Flows

\* Nor does one that is emptied.
LEMMA EmptyFlows ==
  ASSUME NEW shift, NEW x \in Place, Content(x)' = <<>>
  PROVE  \A k \in DOMAIN Content(x)' : Flows(shift, x, k)
<1>1. DOMAIN <<>> = {}
  OBVIOUS
<1> QED BY <1>1

\* A pipe from which one frame is taken.
LEMMA TakenFlows ==
  ASSUME TypeOK, NEW shift, NEW x \in Place, shift[x] = 1, Content(x) # <<>>,
         Content(x)' = Tail(Content(x))
  PROVE  \A k \in DOMAIN Content(x)' : Flows(shift, x, k)
<1>1. Content(x) \in Seq(Frame)
  BY PlaceParts DEF TypeOK, RouterTypeOK, Content
<1> QED BY <1>1, TakeFlows DEF Flows

\* A pipe to which one frame is added.
LEMMA AddedFlows ==
  ASSUME TypeOK, NEW shift, NEW x \in Place, shift[x] = 0, NEW f \in Frame,
         Content(x)' = Append(Content(x), f), Comes(shift, x, f)
  PROVE  \A k \in DOMAIN Content(x)' : Flows(shift, x, k)
<1>1. Content(x) \in Seq(Frame)
  BY PlaceParts DEF TypeOK, RouterTypeOK, Content
<1> QED BY <1>1, AddFlows DEF Flows, Last

\* A step moves frames as a shift says if it does so in the pipes of both directions.
LEMMA FlowByPipes ==
  ASSUME NEW shift,
         \A p \in Port : \A k \in DOMAIN Content(<<"in", p>>)' : Flows(shift, <<"in", p>>, k),
         \A p \in Port : \A k \in DOMAIN Content(<<"out", p>>)' : Flows(shift, <<"out", p>>, k)
  PROVE  Flow(shift)
<1> SUFFICES ASSUME NEW x \in Place
             PROVE  \A k \in DOMAIN Content(x)' : Flows(shift, x, k)
  BY DEF Flow
<1>1. x = <<"in", x[2]>> \/ x = <<"out", x[2]>>
  BY PlaceParts
<1>2. x[2] \in Port
  BY PlaceParts
<1> QED BY <1>1, <1>2

\* A step that leaves the pipes alone, or empties some.
LEMMA StillFlows ==
  ASSUME TypeOK,
         \A p \in Port : inPipe'[p] = inPipe[p] \/ inPipe'[p] = <<>>,
         \A p \in Port : outPipe'[p] = outPipe[p] \/ outPipe'[p] = <<>>
  PROVE  Flow(None)
<1>1. \A x \in Place : None[x] = 0
  BY DEF None
<1>2. ASSUME NEW p \in Port
      PROVE  \A k \in DOMAIN Content(<<"in", p>>)' : Flows(None, <<"in", p>>, k)
  <2> DEFINE x == <<"in", p>>
  <2>1. x \in Place /\ Content(x) = inPipe[p] /\ Content(x)' = inPipe'[p]
    BY PlaceParts
  <2> HIDE DEF x
  <2> QED BY <1>1, <2>1, SameFlows, EmptyFlows DEF x
<1>3. ASSUME NEW p \in Port
      PROVE  \A k \in DOMAIN Content(<<"out", p>>)' : Flows(None, <<"out", p>>, k)
  <2> DEFINE x == <<"out", p>>
  <2>1. x \in Place /\ Content(x) = outPipe[p] /\ Content(x)' = outPipe'[p]
    BY PlaceParts
  <2> HIDE DEF x
  <2> QED BY <1>1, <2>1, SameFlows, EmptyFlows DEF x
<1> QED BY <1>2, <1>3, FlowByPipes

\* The switch takes a frame and repeats it.
LEMMA RelayFlows ==
  ASSUME TypeOK, NEW p \in Port, Relay(p)
  PROVE  Flow(One(<<"out", p>>))
<1> DEFINE y == <<"out", p>>
           e == Head(outPipe[p])
           shift == One(y)
<1>1. /\ e \in Frame /\ outPipe[p] # <<>> /\ outPipe[p] \in Seq(Frame)
      /\ inPipe' = Repeated(p, e)
      /\ outPipe' = [outPipe EXCEPT ![p] = Tail(outPipe[p])]
      /\ outPipe \in [Port -> Seq(Frame)]
  <2>1. outPipe[p] # <<>>
    BY DEF Relay
  <2> QED BY <2>1, RelayEffect DEF TypeOK, RouterTypeOK
<1>2. /\ y \in Place /\ shift[y] = 1
      /\ \A x \in Place : x # y => shift[x] = 0
  BY PlaceParts DEF One
<1>3. 1 \in DOMAIN Content(y) /\ e = Content(y)[1]
  <2>1. Content(y) = outPipe[p]
    BY PlaceParts
  <2> QED BY <1>1, <2>1, TakeFlows
<1>4. ASSUME NEW q \in Port
      PROVE  \A k \in DOMAIN Content(<<"out", q>>)' : Flows(shift, <<"out", q>>, k)
  <2> DEFINE x == <<"out", q>>
  <2>1. x \in Place /\ Content(x) = outPipe[q] /\ Content(x)' = outPipe'[q] /\ (x = y <=> q = p)
    BY PlaceParts
  <2>2. CASE q = p
    <3>1. Content(x)' = Tail(Content(x)) /\ Content(x) # <<>> /\ x = y
      BY <1>1, <2>1, <2>2
    <3> HIDE DEF x, y, shift
    <3> QED BY <1>2, <2>1, <3>1, TakenFlows DEF x
  <2>3. CASE q # p
    <3>1. Content(x)' = Content(x) /\ x # y
      BY <1>1, <2>1, <2>3
    <3> HIDE DEF x, y, shift
    <3> QED BY <1>2, <2>1, <3>1, SameFlows DEF x
  <2> QED BY <2>2, <2>3
<1>5. ASSUME NEW q \in Port
      PROVE  \A k \in DOMAIN Content(<<"in", q>>)' : Flows(shift, <<"in", q>>, k)
  <2> DEFINE x == <<"in", q>>
  <2>1. x \in Place /\ Content(x) = inPipe[q] /\ Content(x)' = inPipe'[q] /\ x # y
    BY PlaceParts
  <2>2. CASE inPipe'[q] = inPipe[q]
    <3> HIDE DEF x, y, shift
    <3> QED BY <1>2, <2>1, <2>2, SameFlows DEF x
  <2>3. CASE q \in Hearers(p) /\ inPipe'[q] = Append(inPipe[q], e)
    <3>1. q # p /\ Lan[q] = Lan[p]
      BY <2>3 DEF Hearers
    <3>2. IsKind(e, {"data"}) => Moves(y, x, e, e)
      BY <3>1 DEF Moves
    <3> HIDE DEF x, y, shift, e
    <3>3. Comes(shift, x, e)
      BY <1>2, <1>3, <3>2 DEF Comes
    <3> QED BY <1>1, <1>2, <2>1, <2>3, <3>3, AddedFlows DEF x
  <2> QED BY <1>1, <2>2, <2>3 DEF Repeated
<1> QED BY <1>4, <1>5, FlowByPipes

\* A router takes a frame and, if it is a message, may send it on.
LEMMA HandleFlows ==
  ASSUME TypeOK, NEW r \in Router, Handle(r)
  PROVE  Pipe(r) \in PortsOf(r) /\ Flow(One(<<"in", Pipe(r)>>))
<1> DEFINE y == <<"in", Pipe(r)>>
           e == Arrived(r)
           shift == One(y)
<1>t. RouterTypeOK /\ inPipe \in [Port -> Seq(Frame)] /\ outPipe \in [Port -> Seq(Frame)]
  BY DEF TypeOK, RouterTypeOK
<1>1. Receive(r) /\ Sends(r)
  BY <1>t, HandlerSends
<1>2. /\ e \in Frame /\ Turn(r) \in DOMAIN interfaces[r]
      /\ Pipe(r) = interfaces[r][Turn(r)].port /\ Pipe(r) \in Port
      /\ inPipe[Pipe(r)] # <<>> /\ e = Head(inPipe[Pipe(r)])
      /\ inPipe' = [inPipe EXCEPT ![Pipe(r)] = Tail(inPipe[Pipe(r)])]
  BY <1>1, <1>t, ArrivedTyped DEF Receive, Arrived
<1>3. Pipe(r) \in PortsOf(r) /\ interfaces[r][Turn(r)].eth \in MacAt(Pipe(r))
  BY <1>2 DEF PortsOf, MacAt
<1>4. /\ y \in Place /\ shift[y] = 1
      /\ \A x \in Place : x # y => shift[x] = 0
  BY <1>2, PlaceParts DEF One
<1>5. 1 \in DOMAIN Content(y) /\ e = Content(y)[1]
  <2>1. Content(y) = inPipe[Pipe(r)] /\ inPipe[Pipe(r)] \in Seq(Frame)
    BY <1>t, <1>2, PlaceParts
  <2> QED BY <1>2, <2>1, TakeFlows
<1>6. ASSUME NEW q \in Port
      PROVE  \A k \in DOMAIN Content(<<"in", q>>)' : Flows(shift, <<"in", q>>, k)
  <2> DEFINE x == <<"in", q>>
  <2>1. /\ x \in Place /\ Content(x) = inPipe[q] /\ Content(x)' = inPipe'[q]
        /\ x = y <=> q = Pipe(r)
    BY PlaceParts
  <2>2. CASE q = Pipe(r)
    <3>1. Content(x)' = Tail(Content(x)) /\ Content(x) # <<>> /\ x = y
      BY <1>t, <1>2, <2>1, <2>2
    <3> HIDE DEF x, y, shift
    <3> QED BY <1>4, <2>1, <3>1, TakenFlows DEF x
  <2>3. CASE q # Pipe(r)
    <3>1. Content(x)' = Content(x) /\ x # y
      BY <1>t, <1>2, <2>1, <2>3
    <3> HIDE DEF x, y, shift
    <3> QED BY <1>4, <2>1, <3>1, SameFlows DEF x
  <2> QED BY <2>2, <2>3
<1>7. ASSUME NEW q \in Port
      PROVE  \A k \in DOMAIN Content(<<"out", q>>)' : Flows(shift, <<"out", q>>, k)
  <2> DEFINE x == <<"out", q>>
  <2>1. x \in Place /\ Content(x) = outPipe[q] /\ Content(x)' = outPipe'[q] /\ x # y
    BY PlaceParts
  <2>2. CASE outPipe'[q] = outPipe[q]
    <3> HIDE DEF x, y, shift
    <3> QED BY <1>4, <2>1, <2>2, SameFlows DEF x
  <2>3. ASSUME NEW g \in Frame, Built(r, q, g), outPipe'[q] = Append(outPipe[q], g)
        PROVE  \A k \in DOMAIN Content(x)' : Flows(shift, x, k)
    <3>1. CASE ~Forwards(r, q, g)
      <4>1. ~IsKind(g, {"data"})
        BY <2>3, <3>1 DEF Built, IsKind, Error, Reply
      <4>2. Comes(shift, x, g)
        BY <4>1 DEF Comes
      <4> HIDE DEF x, y, shift
      <4> QED BY <1>4, <2>1, <2>3, <4>2, AddedFlows
    <3>2. CASE Forwards(r, q, g)
      <4>1. g.type = "ip" /\ g.body = Aged(e.body) /\ e.type = "ip"
        BY <3>2 DEF Forwards, ForwardedFrame, ComposeEthernetFrame
      <4>2. g.body.kind = e.body.kind /\ g.body.id = e.body.id
        BY <1>2, <4>1, FrameParts, AgedTyped, SMTT(30)
      <4>3. Forwarded(Pipe(r), q, e, g)
        BY <1>3, <3>2
           DEF Forwarded, Forwards, Onward, ForwardedFrame, ComposeEthernetFrame
      <4>4. y[1] = "in" /\ y[2] = Pipe(r) /\ x[1] = "out" /\ x[2] = q
        OBVIOUS
      <4> HIDE DEF x, y, shift, e
      <4>5. IsKind(g, {"data"}) => Moves(y, x, e, g)
        BY <4>1, <4>2, <4>3, <4>4 DEF Moves, IsKind
      <4>6. Comes(shift, x, g)
        BY <1>4, <1>5, <4>5 DEF Comes
      <4> QED BY <1>4, <2>1, <2>3, <4>6, AddedFlows
    <3> QED BY <3>1, <3>2
  <2>4. \/ outPipe'[q] = outPipe[q]
        \/ \E g \in Frame : Built(r, q, g) /\ outPipe'[q] = Append(outPipe[q], g)
    <3>1. CASE UNCHANGED outPipe
      BY <3>1
    <3>2. ASSUME NEW i \in DOMAIN interfaces[r], NEW g \in Frame,
                 Built(r, interfaces[r][i].port, g), Send(interfaces[r][i].port, g)
          PROVE  \/ outPipe'[q] = outPipe[q]
                 \/ Built(r, q, g) /\ outPipe'[q] = Append(outPipe[q], g)
      BY <1>t, <3>2 DEF Send
    <3> QED BY <1>1, <3>1, <3>2 DEF Sends
  <2> HIDE DEF x
  <2> QED BY <2>2, <2>3, <2>4 DEF x
<1> HIDE DEF shift
<1> QED BY <1>3, <1>6, <1>7, FlowByPipes DEF shift

\* A host takes a frame.
LEMMA ReceivesFlows ==
  ASSUME TypeOK, NEW h \in Host, Receives(h)
  PROVE  Flow(One(Inlet(h)))
<1> DEFINE y == <<"in", HostPort[h]>>
           shift == One(y)
<1>t. inPipe \in [Port -> Seq(Frame)] /\ outPipe \in [Port -> Seq(Frame)]
  BY DEF TypeOK, RouterTypeOK
<1>1. /\ HostPort[h] \in Port /\ inPipe[HostPort[h]] # <<>> /\ UNCHANGED outPipe
      /\ inPipe' = [inPipe EXCEPT ![HostPort[h]] = Tail(inPipe[HostPort[h]])]
  BY ReceivesEffect
<1>2. /\ y \in Place /\ shift[y] = 1 /\ y = Inlet(h)
      /\ \A x \in Place : x # y => shift[x] = 0
  BY <1>1, PlaceParts DEF One, Inlet
<1>3. ASSUME NEW q \in Port
      PROVE  \A k \in DOMAIN Content(<<"in", q>>)' : Flows(shift, <<"in", q>>, k)
  <2> DEFINE x == <<"in", q>>
  <2>1. /\ x \in Place /\ Content(x) = inPipe[q] /\ Content(x)' = inPipe'[q]
        /\ x = y <=> q = HostPort[h]
    BY PlaceParts
  <2>2. CASE q = HostPort[h]
    <3>1. Content(x)' = Tail(Content(x)) /\ Content(x) # <<>> /\ x = y
      BY <1>t, <1>1, <2>1, <2>2
    <3> HIDE DEF x, y, shift
    <3> QED BY <1>2, <2>1, <3>1, TakenFlows DEF x
  <2>3. CASE q # HostPort[h]
    <3>1. Content(x)' = Content(x) /\ x # y
      BY <1>t, <1>1, <2>1, <2>3
    <3> HIDE DEF x, y, shift
    <3> QED BY <1>2, <2>1, <3>1, SameFlows DEF x
  <2> QED BY <2>2, <2>3
<1>4. ASSUME NEW q \in Port
      PROVE  \A k \in DOMAIN Content(<<"out", q>>)' : Flows(shift, <<"out", q>>, k)
  <2> DEFINE x == <<"out", q>>
  <2>1. x \in Place /\ Content(x) = outPipe[q] /\ Content(x)' = outPipe'[q] /\ x # y
    BY PlaceParts
  <2> HIDE DEF x, y, shift
  <2> QED BY <1>1, <1>2, <2>1, SameFlows DEF x
<1> HIDE DEF y, shift
<1>5. Flow(shift)
  BY <1>3, <1>4, FlowByPipes
<1> QED BY <1>2, <1>5 DEF shift

\* A host sends a message of its own.
LEMMA RunFlows ==
  ASSUME TypeOK, NEW h \in Host, Run(h)
  PROVE  Flow(None)
<1>t. RouterTypeOK /\ outPipe \in [Port -> Seq(Frame)] /\ Len(sent) + 1 \in Nat
  <2>1. Len(sent) + 1 \in Nat
    BY LenProperties DEF TypeOK
  <2> QED BY <2>1 DEF TypeOK, RouterTypeOK
<1>1. UNCHANGED inPipe
  BY RunEffect
<1>2. CASE UNCHANGED outPipe
  BY <1>1, <1>2, StillFlows
<1>3. ASSUME NEW t \in Script[h] \ {NULL},
             Send(HostPort[h], HostFrame(h, t, Len(sent) + 1)),
             sent' = Append(sent, [from |-> h, to |-> Addressee(t.to), len |-> t.len, ttl |-> t.ttl])
      PROVE  Flow(None)
  <2> DEFINE e == HostFrame(h, t, Len(sent) + 1)
  <2>1. /\ e \in Frame /\ HostPort[h] \in Port
        /\ outPipe' = [outPipe EXCEPT ![HostPort[h]] = Append(outPipe[HostPort[h]], e)]
    BY <1>t, <1>3, HostFrameTyped, HostsAssumption DEF Send
  <2>2. \A x \in Place : None[x] = 0
    BY DEF None
  <2>3. Comes(None, Outlet(h), e)
    BY <1>3 DEF Comes, Submits
  <2> HIDE DEF e
  <2>4. ASSUME NEW q \in Port
        PROVE  \A k \in DOMAIN Content(<<"in", q>>)' : Flows(None, <<"in", q>>, k)
    <3> DEFINE x == <<"in", q>>
    <3>1. x \in Place /\ Content(x) = inPipe[q] /\ Content(x)' = inPipe'[q]
      BY PlaceParts
    <3> HIDE DEF x
    <3> QED BY <1>1, <2>2, <3>1, SameFlows DEF x
  <2>5. ASSUME NEW q \in Port
        PROVE  \A k \in DOMAIN Content(<<"out", q>>)' : Flows(None, <<"out", q>>, k)
    <3> DEFINE x == <<"out", q>>
    <3>1. /\ x \in Place /\ Content(x) = outPipe[q] /\ Content(x)' = outPipe'[q]
          /\ q = HostPort[h] => x = Outlet(h)
      BY PlaceParts DEF Outlet
    <3>2. CASE q = HostPort[h]
      <4>1. Content(x)' = Append(Content(x), e) /\ x = Outlet(h)
        BY <1>t, <2>1, <3>1, <3>2
      <4> HIDE DEF x
      <4> QED BY <2>1, <2>2, <2>3, <3>1, <4>1, AddedFlows DEF x
    <3>3. CASE q # HostPort[h]
      <4>1. Content(x)' = Content(x)
        BY <1>t, <2>1, <3>1, <3>3
      <4> HIDE DEF x
      <4> QED BY <2>2, <3>1, <4>1, SameFlows DEF x
    <3> QED BY <3>2, <3>3
  <2> QED BY <2>4, <2>5, FlowByPipes
<1> QED BY <1>2, <1>3, RunEffect DEF RunSends

\* A kernel sends no message of a host.
LEMMA TapFlows ==
  ASSUME TypeOK, TapSends
  PROVE  Flow(None)
<1>1. PICK t \in TapTraffic : inPipe' = Repeated(t.port, t.frame)
  BY DEF TapSends
<1>2. t.port \in Port /\ t.frame \in Frame /\ ~IsKind(t.frame, {"data"}) /\ UNCHANGED outPipe
  BY HostsAssumption DEF IsKind, TapSends
<1>3. \A x \in Place : None[x] = 0 /\ Comes(None, x, t.frame)
  BY <1>2 DEF None, Comes
<1>4. ASSUME NEW q \in Port
      PROVE  \A k \in DOMAIN Content(<<"in", q>>)' : Flows(None, <<"in", q>>, k)
  <2> DEFINE x == <<"in", q>>
  <2>1. x \in Place /\ Content(x) = inPipe[q] /\ Content(x)' = inPipe'[q]
    BY PlaceParts
  <2>2. inPipe'[q] = inPipe[q] \/ inPipe'[q] = Append(inPipe[q], t.frame)
    BY <1>1 DEF Repeated
  <2> HIDE DEF x
  <2> QED BY <1>2, <1>3, <2>1, <2>2, SameFlows, AddedFlows DEF x
<1>5. ASSUME NEW q \in Port
      PROVE  \A k \in DOMAIN Content(<<"out", q>>)' : Flows(None, <<"out", q>>, k)
  <2> DEFINE x == <<"out", q>>
  <2>1. x \in Place /\ Content(x) = outPipe[q] /\ Content(x)' = outPipe'[q]
    BY PlaceParts
  <2> HIDE DEF x
  <2> QED BY <1>2, <1>3, <2>1, SameFlows DEF x
<1> QED BY <1>4, <1>5, FlowByPipes

Shift == [Place -> {0, 1}]

\* Taking nothing, or the first frame of one pipe, are shifts.
LEMMA ShiftTyped == None \in Shift /\ \A y \in Place : One(y) \in Shift
  BY DEF Shift, None, One

\* Every step is a flow.
LEMMA StepFlows ==
  ASSUME TypeOK, [Next]_vars
  PROVE  \E shift \in Shift : Flow(shift)
<1>1. ASSUME NEW r \in Router, Handle(r)
      PROVE  \E shift \in Shift : Flow(shift)
  <2>1. Pipe(r) \in PortsOf(r) /\ Flow(One(<<"in", Pipe(r)>>))
    BY <1>1, HandleFlows
  <2>2. Pipe(r) \in Port
    BY <2>1, InterfaceTyped DEF PortsOf
  <2> QED BY <2>1, <2>2, ShiftTyped, PlaceParts
<1>2. ASSUME NEW h \in Host, Receives(h)
      PROVE  \E shift \in Shift : Flow(shift)
  <2>1. Flow(One(Inlet(h))) /\ Inlet(h) \in Place
    BY <1>2, ReceivesFlows, HostsAssumption, PlaceParts DEF Inlet
  <2> QED BY <2>1, ShiftTyped
<1>3. ASSUME NEW p \in Port, Relay(p)
      PROVE  \E shift \in Shift : Flow(shift)
  BY <1>3, RelayFlows, ShiftTyped, PlaceParts
<1>4. ASSUME NEW ins, NEW outs, inPipe' = Emptied(inPipe, ins), outPipe' = Emptied(outPipe, outs)
      PROVE  Flow(None)
  BY <1>4, StillFlows DEF Emptied
<1>5. ASSUME NEW r \in Router, RouterStarts(r) \/ RouterEnds(r)
      PROVE  Flow(None)
  BY <1>4, <1>5, RouterRenewed DEF Renewed, Reset
<1>6. ASSUME NEW h \in Host, Stop(h)
      PROVE  Flow(None)
  BY <1>4, <1>6 DEF Stop
<1>9. ASSUME NEW p \in Port, PlugBreaks(p)
      PROVE  Flow(None)
  BY <1>9, StillFlows DEF PlugBreaks, Emptied
<1>7. CASE UNCHANGED <<inPipe, outPipe>>
  BY <1>7, StillFlows, ShiftTyped
<1>8. (\E r \in Router : Poll(r)) \/ UNCHANGED vars => UNCHANGED <<inPipe, outPipe>>
  BY DEF Poll, vars, routerVars
<1> QED BY <1>1, <1>2, <1>3, <1>5, <1>6, <1>7, <1>8, <1>9, RunFlows, TapFlows, ShiftTyped
           DEF Next, SystemStep, RouterRuns

-----------------------------------------------------------------------------
(* Where the copies of messages come from.                                 *)

\* A frame at a place is in transit.
LEMMA ContentInTransit ==
  ASSUME NEW x \in Place, NEW k \in DOMAIN Content(x)
  PROVE  Content(x)[k] \in InTransit
<1>1. x[2] \in Port
  BY PlaceParts
<1>2. Content(x)[k] \in Elements(inPipe[x[2]]) \/ Content(x)[k] \in Elements(outPipe[x[2]])
  BY DEF Content, Elements
<1> QED BY <1>1, <1>2, InTransitMembers

\* An addressee has the address it was found by.
LEMMA AddresseeIp ==
  ASSUME NEW ip, Addressee(ip) \in Host
  PROVE  HostIp[Addressee(ip)] = ip
  BY HostsAssumption DEF Addressee

\* The positions of a sequence are numbers from 1.
LEMMA Numbers ==
  ASSUME NEW S, NEW s \in Seq(S)
  PROVE  /\ Len(s) \in Nat
         /\ \A n \in DOMAIN s : n \in Nat \ {0} /\ n <= Len(s) /\ s[n] \in S
<1>1. DOMAIN s = 1 .. Len(s) /\ Len(s) \in Nat
  BY LenProperties
<1> QED BY <1>1, ElementOfSeq

\* Messages are known by their positions in sent.
LEMMA SentNumbers ==
  ASSUME TypeOK
  PROVE  /\ Len(sent) \in Nat
         /\ \A n \in DOMAIN sent : n \in Nat /\ n <= Len(sent) /\ sent[n] \in Message
  BY Numbers DEF TypeOK

\* A copy after a step is one that was there, one that has moved on, or a new message.
Stays(shift, n, x, k) ==
    /\ Copy(n, x, k + shift[x])
    /\ Content(x)'[k] = Content(x)[k + shift[x]]

Proceeds(shift, n, x, k) ==
    /\ shift[x] = 0 /\ Last(x, k)'
    /\ \E y \in Place :
        shift[y] = 1 /\ Copy(n, y, 1) /\ Passes(y, x, HostIp[sent[n].to])
    /\ x[1] = "out" =>
        /\ Content(x)'[k].dst \in Addressed(x[2], HostIp[sent[n].to])
        /\ \A h \in Host : x # Outlet(h)

Starts(shift, n, x, k) ==
    /\ shift[x] = 0 /\ Last(x, k)'
    /\ n = Len(sent) + 1 /\ sent' # sent
    /\ sent'[n].from \in Host /\ x = Outlet(sent'[n].from)
    /\ Content(x)'[k].dst \in Addressed(x[2], HostIp[sent'[n].to])

\* A frame moves from place to place as the ways say.
LEMMA MovesAlong ==
  ASSUME NEW Nth, TypeOK, Routed, Tracked(Nth),
         NEW y \in Place, 1 \in DOMAIN Content(y), NEW x \in Place, NEW f,
         Moves(y, x, Content(y)[1], f), NEW n, f.body.id = n,
         n \in DOMAIN sent => sent[n].to \in Host,
         x[1] = "in" => f.dst \in MacAt(x[2]) \cup {Broadcast}
  PROVE  /\ n \in DOMAIN sent
         /\ Copy(n, y, 1) /\ Passes(y, x, HostIp[sent[n].to])
         /\ x[1] = "out" =>
              /\ f.dst \in Addressed(x[2], HostIp[sent[n].to])
              /\ \A h \in Host : x # Outlet(h)
<1> DEFINE e == Content(y)[1]
           ip == HostIp[sent[n].to]
<1>1. IsKind(e, {"data"}) /\ e.body.id = n
  BY DEF Moves
<1>2. n \in DOMAIN sent /\ sent[n].to = Addressee(e.body.dst)
  BY <1>1, ContentInTransit DEF Routed
<1>3. sent[n].to \in Host /\ e.body.dst = ip
  BY <1>2, AddresseeIp
<1>4. CASE y[1] = "out" /\ x[1] = "in" /\ f = e /\ x[2] # y[2] /\ Lan[y[2]] = Lan[x[2]]
  <2>1. Copy(n, y, 1)
    BY <1>1, <1>2, <1>3, <1>4 DEF Copy
  <2>2. e.dst \in Addressed(y[2], ip)
    BY <1>2, <1>4, <2>1 DEF Tracked
  <2>3. Passes(y, x, ip)
    BY <1>4, <2>2 DEF Passes
  <2> QED BY <1>2, <1>4, <2>1, <2>3
<1>5. CASE y[1] = "in" /\ x[1] = "out" /\ Forwarded(y[2], x[2], e, f)
  <2>1. PICK r \in Router :
          /\ y[2] \in PortsOf(r) /\ Onward(r, ip, x[2])
          /\ e.dst \in MacAt(y[2]) \cup {Broadcast}
          /\ f.dst = NextHop(r, LookupRoute(r, ip), ip)
    BY <1>3, <1>5 DEF Forwarded
  <2>2. Copy(n, y, 1)
    BY <1>1, <1>2, <1>3, <1>5, <2>1 DEF Copy
  <2>3. Passes(y, x, ip)
    BY <1>5, <2>1 DEF Passes
  <2>4. f.dst \in Addressed(x[2], ip)
    BY <2>1 DEF Addressed
  <2>5. ASSUME NEW h \in Host
        PROVE  x # Outlet(h)
    <3>1. x[2] \in PortsOf(r)
      BY <2>1, LookupRouteResult DEF Onward, PortsOf
    <3> QED BY <3>1, HostsApartAssumption DEF Outlet
  <2> QED BY <1>2, <2>2, <2>3, <2>4, <2>5
<1> QED BY <1>4, <1>5 DEF Moves

LEMMA CopyOrigins ==
  ASSUME NEW Nth, TypeOK, Routed, Tracked(Nth), [Next]_vars,
         NEW shift \in Shift, Flow(shift),
         NEW x \in Place, NEW k \in DOMAIN Content(x)', NEW n \in DOMAIN sent', Copy(n, x, k)'
  PROVE  \/ n \in DOMAIN sent /\ sent'[n] = sent[n] /\ Stays(shift, n, x, k)
         \/ n \in DOMAIN sent /\ sent'[n] = sent[n] /\ Proceeds(shift, n, x, k)
         \/ Starts(shift, n, x, k)
<1> DEFINE f == Content(x)'[k]
<1>1. /\ IsKind(f, {"data"}) /\ f.body.id = n /\ sent'[n].to \in Host
      /\ x[1] = "in" => f.dst \in MacAt(x[2]) \cup {Broadcast}
  <2>1. \A q : MacAt(q)' = MacAt(q)
    BY DEF MacAt, interfaces
  <2> QED BY <2>1 DEF Copy, IsKind
<1>2. n \in DOMAIN sent => sent'[n] = sent[n] /\ sent[n].to \in Host
  BY <1>1, SentKept
<1>3. CASE k + shift[x] \in DOMAIN Content(x) /\ f = Content(x)[k + shift[x]]
  <2>1. n \in DOMAIN sent
    BY <1>1, <1>3, ContentInTransit DEF Routed
  <2> QED BY <1>1, <1>2, <1>3, <2>1 DEF Stays, Copy
<1>4. ASSUME shift[x] = 0, Last(x, k)',
             NEW y \in Place, shift[y] = 1, 1 \in DOMAIN Content(y), Moves(y, x, Content(y)[1], f)
      PROVE  n \in DOMAIN sent /\ sent'[n] = sent[n] /\ Proceeds(shift, n, x, k)
  <2> HIDE DEF f
  <2>1. /\ n \in DOMAIN sent
        /\ Copy(n, y, 1) /\ Passes(y, x, HostIp[sent[n].to])
        /\ x[1] = "out" =>
              /\ f.dst \in Addressed(x[2], HostIp[sent[n].to])
              /\ \A h \in Host : x # Outlet(h)
    BY <1>1, <1>2, <1>4, MovesAlong
  <2> QED BY <1>2, <1>4, <2>1 DEF Proceeds, f
<1>5. ASSUME shift[x] = 0, Last(x, k)', NEW h \in Host, NEW t \in Script[h] \ {NULL},
             x = Outlet(h), f = HostFrame(h, t, Len(sent) + 1),
             sent' = Append(sent, [from |-> h, to |-> Addressee(t.to), len |-> t.len, ttl |-> t.ttl])
      PROVE  Starts(shift, n, x, k)
  <2>1. n = Len(sent) + 1 /\ f.dst = t.via
    BY <1>1, <1>5 DEF HostFrame
  <2>2. /\ sent'[n] = [from |-> h, to |-> Addressee(t.to), len |-> t.len, ttl |-> t.ttl]
        /\ sent' # sent
    <3>1. [from |-> h, to |-> Addressee(t.to), len |-> t.len, ttl |-> t.ttl] \in Message
      BY AddresseeTyped, ScriptTyped DEF Message
    <3>2. sent \in Seq(Message)
      BY DEF TypeOK
    <3>3. Len(sent) + 1 \in DOMAIN sent' /\ Len(sent) + 1 \notin DOMAIN sent
      BY <1>5, <3>1, <3>2, MessageAdded, SentNumbers
    <3> QED BY <1>5, <2>1, <3>1, <3>2, <3>3, MessageAdded
  <2>3. HostIp[sent'[n].to] = t.to
    BY <1>1, <2>2, AddresseeIp
  <2>4. f.dst \in Addressed(x[2], HostIp[sent'[n].to])
    <3> DEFINE ip == HostIp[sent'[n].to]
    <3>1. x[2] = HostPort[h] /\ t \in {s \in Script[h] \ {NULL} : s.to = ip}
      BY <1>5, <2>3 DEF Outlet
    <3> HIDE DEF ip
    <3>2. t.via \in Addressed(x[2], ip)
      BY <1>5, <3>1 DEF Addressed
    <3> QED BY <2>1, <3>2 DEF ip
  <2> QED BY <1>5, <2>1, <2>2, <2>4 DEF Starts
<1> HIDE DEF f
<1>6. Flows(shift, x, k)
  BY DEF Flow
<1> QED BY <1>1, <1>3, <1>4, <1>5, <1>6 DEF Flows, Comes, Submits, f

-----------------------------------------------------------------------------
(* The copies stay on their ways, in the order of sending.                 *)

\* OneWay of two hosts.
LEMMA OneWayUsed ==
  ASSUME NEW Nth, OneWay(Nth), NEW g \in Host, NEW h \in Host
  PROVE  /\ \A x \in Place : Nth[g][h][x] \in Nat
         /\ Nth[g][h][Outlet(g)] = 1
         /\ \A x, y \in Place :
              Nth[g][h][x] > 0 /\ Passes(x, y, HostIp[h]) => Nth[g][h][y] = Nth[g][h][x] + 1
         /\ \A x, y \in Place : Nth[g][h][x] > 0 /\ Nth[g][h][x] = Nth[g][h][y] => x = y
         /\ \A x \in Place : Nth[g][h][Inlet(h)] > 0 => Nth[g][h][x] <= Nth[g][h][Inlet(h)]
<1>1. Nth[g][h] \in [Place -> Nat]
  BY DEF OneWay
<1> QED BY <1>1 DEF OneWay

\* The hosts a copy is from and for.
LEMMA CopyEnds ==
  ASSUME TypeOK, NEW n \in DOMAIN sent, NEW x, NEW k, Copy(n, x, k)
  PROVE  /\ sent[n].from \in Host /\ sent[n].to \in Host
         /\ n \in Nat /\ n <= Len(sent)
  BY SentNumbers DEF Copy, Message

\* Copies stay on their ways.
LEMMA TrackedStep ==
  ASSUME NEW Nth, OneWay(Nth), TypeOK, Routed, Tracked(Nth), [Next]_vars
  PROVE  Tracked(Nth)'
<1>1. PICK shift \in Shift : Flow(shift)
  BY StepFlows
<1> SUFFICES ASSUME NEW x \in Place, NEW k \in DOMAIN Content(x)', NEW n \in DOMAIN sent',
                    Copy(n, x, k)'
             PROVE  /\ At(Nth, n, x)' > 0
                    /\ x[1] = "out" =>
                         Content(x)'[k].dst \in Addressed(x[2], HostIp[sent'[n].to])
                    /\ \A h \in Host : x = Outlet(h) => sent'[n].from = h
  BY DEF Tracked, Addressed, Onward, Local, LookupRoute, NextHop, ArpLookup, interfaces,
         routingTbl, arpTbl, Outlet
<1>2. CASE n \in DOMAIN sent /\ sent'[n] = sent[n] /\ Stays(shift, n, x, k)
  <2>1. k + shift[x] \in DOMAIN Content(x) /\ Content(x)'[k] = Content(x)[k + shift[x]]
    BY <1>2 DEF Stays, Copy
  <2>2. /\ At(Nth, n, x) > 0
        /\ x[1] = "out" =>
             Content(x)[k + shift[x]].dst \in Addressed(x[2], HostIp[sent[n].to])
        /\ \A h \in Host : x = Outlet(h) => sent[n].from = h
    BY <1>2, <2>1 DEF Stays, Tracked
  <2> QED BY <1>2, <2>1, <2>2 DEF At
<1>3. CASE n \in DOMAIN sent /\ sent'[n] = sent[n] /\ Proceeds(shift, n, x, k)
  <2>1. PICK y \in Place : Copy(n, y, 1) /\ Passes(y, x, HostIp[sent[n].to])
    BY <1>3 DEF Proceeds
  <2>2. At(Nth, n, y) > 0 /\ sent[n].from \in Host /\ sent[n].to \in Host
    BY <1>3, <2>1, CopyEnds DEF Tracked, Copy
  <2>3. At(Nth, n, x) = At(Nth, n, y) + 1 /\ At(Nth, n, y) \in Nat
    BY <2>1, <2>2, OneWayUsed DEF At
  <2>4. At(Nth, n, x)' > 0
    BY <1>3, <2>2, <2>3 DEF At
  <2>5. \A h \in Host : x # Outlet(h)
    BY <1>3, PlaceParts DEF Proceeds, Outlet
  <2> QED BY <1>3, <2>4, <2>5 DEF Proceeds
<1>4. CASE Starts(shift, n, x, k)
  <2>1. sent'[n].from \in Host /\ sent'[n].to \in Host /\ x = Outlet(sent'[n].from)
    BY <1>4 DEF Starts, Copy
  <2>2. At(Nth, n, x)' = 1
    BY <2>1, OneWayUsed DEF At
  <2>3. \A h \in Host : x = Outlet(h) => sent'[n].from = h
    BY <2>1, HostsApartAssumption DEF Outlet
  <2> QED BY <1>4, <2>2, <2>3 DEF Starts
<1> QED BY <1>1, <1>2, <1>3, <1>4, CopyOrigins

\* Of two copies of messages between the same hosts, before and after a step.
LEMMA OrderedStep ==
  ASSUME NEW Nth, OneWay(Nth), TypeOK, Routed, Tracked(Nth), Ordered(Nth), [Next]_vars
  PROVE  Ordered(Nth)'
<1>1. PICK shift \in Shift : Flow(shift)
  BY StepFlows
<1> SUFFICES ASSUME NEW x \in Place, NEW y \in Place,
                    NEW j \in DOMAIN Content(x)', NEW k \in DOMAIN Content(y)',
                    NEW m \in DOMAIN sent', NEW n \in DOMAIN sent',
                    Copy(m, x, j)', Copy(n, y, k)', Alike(m, n)', m <= n
             PROVE  At(Nth, m, x)' > At(Nth, n, y)' \/ (x = y /\ j <= k)
  BY DEF Ordered
<1> DEFINE g == sent'[m].from
           h == sent'[m].to
           P(z) == Nth[g][h][z]
<1>2. TypeOK' /\ Tracked(Nth)'
  BY TypeOKStep, TrackedStep
<1>3. /\ g \in Host /\ h \in Host /\ sent'[n].from = g /\ sent'[n].to = h
      /\ At(Nth, m, x)' = P(x) /\ At(Nth, n, y)' = P(y)
  <2>1. sent'[m] \in Message
    BY <1>2, Numbers DEF TypeOK
  <2> QED BY <2>1 DEF Alike, At, Copy, Message
<1>4. P(x) > 0 /\ P(y) > 0
  BY <1>2, <1>3 DEF Tracked
<1>5. /\ \A z \in Place : P(z) \in Nat
      /\ P(Outlet(g)) = 1
      /\ \A z, w \in Place : P(z) > 0 /\ Passes(z, w, HostIp[h]) => P(w) = P(z) + 1
      /\ \A z, w \in Place : P(z) > 0 /\ P(z) = P(w) => z = w
  BY <1>3, OneWayUsed
<1>6. /\ m \in Nat /\ n \in Nat /\ Len(sent) \in Nat
      /\ \A i \in DOMAIN sent : i <= Len(sent)
  <2>1. sent \in Seq(Message) /\ sent' \in Seq(Message)
    BY <1>2 DEF TypeOK
  <2> QED BY <2>1, Numbers
<1>7. j \in Nat \ {0} /\ k \in Nat \ {0}
  <2>1. Content(x)' \in Seq(Frame) /\ Content(y)' \in Seq(Frame)
    BY <1>2, PlaceParts DEF Content, TypeOK, RouterTypeOK
  <2> QED BY <2>1, Numbers
<1>8. shift[x] \in {0, 1} /\ shift[y] \in {0, 1}
  BY DEF Shift
<1> DEFINE Old(i) == i \in DOMAIN sent /\ sent'[i] = sent[i]
<1>9. ASSUME Old(m), Old(n), NEW z \in Place, NEW w \in Place, NEW a, NEW b,
             Copy(m, z, a), Copy(n, w, b)
      PROVE  P(z) > 0 /\ P(w) > 0 /\ (P(z) > P(w) \/ (z = w /\ a <= b))
  <2>1. a \in DOMAIN Content(z) /\ b \in DOMAIN Content(w)
    BY <1>9 DEF Copy
  <2>2. At(Nth, m, z) = P(z) /\ At(Nth, n, w) = P(w) /\ Alike(m, n)
    BY <1>3, <1>9 DEF At, Alike
  <2>3. At(Nth, m, z) > 0 /\ At(Nth, n, w) > 0
    BY <1>9, <2>1 DEF Tracked
  <2> QED BY <1>9, <2>1, <2>2, <2>3 DEF Ordered
<1>10. /\ \/ Old(m) /\ Stays(shift, m, x, j)
          \/ Old(m) /\ Proceeds(shift, m, x, j)
          \/ Starts(shift, m, x, j)
       /\ \/ Old(n) /\ Stays(shift, n, y, k)
          \/ Old(n) /\ Proceeds(shift, n, y, k)
          \/ Starts(shift, n, y, k)
  BY <1>1, CopyOrigins
<1>11. ASSUME Last(y, k)', x = y
       PROVE  j <= k
  BY <1>11 DEF Last
<1>12. CASE Starts(shift, n, y, k)
  <2>1. P(y) = 1 /\ Last(y, k)'
    BY <1>3, <1>5, <1>12 DEF Starts
  <2>2. P(x) > 1 \/ x = y
    BY <1>4, <1>5, <2>1
  <2> HIDE DEF P
  <2> QED BY <1>3, <1>11, <2>1, <2>2
<1>13. CASE Old(n) /\ Starts(shift, m, x, j)
  BY <1>6, <1>13 DEF Starts
<1>14. CASE Old(m) /\ Old(n) /\ Stays(shift, m, x, j) /\ Stays(shift, n, y, k)
  <2>1. P(x) > P(y) \/ (x = y /\ j + shift[x] <= k + shift[y])
    BY <1>9, <1>14 DEF Stays
  <2> QED BY <1>3, <1>7, <1>8, <2>1
<1>15. CASE Old(m) /\ Old(n) /\ Stays(shift, m, x, j) /\ Proceeds(shift, n, y, k)
  <2>1. PICK w \in Place : shift[w] = 1 /\ Copy(n, w, 1) /\ Passes(w, y, HostIp[sent[n].to])
    BY <1>15 DEF Proceeds
  <2>2. /\ P(w) > 0
        /\ P(x) > P(w) \/ (x = w /\ j + shift[x] <= 1)
    BY <1>9, <1>15, <2>1 DEF Stays
  <2>3. P(x) > P(w) /\ P(y) = P(w) + 1
    BY <1>3, <1>5, <1>7, <1>15, <2>1, <2>2
  <2>4. P(x) > P(y) \/ x = y
    BY <1>4, <1>5, <2>3
  <2>5. Last(y, k)'
    BY <1>15 DEF Proceeds
  <2> HIDE DEF P
  <2> QED BY <1>3, <1>11, <2>4, <2>5
<1>16. CASE Old(m) /\ Old(n) /\ Proceeds(shift, m, x, j) /\ Stays(shift, n, y, k)
  <2>1. PICK z \in Place : Copy(m, z, 1) /\ Passes(z, x, HostIp[sent[m].to])
    BY <1>16 DEF Proceeds
  <2>2. P(z) > 0 /\ (P(z) > P(y) \/ z = y)
    BY <1>9, <1>16, <2>1 DEF Stays
  <2>3. P(x) = P(z) + 1
    BY <1>3, <1>5, <1>16, <2>1, <2>2
  <2>4. P(x) > P(y)
    BY <1>5, <2>2, <2>3
  <2> QED BY <1>3, <2>4
<1>17. CASE Old(m) /\ Old(n) /\ Proceeds(shift, m, x, j) /\ Proceeds(shift, n, y, k)
  <2>1. PICK z \in Place : Copy(m, z, 1) /\ Passes(z, x, HostIp[sent[m].to])
    BY <1>17 DEF Proceeds
  <2>2. PICK w \in Place : Copy(n, w, 1) /\ Passes(w, y, HostIp[sent[n].to])
    BY <1>17 DEF Proceeds
  <2>3. P(z) > 0 /\ P(w) > 0 /\ (P(z) > P(w) \/ z = w)
    BY <1>9, <1>17, <2>1, <2>2
  <2>4. P(x) = P(z) + 1 /\ P(y) = P(w) + 1
    BY <1>3, <1>5, <1>17, <2>1, <2>2, <2>3
  <2>5. P(x) > P(y) \/ x = y
    BY <1>4, <1>5, <2>3, <2>4
  <2>6. Last(y, k)'
    BY <1>17 DEF Proceeds
  <2> HIDE DEF P
  <2> QED BY <1>3, <1>11, <2>5, <2>6
<1> HIDE DEF Old, P, g, h
<1> QED BY <1>10, <1>12, <1>13, <1>14, <1>15, <1>16, <1>17

\* What a host displays it has read from its own pipe.
LEMMA ShownCopy ==
  ASSUME TypeOK, Routed, NEW h \in Host, Receives(h),
         NEW f, f = Head(inPipe[HostPort[h]]), f.dst = HostMac[h], IsKind(f, {"data"})
  PROVE  /\ f.body.id \in DOMAIN sent /\ sent[f.body.id].to = h
         /\ Inlet(h) \in Place /\ 1 \in DOMAIN Content(Inlet(h))
         /\ Copy(f.body.id, Inlet(h), 1)
<1>1. HostPort[h] \in Port /\ inPipe[HostPort[h]] # <<>> /\ inPipe[HostPort[h]] \in Seq(Frame)
  BY ReceivesEffect DEF TypeOK, RouterTypeOK
<1>2. Inlet(h) \in Place /\ Content(Inlet(h)) = inPipe[HostPort[h]]
  BY <1>1, PlaceParts DEF Inlet
<1>3. 1 \in DOMAIN Content(Inlet(h)) /\ Content(Inlet(h))[1] = f
  BY <1>1, <1>2, TakeFlows
<1>4. f.body.id \in DOMAIN sent /\ sent[f.body.id].to = h
  BY <1>2, <1>3, ContentInTransit DEF Routed
<1>5. f.dst \in MacAt(Inlet(h)[2])
  BY <1>1 DEF MacAt, Inlet
<1> QED BY <1>2, <1>3, <1>4, <1>5 DEF Copy

\* A message is displayed before the later ones of its sender.
LEMMA ShownBeforeStep ==
  ASSUME NEW Nth, OneWay(Nth), TypeOK, Routed, ShownRight, Tracked(Nth), Ordered(Nth),
         ShownBefore, [Next]_vars
  PROVE  ShownBefore'
<1> SUFFICES ASSUME NEW x \in Place, NEW k \in DOMAIN Content(x)', NEW n \in DOMAIN sent',
                    Copy(n, x, k)', NEW i \in DOMAIN shown'[sent'[n].to],
                    sent'[shown'[sent'[n].to][i]].from = sent'[n].from
             PROVE  shown'[sent'[n].to][i] < n
  BY DEF ShownBefore
<1> DEFINE h == sent'[n].to
           m == shown'[h][i]
           Old == n \in DOMAIN sent /\ sent'[n] = sent[n]
<1>1. h \in Host /\ shown \in [Host -> Seq(Nat)]
  BY DEF Copy, TypeOK
<1>2. ASSUME NEW shift \in Shift, Flow(shift)
      PROVE  \/ Old /\ Stays(shift, n, x, k)
             \/ Old /\ Proceeds(shift, n, x, k)
             \/ Starts(shift, n, x, k)
  BY <1>2, CopyOrigins
<1>3. CASE i \in DOMAIN shown[h] /\ m = shown[h][i]
  <2>1. m \in DOMAIN sent /\ sent'[m] = sent[m]
    BY <1>1, <1>3, SentKept DEF ShownRight
  <2>2. PICK shift \in Shift : Flow(shift)
    BY StepFlows
  <2>3. ASSUME NEW y \in Place, NEW a, Copy(n, y, a), Old
        PROVE  m < n
    <3>1. a \in DOMAIN Content(y)
      BY <2>3 DEF Copy
    <3> QED BY <1>3, <2>1, <2>3, <3>1 DEF ShownBefore
  <2>4. CASE Starts(shift, n, x, k)
    <3>1. m <= Len(sent) /\ m \in Nat /\ n = Len(sent) + 1 /\ Len(sent) \in Nat
      BY <2>1, <2>4, SentNumbers DEF Starts
    <3> QED BY <3>1
  <2>5. Stays(shift, n, x, k) => \E a : Copy(n, x, a)
    BY DEF Stays
  <2>6. Proceeds(shift, n, x, k) => \E y \in Place : Copy(n, y, 1)
    BY DEF Proceeds
  <2> HIDE DEF m, Old
  <2> QED BY <1>2, <2>2, <2>3, <2>4, <2>5, <2>6 DEF m
<1>4. ASSUME NEW g \in Host, Receives(g), ~(i \in DOMAIN shown[h] /\ m = shown[h][i])
      PROVE  m < n
  <2> DEFINE f == Head(inPipe[HostPort[g]])
             z == Inlet(g)
  <2>1. /\ f.dst = HostMac[g] /\ IsKind(f, {"data"}) /\ f.body.id \in Nat
        /\ shown' = [shown EXCEPT ![g] = Append(shown[g], f.body.id)]
        /\ UNCHANGED sent
    BY <1>4, ReceivesEffect
  <2>2. g = h /\ m = f.body.id
    <3> HIDE DEF f
    <3>1. g = h
      BY <1>1, <1>4, <2>1
    <3>2. shown'[h] = Append(shown[h], f.body.id) /\ shown[h] \in Seq(Nat)
      BY <1>1, <2>1, <3>1
    <3> QED BY <1>4, <2>1, <3>1, <3>2, NumberAdded
  <2>3. /\ m \in DOMAIN sent /\ sent[m].to = h
        /\ z \in Place /\ 1 \in DOMAIN Content(z) /\ Copy(m, z, 1)
    <3>1. /\ f.body.id \in DOMAIN sent /\ sent[f.body.id].to = g
          /\ z \in Place /\ 1 \in DOMAIN Content(z) /\ Copy(f.body.id, z, 1)
      BY <1>4, <2>1, ShownCopy
    <3> HIDE DEF f, z, m, h
    <3> QED BY <2>2, <3>1, SMTT(30)
  <2>4. n \in DOMAIN sent /\ sent[n].to = h /\ sent[n].from = sent[m].from /\ sent[m].from \in Host
    BY <2>1, <2>3, SentNumbers, ZenonT(40) DEF Message
  <2> DEFINE P(w) == Nth[sent[m].from][h][w]
  <2>5. /\ \A w \in Place : P(w) \in Nat
        /\ P(z) > 0
        /\ \A w \in Place : P(z) > 0 => P(w) <= P(z)
        /\ \A v, w \in Place : P(v) > 0 /\ Passes(v, w, HostIp[h]) => P(w) = P(v) + 1
    <3>1. P(z) > 0
      BY <2>3 DEF Tracked, At
    <3> QED BY <1>1, <2>2, <2>4, <3>1, OneWayUsed
  <2>6. One(z) \in Shift /\ Flow(One(z)) /\ One(z)[z] = 1 /\ \A w \in Place : One(z)[w] = 1 => w = z
    BY <1>4, <2>3, ReceivesFlows, ShiftTyped DEF One
  <2>7. ASSUME NEW a, Copy(n, x, a), n <= m
        PROVE  x = z /\ a <= 1
    <3>1. a \in DOMAIN Content(x) /\ Alike(n, m) /\ At(Nth, n, x) = P(x) /\ At(Nth, m, z) = P(z)
      BY <2>3, <2>4, <2>7, SMTT(30) DEF Copy, Alike, At
    <3>2. P(x) > P(z) \/ (x = z /\ a <= 1)
      BY <2>3, <2>4, <2>7, <3>1 DEF Ordered
    <3>3. P(x) \in Nat /\ P(z) \in Nat /\ P(x) <= P(z)
      BY <2>3, <2>5
    <3> HIDE DEF P, z
    <3> QED BY <3>2, <3>3
  <2>8. CASE Stays(One(z), n, x, k)
    <3>1. Copy(n, x, k + One(z)[x]) /\ One(z)[x] \in {0, 1} /\ k \in Nat \ {0}
      <4>1. Content(x)' \in Seq(Frame)
        BY TypeOKStep, PlaceParts, ZenonT(40) DEF Content, TypeOK, RouterTypeOK
      <4>2. k \in Nat \ {0}
        BY <4>1, Numbers
      <4> QED BY <2>8, <4>2 DEF Stays, One
    <3>2. ~(n <= m)
      BY <2>6, <2>7, <3>1
    <3> QED BY <2>3, <2>4, <3>2, SentNumbers
  <2>9. CASE Proceeds(One(z), n, x, k)
    <3>1. Passes(z, x, HostIp[h])
      BY <2>4, <2>6, <2>9 DEF Proceeds
    <3>2. P(x) = P(z) + 1 /\ P(x) <= P(z) /\ P(z) \in Nat
      BY <2>3, <2>5, <3>1
    <3> HIDE DEF P, z
    <3> QED BY <3>2
  <2>10. ~Starts(One(z), n, x, k)
    BY <2>1 DEF Starts
  <2> QED BY <1>2, <2>6, <2>8, <2>9, <2>10
<1>5. (\A g \in Host : ~Receives(g)) => i \in DOMAIN shown[h] /\ m = shown[h][i]
  BY ShownUnchanged
<1> HIDE DEF m, h
<1> QED BY <1>3, <1>4, <1>5 DEF m, h

-----------------------------------------------------------------------------
(* The network implements the datagram service.                            *)

\* Copies are on their ways in order, and what is displayed was ahead of them.
InLine(Nth) == Routed /\ ShownRight /\ Tracked(Nth) /\ Ordered(Nth) /\ ShownBefore

\* At first no message is on its way.
LEMMA InitInLine == ASSUME NEW Nth PROVE Init => InLine(Nth)
<1> SUFFICES ASSUME Init PROVE InLine(Nth)
  OBVIOUS
<1>1. DOMAIN <<>> = {}
  OBVIOUS
<1>2. InTransit = {}
  BY <1>1 DEF Init, InTransit
<1>3. DOMAIN sent = {} /\ \A h \in Host : DOMAIN shown[h] = {}
  BY <1>1 DEF Init
<1> QED BY <1>2, <1>3 DEF InLine, Routed, ShownRight, Tracked, Ordered, ShownBefore

\* Every step keeps messages in line.
LEMMA InLineStep ==
  ASSUME NEW Nth, OneWay(Nth)
  PROVE  TypeOK /\ InLine(Nth) /\ [Next]_vars => InLine(Nth)'
<1> SUFFICES ASSUME TypeOK, InLine(Nth), [Next]_vars
             PROVE  InLine(Nth)'
  OBVIOUS
<1>1. Routed /\ ShownRight /\ Tracked(Nth) /\ Ordered(Nth) /\ ShownBefore
  BY DEF InLine
<1>2. Routed' /\ ShownRight'
  BY <1>1, RoutedStep, ShownStep
<1>3. Tracked(Nth)' /\ Ordered(Nth)' /\ ShownBefore'
  BY <1>1, TrackedStep, OrderedStep, ShownBeforeStep
<1> QED BY <1>2, <1>3 DEF InLine

\* What of the messages the service knows.
Known(s) == [n \in DOMAIN s |-> [from |-> s[n].from, to |-> s[n].to]]

\* A new message is the last that the service knows.
LEMMA KnownAppended ==
  ASSUME NEW s \in Seq(Message), NEW m \in Message
  PROVE  Known(Append(s, m)) = Append(Known(s), [from |-> m.from, to |-> m.to])
<1> DEFINE Pair == [from : Host, to : Host \cup {NULL}]
           e == [from |-> m.from, to |-> m.to]
           t == Append(s, m)
<1>1. /\ t \in Seq(Message) /\ Len(t) = Len(s) + 1
      /\ \A k \in 1 .. Len(s) : t[k] = s[k]
      /\ t[Len(s) + 1] = m
  BY AppendProperties
<1>2. ASSUME NEW r \in Seq(Message)
      PROVE  /\ Known(r) \in Seq(Pair) /\ Len(Known(r)) = Len(r)
             /\ \A n \in 1 .. Len(r) : Known(r)[n] = [from |-> r[n].from, to |-> r[n].to]
  <2>1. DOMAIN r = 1 .. Len(r) /\ Len(r) \in Nat
    BY LenProperties
  <2>2. \A n \in 1 .. Len(r) : [from |-> r[n].from, to |-> r[n].to] \in Pair
    <3>1. \A n \in 1 .. Len(r) : r[n] \in Message
      BY ElementOfSeq
    <3> QED BY <3>1 DEF Message
  <2>3. Known(r) \in [1 .. Len(r) -> Pair]
    BY <2>1, <2>2 DEF Known
  <2>4. Known(r) \in Seq(Pair)
    <3> HIDE DEF Pair
    <3>1. [1 .. Len(r) -> Pair] \in {[1 .. n -> Pair] : n \in Nat}
      BY <2>1
    <3>2. Known(r) \in UNION {[1 .. n -> Pair] : n \in Nat}
      BY <2>3, <3>1, Zenon
    <3> QED BY <3>2, SeqDef, Zenon
  <2>5. Len(Known(r)) = Len(r)
    BY <2>1, <2>3, <2>4, LenProperties
  <2> QED BY <2>1, <2>4, <2>5 DEF Known
<1>3. e \in Pair
  BY DEF Message
<1> HIDE DEF t, e, Pair
<1>4. /\ Append(Known(s), e) \in Seq(Pair) /\ Len(Append(Known(s), e)) = Len(Known(s)) + 1
      /\ \A k \in 1 .. Len(Known(s)) : Append(Known(s), e)[k] = Known(s)[k]
      /\ Append(Known(s), e)[Len(Known(s)) + 1] = e
  BY <1>2, <1>3, AppendProperties
<1>5. /\ Known(s) \in Seq(Pair) /\ Len(Known(s)) = Len(s)
      /\ Known(t) \in Seq(Pair) /\ Len(Known(t)) = Len(s) + 1
      /\ Len(s) \in Nat
  BY <1>1, <1>2, LenProperties
<1>6. ASSUME NEW k \in 1 .. Len(s) + 1
      PROVE  Known(t)[k] = Append(Known(s), e)[k]
  <2>1. CASE k \in 1 .. Len(s)
    <3>1. Known(t)[k] = [from |-> t[k].from, to |-> t[k].to] /\ t[k] = s[k]
      BY <1>1, <1>2, <1>5, <2>1
    <3>2. Known(s)[k] = [from |-> s[k].from, to |-> s[k].to]
      BY <1>2, <2>1
    <3> QED BY <1>4, <1>5, <2>1, <3>1, <3>2
  <2>2. CASE k = Len(s) + 1
    <3>1. Known(t)[k] = [from |-> t[k].from, to |-> t[k].to] /\ t[k] = m
      BY <1>1, <1>2, <1>5, <2>2
    <3> QED BY <1>4, <1>5, <2>2, <3>1 DEF e
  <2> QED BY <1>5, <2>1, <2>2
<1>7. Known(t) = Append(Known(s), e)
  BY <1>4, <1>5, <1>6, SeqEqual
<1> QED BY <1>7 DEF t, e

\* The network starts where the service does.
LEMMA ServiceInit == Init => Service!Init
<1> SUFFICES ASSUME Init PROVE Service!Init
  OBVIOUS
<1>1. DOMAIN sent = {} /\ sent = <<>>
  BY DEF Init
<1>2. [n \in {} |-> [from |-> sent[n].from, to |-> sent[n].to]] = <<>>
  OBVIOUS
<1> QED BY <1>1, <1>2 DEF Init, Service!Init

\* Sending is submitting a message.
LEMMA RunSubmits ==
  ASSUME TypeOK, NEW h \in Host, Run(h)
  PROVE  Service!Submit(h) \/ UNCHANGED Service!vars
<1>1. shown' = shown
  BY RunEffect
<1>2. CASE UNCHANGED sent
  BY <1>1, <1>2 DEF Service!vars
<1>3. ASSUME NEW t \in Script[h] \ {NULL},
             sent' = Append(sent, [from |-> h, to |-> Addressee(t.to), len |-> t.len, ttl |-> t.ttl])
      PROVE  Service!Submit(h)
  <2> DEFINE m == [from |-> h, to |-> Addressee(t.to), len |-> t.len, ttl |-> t.ttl]
  <2>1. m \in Message /\ sent \in Seq(Message)
    BY AddresseeTyped, ScriptTyped DEF Message, TypeOK
  <2>2. m.from = h /\ m.to = Addressee(t.to) /\ Addressee(t.to) \in Host \cup {NULL}
    BY AddresseeTyped
  <2> HIDE DEF m
  <2>3. Known(sent') = Append(Known(sent), [from |-> h, to |-> Addressee(t.to)])
    BY <1>3, <2>1, <2>2, KnownAppended DEF m
  <2> QED BY <1>1, <2>2, <2>3 DEF Service!Submit, Known
<1> QED BY <1>2, <1>3, RunEffect DEF RunSends

\* Displaying a message is delivering it: to the right host, in order.
LEMMA ReceivesDelivers ==
  ASSUME NEW Nth, TypeOK, InLine(Nth), NEW h \in Host, Receives(h)
  PROVE  Service!Deliver(h) \/ UNCHANGED Service!vars
<1> DEFINE f == Head(inPipe[HostPort[h]])
           n == f.body.id
<1>1. UNCHANGED sent
  BY ReceivesEffect
<1>2. CASE UNCHANGED shown
  BY <1>1, <1>2 DEF Service!vars
<1>3. CASE /\ f.dst = HostMac[h] /\ IsKind(f, {"data"})
           /\ shown' = [shown EXCEPT ![h] = Append(shown[h], n)]
  <2>1. /\ n \in DOMAIN sent /\ sent[n].to = h
        /\ Inlet(h) \in Place /\ 1 \in DOMAIN Content(Inlet(h)) /\ Copy(n, Inlet(h), 1)
    BY <1>3, ShownCopy DEF InLine
  <2>2. ASSUME NEW k \in DOMAIN shown[h], sent[shown[h][k]].from = sent[n].from
        PROVE  shown[h][k] < n
    BY <2>1, <2>2 DEF InLine, ShownBefore
  <2>3. \A k \in DOMAIN shown[h] : shown[h][k] \in DOMAIN sent
    BY DEF InLine, ShownRight
  <2> HIDE DEF n, f
  <2>4. Service!InOrder(h, n)
    BY <2>1, <2>2, <2>3 DEF Service!InOrder
  <2> QED BY <1>1, <1>3, <2>1, <2>4 DEF Service!Deliver
<1> QED BY <1>2, <1>3, ReceivesEffect

\* A step of the network is a step of the service, or leaves it alone.
LEMMA ServiceStep ==
  ASSUME NEW Nth
  PROVE  TypeOK /\ InLine(Nth) /\ [Next]_vars => [Service!Next]_(Service!vars)
<1> SUFFICES ASSUME TypeOK, InLine(Nth), [Next]_vars
             PROVE  Service!Next \/ UNCHANGED Service!vars
  OBVIOUS
<1>1. CASE \E h \in Host : Run(h)
  BY <1>1, RunSubmits DEF Service!Next
<1>2. CASE \E h \in Host : Receives(h)
  BY <1>2, ReceivesDelivers DEF Service!Next
<1>3. CASE UNCHANGED <<sent, shown>>
  BY <1>3 DEF Service!vars
<1>4. \/ \E h \in Host : Run(h) \/ Receives(h)
      \/ UNCHANGED <<sent, shown>>
  BY DEF Next, SystemStep, RouterRuns, Relay, PlugBreaks, RouterStarts, RouterEnds, Stop,
         TapSends, vars, hostVars
<1> QED BY <1>1, <1>2, <1>3, <1>4

\* The network implements the datagram service: for every topology in which the
\* ways of messages are lines, whatever hosts send, routers lose or forget when they
\* are restarted, and kernels send, no message is displayed elsewhere than at its
\* addressee, or twice, or before an earlier one of the same sender.
THEOREM DatagramImplemented ==
  ASSUME NEW Nth, OneWay(Nth)
  PROVE  Spec => ImplementsDatagram
<1>1. Init => InLine(Nth) /\ Service!Init
  BY InitInLine, ServiceInit
<1>2. TypeOK /\ InLine(Nth) /\ [Next]_vars => InLine(Nth)'
  BY InLineStep
<1>3. TypeOK /\ InLine(Nth) /\ [Next]_vars => [Service!Next]_(Service!vars)
  BY ServiceStep
<1> QED BY <1>1, <1>2, <1>3, TypeCorrect, PTL DEF Spec, ImplementsDatagram, Service!Spec

-----------------------------------------------------------------------------
(* Nothing is lost on complete ways.                                       *)

\* No frame but the first leaves a pipe that is read, and none a pipe that is written.
LEMMA ElementsKept ==
  ASSUME NEW S, NEW s \in Seq(S)
  PROVE  /\ s # <<>> => Elements(s) \subseteq {Head(s)} \cup Elements(Tail(s))
         /\ \A e \in S : Elements(s) \cup {e} \subseteq Elements(Append(s, e))
<1>0. DOMAIN s = 1 .. Len(s) /\ Len(s) \in Nat
  BY LenProperties
<1>1. ASSUME s # <<>>, NEW k \in DOMAIN s
      PROVE  s[k] \in {Head(s)} \cup Elements(Tail(s))
  <2>1. /\ Tail(s) \in Seq(S) /\ Len(Tail(s)) = Len(s) - 1 /\ Head(s) = s[1]
        /\ \A j \in 1 .. Len(Tail(s)) : Tail(s)[j] = s[j + 1]
    BY <1>1, HeadTailProperties
  <2>2. DOMAIN Tail(s) = 1 .. Len(Tail(s))
    BY <2>1, LenProperties
  <2>3. CASE k = 1
    BY <2>1, <2>3
  <2>4. CASE k # 1
    <3>1. k - 1 \in 1 .. Len(Tail(s)) /\ (k - 1) + 1 = k
      BY <1>0, <1>1, <2>1, <2>4
    <3>2. Tail(s)[k - 1] = s[k]
      BY <2>1, <3>1
    <3> QED BY <2>2, <3>1, <3>2 DEF Elements
  <2> QED BY <2>3, <2>4
<1>2. ASSUME NEW e \in S
      PROVE  Elements(s) \cup {e} \subseteq Elements(Append(s, e))
  <2>1. /\ Append(s, e) \in Seq(S) /\ Len(Append(s, e)) = Len(s) + 1
        /\ \A k \in 1 .. Len(s) : Append(s, e)[k] = s[k]
        /\ Append(s, e)[Len(s) + 1] = e
    BY AppendProperties
  <2>2. DOMAIN Append(s, e) = 1 .. Len(s) + 1
    BY <2>1, LenProperties
  <2>3. Len(s) + 1 \in 1 .. Len(s) + 1 /\ 1 .. Len(s) \subseteq 1 .. Len(s) + 1
    BY <1>0
  <2> QED BY <1>0, <2>1, <2>2, <2>3 DEF Elements
<1> QED BY <1>1, <1>2 DEF Elements

\* Complete of two hosts.
LEMMA CompleteUsed ==
  ASSUME NEW Nth, Complete(Nth), NEW g \in Host, NEW h \in Host
  PROVE  /\ \A s \in Script[g] \ {NULL} :
                s.to = HostIp[h] => s.len >= 46 /\ 2 * s.ttl >= Nth[g][h][Inlet(h)]
         /\ \A p \in Port : \A m \in Addressed(p, HostIp[h]) :
                Nth[g][h][<<"out", p>>] > 0 =>
                    \E q \in Port \ {p} : Lan[q] = Lan[p] /\ m \in MacAt(q)
  BY DEF Complete

\* Each Ethernet address of a router's or a host's port is its own.
LEMMA StationMac ==
  /\ \A r \in Router : \A i \in DOMAIN interfaces[r] :
        MacAt(interfaces[r][i].port) = {interfaces[r][i].eth}
  /\ \A h \in Host : MacAt(HostPort[h]) = {HostMac[h]}
<1>1. ASSUME NEW r \in Router, NEW i \in DOMAIN interfaces[r]
      PROVE  MacAt(interfaces[r][i].port) = {interfaces[r][i].eth}
  <2>1. \A h \in Host : HostPort[h] # interfaces[r][i].port
    BY HostsApartAssumption DEF PortsOf
  <2>2. \A s \in Router : \A j \in DOMAIN interfaces[s] :
          interfaces[s][j].port = interfaces[r][i].port => s = r /\ j = i
    BY PipesApart
  <2> QED BY <2>1, <2>2 DEF MacAt
<1>2. ASSUME NEW h \in Host
      PROVE  MacAt(HostPort[h]) = {HostMac[h]}
  <2>1. \A g \in Host : HostPort[g] = HostPort[h] => g = h
    BY HostsApartAssumption
  <2>2. \A s \in Router : \A j \in DOMAIN interfaces[s] : interfaces[s][j].port # HostPort[h]
    BY HostsApartAssumption DEF PortsOf
  <2> QED BY <2>1, <2>2 DEF MacAt
<1> QED BY <1>1, <1>2

\* One of them that is for a running host or router is on the network.
LEMMA StationAttached ==
  ASSUME NEW q \in Port, NEW m \in MacAt(q),
         \A r \in Router : alive[r], \A h \in Host : m = HostMac[h] => up[h]
  PROVE  q \in Attached
<1>1. CASE \E h \in Host : HostPort[h] = q /\ m = HostMac[h]
  BY <1>1 DEF Attached
<1>2. CASE \E r \in Router : q \in PortsOf(r)
  BY <1>2 DEF Attached
<1> QED BY <1>1, <1>2 DEF MacAt, PortsOf

\* Some frame can still bring message n to its addressee.
Carried(Nth, n) == \E x \in Place : \E f \in Elements(Content(x)) : Live(Nth, n, x, f)

Account(Nth, n) ==
    /\ sent[n].to \in Host /\ up[sent[n].to]
    /\ \A r \in Router : alive[r]
    /\ Carried(Nth, n)

\* Accounted speaks of one message at a time.
LEMMA AccountedParts ==
  ASSUME NEW Nth
  PROVE  Accounted(Nth) <=> \A n \in due : Account(Nth, n)
  BY DEF Accounted, Account, Carried, Elements

\* What is known of such a frame.
LEMMA LiveParts ==
  ASSUME NEW Nth, OneWay(Nth), TypeOK, Routed, Tracked(Nth),
         NEW n \in DOMAIN sent, sent[n].to \in Host,
         NEW x \in Place, NEW f \in Elements(Content(x)), Live(Nth, n, x, f)
  PROVE  /\ f \in Frame /\ f.type = "ip" /\ f.body \in Packet
         /\ f.body.dst = HostIp[sent[n].to]
         /\ \A h \in Host : f.dst = HostMac[h] => sent[n].to = h
         /\ sent[n].from \in Host
         /\ \A y \in Place : At(Nth, n, y) \in Nat
         /\ At(Nth, n, x) > 0
         /\ \A y \in Place : Passes(x, y, HostIp[sent[n].to]) => At(Nth, n, y) = At(Nth, n, x) + 1
         /\ x[1] = "out" => f.dst \in Addressed(x[2], HostIp[sent[n].to])
         /\ \A h \in Host : x = Outlet(h) => sent[n].from = h
<1>1. PICK k \in DOMAIN Content(x) : f = Content(x)[k]
  BY DEF Elements
<1>2. Copy(n, x, k)
  BY <1>1 DEF Live, Copy
<1>3. f \in Frame
  <2>1. Content(x) \in Seq(Frame)
    BY PlaceParts DEF Content, TypeOK, RouterTypeOK
  <2> QED BY <1>1, <2>1, Numbers
<1>4. f.type = "ip" /\ f.body \in Packet /\ f.body.id = n
  BY <1>3, FrameParts DEF Live, IsKind
<1>5. /\ sent[n].to = Addressee(f.body.dst)
      /\ \A h \in Host : f.dst = HostMac[h] => sent[n].to = h
  BY <1>1, <1>4, ContentInTransit DEF Routed, Live
<1>6. f.body.dst = HostIp[sent[n].to]
  BY <1>5, AddresseeIp
<1>7. sent[n].from \in Host
  BY SentNumbers DEF Message
<1>8. /\ At(Nth, n, x) > 0
      /\ x[1] = "out" => f.dst \in Addressed(x[2], HostIp[sent[n].to])
      /\ \A h \in Host : x = Outlet(h) => sent[n].from = h
  BY <1>1, <1>2 DEF Tracked
<1>9. /\ \A y \in Place : At(Nth, n, y) \in Nat
      /\ \A y \in Place : Passes(x, y, HostIp[sent[n].to]) => At(Nth, n, y) = At(Nth, n, x) + 1
  BY <1>7, <1>8, OneWayUsed DEF At
<1> QED BY <1>3, <1>4, <1>5, <1>6, <1>7, <1>8, <1>9

\* It stays one while messages keep their numbers.
LEMMA LiveKept ==
  ASSUME NEW Nth, NEW n, sent'[n] = sent[n], NEW x, NEW f, Live(Nth, n, x, f)
  PROVE  Live(Nth, n, x, f)'
<1>1. MacAt(x[2])' = MacAt(x[2])
  BY DEF MacAt, interfaces
<1>2. At(Nth, n, x)' = At(Nth, n, x)
      /\ At(Nth, n, Inlet(sent[n].to))' = At(Nth, n, Inlet(sent[n].to))
  BY DEF At, Inlet
<1>3. IsKind(f, {"data"})' = IsKind(f, {"data"})
  BY DEF IsKind
<1> QED BY <1>1, <1>2, <1>3 DEF Live

\* A message is carried on by a frame that stays where it is.
LEMMA CarriedBy ==
  ASSUME NEW Nth, NEW n, NEW x \in Place, NEW f, Live(Nth, n, x, f)', f \in Elements(Content(x)')
  PROVE  Carried(Nth, n)'
  BY DEF Carried, Elements

\* The switch brings the frame of a message to the station it is for, or excuses it.
LEMMA RelayAccounts ==
  ASSUME NEW Nth, OneWay(Nth), Complete(Nth), TypeOK, Routed, Tracked(Nth), Accounted(Nth),
         NEW p \in Port, Relay(p), NEW n \in due'
  PROVE  Account(Nth, n)'
<1> DEFINE e == Head(outPipe[p])
           y == <<"out", p>>
           ip == HostIp[sent[n].to]
<1>t. inPipe \in [Port -> Seq(Frame)] /\ outPipe \in [Port -> Seq(Frame)] /\ due \subseteq DOMAIN sent
  BY DEF TypeOK, RouterTypeOK
<1>1. /\ e \in Frame /\ outPipe[p] # <<>>
      /\ inPipe' = Repeated(p, e)
      /\ outPipe' = [outPipe EXCEPT ![p] = Tail(outPipe[p])]
      /\ due' = due \ Overrun(p, e)
      /\ UNCHANGED <<alive, up, sent>>
  BY RelayEffect DEF TypeOK, Relay
<1>2. n \in due /\ n \notin Overrun(p, e) /\ n \in DOMAIN sent /\ Account(Nth, n)
  BY <1>t, <1>1, AccountedParts
<1> SUFFICES Carried(Nth, n)'
  BY <1>1, <1>2 DEF Account
<1>3a. PICK x \in Place : \E f \in Elements(Content(x)) : Live(Nth, n, x, f)
  BY <1>2 DEF Account, Carried
<1>3. PICK f \in Elements(Content(x)) : Live(Nth, n, x, f)
  BY <1>3a
<1>4. sent[n].to \in Host /\ Live(Nth, n, x, f)'
  BY <1>1, <1>2, <1>3, LiveKept DEF Account
<1>5. CASE f \in Elements(Content(x)')
  BY <1>4, <1>5, CarriedBy
<1>6. CASE f \notin Elements(Content(x)')
  <2>1. x[2] \in Port /\ x = <<x[1], x[2]>> /\ x[1] \in {"in", "out"}
    BY PlaceParts
  <2>2. x[1] = "out"
    <3> SUFFICES ASSUME x[1] = "in" PROVE f \in Elements(Content(x)')
      BY <1>6, <2>1
    <3>1. Content(x) = inPipe[x[2]] /\ Content(x)' = inPipe'[x[2]]
      BY DEF Content
    <3> HIDE DEF e
    <3>2. inPipe'[x[2]] \in {inPipe[x[2]], Append(inPipe[x[2]], e)}
      BY <1>1, <2>1 DEF Repeated
    <3>3. inPipe[x[2]] \in Seq(Frame)
      BY <1>t, <2>1
    <3>4. Elements(inPipe[x[2]]) \subseteq Elements(Append(inPipe[x[2]], e))
      BY <1>1, <3>3, ElementsKept
    <3> QED BY <3>1, <3>2, <3>4
  <2>3. x = y /\ f = e
    <3>1. Content(x) = outPipe[x[2]] /\ Content(x)' = outPipe'[x[2]]
      BY <2>2 DEF Content
    <3>2. x[2] = p
      BY <1>t, <1>1, <1>6, <2>1, <3>1
    <3>3. outPipe[p] \in Seq(Frame) /\ outPipe'[p] = Tail(outPipe[p])
      BY <1>t, <1>1
    <3>4. f \in Elements(outPipe[p]) /\ f \notin Elements(Tail(outPipe[p]))
      BY <1>6, <3>1, <3>2, <3>3
    <3>5. f = e
      BY <1>1, <3>3, <3>4, ElementsKept
    <3> QED BY <2>1, <2>2, <3>2, <3>5
  <2> HIDE DEF e, y
  <2>4. y \in Place /\ y[1] = "out" /\ y[2] = p
    BY PlaceParts DEF y
  <2>5. /\ \A h \in Host : e.dst = HostMac[h] => sent[n].to = h
        /\ e.dst \in Addressed(p, ip)
        /\ At(Nth, n, y) > 0 /\ At(Nth, n, y) \in Nat
        /\ sent[n].from \in Host
        /\ \A z \in Place : Passes(y, z, ip) => At(Nth, n, z) = At(Nth, n, y) + 1
        /\ \A z \in Place : At(Nth, n, z) \in Nat
        /\ e.body \in Packet
    BY <1>2, <1>3, <1>4, <2>3, <2>4, LiveParts
  <2>6. PICK q \in Port \ {p} : Lan[q] = Lan[p] /\ e.dst \in MacAt(q)
    <3>1. Nth[sent[n].from][sent[n].to][<<"out", p>>] > 0
      BY <2>5 DEF At, y
    <3>2. ASSUME NEW g \in Host, NEW h \in Host, Nth[g][h][<<"out", p>>] > 0,
                 NEW m \in Addressed(p, HostIp[h])
          PROVE  \E q \in Port \ {p} : Lan[q] = Lan[p] /\ m \in MacAt(q)
      BY <3>2, CompleteUsed
    <3> QED BY <1>4, <2>5, <3>1, <3>2, Zenon
  <2>7. q \in Hearers(p)
    <3>1. \A h \in Host : e.dst = HostMac[h] => up[h]
      BY <1>2, <2>5 DEF Account
    <3>2. q \in Attached
      BY <1>2, <2>6, <3>1, StationAttached DEF Account
    <3> QED BY <2>6, <3>2 DEF Hearers
  <2>8. IsKind(e, {"data"}) /\ e.body.id = n
    BY <1>3, <2>3 DEF Live
  <2>9. ~Full(q)
    BY <1>2, <2>6, <2>7, <2>8 DEF Overrun
  <2>10. inPipe'[q] = Append(inPipe[q], e) /\ inPipe[q] \in Seq(Frame)
    BY <1>t, <1>1, <2>7, <2>9 DEF Repeated
  <2>11. e \in Elements(inPipe'[q])
    BY <1>1, <2>10, ElementsKept
  <2> DEFINE z == <<"in", q>>
  <2>12. z \in Place /\ z[1] = "in" /\ z[2] = q /\ Content(z)' = inPipe'[q]
    BY PlaceParts
  <2> HIDE DEF z
  <2>13. Passes(y, z, ip)
    BY <2>4, <2>5, <2>6, <2>12 DEF Passes
  <2>14. Live(Nth, n, z, e)
    <3>1. /\ e.len >= 46 /\ e.body.chk # "bad"
          /\ 2 * e.body.ttl + At(Nth, n, y) >= At(Nth, n, Inlet(sent[n].to)) + 1
      BY <1>3, <2>3, <2>4 DEF Live
    <3>2. At(Nth, n, z) = At(Nth, n, y) + 1
      BY <2>5, <2>12, <2>13
    <3>3. e.body.ttl \in Int /\ At(Nth, n, Inlet(sent[n].to)) \in Nat
      <4>1. Inlet(sent[n].to) \in Place
        BY <1>4, HostsAssumption, PlaceParts DEF Inlet
      <4> QED BY <2>5, <4>1, PacketParts, SMTT(30) DEF Byte
    <3>4. 2 * e.body.ttl + At(Nth, n, z) >= At(Nth, n, Inlet(sent[n].to)) + 2
      BY <2>5, <3>1, <3>2, <3>3
    <3> QED BY <2>6, <2>8, <2>12, <3>1, <3>4 DEF Live
  <2> QED BY <1>1, <2>11, <2>12, <2>14, CarriedBy, LiveKept
<1> QED BY <1>5, <1>6

\* What a router sends leaves the frames that wait there.
LEMMA SendsKeeps ==
  ASSUME TypeOK, NEW r \in Router, Sends(r), NEW q \in Port
  PROVE  Elements(outPipe[q]) \subseteq Elements(outPipe'[q])
<1>t. outPipe \in [Port -> Seq(Frame)]
  BY DEF TypeOK, RouterTypeOK
<1>1. ASSUME NEW i \in DOMAIN interfaces[r], NEW g \in Frame, Send(interfaces[r][i].port, g)
      PROVE  Elements(outPipe[q]) \subseteq Elements(outPipe'[q])
  <2>1. outPipe'[q] \in {outPipe[q], Append(outPipe[q], g)}
    BY <1>t, <1>1 DEF Send
  <2> QED BY <1>t, <2>1, ElementsKept
<1> QED BY <1>1 DEF Sends

\* A router that reads a frame that can still bring a message to its addressee takes the
\* packet for one to forward, and forwards it.
LEMMA LiveForwarded ==
  ASSUME TypeOK, NEW r \in Router, Handle(r), NEW e, e = Arrived(r), e \in Frame,
         e.type = "ip", e.len >= 46, e.body.chk # "bad", e.body.ttl >= 2,
         e.dst \in MacAt(Pipe(r)), NEW q, Onward(r, e.body.dst, q)
  PROVE  Send(q, ForwardedFrame(r, LookupRoute(r, e.body.dst), e))
<1>1. Receive(r) /\ Turn(r) \in DOMAIN interfaces[r] /\ Pipe(r) = interfaces[r][Turn(r)].port
  BY HandlerSends, ArrivedTyped DEF TypeOK
<1>2. e.dst = interfaces[r][Turn(r)].eth
  BY <1>1, StationMac
<1>3. e.body.ttl # 0 /\ e.body \in Packet
  <2>1. e.body \in Packet
    BY FrameParts
  <2> QED BY <2>1, PacketParts DEF Byte
<1>4. ForMe(r, Turn(r), e) /\ ~Local(r, e.body.dst)
  BY <1>2 DEF ForMe, Onward
<1>5. IsTransit(r) /\ ~IsArpRequest(r) /\ IsIpPacket(r) /\ ~IsSegment(r)
  BY <1>3, <1>4 DEF IsTransit, IsArpRequest, IsIpPacket, IsSegment
<1>6. RoutePacket(r)
  BY <1>5 DEF Handle, Ignore, AnswerArp, Establish, Acknowledge, Transit
<1> DEFINE p == Aged(e.body)
           route == LookupRoute(r, e.body.dst)
<1>7. p.dst = e.body.dst /\ p.ttl # 0
  <2>1. p.ttl = (e.body.ttl - 1) % 256 /\ p.dst = e.body.dst
    BY <1>3 DEF Aged, Packet
  <2>2. e.body.ttl \in 2 .. 255
    BY <1>3, PacketParts DEF Byte
  <2>3. \A t \in 2 .. 255 : (t - 1) % 256 # 0
    OBVIOUS
  <2> QED BY <2>1, <2>2, <2>3
<1>8. route # NULL /\ NextHop(r, route, e.body.dst) # NULL /\ q = interfaces[r][route.iface].port
  BY DEF Onward
<1> HIDE DEF p, route
<1>9. LookupRoute(r, p.dst) = route
  BY <1>7 DEF route
<1> QED BY <1>6, <1>7, <1>8, <1>9 DEF RoutePacket, p, route

\* A router forwards a message that is due, or a full pipe excuses it.
LEMMA HandleAccounts ==
  ASSUME NEW Nth, OneWay(Nth), Complete(Nth), TypeOK, Routed, Tracked(Nth), Accounted(Nth),
         NEW r \in Router, Handle(r), UNCHANGED hostVars, NEW n \in due'
  PROVE  Account(Nth, n)'
<1> DEFINE e == Arrived(r)
           y == <<"in", Pipe(r)>>
           ip == HostIp[sent[n].to]
<1>t. /\ inPipe \in [Port -> Seq(Frame)] /\ outPipe \in [Port -> Seq(Frame)]
      /\ due \subseteq DOMAIN sent
  BY DEF TypeOK, RouterTypeOK
<1>0. Receive(r) /\ Sends(r) /\ UNCHANGED alive
  BY HandlerSends DEF TypeOK
<1>1. /\ e \in Frame /\ Turn(r) \in DOMAIN interfaces[r]
      /\ Pipe(r) = interfaces[r][Turn(r)].port /\ Pipe(r) \in Port /\ Pipe(r) \in PortsOf(r)
      /\ inPipe[Pipe(r)] # <<>> /\ e = Head(inPipe[Pipe(r)])
      /\ inPipe' = [inPipe EXCEPT ![Pipe(r)] = Tail(inPipe[Pipe(r)])]
      /\ UNCHANGED <<alive, up, sent, due>>
  BY <1>0, ArrivedTyped DEF Receive, Arrived, PortsOf, TypeOK, hostVars
<1>2. n \in due /\ n \in DOMAIN sent /\ Account(Nth, n)
  BY <1>t, <1>1, AccountedParts
<1> SUFFICES Carried(Nth, n)'
  BY <1>1, <1>2 DEF Account
<1>3a. PICK x \in Place : \E f \in Elements(Content(x)) : Live(Nth, n, x, f)
  BY <1>2 DEF Account, Carried
<1>3. PICK f \in Elements(Content(x)) : Live(Nth, n, x, f)
  BY <1>3a
<1>4. sent[n].to \in Host /\ Live(Nth, n, x, f)'
  BY <1>1, <1>2, <1>3, LiveKept DEF Account
<1>5. CASE f \in Elements(Content(x)')
  BY <1>4, <1>5, CarriedBy
<1>6. CASE f \notin Elements(Content(x)')
  <2>1. x[2] \in Port /\ x = <<x[1], x[2]>> /\ x[1] \in {"in", "out"}
    BY PlaceParts
  <2>2. x[1] = "in"
    <3> SUFFICES ASSUME x[1] = "out" PROVE f \in Elements(Content(x)')
      BY <1>6, <2>1
    <3>1. Content(x) = outPipe[x[2]] /\ Content(x)' = outPipe'[x[2]]
      BY DEF Content
    <3> QED BY <1>0, <2>1, <3>1, SendsKeeps
  <2>3. x = y /\ f = e
    <3>1. Content(x) = inPipe[x[2]] /\ Content(x)' = inPipe'[x[2]]
      BY <2>2 DEF Content
    <3>2. x[2] = Pipe(r)
      BY <1>t, <1>1, <1>6, <2>1, <3>1
    <3>3. inPipe[Pipe(r)] \in Seq(Frame) /\ inPipe'[Pipe(r)] = Tail(inPipe[Pipe(r)])
      BY <1>t, <1>1
    <3>4. f \in Elements(inPipe[Pipe(r)]) /\ f \notin Elements(Tail(inPipe[Pipe(r)]))
      BY <1>6, <3>1, <3>2, <3>3
    <3>5. f = e
      BY <1>1, <3>3, <3>4, ElementsKept
    <3> QED BY <2>1, <2>2, <3>2, <3>5
  <2> HIDE DEF e, y
  <2>4. y \in Place /\ y[1] = "in" /\ y[2] = Pipe(r)
    BY <1>1, PlaceParts DEF y
  <2>5. /\ e.type = "ip" /\ e.body \in Packet /\ e.body.dst = ip
        /\ At(Nth, n, y) > 0 /\ At(Nth, n, y) \in Nat
        /\ sent[n].from \in Host
        /\ \A z \in Place : Passes(y, z, ip) => At(Nth, n, z) = At(Nth, n, y) + 1
        /\ \A z \in Place : At(Nth, n, z) \in Nat
    BY <1>2, <1>3, <1>4, <2>3, <2>4, LiveParts
  <2> DEFINE last == At(Nth, n, Inlet(sent[n].to))
  <2>6. /\ IsKind(e, {"data"}) /\ e.body.id = n /\ e.len >= 46 /\ e.body.chk # "bad"
        /\ e.dst \in MacAt(Pipe(r))
        /\ 2 * e.body.ttl + At(Nth, n, y) >= last + 2
    BY <1>3, <2>3, <2>4 DEF Live
  <2>7. /\ \E q \in Port : Onward(r, ip, q)
        /\ At(Nth, n, y) < last
    <3>1. Nth[sent[n].from][sent[n].to][<<"in", Pipe(r)>>] > 0
      BY <2>5 DEF At, y
    <3> QED BY <1>1, <1>4, <2>5, <3>1 DEF Complete, At, y
  <2>8. PICK q \in Port : Onward(r, ip, q)
    BY <2>7
  <2>9. last \in Nat /\ e.body.ttl \in 0 .. 255 /\ e.body.ttl >= 2
    <3>1. Inlet(sent[n].to) \in Place
      BY <1>4, HostsAssumption, PlaceParts DEF Inlet
    <3>2. last \in Nat
      BY <2>5, <3>1
    <3>3. e.body.ttl \in 0 .. 255
      BY <2>5, PacketParts DEF Byte
    <3> HIDE DEF last
    <3> QED BY <2>5, <2>6, <2>7, <3>2, <3>3
  <2> DEFINE g == ForwardedFrame(r, LookupRoute(r, ip), e)
             z == <<"out", q>>
  <2>10. Send(q, g)
    <3>1. e = Arrived(r) /\ Onward(r, e.body.dst, q)
      BY <2>5, <2>8 DEF e
    <3>2. Send(q, ForwardedFrame(r, LookupRoute(r, e.body.dst), e))
      BY <1>1, <2>5, <2>6, <2>9, <3>1, LiveForwarded
    <3> QED BY <2>5, <3>2
  <2>11. /\ g.type = "ip" /\ g.body = Aged(e.body) /\ g.len >= 46
         /\ g \in Frame
    <3>1. g.type = "ip" /\ g.body = Aged(e.body)
      BY DEF ForwardedFrame, ComposeEthernetFrame
    <3>2. g.len = Maximum(64, e.len) /\ e.len \in Nat
      BY <1>1, <2>5, ForwardedLength, FrameParts
    <3>3. g \in Frame
      BY <1>1, <2>5, <2>8, LookupRouteResult, ForwardedTyped DEF Onward
    <3> QED BY <3>1, <3>2, <3>3 DEF Maximum
  <2>12. /\ g.body.kind = "data" /\ g.body.id = n /\ g.body.chk # "bad"
         /\ g.body.ttl = e.body.ttl - 1
    <3>1. /\ Aged(e.body).kind = e.body.kind /\ Aged(e.body).id = e.body.id
          /\ Aged(e.body).chk = "swapped"
          /\ Aged(e.body).ttl = (e.body.ttl - 1) % 256
      BY <2>5 DEF Aged, Packet
    <3>2. \A t \in 0 .. 255 : t >= 2 => (t - 1) % 256 = t - 1
      OBVIOUS
    <3> HIDE DEF g
    <3> QED BY <2>6, <2>9, <2>11, <3>1, <3>2 DEF IsKind
  <2>13. g \in Elements(Content(z)') /\ z \in Place /\ z[1] = "out" /\ z[2] = q
    <3>1. outPipe'[q] = Append(outPipe[q], g) /\ outPipe[q] \in Seq(Frame)
      BY <1>t, <2>10 DEF Send
    <3>2. z \in Place /\ Content(z)' = outPipe'[q]
      BY PlaceParts
    <3> HIDE DEF g, z
    <3>3. g \in Elements(outPipe'[q])
      BY <2>11, <3>1, ElementsKept
    <3> QED BY <3>2, <3>3 DEF z
  <2>14. Passes(y, z, ip)
    BY <1>1, <2>4, <2>8 DEF Passes
  <2>15. Live(Nth, n, z, g)
    <3> HIDE DEF z, g
    <3>1. At(Nth, n, z) = At(Nth, n, y) + 1 /\ At(Nth, n, y) \in Nat
      BY <2>5, <2>13, <2>14
    <3>2. 2 * g.body.ttl + At(Nth, n, z) >= last + 1
      <4> HIDE DEF last
      <4> QED BY <2>6, <2>9, <2>12, <3>1
    <3> QED BY <2>11, <2>12, <2>13, <3>2 DEF Live, IsKind
  <2> HIDE DEF z, g
  <2> QED BY <1>1, <2>13, <2>15, CarriedBy, LiveKept
<1> QED BY <1>5, <1>6

\* A host displays what it reads for it.
LEMMA ReceivesAccounts ==
  ASSUME NEW Nth, OneWay(Nth), TypeOK, Routed, Tracked(Nth), Accounted(Nth),
         NEW h \in Host, Receives(h), NEW n \in due'
  PROVE  Account(Nth, n)'
<1> DEFINE p == HostPort[h]
           e == Head(inPipe[p])
<1>t. inPipe \in [Port -> Seq(Frame)] /\ due \subseteq DOMAIN sent
  BY DEF TypeOK, RouterTypeOK
<1>1. /\ p \in Port /\ inPipe[p] # <<>>
      /\ inPipe' = [inPipe EXCEPT ![p] = Tail(inPipe[p])]
      /\ UNCHANGED <<outPipe, alive, up, sent>>
      /\ \/ /\ e.dst = HostMac[h] /\ IsKind(e, {"data"})
            /\ due' = due \ {m \in due : sent[m].to = h /\ e.body.id = m}
         \/ /\ e.dst = HostMac[h] => ~IsKind(e, {"data"})
            /\ due' = due
  BY ReceivesEffect
<1>2. n \in due /\ n \in DOMAIN sent /\ Account(Nth, n)
  BY <1>t, <1>1, AccountedParts
<1> SUFFICES Carried(Nth, n)'
  BY <1>1, <1>2 DEF Account
<1>3a. PICK x \in Place : \E f \in Elements(Content(x)) : Live(Nth, n, x, f)
  BY <1>2 DEF Account, Carried
<1>3. PICK f \in Elements(Content(x)) : Live(Nth, n, x, f)
  BY <1>3a
<1>4. sent[n].to \in Host /\ Live(Nth, n, x, f)'
  BY <1>1, <1>2, <1>3, LiveKept DEF Account
<1>5. CASE f \in Elements(Content(x)')
  BY <1>4, <1>5, CarriedBy
<1>6. CASE f \notin Elements(Content(x)')
  <2>1. x[2] \in Port /\ x = <<x[1], x[2]>> /\ x[1] \in {"in", "out"}
    BY PlaceParts
  <2>2. x[1] = "in"
    BY <1>1, <1>6, <2>1 DEF Content
  <2>3. x[2] = p /\ f = e
    <3>1. Content(x) = inPipe[x[2]] /\ Content(x)' = inPipe'[x[2]]
      BY <2>2 DEF Content
    <3>2. x[2] = p
      BY <1>t, <1>1, <1>6, <2>1, <3>1
    <3>3. inPipe[p] \in Seq(Frame) /\ inPipe'[p] = Tail(inPipe[p])
      BY <1>t, <1>1
    <3>4. f \in Elements(inPipe[p]) /\ f \notin Elements(Tail(inPipe[p]))
      BY <1>6, <3>1, <3>2, <3>3
    <3> QED BY <1>1, <3>2, <3>3, <3>4, ElementsKept
  <2> HIDE DEF e
  <2>4. e.dst = HostMac[h] /\ IsKind(e, {"data"}) /\ e.body.id = n
    BY <1>3, <2>2, <2>3, StationMac DEF Live
  <2>5. sent[n].to = h
    BY <1>2, <1>3, <1>4, <2>3, <2>4, LiveParts
  <2> QED BY <1>1, <1>2, <2>4, <2>5
<1> QED BY <1>5, <1>6

\* A message that was due is accounted for as long as the frames stay, and so do the
\* processes that matter.
LEMMA StillAccounts ==
  ASSUME NEW Nth, OneWay(Nth), TypeOK, Routed, Tracked(Nth), Accounted(Nth),
         NEW n \in due, sent'[n] = sent[n], up'[sent[n].to], UNCHANGED alive,
         \A x \in Place : \A f \in Elements(Content(x)) :
             Live(Nth, n, x, f) => f \in Elements(Content(x)')
  PROVE  Account(Nth, n)'
<1>1. Account(Nth, n)
  BY AccountedParts
<1>2. PICK x \in Place : \E f \in Elements(Content(x)) : Live(Nth, n, x, f)
  BY <1>1 DEF Account, Carried
<1>3. PICK f \in Elements(Content(x)) : Live(Nth, n, x, f)
  BY <1>2
<1>4. Live(Nth, n, x, f)' /\ f \in Elements(Content(x)')
  BY <1>3, LiveKept
<1>5. Carried(Nth, n)'
  BY <1>4, CarriedBy
<1> QED BY <1>1, <1>5 DEF Account

\* A message that is due was sent to a host that runs.
LEMMA DueTyped ==
  ASSUME NEW Nth, TypeOK, Accounted(Nth), NEW n \in due
  PROVE  n \in DOMAIN sent /\ sent[n] \in Message /\ sent[n].to \in Host /\ up[sent[n].to]
  BY SentNumbers DEF TypeOK, Accounted

\* A host sends its message towards the addressee.
LEMMA RunAccounts ==
  ASSUME NEW Nth, OneWay(Nth), Complete(Nth), TypeOK, Routed, Tracked(Nth), Accounted(Nth),
         [Next]_vars, NEW h \in Host, Run(h), NEW n \in due'
  PROVE  Account(Nth, n)'
<1>t. /\ outPipe \in [Port -> Seq(Frame)] /\ up \in [Host -> BOOLEAN]
      /\ sent \in Seq(Message) /\ Len(sent) + 1 \in Nat
  <2>1. Len(sent) + 1 \in Nat
    BY SentNumbers
  <2> QED BY <2>1 DEF TypeOK, RouterTypeOK
<1>1. /\ UNCHANGED <<alive, inPipe>> /\ up' = [up EXCEPT ![h] = TRUE]
      /\ \A g \in Host : up[g] => up'[g]
  BY <1>t, RunEffect
<1>2. ASSUME n \in due, \A q \in Port : Elements(outPipe[q]) \subseteq Elements(outPipe'[q])
      PROVE  Account(Nth, n)'
  <2>1. n \in DOMAIN sent /\ sent[n].to \in Host /\ up[sent[n].to]
    BY <1>2, DueTyped
  <2>2. sent'[n] = sent[n]
    BY <2>1, SentKept
  <2>3. \A x \in Place : Elements(Content(x)) \subseteq Elements(Content(x)')
    BY <1>1, <1>2, PlaceParts DEF Content
  <2> QED BY <1>1, <1>2, <2>1, <2>2, <2>3, StillAccounts
<1>3. CASE UNCHANGED <<outPipe, sent, due>>
  BY <1>2, <1>3
<1>4. ASSUME NEW t \in Script[h] \ {NULL},
             Send(HostPort[h], HostFrame(h, t, Len(sent) + 1)),
             sent' = Append(sent, [from |-> h, to |-> Addressee(t.to), len |-> t.len, ttl |-> t.ttl]),
             due' = due \cup NewlyDue(Addressee(t.to), Len(sent) + 1)
      PROVE  Account(Nth, n)'
  <2> DEFINE e == HostFrame(h, t, Len(sent) + 1)
             m == [from |-> h, to |-> Addressee(t.to), len |-> t.len, ttl |-> t.ttl]
             y == Outlet(h)
  <2>1. /\ e \in Frame /\ HostPort[h] \in Port
        /\ outPipe' = [outPipe EXCEPT ![HostPort[h]] = Append(outPipe[HostPort[h]], e)]
    BY <1>t, <1>4, HostFrameTyped, HostsAssumption DEF Send
  <2>2. /\ \A q \in Port : Elements(outPipe[q]) \subseteq Elements(outPipe'[q])
        /\ e \in Elements(outPipe'[HostPort[h]])
    <3> HIDE DEF e
    <3>1. \A q \in Port : outPipe'[q] \in {outPipe[q], Append(outPipe[q], e)}
      BY <1>t, <2>1
    <3>2. outPipe'[HostPort[h]] = Append(outPipe[HostPort[h]], e)
      BY <1>t, <2>1
    <3> QED BY <1>t, <2>1, <3>1, <3>2, ElementsKept
  <2>3. CASE n \in due
    BY <1>2, <2>2, <2>3
  <2>4. CASE n \notin due
    <3>1. /\ n = Len(sent) + 1 /\ Addressee(t.to) # NULL /\ up[Addressee(t.to)]
          /\ \A r \in Router : alive[r]
      BY <1>4, <2>4 DEF NewlyDue
    <3>2. Addressee(t.to) \in Host /\ HostIp[Addressee(t.to)] = t.to
      BY <3>1, AddresseeTyped, AddresseeIp
    <3>3. sent'[n] = m
      <4>1. m \in Message
        BY ScriptTyped, AddresseeTyped DEF Message
      <4> QED BY <1>t, <1>4, <3>1, <4>1, MessageAdded
    <3>4. /\ sent'[n].from = h /\ sent'[n].to = Addressee(t.to)
          /\ up'[sent'[n].to] /\ \A r \in Router : alive'[r]
      BY <1>1, <3>1, <3>2, <3>3
    <3>a. PICK f : f = e
      OBVIOUS
    <3>5. y \in Place /\ y[1] = "out" /\ f \in Elements(Content(y)')
      <4>1. y \in Place /\ y[1] = "out" /\ Content(y)' = outPipe'[HostPort[h]]
        BY <2>1, PlaceParts DEF Outlet
      <4> HIDE DEF e, y
      <4> QED BY <2>2, <3>a, <4>1
    <3>6. /\ f.type = "ip" /\ f.body.kind = "data" /\ f.body.id = n /\ f.body.chk # "bad"
          /\ f.len = t.len /\ f.body.ttl = t.ttl
      BY <3>1, <3>a DEF HostFrame
    <3> DEFINE last == Nth[h][Addressee(t.to)][Inlet(Addressee(t.to))]
    <3>7. t.len >= 46 /\ 2 * t.ttl >= last
      BY <3>2, CompleteUsed
    <3>8. Nth[h][Addressee(t.to)][y] = 1 /\ last \in Nat /\ t.ttl \in Nat
      <4>1. Inlet(Addressee(t.to)) \in Place
        BY <3>2, HostsAssumption, PlaceParts DEF Inlet
      <4>2. t.ttl \in Nat
        BY ScriptTyped DEF Byte
      <4> QED BY <3>2, <4>1, <4>2, OneWayUsed
    <3>9. At(Nth, n, y)' = 1 /\ At(Nth, n, Inlet(sent[n].to))' = last
      BY <3>4, <3>8 DEF At, Inlet
    <3>10. 2 * f.body.ttl + At(Nth, n, y)' >= At(Nth, n, Inlet(sent[n].to))' + 1
      <4> HIDE DEF last, y
      <4> QED BY <3>6, <3>7, <3>8, <3>9
    <3>11. Live(Nth, n, y, f)'
      <4> HIDE DEF y
      <4> QED BY <3>5, <3>6, <3>7, <3>10 DEF Live, IsKind
    <3>12. Carried(Nth, n)'
      <4> HIDE DEF y
      <4> QED BY <3>5, <3>11, CarriedBy
    <3> QED BY <3>2, <3>4, <3>12 DEF Account
  <2> QED BY <2>3, <2>4
<1> QED BY <1>3, <1>4, RunEffect DEF RunSends

\* A host that stops takes no frame of a message with it that stays due.
LEMMA StopAccounts ==
  ASSUME NEW Nth, OneWay(Nth), TypeOK, Routed, Tracked(Nth), Accounted(Nth),
         NEW h \in Host, Stop(h), NEW n \in due'
  PROVE  Account(Nth, n)'
<1>1. /\ n \in due /\ sent[n].to # h /\ sent[n].from # h
      /\ inPipe' = Emptied(inPipe, {HostPort[h]}) /\ outPipe' = Emptied(outPipe, {HostPort[h]})
      /\ up' = [up EXCEPT ![h] = FALSE] /\ UNCHANGED <<sent, alive>>
  BY DEF Stop
<1>2. n \in DOMAIN sent /\ sent[n].to \in Host /\ up[sent[n].to] /\ up \in [Host -> BOOLEAN]
  BY <1>1, DueTyped DEF TypeOK
<1>3. up'[sent[n].to]
  BY <1>1, <1>2
<1>4. ASSUME NEW x \in Place, NEW f \in Elements(Content(x)), Live(Nth, n, x, f)
      PROVE  f \in Elements(Content(x)')
  <2>1. /\ \A g \in Host : f.dst = HostMac[g] => sent[n].to = g
        /\ \A g \in Host : x = Outlet(g) => sent[n].from = g
    BY <1>2, <1>4, LiveParts
  <2>2. x[2] \in Port /\ x = <<x[1], x[2]>> /\ x[1] \in {"in", "out"}
    BY PlaceParts
  <2>3. x[2] # HostPort[h]
    <3> SUFFICES ASSUME x[2] = HostPort[h] PROVE FALSE
      OBVIOUS
    <3>1. CASE x[1] = "in"
      <4>1. f.dst = HostMac[h]
        BY <1>4, <3>1, StationMac DEF Live
      <4> QED BY <1>1, <2>1, <4>1
    <3>2. CASE x[1] = "out"
      BY <1>1, <2>1, <2>2, <3>2 DEF Outlet
    <3> QED BY <2>2, <3>1, <3>2
  <2>4. Content(x)' = Content(x)
    BY <1>1, <2>2, <2>3 DEF Content, Emptied
  <2> QED BY <2>4
<1> QED BY <1>1, <1>2, <1>3, <1>4, StillAccounts

\* Every step accounts for the messages that are due.
LEMMA AccountedStep ==
  ASSUME NEW Nth, OneWay(Nth), Complete(Nth)
  PROVE  TypeOK /\ InLine(Nth) /\ Accounted(Nth) /\ [Next]_vars => Accounted(Nth)'
<1> SUFFICES ASSUME TypeOK, InLine(Nth), Accounted(Nth), [Next]_vars, NEW n \in due'
             PROVE  Account(Nth, n)'
  BY DEF Accounted, Account, Carried, Elements
<1>1. Routed /\ Tracked(Nth)
  BY DEF InLine
<1>2. CASE /\ UNCHANGED <<due, sent, up, alive>>
           /\ \A x \in Place : Elements(Content(x)) \subseteq Elements(Content(x)')
  BY <1>1, <1>2, DueTyped, StillAccounts
<1>3. CASE UNCHANGED <<due, sent, up, alive, inPipe, outPipe>>
  <2>1. \A x \in Place : Content(x)' = Content(x)
    BY <1>3 DEF Content
  <2> QED BY <1>2, <1>3, <2>1
<1>4. CASE TapSends
  <2>1. PICK t \in TapTraffic : inPipe' = Repeated(t.port, t.frame)
    BY <1>4 DEF TapSends
  <2>2. UNCHANGED <<due, sent, up, alive, outPipe>> /\ t.frame \in Frame
    BY <1>4, HostsAssumption DEF TapSends, hostVars
  <2>3. ASSUME NEW q \in Port
        PROVE  Elements(inPipe[q]) \subseteq Elements(inPipe'[q])
    <3>1. inPipe'[q] \in {inPipe[q], Append(inPipe[q], t.frame)} /\ inPipe[q] \in Seq(Frame)
      BY <2>1 DEF Repeated, TypeOK, RouterTypeOK
    <3> QED BY <2>2, <3>1, ElementsKept
  <2>4. \A x \in Place : Elements(Content(x)) \subseteq Elements(Content(x)')
    BY <2>2, <2>3, PlaceParts DEF Content
  <2> QED BY <1>2, <2>2, <2>4
<1>5. ASSUME NEW r \in Router, RouterStarts(r)
      PROVE  FALSE
  <2>1. ~alive[r] /\ n \in due
    BY <1>5 DEF RouterStarts, Boot, hostVars
  <2> QED BY <2>1 DEF Accounted
<1>6. ASSUME NEW r \in Router, RouterEnds(r)
      PROVE  FALSE
  BY <1>6 DEF RouterEnds
<1>7. ASSUME NEW r \in Router, RouterRuns(r)
      PROVE  Account(Nth, n)'
  <2>1. CASE Poll(r)
    BY <1>3, <1>7, <2>1 DEF RouterRuns, Poll, hostVars
  <2>2. CASE Handle(r)
    BY <1>1, <1>7, <2>2, HandleAccounts DEF RouterRuns
  <2> QED BY <1>7, <2>1, <2>2 DEF RouterRuns
<1>8. CASE UNCHANGED vars
  BY <1>3, <1>8 DEF vars, routerVars, hostVars
<1>9. ASSUME NEW p \in Port, PlugBreaks(p)
      PROVE  FALSE
  <2>1. n \in due /\ \E r \in Router : ~alive[r]
    BY <1>9 DEF PlugBreaks, hostVars
  <2> QED BY <2>1 DEF Accounted
<1> QED BY <1>1, <1>4, <1>5, <1>6, <1>7, <1>8, <1>9, RelayAccounts, ReceivesAccounts,
           RunAccounts, StopAccounts DEF Next, SystemStep

\* On complete ways no message is lost: one that was sent while its addressee and
\* all routers ran, none of which has been stopped or has crashed since, and that found
\* room in every pipe, is still on its way as long as it is not displayed; when the network is
\* quiet it has been displayed.
THEOREM NoMessageLost ==
  ASSUME NEW Nth, OneWay(Nth), Complete(Nth)
  PROVE  Spec => []NothingLost
<1>1. Init => InLine(Nth) /\ Accounted(Nth)
  BY InitInLine DEF Init, Accounted
<1>2. TypeOK /\ InLine(Nth) /\ [Next]_vars => InLine(Nth)'
  BY InLineStep
<1>3. TypeOK /\ InLine(Nth) /\ Accounted(Nth) /\ [Next]_vars => Accounted(Nth)'
  BY AccountedStep
<1>4. Accounted(Nth) => NothingLost
  <2> SUFFICES ASSUME Accounted(Nth), Quiet, NEW n \in due PROVE FALSE
    BY DEF NothingLost
  <2>1. PICK x \in Place : \E k \in DOMAIN Content(x) : TRUE
    BY DEF Accounted
  <2>2. Content(x) = <<>>
    BY PlaceParts DEF Content, Quiet
  <2>3. DOMAIN <<>> = {}
    OBVIOUS
  <2> QED BY <2>1, <2>2, <2>3
<1> QED BY <1>1, <1>2, <1>3, <1>4, TypeCorrect, PTL DEF Spec

=============================================================================
