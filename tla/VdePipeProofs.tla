--------------------------- MODULE VdePipeProofs ----------------------------
(***************************************************************************)
(* The pipes deliver frames whole: VdePipe implements FrameQueue, for any  *)
(* interfaces, lengths and sizes, if no frame is longer than PIPE_BUF.     *)
(* And if a pipe holds all that the process may send while a plug waits    *)
(* for room, the process and a plug never wait for each other.             *)
(***************************************************************************)
EXTENDS VdePipe, FiniteSetTheorems, WellFoundedInduction, TLAPS

CONSTANTS
    Slots,          \* places in the table of interfaces
    Long, Short,    \* bytes that a frame takes in a pipe with its length: at most, at least
    Reads           \* reads of frames that make room for one more

\* A set of natural numbers that is not empty has a least element, and Min is this element.
LEMMA MinIsLeast ==
  ASSUME NEW S \in SUBSET Nat, S # {}
  PROVE  Min(S) \in S /\ \A y \in S : Min(S) <= y
<1> DEFINE Up(x) == 1 .. x
           T == {Up(x) : x \in S}
<1>1. T \subseteq FiniteSubsetsOf(Nat) /\ T # {}
  <2>1. \A x \in S : Up(x) \subseteq Nat /\ IsFiniteSet(Up(x))
    BY FS_Interval
  <2> QED BY <2>1 DEF FiniteSubsetsOf
<1>2. PICK m \in T : \A u \in T : <<u, m>> \notin StrictSubsetOrdering(Nat)
  <2> HIDE DEF T
  <2> QED BY <1>1, FS_StrictSubsetOrderingWellFounded, WFMin
<1>3. PICK x \in S : m = Up(x)
  OBVIOUS
<1>4. ASSUME NEW y \in S, y < x
      PROVE  FALSE
  <2>1. Up(y) \subseteq Up(x) /\ Up(y) # Up(x) /\ Up(x) \subseteq Nat
    <3>1. x \in Up(x) /\ x \notin Up(y)
      BY <1>4
    <3> QED BY <1>4, <3>1
  <2>2. <<Up(y), Up(x)>> \in StrictSubsetOrdering(Nat)
    <3> HIDE DEF Up
    <3> QED BY <2>1 DEF StrictSubsetOrdering
  <2> QED BY <2>2, <1>2, <1>3
<1>5. \A y \in S : x <= y
  BY <1>4
<1> QED BY <1>5 DEF Min

-----------------------------------------------------------------------------
(* The inductive invariant.                                                *)

\* Where the first n frames of a sequence end in the pipe.
EndOf(frames, n) == IF n = 0 THEN 0 ELSE End(frames[n])

Steps == {"poll", "readLength", "readData", "sendLength", "sendData"}

Typed ==
    /\ sent \in [Iface -> Seq(Frame)]
    /\ received \in [Iface -> Seq(Frame)]
    /\ plug \in [Iface -> {"poll", "length", "data"}]
    /\ toWrite \in [Iface -> Nat]
    /\ written \in [Iface -> Nat]
    /\ taken \in [Iface -> Nat]
    /\ pc \in Steps
    /\ ready \subseteq Iface
    /\ pc # "poll" => ready # {}

\* The frames lie in the pipe one behind the other, each behind its length.
Laid(i) ==
    LET f == sent[i]
    IN  /\ \A a \in 1 .. Len(f) : f[a].len \in FrameLen[i] /\ f[a].at = EndOf(f, a - 1)
        /\ \A a, b \in 1 .. Len(f) : a < b => End(f[a]) <= f[b].at

\* What the plug has written of them.
Wrote(i) ==
    LET n == Len(sent[i])
    IN  /\ plug[i] = "poll" => written[i] = EndOf(sent[i], n)
        /\ plug[i] = "length" =>
                n > 0 /\ written[i] = sent[i][n].at /\ toWrite[i] = sent[i][n].len
        /\ plug[i] = "data" =>
                n > 0 /\ written[i] = sent[i][n].at + Header /\ toWrite[i] = sent[i][n].len

\* The process is between the two reads of a frame of interface i.
Reading(i) == pc = "readData" /\ i = Turn

\* The process has read the first frames, and perhaps the length of the next.
Took(i) ==
    LET m == Len(received[i])
    IN  /\ taken[i] <= written[i]
        /\ m <= Len(sent[i])
        /\ \A a \in 1 .. m : received[i][a] = sent[i][a]
        /\ ~Reading(i) => taken[i] = EndOf(sent[i], m)
        /\ Reading(i) =>
                m < Len(sent[i]) /\ head = sent[i][m + 1] /\ taken[i] = head.at + Header

Whole == Typed /\ \A i \in Iface : Laid(i) /\ Wrote(i) /\ Took(i)

Atomic == \A i \in Iface : \A n \in FrameLen[i] : n <= PIPE_BUF

-----------------------------------------------------------------------------
(* What the invariant says of the next read.                               *)

\* The interface at hand exists.
LEMMA TurnExists ==
    ASSUME Typed, pc # "poll"
    PROVE  Turn \in Iface
<1>1. ready \subseteq Nat /\ ready # {}
    BY PipeAssumption DEF Typed
<1> QED
    BY <1>1, MinIsLeast DEF Typed, Turn

\* Frames are not empty.
LEMMA LengthsPositive ==
    ASSUME NEW i \in Iface, NEW n \in FrameLen[i]
    PROVE  n \in Nat /\ n > 0
BY PipeAssumption

\* Where a frame ends.
LEMMA FrameEnds ==
    ASSUME NEW x \in Frame
    PROVE  /\ x.at \in Nat /\ x.len \in Nat
           /\ End(x) = x.at + 2 + x.len /\ End(x) \in Nat /\ x.at <= End(x)
BY DEF Frame, End, Header

\* What the invariant says of one interface.
LEMMA WholeAt ==
    ASSUME Whole, NEW i \in Iface
    PROVE  /\ sent[i] \in Seq(Frame) /\ received[i] \in Seq(Frame)
           /\ plug[i] \in {"poll", "length", "data"}
           /\ toWrite[i] \in Nat /\ written[i] \in Nat /\ taken[i] \in Nat
           /\ Laid(i) /\ Wrote(i) /\ Took(i)
           /\ \A a \in 1 .. Len(sent[i]) :
                /\ sent[i][a] \in Frame
                /\ sent[i][a].at \in Nat /\ sent[i][a].len \in Nat /\ sent[i][a].len > 0
                /\ End(sent[i][a]) = sent[i][a].at + 2 + sent[i][a].len
<1>1. /\ sent[i] \in Seq(Frame) /\ received[i] \in Seq(Frame)
      /\ plug[i] \in {"poll", "length", "data"}
      /\ toWrite[i] \in Nat /\ written[i] \in Nat /\ taken[i] \in Nat
    BY DEF Whole, Typed
<1>2. Laid(i) /\ Wrote(i) /\ Took(i)
    BY DEF Whole
<1>3. ASSUME NEW a \in 1 .. Len(sent[i])
      PROVE  /\ sent[i][a] \in Frame
             /\ sent[i][a].at \in Nat /\ sent[i][a].len \in Nat /\ sent[i][a].len > 0
             /\ End(sent[i][a]) = sent[i][a].at + 2 + sent[i][a].len
    <2>1. sent[i][a] \in Frame
        BY <1>1
    <2>2. sent[i][a].len > 0
        BY <1>2, LengthsPositive DEF Laid
    <2> QED
        BY <2>1, <2>2 DEF Frame, End, Header
<1> QED
    BY <1>1, <1>2, <1>3

\* A frame that is not the last has been written whole, before anything of the last.
LEMMA EarlierWritten ==
    ASSUME Whole, NEW i \in Iface, NEW a \in 1 .. Len(sent[i]) - 1
    PROVE  written[i] >= End(sent[i][a])
<1> DEFINE f == sent[i]
           n == Len(f)
<1>1. n \in Nat /\ n \in 1 .. n /\ a \in 1 .. n /\ a < n
    BY WholeAt
<1>2. End(f[a]) <= f[n].at
    BY <1>1, WholeAt DEF Laid
<1>3. /\ f[n].at \in Nat /\ f[n].len \in Nat /\ End(f[n]) = f[n].at + 2 + f[n].len
      /\ End(f[a]) \in Nat /\ written[i] \in Nat
    <2>1. \A b \in {a, n} : f[b].at \in Nat /\ f[b].len \in Nat /\ End(f[b]) = f[b].at + 2 + f[b].len
        BY <1>1, WholeAt
    <2>2. written[i] \in Nat
        BY WholeAt
    <2> HIDE DEF f, n
    <2> QED
        BY <2>1, <2>2, SMTT(30)
<1>4. CASE plug[i] = "poll"
    BY <1>1, <1>2, <1>3, <1>4, WholeAt DEF Wrote, EndOf
<1>5. CASE plug[i] = "length"
    BY <1>2, <1>3, <1>5, WholeAt DEF Wrote
<1>6. CASE plug[i] = "data"
    BY <1>2, <1>3, <1>6, WholeAt DEF Wrote, Header
<1> QED
    BY <1>4, <1>5, <1>6, WholeAt

\* If there is something to read when a frame is due, its length is there.
LEMMA LengthThere ==
    ASSUME Whole, NEW i \in Iface, ~Reading(i), Available(i) > 0
    PROVE  /\ Len(received[i]) < Len(sent[i])
           /\ Starting(i) = {Len(received[i]) + 1}
           /\ Available(i) >= Header
<1> DEFINE f == sent[i]
           n == Len(f)
           m == Len(received[i])
<1>1. /\ n \in Nat /\ m \in Nat /\ m <= n /\ written[i] \in Nat /\ taken[i] \in Nat
      /\ taken[i] = EndOf(f, m)
      /\ written[i] > taken[i]
      /\ DOMAIN f = 1 .. n
    BY WholeAt DEF Took, Available
<1>2. \A a \in 1 .. n : /\ f[a].at \in Nat /\ f[a].len \in Nat /\ f[a].len > 0
                        /\ End(f[a]) = f[a].at + 2 + f[a].len
    BY WholeAt
<1>3. m < n
    <2> SUFFICES ASSUME m = n PROVE FALSE
        BY <1>1
    <2>1. CASE plug[i] = "poll"
        BY <1>1, <2>1, WholeAt DEF Wrote
    <2>2. CASE plug[i] # "poll"
        <3>1. n > 0 /\ n \in 1 .. n
            BY <1>1, <2>2, WholeAt DEF Wrote
        <3>2. written[i] <= f[n].at + 2
            BY <1>1, <1>2, <2>2, <3>1, WholeAt DEF Wrote, Header
        <3>3. EndOf(f, n) = f[n].at + 2 + f[n].len
            BY <1>2, <3>1 DEF EndOf
        <3> QED
            BY <1>1, <1>2, <3>1, <3>2, <3>3, SMTT(30)
    <2> QED
        BY <2>1, <2>2
<1>4. m + 1 \in 1 .. n /\ f[m + 1].at = taken[i]
    <2>1. m + 1 \in 1 .. n /\ (m + 1) - 1 = m
        BY <1>1, <1>3
    <2> QED
        BY <1>1, <2>1, WholeAt DEF Laid
<1>5. \A a \in 1 .. n : f[a].at = taken[i] => a = m + 1
    <2> SUFFICES ASSUME NEW a \in 1 .. n, f[a].at = f[m + 1].at, a # m + 1 PROVE FALSE
        BY <1>4
    <2>0. /\ f[a].at \in Nat /\ f[a].len \in Nat /\ End(f[a]) = f[a].at + 2 + f[a].len
          /\ f[m + 1].at \in Nat /\ f[m + 1].len \in Nat
          /\ End(f[m + 1]) = f[m + 1].at + 2 + f[m + 1].len
        BY <1>2, <1>4
    <2>1. CASE a < m + 1
        <3>1. End(f[a]) <= f[m + 1].at
            BY <1>4, <2>1, WholeAt DEF Laid
        <3> HIDE DEF f
        <3> QED
            BY <2>0, <3>1
    <2>2. CASE a > m + 1
        <3>1. End(f[m + 1]) <= f[a].at
            BY <1>4, <2>2, WholeAt DEF Laid
        <3> HIDE DEF f
        <3> QED
            BY <2>0, <3>1
    <2> QED
        BY <1>1, <2>1, <2>2
<1>6. Starting(i) = {m + 1}
    BY <1>1, <1>4, <1>5 DEF Starting
<1>7. Available(i) >= Header
    <2>0. f[m + 1].at = taken[i] /\ f[m + 1].len \in Nat /\ End(f[m + 1]) = taken[i] + 2 + f[m + 1].len
        BY <1>2, <1>4
    <2>1. CASE m + 1 < n
        <3>1. written[i] >= End(f[m + 1])
            BY <1>1, <2>1, EarlierWritten
        <3> HIDE DEF f, n, m
        <3> QED
            BY <1>1, <2>0, <3>1 DEF Available, Header
    <2>2. CASE m + 1 = n
        <3>1. plug[i] # "length"
            BY <1>1, <1>4, <2>2, WholeAt DEF Wrote
        <3>2. CASE plug[i] = "data"
            BY <1>1, <1>2, <1>4, <2>2, <3>2, WholeAt DEF Wrote, Available, Header
        <3>3. CASE plug[i] = "poll"
            <4>1. written[i] = f[n].at + 2 + f[n].len
                BY <1>1, <1>2, <1>4, <2>2, <3>3, WholeAt DEF Wrote, EndOf
            <4> QED
                BY <1>1, <1>2, <1>4, <2>2, <4>1 DEF Available, Header
        <3> QED
            BY <3>1, <3>2, <3>3, WholeAt
    <2> QED
        BY <1>1, <1>3, <2>1, <2>2
<1> QED
    BY <1>3, <1>6, <1>7

\* If there is something to read behind a length, the frame is there whole.
LEMMA DataThere ==
    ASSUME Whole, NEW i \in Iface, Reading(i), Available(i) > 0
    PROVE  /\ DataRead(i) = head.len /\ written[i] >= End(head)
           /\ taken[i] + head.len = End(head)
           /\ head \in Frame
<1> DEFINE f == sent[i]
           n == Len(f)
           m == Len(received[i])
<1>1. /\ n \in Nat /\ m \in Nat /\ m < n /\ written[i] \in Nat /\ taken[i] \in Nat
      /\ m + 1 \in 1 .. n
      /\ head = f[m + 1]
      /\ taken[i] = head.at + 2
      /\ written[i] > taken[i]
    BY WholeAt DEF Took, Available, Header
<1>2. /\ head \in Frame /\ head.at \in Nat /\ head.len \in Nat
      /\ End(head) = head.at + 2 + head.len
    BY <1>1, WholeAt
<1>3. written[i] >= End(head)
    <2>1. CASE m + 1 < n
        BY <1>1, <2>1, EarlierWritten
    <2>2. CASE m + 1 = n
        <3>1. plug[i] # "length" /\ plug[i] # "data"
            BY <1>1, <1>2, <2>2, WholeAt DEF Wrote, Header
        <3>2. plug[i] = "poll"
            BY <3>1, WholeAt
        <3> QED
            BY <1>1, <1>2, <2>2, <3>2, WholeAt DEF Wrote, EndOf
    <2> QED
        BY <1>1, <2>1, <2>2
<1>4. Minimum(head.len, Available(i)) = head.len
    <2>1. Available(i) \in Int /\ Available(i) >= head.len
        <3> HIDE DEF f, n, m
        <3> QED
            BY <1>1, <1>2, <1>3 DEF Available
    <2> HIDE DEF f, n, m
    <2> QED
        BY <1>2, <2>1 DEF Minimum
<1> QED
    BY <1>1, <1>2, <1>3, <1>4 DEF DataRead

-----------------------------------------------------------------------------
(* The invariant holds.                                                    *)

Same(i) ==
    /\ sent'[i] = sent[i] /\ plug'[i] = plug[i] /\ toWrite'[i] = toWrite[i]
    /\ written'[i] = written[i] /\ taken'[i] = taken[i] /\ received'[i] = received[i]
    /\ Reading(i)' <=> Reading(i)
    /\ Reading(i) => head' = head

\* An interface that a step does not touch.
LEMMA SameKeeps ==
    ASSUME NEW i \in Iface, Same(i), Laid(i), Wrote(i), Took(i)
    PROVE  Laid(i)' /\ Wrote(i)' /\ Took(i)'
<1>1. Laid(i)'
    BY DEF Same, Laid, EndOf, End, Header
<1>2. Wrote(i)'
    BY DEF Same, Wrote, EndOf, End, Header
<1>3. Took(i)'
    BY DEF Same, Took, EndOf, End, Header
<1> QED
    BY <1>1, <1>2, <1>3

\* The invariant holds at first.
LEMMA WholeInit == Init => Whole
<1> SUFFICES ASSUME Init PROVE Whole
    OBVIOUS
<1>1. Typed
    BY DEF Init, Typed, Steps
<1>2. \A i \in Iface : Laid(i) /\ Wrote(i) /\ Took(i)
    BY DEF Init, Laid, Wrote, Took, EndOf, Reading
<1> QED
    BY <1>1, <1>2 DEF Whole

\* Steps that touch neither the pipes from the plugs nor what is read from them.
LEMMA ElsewhereKeeps ==
    ASSUME Whole, Typed', UNCHANGED <<plugVars, written, taken, received>>,
           \/ pc' = pc /\ ready' = ready /\ head' = head
           \/ pc # "readData" /\ pc' # "readData"
    PROVE  Whole'
<1>1. \A i \in Iface : Same(i)
    BY DEF Same, Reading, Turn, plugVars
<1> QED
    BY <1>1, SameKeeps DEF Whole

\* poll() reads nothing.
LEMMA PollKeeps ==
    ASSUME Whole, Poll
    PROVE  Whole'
<1>1. Typed'
    BY DEF Whole, Typed, Poll, Steps, plugVars
<1> QED
    BY <1>1, ElsewhereKeeps DEF Poll

\* Nor do the writes to a plug.
LEMMA SendsKeeps ==
    ASSUME Whole, SendsLength \/ SendsData
    PROVE  Whole'
<1>1. CASE SendsLength
    <2>1. Typed'
        BY <1>1 DEF Whole, Typed, SendsLength, Steps, plugVars
    <2> QED
        BY <1>1, <2>1, ElsewhereKeeps DEF SendsLength
<1>2. CASE SendsData
    <2>1. \/ GoesOn
          \/ UNCHANGED <<pc, ready>>
        BY <1>2 DEF SendsData
    <2>2. /\ UNCHANGED <<plugVars, written, taken, head, received>>
          /\ pc = "sendData"
        BY <1>2 DEF SendsData
    <2>3. Typed' /\ pc' # "readData"
        BY <2>1, <2>2 DEF Whole, Typed, GoesOn, Remaining, Steps, plugVars
    <2> QED
        BY <2>2, <2>3, ElsewhereKeeps
<1> QED
    BY <1>1, <1>2

\* The plug reads its input.
LEMMA PlugReadsKeeps ==
    ASSUME Whole, NEW i \in Iface, PlugReads(i)
    PROVE  Whole'
<1>1. Typed'
    BY DEF Whole, Typed, PlugReads, Steps, plugVars
<1>2. UNCHANGED <<plugVars, written, taken, received>>
    BY DEF PlugReads
<1>3. pc' = pc /\ ready' = ready /\ head' = head
    BY DEF PlugReads
<1> QED
    BY <1>1, <1>2, <1>3, ElsewhereKeeps

\* It takes on a frame behind all others.
LEMMA PlugTakesKeeps ==
    ASSUME Whole, NEW i \in Iface, PlugTakes(i)
    PROVE  Whole'
<1> PICK len \in FrameLen[i] :
        /\ sent' = [sent EXCEPT ![i] = Append(@, [at |-> written[i], len |-> len])]
        /\ toWrite' = [toWrite EXCEPT ![i] = len]
    BY DEF PlugTakes
<1>0. /\ plug[i] = "poll"
      /\ plug' = [plug EXCEPT ![i] = "length"]
      /\ UNCHANGED <<written, taken, toPlug, pc, ready, head, out, received>>
    BY DEF PlugTakes
<1> DEFINE f == sent[i]
           n == Len(f)
           new == [at |-> written[i], len |-> len]
           g == Append(f, new)
<1>1. /\ len \in Nat /\ len > 0 /\ written[i] \in Nat /\ n \in Nat /\ f \in Seq(Frame)
      /\ new \in Frame
    BY LengthsPositive, WholeAt DEF Frame
<1>2. sent' = [sent EXCEPT ![i] = g] /\ g \in Seq(Frame) /\ sent'[i] = g
    BY <1>1 DEF Whole, Typed
<1>3. /\ Len(g) = n + 1 /\ g[n + 1] = new
      /\ \A a \in 1 .. n : g[a] = f[a]
    BY <1>1
<1>4. Typed'
    BY <1>0, <1>1, <1>2 DEF Whole, Typed, Steps
<1>5. \A j \in Iface \ {i} : Same(j)
    BY <1>0, <1>2 DEF Whole, Typed, Same, Reading, Turn
<1>6. \A a \in 0 .. n : EndOf(g, a) = EndOf(f, a)
    BY <1>1, <1>3 DEF EndOf
<1>7. written[i] = EndOf(f, n)
    BY <1>0, WholeAt DEF Wrote
<1>8. \A a \in 1 .. n : End(f[a]) <= written[i]
    <2> SUFFICES ASSUME NEW a \in 1 .. n PROVE End(f[a]) <= EndOf(f, n)
        BY <1>7
    <2>1. EndOf(f, n) = End(f[n]) /\ n \in 1 .. n
        BY <1>1 DEF EndOf
    <2>2. /\ End(f[a]) \in Nat /\ End(f[n]) \in Nat /\ f[n].at \in Nat /\ f[n].at <= End(f[n])
        <3>1. f[a] \in Frame /\ f[n] \in Frame
            BY <2>1, WholeAt
        <3> QED
            BY <3>1, FrameEnds
    <2>3. a < n => End(f[a]) <= f[n].at
        BY <2>1, WholeAt DEF Laid
    <2> HIDE DEF f
    <2> QED
        BY <1>1, <2>1, <2>2, <2>3
<1>9. Laid(i)'
    <2>1. ASSUME NEW a \in 1 .. n + 1
          PROVE  g[a].len \in FrameLen[i] /\ g[a].at = EndOf(g, a - 1)
        <3>1. CASE a = n + 1
            <4>1. (n + 1) - 1 = n /\ n \in 0 .. n
                BY <1>1
            <4>2. g[a].len = len /\ g[a].at = written[i]
                BY <1>3, <3>1
            <4> HIDE DEF f, n, g, new
            <4> QED
                BY <3>1, <4>1, <4>2, <1>6, <1>7
        <3>2. CASE a # n + 1
            <4>1. a \in 1 .. n /\ a - 1 \in 0 .. n
                BY <1>1, <3>2
            <4>2. f[a].len \in FrameLen[i] /\ f[a].at = EndOf(f, a - 1)
                BY <4>1, WholeAt DEF Laid
            <4> HIDE DEF f, n, g
            <4> QED
                BY <1>3, <1>6, <4>1, <4>2
        <3> QED
            BY <3>1, <3>2
    <2>2. ASSUME NEW a \in 1 .. n + 1, NEW b \in 1 .. n + 1, a < b
          PROVE  End(g[a]) <= g[b].at
        <3>1. a \in 1 .. n /\ g[a] = f[a]
            BY <1>1, <1>3, <2>2
        <3>2. CASE b = n + 1
            BY <1>3, <1>8, <3>1, <3>2
        <3>3. CASE b # n + 1
            <4>1. b \in 1 .. n /\ g[b] = f[b]
                BY <1>1, <1>3, <3>3
            <4> QED
                BY <2>2, <3>1, <4>1, WholeAt DEF Laid
        <3> QED
            BY <3>2, <3>3
    <2>3. /\ \A a \in 1 .. Len(sent'[i]) : sent'[i][a].len \in FrameLen[i] /\ sent'[i][a].at = EndOf(sent'[i], a - 1)
          /\ \A a, b \in 1 .. Len(sent'[i]) : a < b => End(sent'[i][a]) <= sent'[i][b].at
        <3> HIDE DEF g, n
        <3> QED
            BY <1>2, <1>3, <2>1, <2>2
    <2> QED
        BY <2>3 DEF Laid, EndOf, End, Header
<1>10. Wrote(i)'
    <2>1. plug'[i] = "length" /\ toWrite'[i] = len /\ written' = written
        BY <1>0 DEF Whole, Typed
    <2> QED
        BY <1>1, <1>2, <1>3, <2>1 DEF Wrote
<1>11. Took(i)'
    <2>1. received' = received /\ taken' = taken /\ head' = head /\ (Reading(i)' <=> Reading(i))
        BY <1>0 DEF Reading, Turn
    <2>2. Len(received[i]) \in 0 .. n
        BY <1>1, WholeAt DEF Took
    <2>3. EndOf(sent'[i], Len(received[i])) = EndOf(f, Len(received[i]))
        BY <1>2, <1>6, <2>2
    <2>4. \A a \in 1 .. Len(received[i]) : received[i][a] = sent'[i][a]
        BY <1>1, <1>2, <1>3, <2>2, WholeAt DEF Took
    <2>5. Reading(i) => Len(received[i]) + 1 \in 1 .. n /\ head = sent'[i][Len(received[i]) + 1]
        BY <1>1, <1>2, <1>3, <2>2, WholeAt DEF Took
    <2>6. Len(sent'[i]) = n + 1
        BY <1>2, <1>3
    <2>7. (~Reading(i) => taken[i] = EndOf(f, Len(received[i]))) /\ (Reading(i) => taken[i] = head.at + Header)
        BY WholeAt DEF Took
    <2>8. EndOf(sent[i], Len(received[i]))' = EndOf(sent'[i], Len(received[i]))
        BY <2>1 DEF EndOf, End, Header
    <2>9. taken'[i] <= written'[i]
        BY <1>0, WholeAt DEF Took
    <2> HIDE DEF f, n, g
    <2>10. Len(received[i]) <= Len(sent'[i])
        BY <1>1, <2>2, <2>6
    <2>11. ~Reading(i) => taken[i] = EndOf(sent'[i], Len(received[i]))
        BY <2>3, <2>7
    <2>12. Reading(i) => /\ Len(received[i]) < Len(sent'[i])
                         /\ head = sent'[i][Len(received[i]) + 1] /\ taken[i] = head.at + Header
        BY <1>1, <2>2, <2>5, <2>6, <2>7
    <2> QED
        BY <2>1, <2>4, <2>8, <2>9, <2>10, <2>11, <2>12 DEF Took, Header
<1> QED
    BY <1>4, <1>5, <1>9, <1>10, <1>11, SameKeeps DEF Whole

\* It writes the length.
LEMMA PlugWritesLengthKeeps ==
    ASSUME Whole, NEW i \in Iface, PlugWritesLength(i)
    PROVE  Whole'
<1>0. /\ plug[i] = "length"
      /\ written' = [written EXCEPT ![i] = @ + Header]
      /\ plug' = [plug EXCEPT ![i] = "data"]
      /\ UNCHANGED <<sent, toWrite, taken, toPlug, pc, ready, head, out, received>>
    BY DEF PlugWritesLength
<1>1. Typed'
    BY <1>0 DEF Whole, Typed, Steps, Header
<1>2. \A j \in Iface \ {i} : Same(j)
    BY <1>0 DEF Whole, Typed, Same, Reading, Turn
<1>3. Laid(i)'
    BY <1>0, WholeAt DEF Laid, EndOf, End, Header
<1>4. Wrote(i)'
    <2>1. plug'[i] = "data" /\ written'[i] = written[i] + Header
        BY <1>0 DEF Whole, Typed
    <2>2. /\ Len(sent[i]) > 0 /\ written[i] = sent[i][Len(sent[i])].at
          /\ toWrite[i] = sent[i][Len(sent[i])].len
        BY <1>0, WholeAt DEF Wrote
    <2> QED
        BY <1>0, <2>1, <2>2 DEF Wrote, Header
<1>5. Took(i)'
    <2>1. taken'[i] <= written'[i]
        <3>1. taken' = taken /\ written'[i] = written[i] + 2
            BY <1>0 DEF Whole, Typed, Header
        <3> QED
            BY <3>1, WholeAt DEF Took
    <2> QED
        BY <1>0, <2>1, WholeAt DEF Took, Reading, Turn, EndOf, End, Header
<1> QED
    BY <1>1, <1>2, <1>3, <1>4, <1>5, SameKeeps DEF Whole

\* A frame that a pipe takes whole is written at once.
LEMMA PlugWritesDataKeeps ==
    ASSUME Atomic, Whole, NEW i \in Iface, PlugWritesData(i)
    PROVE  Whole'
<1> DEFINE f == sent[i]
           n == Len(f)
<1>0. /\ plug[i] = "data"
      /\ UNCHANGED <<sent, taken, toPlug, pc, ready, head, out, received>>
    BY DEF PlugWritesData
<1>1. /\ n \in Nat /\ n \in 1 .. n /\ n > 0
      /\ written[i] = f[n].at + Header /\ toWrite[i] = f[n].len
    BY <1>0, WholeAt DEF Wrote
<1>2. f[n] \in Frame /\ f[n].len \in FrameLen[i]
    BY <1>1, WholeAt DEF Laid
<1>3. /\ f[n].at \in Nat /\ f[n].len \in Nat /\ End(f[n]) = f[n].at + 2 + f[n].len
    BY <1>2, FrameEnds
<1>4. CanWrite(Size(i), toWrite[i], RoomIn(i)) \subseteq {toWrite[i]}
    BY <1>2 DEF Atomic, CanWrite, Size
<1>5. /\ written' = [written EXCEPT ![i] = @ + toWrite[i]]
      /\ toWrite' = [toWrite EXCEPT ![i] = @ - toWrite[i]]
      /\ plug' = [plug EXCEPT ![i] = "poll"]
    BY <1>4 DEF PlugWritesData
<1>6. Typed'
    BY <1>0, <1>5 DEF Whole, Typed, Steps
<1>7. \A j \in Iface \ {i} : Same(j)
    BY <1>0, <1>5 DEF Whole, Typed, Same, Reading, Turn
<1>8. Laid(i)'
    BY <1>0, WholeAt DEF Laid, EndOf, End, Header
<1>9. Wrote(i)'
    <2>1. plug'[i] = "poll" /\ written'[i] = written[i] + toWrite[i]
        BY <1>5 DEF Whole, Typed
    <2>2. written'[i] = EndOf(f, n)
        BY <1>1, <1>3, <2>1 DEF EndOf, Header
    <2>3. sent' = sent
        BY <1>0
    <2> QED
        BY <2>1, <2>2, <2>3 DEF Wrote, EndOf, End, Header
<1>10. Took(i)'
    <2>1. taken'[i] <= written'[i]
        <3>1. taken' = taken /\ written'[i] = written[i] + toWrite[i]
            BY <1>0, <1>5 DEF Whole, Typed
        <3> QED
            BY <3>1, WholeAt DEF Took
    <2> QED
        BY <1>0, <2>1, WholeAt DEF Took, Reading, Turn, EndOf, End, Header
<1> QED
    BY <1>6, <1>7, <1>8, <1>9, <1>10, SameKeeps DEF Whole

\* The process reads the length of the next frame.
LEMMA ReadLengthKeeps ==
    ASSUME Whole, ReadLength
    PROVE  Whole'
<1>a. pc = "readLength" /\ Turn \in Iface
    BY TurnExists DEF ReadLength, Whole
<1> PICK i \in Iface : i = Turn
    BY <1>a
<1> DEFINE f == sent[i]
           m == Len(received[i])
<1>0. /\ pc = "readLength" /\ pc' = "readData"
      /\ Available(i) > 0
      /\ UNCHANGED <<sent, plug, toWrite, written, ready, received>>
      /\ taken' = [taken EXCEPT ![i] = @ + Minimum(Header, Available(i))]
      /\ \/ \E k \in Starting(i) : head' = sent[i][k]
         \/ Minimum(Header, Available(i)) < Header
         \/ Starting(i) = {}
    BY DEF ReadLength, plugVars
<1>2. ~Reading(i)
    BY <1>0 DEF Reading
<1>3. /\ m < Len(f) /\ Starting(i) = {m + 1} /\ Available(i) >= Header
    BY <1>0, <1>2, LengthThere
<1>4. Minimum(Header, Available(i)) = Header /\ head' = f[m + 1]
    <2>1. Available(i) \in Int
        BY WholeAt DEF Available
    <2>2. Minimum(Header, Available(i)) = Header
        BY <1>3, <2>1 DEF Minimum, Header
    <2> HIDE DEF f, m
    <2> QED
        BY <1>0, <1>3, <2>2 DEF f, Header
<1>5. Typed'
    <2>1. taken' = [taken EXCEPT ![i] = @ + 2]
        BY <1>0, <1>4 DEF Header
    <2>2. taken' \in [Iface -> Nat]
        BY <2>1 DEF Whole, Typed
    <2> QED
        BY <1>0, <2>2 DEF Whole, Typed, Steps
<1>6. \A j \in Iface \ {i} : Same(j)
    BY <1>0 DEF Whole, Typed, Same, Reading, Turn
<1>7. Laid(i)' /\ Wrote(i)'
    BY <1>0, WholeAt DEF Laid, Wrote, EndOf, End, Header
<1>8. Took(i)'
    <2>1. m \in Nat /\ m + 1 \in 1 .. Len(f)
        BY <1>3, WholeAt
    <2>2. taken[i] = EndOf(f, m) /\ f[m + 1].at = EndOf(f, m)
        <3>1. taken[i] = EndOf(f, m)
            BY <1>2, WholeAt DEF Took
        <3>2. (m + 1) - 1 = m
            BY <2>1
        <3> QED
            BY <2>1, <3>1, <3>2, WholeAt DEF Laid
    <2>3. taken'[i] = head'.at + Header
        BY <1>0, <1>4, <2>2 DEF Whole, Typed
    <2>4. Reading(i)'
        BY <1>0 DEF Reading, Turn
    <2>5. \A a \in 1 .. m : received[i][a] = f[a]
        BY WholeAt DEF Took
    <2>6. sent'[i] = f /\ received'[i] = received[i]
        BY <1>0
    <2>7. taken'[i] <= written'[i]
        <3>1. written' = written /\ taken'[i] = taken[i] + 2
            BY <1>0, <1>4 DEF Whole, Typed, Header
        <3> QED
            BY <1>3, <3>1, WholeAt DEF Available, Header
    <2> HIDE DEF f
    <2> QED
        BY <1>3, <1>4, <2>1, <2>3, <2>4, <2>5, <2>6, <2>7 DEF Took, Header
<1> QED
    BY <1>5, <1>6, <1>7, <1>8, SameKeeps DEF Whole

\* It reads the whole of this frame.
LEMMA ReadDataKeeps ==
    ASSUME Whole, ReadData
    PROVE  /\ Whole'
           /\ Turn \in Iface
           /\ Len(received[Turn]) < Len(sent[Turn])
           /\ received' = [received EXCEPT ![Turn] =
                                Append(@, sent[Turn][Len(received[Turn]) + 1])]
<1>a. pc = "readData" /\ Turn \in Iface
    BY TurnExists DEF ReadData, Whole
<1> PICK i \in Iface : i = Turn
    BY <1>a
<1> DEFINE f == sent[i]
           m == Len(received[i])
<1>1. Reading(i) /\ Available(i) > 0
    <2>1. taken[i] \in Nat /\ written[i] \in Nat /\ taken[i] <= written[i]
        BY WholeAt DEF Took
    <2>2. Available(i) # 0
        BY DEF ReadData, Waits
    <2> QED
        BY <1>a, <2>1, <2>2 DEF Reading, Available
<1>2. /\ m \in Nat /\ m + 1 \in 1 .. Len(f)
      /\ head = f[m + 1] /\ head \in Frame
      /\ \A a \in 1 .. m : received[i][a] = f[a]
    BY <1>1, WholeAt, DataThere DEF Took
<1>3. DataRead(i) = head.len /\ taken[i] + head.len = End(head) /\ written[i] >= End(head)
    BY <1>1, DataThere
<1>4. /\ taken' = [taken EXCEPT ![i] = End(head)]
      /\ received' = [received EXCEPT ![i] = Append(@, head)]
    <2>1. [at |-> head.at, len |-> head.len] = head
        BY <1>2 DEF Frame
    <2> QED
        BY <1>3, <2>1 DEF ReadData
<1>5. /\ UNCHANGED <<sent, plug, toWrite, written>>
      /\ pc' \in Steps /\ pc' # "readData"
      /\ ready' \subseteq Iface
      /\ pc' # "poll" => ready' # {}
    BY <1>a DEF ReadData, GoesOn, Remaining, plugVars, Steps, Whole, Typed
<1>6. Typed'
    <2>1. taken' \in [Iface -> Nat]
        BY <1>2, <1>4, FrameEnds DEF Whole, Typed
    <2>2. received' \in [Iface -> Seq(Frame)]
        BY <1>2, <1>4 DEF Whole, Typed
    <2> QED
        BY <1>5, <2>1, <2>2 DEF Whole, Typed
<1>7. \A j \in Iface \ {i} : Same(j)
    BY <1>4, <1>5 DEF Whole, Typed, Same, Reading, Turn
<1>8. Laid(i)' /\ Wrote(i)'
    BY <1>5, WholeAt DEF Laid, Wrote, EndOf, End, Header
<1>9. Took(i)'
    <2>1. /\ received'[i] = Append(received[i], head) /\ taken'[i] = End(head)
          /\ sent'[i] = f /\ written'[i] = written[i]
        BY <1>4, <1>5 DEF Whole, Typed
    <2>2. received[i] \in Seq(Frame)
        BY WholeAt
    <2>3. /\ Len(received'[i]) = m + 1
          /\ \A a \in 1 .. m + 1 : received'[i][a] = f[a]
        BY <1>2, <2>1, <2>2
    <2>4. ~Reading(i)'
        BY <1>5 DEF Reading
    <2>5. End(f[m + 1]) = EndOf(f, m + 1)
        BY <1>2 DEF EndOf
    <2>6. taken'[i] <= written'[i] /\ taken'[i] = EndOf(f, m + 1)
        BY <1>2, <1>3, <2>1, <2>5
    <2>7. EndOf(sent[i], Len(received[i]))' = EndOf(f, m + 1)
        BY <2>1, <2>3 DEF EndOf, End, Header
    <2>8. m + 1 <= Len(f)
        BY <1>2
    <2> HIDE DEF f, m
    <2> QED
        BY <2>1, <2>3, <2>4, <2>6, <2>7, <2>8 DEF Took
<1> QED
    <2>1. Whole'
        BY <1>6, <1>7, <1>8, <1>9, SameKeeps DEF Whole
    <2> QED
        BY <1>2, <1>4, <2>1


-----------------------------------------------------------------------------
(* The theorem.                                                            *)

\* A step of the pipes is a step of the queues, or leaves them alone.
LEMMA StepsOfQueues ==
    ASSUME Atomic, Whole, [Next]_vars
    PROVE  /\ Whole'
           /\ [Queue!Next]_(Queue!vars)
<1>1. CASE UNCHANGED vars
    <2>1. UNCHANGED <<plugVars, written, taken, received>> /\ pc' = pc /\ ready' = ready
          /\ head' = head /\ sent' = sent
        BY <1>1 DEF vars, plugVars
    <2>2. Typed'
        BY <1>1 DEF Whole, Typed, vars, plugVars
    <2> QED
        BY <2>1, <2>2, ElsewhereKeeps DEF Queue!vars
<1>2. CASE Poll
    BY <1>2, PollKeeps DEF Poll, plugVars, Queue!vars
<1>3. CASE ReadLength
    BY <1>3, ReadLengthKeeps DEF ReadLength, plugVars, Queue!vars
<1>4. CASE ReadData
    <2>1. Queue!Get(Turn)
        BY <1>4, ReadDataKeeps DEF ReadData, plugVars, Queue!Get
    <2> QED
        BY <1>4, <2>1, ReadDataKeeps DEF Queue!Next
<1>5. CASE SendsLength \/ SendsData
    BY <1>5, SendsKeeps DEF SendsLength, SendsData, plugVars, Queue!vars
<1>6. ASSUME NEW i \in Iface, PlugReads(i)
      PROVE  Whole' /\ UNCHANGED Queue!vars
    BY <1>6, PlugReadsKeeps DEF PlugReads, plugVars, Queue!vars
<1>7. ASSUME NEW i \in Iface, PlugWritesLength(i)
      PROVE  Whole' /\ UNCHANGED Queue!vars
    BY <1>7, PlugWritesLengthKeeps DEF PlugWritesLength, Queue!vars
<1>8. ASSUME NEW i \in Iface, PlugWritesData(i)
      PROVE  Whole' /\ UNCHANGED Queue!vars
    BY <1>8, PlugWritesDataKeeps DEF PlugWritesData, Queue!vars
<1>9. ASSUME NEW i \in Iface, PlugTakes(i)
      PROVE  Whole' /\ Queue!Next
    <2>1. Queue!Put(i)
        <3>1. PICK len \in FrameLen[i] :
                sent' = [sent EXCEPT ![i] = Append(@, [at |-> written[i], len |-> len])]
            BY <1>9 DEF PlugTakes
        <3> DEFINE new == [at |-> written[i], len |-> len]
        <3>2. new \in Frame /\ sent[i] \in Seq(Frame) /\ sent'[i] = Append(sent[i], new)
            BY <3>1, LengthsPositive, WholeAt DEF Frame, Whole, Typed
        <3>3. Len(sent'[i]) = Len(sent[i]) + 1 /\ sent'[i][Len(sent[i]) + 1] = new
            BY <3>2
        <3>4. UNCHANGED received
            BY <1>9 DEF PlugTakes
        <3> HIDE DEF new
        <3> QED
            BY <3>1, <3>2, <3>3, <3>4 DEF Queue!Put, new
    <2> QED
        BY <1>9, <2>1, PlugTakesKeeps DEF Queue!Next
<1> QED
    BY <1>1, <1>2, <1>3, <1>4, <1>5, <1>6, <1>7, <1>8, <1>9
    DEF Next, ProcessSteps, PlugSteps

\* As long as no frame is longer than what a pipe takes in one piece, the
\* process receives the frames of each plug whole and in order, however the
\* writes of the plugs fall between its reads.
THEOREM FramesArriveWhole ==
    ASSUME Atomic
    PROVE  Spec => FramesWhole
<1>1. Init => Queue!Init
    BY DEF Init, Queue!Init
<1>2. Whole /\ [Next]_vars => Whole' /\ [Queue!Next]_(Queue!vars)
    BY StepsOfQueues
<1> QED
    BY <1>1, <1>2, WholeInit, PTL DEF Spec, FramesWhole, Queue!Spec

-----------------------------------------------------------------------------
(* Nobody waits for everybody: while a plug waits for room, the process    *)
(* reads from it again after at most Slots frames sent, and after Reads    *)
(* such reads there is room.  So many frames must fit in the other pipe.   *)

\* The first read may have to wait for the rest of one turn and a part of the next.
First == IF Slots = 1 THEN 1 ELSE 2 * Slots - 2
Total == First + (Reads - 1) * Slots

Roomy ==
    /\ Slots \in Nat \ {0} /\ Long \in Nat /\ Short \in Nat /\ Reads \in Nat \ {0}
    /\ Iface \subseteq 1 .. Slots
    /\ Header <= Short
    /\ \A i \in Iface : \A n \in FrameLen[i] : Short <= Header + n /\ Header + n <= Long
    /\ Long <= Reads * Short
    /\ Total * Long <= PIPE_SIZE

Sending == pc \in {"sendLength", "sendData"}

\* How many frames the process may yet send before it has read the next one of interface o.
Chances(o) ==
    IF pc = "poll" THEN o - 1
    ELSE IF Turn = o THEN (IF Sending THEN Slots ELSE 0)
    ELSE IF o \in ready THEN o - Turn
    ELSE IF Turn < o THEN Slots - Turn + o - 1
    ELSE Slots - Turn + o

\* The bytes that the plug of o has taken on and the process has not read as a frame.
Owed(o) == EndOf(sent[o], Len(sent[o])) - EndOf(sent[o], Len(received[o]))

\* The length of a frame to o whose data is still to come.
Half(o) == IF pc = "sendData" /\ out.iface = o THEN Header ELSE 0

\* A plug that cannot write all it has taken on has been sent few frames since it last
\* looked at its input, so few that those to come still fit.
Spare(o) ==
    plug[o] # "poll" /\ Owed(o) > PIPE_SIZE =>
        \E n \in Nat, r \in Nat \ {0} :
            /\ toPlug[o] <= n * Long + Half(o)
            /\ Owed(o) <= PIPE_SIZE + r * Short
            /\ n + Chances(o) + (r - 1) * Slots <= Total

\* Neither pipe holds more than it can, and a frame is sent in one piece.
Sized ==
    /\ toPlug \in [Iface -> Nat]
    /\ \A i \in Iface : written[i] - taken[i] <= PIPE_SIZE
    /\ Sending => out.iface \in Iface /\ out.len \in FrameLen[out.iface] /\ out.left = out.len

Roomed == Whole /\ Sized /\ \A o \in Iface : Spare(o)

\* Products of frames and bytes, which the provers take apart in these two ways only.
LEMMA OneMore ==
    ASSUME NEW a \in Int, NEW b \in Int
    PROVE  (a + 1) * b = a * b + b /\ a * b \in Int
OBVIOUS

\* More frames take more bytes.
LEMMA MoreOf ==
    ASSUME NEW a \in Int, NEW b \in Int, NEW c \in Nat, a <= b
    PROVE  a * c <= b * c
OBVIOUS

\* What Roomy says of the constants.
LEMMA RoomyTyped ==
    ASSUME Roomy
    PROVE  /\ Slots \in Nat /\ Slots >= 1 /\ Long \in Nat /\ Short \in Nat /\ Short >= 2
           /\ Reads \in Nat /\ Reads >= 1 /\ First \in Nat /\ First >= Slots /\ Total \in Nat
           /\ First <= 2 * Slots - 1 /\ (Slots > 1 => First = 2 * Slots - 2)
           /\ \A o \in Iface : o \in Nat /\ 1 <= o /\ o <= Slots
<1>1. (Reads - 1) * Slots \in Nat
    BY DEF Roomy
<1> QED
    BY <1>1 DEF Roomy, First, Total, Header

\* The turn is that of the first flagged interface.
LEMMA TurnIsFirst ==
    ASSUME Roomy, Typed, pc # "poll"
    PROVE  /\ Turn \in ready /\ Turn \in Iface /\ Turn \in Nat /\ 1 <= Turn /\ Turn <= Slots
           /\ \A i \in ready : Turn <= i
<1>1. ready \subseteq Nat /\ ready # {} /\ ready \subseteq Iface
    BY PipeAssumption DEF Typed
<1>2. Turn \in ready /\ \A i \in ready : Turn <= i
    BY <1>1, MinIsLeast DEF Turn
<1> QED
    BY <1>1, <1>2, RoomyTyped

\* Between two reads of an interface few frames can be sent.
LEMMA ChancesBounded ==
    ASSUME Roomy, Typed, NEW o \in Iface
    PROVE  /\ Chances(o) \in Nat /\ Chances(o) <= First
           /\ Reading(o) => Chances(o) = 0
           /\ Sending => Chances(o) >= 1
<1>1. CASE pc = "poll"
    BY <1>1, RoomyTyped DEF Chances, Reading, Sending
<1>2. CASE pc # "poll"
    <2>1. /\ Turn \in ready /\ Turn \in Nat /\ 1 <= Turn /\ Turn <= Slots
          /\ \A i \in ready : Turn <= i /\ i \in Nat
        BY <1>2, TurnIsFirst, RoomyTyped DEF Typed
    <2> QED
        BY <1>2, <2>1, RoomyTyped DEF Chances, Reading, Sending
<1> QED
    BY <1>1, <1>2

\* A turn is over: one frame fewer can be sent before the next read of o; after a
\* read of o, as many as there are interfaces.
LEMMA ChancesGoOn ==
    ASSUME Roomy, Typed, Typed', NEW o \in Iface, GoesOn, pc \in {"readData", "sendData"}
    PROVE  /\ ~Reading(o) => Chances(o)' <= Chances(o) - 1
           /\ Reading(o) => Chances(o)' <= Slots
<1> DEFINE t == Turn
           u == Turn'
<1>1. /\ t \in ready /\ t \in Nat /\ 1 <= t /\ t <= Slots
      /\ \A i \in ready : t <= i /\ i \in Nat
    BY TurnIsFirst, RoomyTyped DEF Typed
<1>2. ready' = ready \ {t} /\ pc' = (IF ready' = {} THEN "poll" ELSE "readLength")
    BY DEF GoesOn, Remaining
<1>3. ~Sending'
    BY <1>2 DEF Sending
<1>4. CASE ready' = {}
    <2>1. Chances(o)' = o - 1
        BY <1>2, <1>4 DEF Chances
    <2>2. o \in ready => o = t
        BY <1>2, <1>4
    <2> QED
        BY <1>1, <2>1, <2>2, RoomyTyped DEF Chances, Reading, Sending
<1>5. CASE ready' # {}
    <2>1. pc' = "readLength"
        BY <1>2, <1>5
    <2>2. u \in ready' /\ u \in Nat /\ 1 <= u /\ u <= Slots /\ \A i \in ready' : u <= i
        <3>1. ready' \subseteq Nat /\ ready' \subseteq Iface
            BY RoomyTyped DEF Typed
        <3>2. Min(ready') \in ready' /\ \A y \in ready' : Min(ready') <= y
            BY <1>5, <3>1, MinIsLeast
        <3>3. u = Min(ready')
            BY DEF Turn
        <3> QED
            BY <3>1, <3>2, <3>3, RoomyTyped
    <2>3. t < u /\ t # u
        BY <1>1, <1>2, <2>2
    <2>4. Chances(o)' = IF u = o THEN 0
                        ELSE IF o \in ready' THEN o - u
                        ELSE IF u < o THEN Slots - u + o - 1
                        ELSE Slots - u + o
        BY <1>3, <2>1 DEF Chances
    <2>5. Chances(o) = IF t = o THEN (IF Sending THEN Slots ELSE 0)
                       ELSE IF o \in ready THEN o - t
                       ELSE IF t < o THEN Slots - t + o - 1
                       ELSE Slots - t + o
        BY DEF Chances
    <2>6. (o \in ready' <=> o \in ready /\ o # t) /\ (o \in ready' => u <= o)
        BY <1>2, <2>2
    <2>7. Reading(o) <=> t = o /\ ~Sending
        BY DEF Reading, Sending
    <2> HIDE DEF t, u
    <2> QED
        BY <1>1, <2>2, <2>3, <2>4, <2>5, <2>6, <2>7, RoomyTyped
<1> QED
    BY <1>4, <1>5

\* Chances only shrink when poll() flags the interface.
LEMMA ChancesPolled ==
    ASSUME Roomy, Typed, Typed', NEW o \in Iface, Poll, Available(o) > 0
    PROVE  Chances(o)' <= Chances(o)
<1>1. pc = "poll" /\ pc' = "readLength" /\ o \in ready'
    BY DEF Poll
<1>2. Turn' \in Nat /\ 1 <= Turn' /\ Turn' <= o
    <2>1. ready' \subseteq Nat /\ ready' \subseteq Iface
        BY RoomyTyped DEF Typed
    <2>2. Min(ready') \in ready' /\ Min(ready') <= o
        BY <1>1, <2>1, MinIsLeast
    <2>3. Turn' = Min(ready')
        BY DEF Turn
    <2> QED
        BY <2>1, <2>2, <2>3, RoomyTyped
<1> QED
    BY <1>1, <1>2, RoomyTyped DEF Chances, Sending

\* What is owed, in terms of the last frame the plug has taken on.
LEMMA OwedTyped ==
    ASSUME Whole, NEW o \in Iface
    PROVE  /\ EndOf(sent[o], Len(sent[o])) \in Nat
           /\ EndOf(sent[o], Len(received[o])) \in Nat
           /\ Owed(o) \in Int
<1> DEFINE f == sent[o]
<1>1. /\ Len(f) \in Nat /\ Len(received[o]) \in Nat /\ Len(received[o]) <= Len(f)
      /\ \A a \in 1 .. Len(f) : End(f[a]) \in Nat
    <2>1. \A a \in 1 .. Len(f) : f[a] \in Frame
        BY WholeAt
    <2> QED
        BY <2>1, FrameEnds, WholeAt DEF Took
<1>2. \A a \in 0 .. Len(f) : EndOf(f, a) \in Nat
    BY <1>1 DEF EndOf
<1> QED
    BY <1>1, <1>2 DEF Owed

\* A plug that still has to write owes more than the pipe holds if it has no room.
LEMMA BlockedOwes ==
    ASSUME Atomic, Whole, NEW o \in Iface, BlockedOnProcess(o)
    PROVE  plug[o] # "poll" /\ Owed(o) > PIPE_SIZE
<1> DEFINE f == sent[o]
           n == Len(f)
           m == Len(received[o])
           len == f[n].len
           read == EndOf(f, m)
<1>1. plug[o] # "poll" /\ n \in Nat /\ n > 0 /\ m \in Nat /\ m <= n /\ n \in 1 .. n
    BY WholeAt DEF BlockedOnProcess, Wrote, Took
<1>2. /\ EndOf(f, n) = f[n].at + 2 + f[n].len
      /\ f[n].at \in Nat /\ f[n].len \in Nat /\ f[n].len > 0 /\ f[n].len <= PIPE_BUF
    <2>1. f[n].len \in FrameLen[o]
        BY <1>1, WholeAt DEF Laid
    <2> QED
        BY <1>1, <2>1, WholeAt DEF EndOf, Atomic
<1>3. EndOf(f, m) \in Nat /\ EndOf(f, m) <= taken[o] /\ taken[o] \in Nat /\ written[o] \in Nat
    <2>1. CASE Reading(o)
        <3>1. m + 1 \in 1 .. n /\ (m + 1) - 1 = m /\ head = f[m + 1] /\ taken[o] = head.at + Header
            BY <1>1, <2>1, WholeAt DEF Took
        <3>2. f[m + 1].at = EndOf(f, m) /\ f[m + 1].at \in Nat
            BY <3>1, WholeAt DEF Laid
        <3> QED
            BY <3>1, <3>2, WholeAt DEF Header
    <2>2. CASE ~Reading(o)
        BY <2>2, WholeAt DEF Took
    <2> QED
        BY <2>1, <2>2
<1>a. PIPE_SIZE \in Nat
    BY PipeAssumption
<1>b. SUFFICES Owed(o) > PIPE_SIZE
    BY <1>1
<1>4. CASE plug[o] = "length"
    <2>1. PIPE_SIZE - (written[o] - taken[o]) < 2 /\ written[o] = f[n].at
        BY <1>4, WholeAt DEF BlockedOnProcess, RoomIn, Header, Wrote
    <2>2. Owed(o) = written[o] + 2 + len - read
        BY <1>2, <1>3, <2>1 DEF Owed
    <2>3. /\ len \in Nat /\ read \in Nat /\ read <= taken[o]
          /\ PIPE_SIZE - (written[o] - taken[o]) < 2
        BY <1>2, <1>3, <2>1
    <2> HIDE DEF len, read
    <2> QED
        BY <1>3, <1>a, <2>2, <2>3
<1>5. CASE plug[o] = "data"
    <2>1. /\ CanWrite(f[n].len, f[n].len, RoomIn(o)) = {}
          /\ written[o] = f[n].at + 2
        BY <1>5, WholeAt DEF BlockedOnProcess, Size, Wrote, Header
    <2>2. f[n].len \notin 1 .. RoomIn(o)
        BY <1>2, <2>1, PipeAssumption DEF CanWrite
    <2>3. f[n].len > PIPE_SIZE - (written[o] - taken[o])
        BY <1>2, <1>3, <2>2, PipeAssumption, SMTT(30) DEF RoomIn
    <2>4. Owed(o) = written[o] + len - read
        BY <1>2, <1>3, <2>1 DEF Owed
    <2>5. /\ len \in Nat /\ read \in Nat /\ read <= taken[o]
          /\ len > PIPE_SIZE - (written[o] - taken[o])
        BY <1>2, <1>3, <2>3
    <2> HIDE DEF len, read
    <2> QED
        BY <1>3, <1>a, <2>4, <2>5
<1> QED
    BY <1>1, <1>4, <1>5, WholeAt

\* If there is room for all that may be sent, the process is not kept waiting by a plug
\* that waits for it.
LEMMA RoomedIsSafe ==
    ASSUME Atomic, Roomy, Roomed
    PROVE  NoStandoff
<1> SUFFICES ASSUME NEW o \in Iface, BlockedOnPlug(o), BlockedOnProcess(o)
             PROVE  FALSE
    BY DEF NoStandoff
<1>1. Whole /\ Sized /\ Spare(o) /\ Typed
    BY DEF Roomed, Whole
<1>2. plug[o] # "poll" /\ Owed(o) > PIPE_SIZE
    BY <1>1, BlockedOwes
<1>3. /\ Sending /\ out.iface = o /\ out.len \in FrameLen[o] /\ out.left = out.len
      /\ toPlug[o] \in Nat
    BY <1>1 DEF BlockedOnPlug, Sending, Sized
<1>4. /\ out.len \in Nat /\ out.len > 0 /\ out.len + 2 <= Long /\ out.len <= PIPE_BUF
      /\ PIPE_SIZE \in Nat
    BY <1>3, LengthsPositive, PipeAssumption DEF Roomy, Atomic, Header
<1>5. PICK n \in Nat, r \in Nat \ {0} :
        /\ toPlug[o] <= n * Long + Half(o)
        /\ n + Chances(o) + (r - 1) * Slots <= Total
    BY <1>1, <1>2 DEF Spare
<1>6. n * Long + Long <= PIPE_SIZE /\ n * Long \in Nat
    <2>1. Chances(o) >= 1 /\ Chances(o) \in Nat
        BY <1>1, <1>3, ChancesBounded
    <2>2. (r - 1) * Slots \in Nat
        BY RoomyTyped
    <2>3. n + 1 <= Total
        BY <1>5, <2>1, <2>2, RoomyTyped
    <2>4. (n + 1) * Long <= Total * Long
        BY <2>3, RoomyTyped, MoreOf
    <2>5. (n + 1) * Long = n * Long + Long /\ n * Long \in Nat
        BY RoomyTyped, OneMore
    <2>6. Total * Long <= PIPE_SIZE /\ Total * Long \in Nat
        BY RoomyTyped DEF Roomy
    <2> QED
        BY <1>4, <2>4, <2>5, <2>6, RoomyTyped
<1>7. CASE pc = "sendLength"
    <2>1. PIPE_SIZE - toPlug[o] < 2
        BY <1>7 DEF BlockedOnPlug, RoomOut, Header
    <2>2. toPlug[o] <= n * Long
        BY <1>5, <1>6, <1>7 DEF Half
    <2> QED
        BY <1>3, <1>4, <1>6, <2>1, <2>2, RoomyTyped
<1>8. CASE pc = "sendData"
    <2>1. CanWrite(out.len, out.len, PIPE_SIZE - toPlug[o]) = {}
        BY <1>3, <1>8 DEF BlockedOnPlug, RoomOut
    <2>2. out.len \notin 1 .. PIPE_SIZE - toPlug[o]
        BY <1>4, <2>1, PipeAssumption DEF CanWrite
    <2>3. out.len > PIPE_SIZE - toPlug[o]
        BY <1>3, <1>4, <2>2
    <2>4. toPlug[o] <= n * Long + 2
        BY <1>3, <1>5, <1>8 DEF Half, Header
    <2> QED
        BY <1>3, <1>4, <1>6, <2>3, <2>4, RoomyTyped
<1> QED
    BY <1>3, <1>7, <1>8 DEF Sending

-----------------------------------------------------------------------------
(* Every step keeps room.                                                  *)

\* A step that takes nothing on and reads no frame of o, and sends at most one frame to o
\* for which there was a chance.
LEMMA SpareKeeps ==
    ASSUME Roomy, Whole, Whole', NEW o \in Iface, Spare(o),
           toPlug[o] \in Nat, toPlug'[o] \in Nat,
           plug'[o] # "poll" => plug[o] # "poll",
           Owed(o)' = Owed(o),
           \/ /\ Chances(o)' <= Chances(o)
              /\ toPlug'[o] - Half(o)' <= toPlug[o] - Half(o)
           \/ /\ Chances(o)' <= Chances(o) - 1
              /\ toPlug'[o] - Half(o)' <= toPlug[o] - Half(o) + Long
    PROVE  Spare(o)'
<1> SUFFICES ASSUME plug'[o] # "poll", Owed(o) > PIPE_SIZE
             PROVE  \E n \in Nat, r \in Nat \ {0} :
                        /\ toPlug'[o] <= n * Long + Half(o)'
                        /\ Owed(o) <= PIPE_SIZE + r * Short
                        /\ n + Chances(o)' + (r - 1) * Slots <= Total
    BY DEF Spare
<1>1. PICK n \in Nat, r \in Nat \ {0} :
        /\ toPlug[o] <= n * Long + Half(o)
        /\ Owed(o) <= PIPE_SIZE + r * Short
        /\ n + Chances(o) + (r - 1) * Slots <= Total
    BY DEF Spare
<1>2. /\ Chances(o) \in Nat /\ Chances(o)' \in Nat
      /\ Half(o) \in Nat /\ Half(o)' \in Nat
      /\ (r - 1) * Slots \in Nat /\ n * Long \in Nat /\ (n + 1) * Long = n * Long + Long
    <2>1. Chances(o) \in Nat
        BY ChancesBounded DEF Whole
    <2>2. Chances(o)' \in Nat
        <3>1. Typed'
            BY DEF Whole
        <3>2. /\ (pc' = "poll" \/ /\ Turn' \in Iface
                                  /\ o \in ready' => Turn' <= o)
            <4>1. ready' \subseteq Nat /\ ready' \subseteq Iface /\ (pc' # "poll" => ready' # {})
                BY <3>1, RoomyTyped DEF Typed
            <4>2. Turn' = Min(ready')
                BY DEF Turn
            <4> QED
                BY <4>1, <4>2, MinIsLeast
        <3> QED
            BY <3>2, RoomyTyped DEF Chances
    <2> QED
        BY <2>1, <2>2, OneMore, RoomyTyped DEF Half, Header
<1>3. CASE Chances(o)' <= Chances(o) /\ toPlug'[o] - Half(o)' <= toPlug[o] - Half(o)
    <2>1. toPlug'[o] <= n * Long + Half(o)'
        BY <1>1, <1>2, <1>3
    <2>2. n + Chances(o)' + (r - 1) * Slots <= Total
        BY <1>1, <1>2, <1>3, RoomyTyped
    <2> QED
        BY <1>1, <2>1, <2>2
<1>4. CASE /\ Chances(o)' <= Chances(o) - 1
           /\ toPlug'[o] - Half(o)' <= toPlug[o] - Half(o) + Long
    <2>1. toPlug'[o] <= (n + 1) * Long + Half(o)'
        BY <1>1, <1>2, <1>4, RoomyTyped
    <2>2. (n + 1) + Chances(o)' + (r - 1) * Slots <= Total
        BY <1>1, <1>2, <1>4, RoomyTyped
    <2> QED
        BY <1>1, <2>1, <2>2
<1> QED
    BY <1>3, <1>4

\* What is owed changes with what the plug takes on and the process reads only.
LEMMA OwedSame ==
    ASSUME NEW o \in Iface, sent'[o] = sent[o], received'[o] = received[o]
    PROVE  Owed(o)' = Owed(o)
BY DEF Owed, EndOf, End, Header

\* The plug takes on a frame: it has just emptied its input.
LEMMA SpareTaken ==
    ASSUME Roomy, Whole, Whole', Sized, NEW o \in Iface, PlugTakes(o)
    PROVE  Spare(o)'
<1> PICK len \in FrameLen[o] :
        sent' = [sent EXCEPT ![o] = Append(@, [at |-> written[o], len |-> len])]
    BY DEF PlugTakes
<1> DEFINE f == sent[o]
           n == Len(f)
           m == Len(received[o])
           new == [at |-> written[o], len |-> len]
<1>0. /\ plug[o] = "poll" /\ toPlug[o] = 0
      /\ UNCHANGED <<written, taken, toPlug, pc, ready, head, out, received>>
    BY DEF PlugTakes
<1>1. /\ len \in Nat /\ len + 2 <= Long /\ written[o] \in Nat /\ taken[o] \in Nat
      /\ n \in Nat /\ m \in Nat /\ m <= n /\ f \in Seq(Frame) /\ PIPE_SIZE \in Nat
      /\ written[o] - taken[o] <= PIPE_SIZE
    BY LengthsPositive, WholeAt, PipeAssumption DEF Took, Roomy, Header, Sized
<1>2. sent'[o] = Append(f, new) /\ Len(sent'[o]) = n + 1 /\ sent'[o][n + 1] = new
      /\ \A a \in 1 .. n : sent'[o][a] = f[a]
    BY <1>1 DEF Whole, Typed
<1>3. Owed(o)' = written[o] + 2 + len - EndOf(f, m)
    <2>1. EndOf(sent'[o], n + 1) = written[o] + 2 + len
        BY <1>1, <1>2 DEF EndOf, End, Header
    <2>2. EndOf(sent'[o], m) = EndOf(f, m)
        BY <1>1, <1>2 DEF EndOf
    <2>3. Owed(o)' = EndOf(sent'[o], Len(sent'[o])) - EndOf(sent'[o], Len(received'[o]))
        BY DEF Owed, EndOf, End, Header
    <2>4. Len(sent'[o]) = n + 1 /\ Len(received'[o]) = m
        BY <1>0, <1>2
    <2>5. EndOf(sent'[o], Len(sent'[o])) = written[o] + 2 + len
        BY <2>1, <2>4
    <2>6. EndOf(sent'[o], Len(received'[o])) = EndOf(f, m)
        BY <2>2, <2>4
    <2>7. EndOf(f, m) \in Nat
        BY OwedTyped
    <2> QED
        BY <1>1, <2>3, <2>5, <2>6, <2>7
<1>4. EndOf(f, m) \in Nat
    BY OwedTyped
<1>5. /\ Chances(o)' = Chances(o) /\ Half(o)' = Half(o) /\ Half(o) \in Nat
      /\ Chances(o) \in Nat /\ Chances(o) <= First
    <2>1. Chances(o)' = Chances(o) /\ Half(o)' = Half(o)
        BY <1>0 DEF Chances, Half, Turn, Sending
    <2> QED
        BY <2>1, ChancesBounded DEF Half, Header, Whole
<1>6. CASE ~Reading(o)
    <2>1. taken[o] = EndOf(f, m)
        BY <1>6, WholeAt DEF Took
    <2>2. Owed(o)' <= PIPE_SIZE + Reads * Short
        <3>1. Reads * Short \in Nat /\ Long <= Reads * Short
            BY RoomyTyped DEF Roomy
        <3>2. Owed(o)' = written[o] + 2 + len - taken[o]
            BY <1>3, <2>1
        <3> DEFINE room == Reads * Short
        <3>3. /\ room \in Nat /\ Long <= room /\ Long \in Nat
              /\ len \in Nat /\ len + 2 <= Long /\ PIPE_SIZE \in Nat
              /\ written[o] \in Nat /\ taken[o] \in Nat /\ written[o] - taken[o] <= PIPE_SIZE
            BY <1>1, <3>1, RoomyTyped
        <3>4. Owed(o)' <= PIPE_SIZE + room
            <4> HIDE DEF room
            <4> QED
                BY <3>2, <3>3
        <3> QED
            BY <3>4
    <2>3. 0 + Chances(o) + (Reads - 1) * Slots <= Total
        <3>1. (Reads - 1) * Slots \in Nat
            BY RoomyTyped
        <3> QED
            BY <1>5, <3>1, RoomyTyped DEF Total
    <2>4. toPlug'[o] <= 0 * Long + Half(o)'
        BY <1>0, <1>5, RoomyTyped
    <2>5. 0 \in Nat /\ Reads \in Nat \ {0}
        BY RoomyTyped
    <2> QED
        BY <1>5, <2>2, <2>3, <2>4, <2>5 DEF Spare
<1>7. CASE Reading(o)
    <2>1. taken[o] = EndOf(f, m) + 2
        <3>1. m + 1 \in 1 .. n /\ (m + 1) - 1 = m /\ head = f[m + 1] /\ taken[o] = head.at + 2
            BY <1>1, <1>7, WholeAt DEF Took, Header
        <3>2. f[m + 1].at = EndOf(f, m)
            BY <3>1, WholeAt DEF Laid
        <3> QED
            BY <3>1, <3>2
    <2>2. Owed(o)' <= PIPE_SIZE + (Reads + 1) * Short
        <3>1. Reads * Short \in Nat /\ Long <= Reads * Short
            BY RoomyTyped DEF Roomy
        <3>2. (Reads + 1) * Short = Reads * Short + Short
            BY OneMore, RoomyTyped
        <3>3. Owed(o)' = written[o] + 2 + len - (taken[o] - 2)
            BY <1>1, <1>3, <1>4, <2>1
        <3> DEFINE room == Reads * Short
                   more == (Reads + 1) * Short
        <3>4. /\ room \in Nat /\ Long <= room /\ Long \in Nat
              /\ Short \in Nat /\ 2 <= Short /\ more = room + Short
              /\ len \in Nat /\ len + 2 <= Long /\ PIPE_SIZE \in Nat
              /\ written[o] \in Nat /\ taken[o] \in Nat /\ written[o] - taken[o] <= PIPE_SIZE
            BY <1>1, <3>1, <3>2, RoomyTyped
        <3>5. Owed(o)' <= PIPE_SIZE + more
            <4> HIDE DEF room, more
            <4> QED
                BY <3>3, <3>4, SMTT(30)
        <3> QED
            BY <3>5
    <2>3. 0 + Chances(o) + ((Reads + 1) - 1) * Slots <= Total
        <3>1. Chances(o) = 0
            BY <1>7, ChancesBounded DEF Whole
        <3>2. Reads * Slots = (Reads - 1) * Slots + Slots /\ (Reads - 1) * Slots \in Nat
            <4>1. ((Reads - 1) + 1) * Slots = (Reads - 1) * Slots + Slots
                BY OneMore, RoomyTyped
            <4> QED
                BY <4>1, RoomyTyped, SMTT(30)
        <3>3. (Reads + 1) - 1 = Reads
            BY RoomyTyped
        <3>4. 0 + Chances(o) + Reads * Slots <= Total
            BY <3>1, <3>2, RoomyTyped DEF Total
        <3> QED
            BY <3>3, <3>4
    <2>4. toPlug'[o] <= 0 * Long + Half(o)'
        BY <1>0, <1>5, RoomyTyped
    <2>5. 0 \in Nat /\ Reads + 1 \in Nat \ {0}
        BY RoomyTyped
    <2> QED
        BY <1>5, <2>2, <2>3, <2>4, <2>5 DEF Spare
<1> QED
    BY <1>6, <1>7

\* The process reads a frame of o: the plug owes that much less.
LEMMA SpareRead ==
    ASSUME Roomy, Whole, Whole', Sized, NEW o \in Iface, Spare(o), ReadData, Turn = o
    PROVE  Spare(o)'
<1> DEFINE f == sent[o]
           m == Len(received[o])
           len == f[m + 1].len
<1>1. Reading(o) /\ Typed /\ Typed'
    BY DEF ReadData, Reading, Whole
<1>2. /\ m \in Nat /\ m + 1 \in 1 .. Len(f)
      /\ received' = [received EXCEPT ![o] = Append(@, f[m + 1])]
    BY WholeAt, ReadDataKeeps
<1>3. /\ sent' = sent /\ plug' = plug /\ toPlug' = toPlug /\ pc = "readData"
      /\ (GoesOn \/ pc' = "sendLength")
    BY DEF ReadData, plugVars
<1>4. Len(received'[o]) = m + 1
    BY <1>2, WholeAt DEF Whole, Typed
<1>5. /\ len \in Nat /\ len + 2 >= Short
      /\ EndOf(f, m + 1) = EndOf(f, m) + len + 2
      /\ EndOf(f, m) \in Nat
    <2>1. f[m + 1].len \in FrameLen[o] /\ f[m + 1].at = EndOf(f, m)
        <3>1. (m + 1) - 1 = m
            BY <1>2
        <3> QED
            BY <1>2, <3>1, WholeAt DEF Laid
    <2>2. EndOf(f, m + 1) = f[m + 1].at + 2 + f[m + 1].len /\ f[m + 1].len \in Nat
        BY <1>2, WholeAt DEF EndOf
    <2>3. EndOf(f, m) \in Nat
        BY OwedTyped
    <2>4. f[m + 1].len + 2 >= Short
        <3>1. Short <= 2 + len
            BY <2>1 DEF Roomy, Header
        <3>2. len \in Nat /\ Short \in Nat
            BY <2>2, RoomyTyped
        <3> HIDE DEF len
        <3>3. len + 2 >= Short
            BY <3>1, <3>2
        <3> QED
            BY <3>3 DEF len
    <2> QED
        BY <2>1, <2>2, <2>3, <2>4
<1>6. Owed(o)' = Owed(o) - (len + 2)
    <2>1. Owed(o)' = EndOf(sent'[o], Len(sent'[o])) - EndOf(sent'[o], Len(received'[o]))
        BY DEF Owed, EndOf, End, Header
    <2>2. Owed(o)' = EndOf(f, Len(f)) - EndOf(f, m + 1)
        BY <1>3, <1>4, <2>1
    <2>3. EndOf(f, Len(f)) \in Nat /\ Owed(o) = EndOf(f, Len(f)) - EndOf(f, m)
        BY OwedTyped DEF Owed
    <2> DEFINE all == EndOf(f, Len(f))
               read == EndOf(f, m)
               next == EndOf(f, m + 1)
    <2>4. /\ Owed(o)' = all - next /\ Owed(o) = all - read /\ next = read + len + 2
          /\ all \in Nat /\ read \in Nat /\ len \in Nat
        BY <1>5, <2>2, <2>3
    <2> HIDE DEF all, read, next, len
    <2> QED
        BY <2>4
<1>7. /\ Chances(o) = 0 /\ Chances(o)' <= Slots
      /\ Half(o) = 0 /\ Half(o)' = 0
    <2>1. Chances(o) = 0
        BY <1>1, ChancesBounded
    <2>2. Half(o) = 0 /\ Half(o)' = 0
        BY <1>3 DEF Half, GoesOn
    <2>3. CASE GoesOn
        BY <1>1, <1>3, <2>1, <2>2, <2>3, ChancesGoOn
    <2>4. CASE pc' = "sendLength" /\ ~GoesOn
        <3>1. ready' = ready
            BY <2>4 DEF ReadData
        <3>2. Turn' = o
            BY <3>1 DEF Turn
        <3>3. Chances(o)' = Slots
            BY <2>4, <3>2 DEF Chances, Sending
        <3> QED
            BY <2>1, <2>2, <3>3, RoomyTyped
    <2> QED
        BY <1>3, <2>3, <2>4
<1> SUFFICES ASSUME plug[o] # "poll", Owed(o)' > PIPE_SIZE
             PROVE  \E n \in Nat, r \in Nat \ {0} :
                        /\ toPlug[o] <= n * Long + Half(o)'
                        /\ Owed(o)' <= PIPE_SIZE + r * Short
                        /\ n + Chances(o)' + (r - 1) * Slots <= Total
    BY <1>3 DEF Spare
<1>8. Owed(o) > PIPE_SIZE /\ Owed(o) \in Int /\ Owed(o)' \in Int
    <2>1. Owed(o) \in Int
        BY OwedTyped
    <2> HIDE DEF len
    <2> QED
        BY <1>5, <1>6, <2>1, PipeAssumption
<1>9. PICK n \in Nat, r \in Nat \ {0} :
        /\ toPlug[o] <= n * Long + Half(o)
        /\ Owed(o) <= PIPE_SIZE + r * Short
        /\ n + Chances(o) + (r - 1) * Slots <= Total
    BY <1>8 DEF Spare
<1>10. /\ r * Short = (r - 1) * Short + Short
       /\ (r - 1) * Short \in Nat
    <2>1. ((r - 1) + 1) * Short = (r - 1) * Short + Short
        BY OneMore, RoomyTyped
    <2> QED
        BY <2>1, RoomyTyped
<1>11. Owed(o)' <= PIPE_SIZE + (r - 1) * Short
    <2> DEFINE less == (r - 1) * Short
               full == r * Short
    <2>1. /\ less \in Nat /\ full = less + Short /\ Owed(o) <= PIPE_SIZE + full
          /\ PIPE_SIZE \in Nat /\ Short \in Nat
        BY <1>9, <1>10, RoomyTyped, PipeAssumption
    <2>2. Owed(o)' <= PIPE_SIZE + less
        <3> HIDE DEF less, full, len
        <3> QED
            BY <1>5, <1>6, <1>8, <2>1
    <2> QED
        BY <2>2
<1>12. r # 1
    <2>1. CASE r = 1
        <3>1. (r - 1) * Short = 0
            BY <2>1, RoomyTyped
        <3> QED
            BY <1>8, <1>11, <3>1, PipeAssumption
    <2> QED
        BY <2>1
<1>13. n + Chances(o)' + ((r - 1) - 1) * Slots <= Total
    <2>1. (((r - 1) - 1) + 1) * Slots = ((r - 1) - 1) * Slots + Slots
        BY OneMore, RoomyTyped
    <2>2. ((r - 1) - 1) + 1 = r - 1
        OBVIOUS
    <2> DEFINE less == ((r - 1) - 1) * Slots
               full == (r - 1) * Slots
    <2>3. full = less + Slots /\ less \in Int /\ n + 0 + full <= Total /\ Chances(o)' \in Int
        <3>1. Chances(o)' \in Int
            <4>1. pc' = "poll" \/ Turn' \in Nat
                BY <1>1, RoomyTyped, MinIsLeast DEF Turn, Typed
            <4> QED
                BY <4>1, RoomyTyped DEF Chances
        <3> QED
            BY <1>7, <1>9, <2>1, <2>2, <3>1, RoomyTyped
    <2>4. n + Chances(o)' + less <= Total
        <3> HIDE DEF less, full
        <3> QED
            BY <1>7, <2>3, RoomyTyped
    <2> QED
        BY <2>4
<1>14. r - 1 \in Nat \ {0}
    BY <1>12
<1> QED
    BY <1>7, <1>9, <1>11, <1>13, <1>14

\* The process writes the length of a frame: nothing is decided yet.
LEMMA SpareLength ==
    ASSUME Roomy, Whole, Whole', Sized, Sized', NEW o \in Iface, Spare(o), SendsLength
    PROVE  Spare(o)'
<1>1. /\ toPlug[o] \in Nat /\ toPlug'[o] \in Nat /\ out.iface \in Iface
      /\ pc = "sendLength" /\ pc' = "sendData"
      /\ UNCHANGED <<sent, plug, received, ready, out>>
      /\ toPlug' = [toPlug EXCEPT ![out.iface] = @ + 2]
    BY DEF SendsLength, Sized, Sending, plugVars, Header
<1>2. toPlug'[o] = (IF out.iface = o THEN toPlug[o] + 2 ELSE toPlug[o])
    BY <1>1 DEF Sized
<1>3. Half(o) = 0 /\ Half(o)' = (IF out.iface = o THEN 2 ELSE 0)
    BY <1>1 DEF Half, Header
<1>4. Chances(o)' = Chances(o) /\ Chances(o) \in Nat
    BY <1>1, ChancesBounded DEF Chances, Sending, Turn, Whole
<1>5. toPlug'[o] - Half(o)' <= toPlug[o] - Half(o)
    BY <1>1, <1>2, <1>3
<1>6. Owed(o)' = Owed(o) /\ plug'[o] = plug[o]
    BY <1>1, OwedSame
<1> QED
    BY <1>1, <1>4, <1>5, <1>6, SpareKeeps

\* It writes the data, all at once, and its turn is over.
LEMMA SpareData ==
    ASSUME Atomic, Roomy, Whole, Whole', Sized, Sized', NEW o \in Iface, Spare(o), SendsData
    PROVE  Spare(o)'
<1>1. /\ toPlug[o] \in Nat /\ toPlug'[o] \in Nat /\ out.iface \in Iface
      /\ out.len \in FrameLen[out.iface] /\ out.left = out.len
      /\ pc = "sendData" /\ UNCHANGED <<sent, plug, received>>
    BY DEF SendsData, Sized, Sending, plugVars
<1>2. out.len \in Nat /\ out.len <= PIPE_BUF /\ 2 + out.len <= Long
    BY <1>1, LengthsPositive DEF Atomic, Roomy, Header
<1>3. GoesOn /\ toPlug' = [toPlug EXCEPT ![out.iface] = @ + out.len]
    <2>1. PICK n \in CanWrite(out.len, out.left, RoomOut(out.iface)) :
            /\ toPlug' = [toPlug EXCEPT ![out.iface] = @ + n]
            /\ \/ n = out.left /\ GoesOn
               \/ n < out.left /\ out' = [out EXCEPT !.left = @ - n] /\ UNCHANGED <<pc, ready>>
        BY DEF SendsData
    <2>2. n = out.len
        BY <1>1, <1>2, <2>1 DEF CanWrite
    <2> QED
        BY <1>1, <1>2, <2>1, <2>2
<1>4. toPlug'[o] = (IF out.iface = o THEN toPlug[o] + out.len ELSE toPlug[o])
    BY <1>1, <1>3 DEF Sized
<1>5. Half(o) = (IF out.iface = o THEN 2 ELSE 0) /\ Half(o)' = 0
    BY <1>1, <1>3 DEF Half, GoesOn, Header
<1>6. Chances(o)' <= Chances(o) - 1
    <2>1. ~Reading(o) /\ Typed /\ Typed'
        BY <1>1 DEF Reading, Whole
    <2> QED
        BY <1>1, <1>3, <2>1, ChancesGoOn
<1>7. toPlug'[o] - Half(o)' <= toPlug[o] - Half(o) + Long
    <2> DEFINE len == out.len
    <2>1. len \in Nat /\ 2 + len <= Long /\ Long \in Nat
        BY <1>2, RoomyTyped
    <2>2. toPlug'[o] = (IF out.iface = o THEN toPlug[o] + len ELSE toPlug[o])
        BY <1>4
    <2> HIDE DEF len
    <2> QED
        BY <1>1, <1>5, <2>1, <2>2
<1>8. Owed(o)' = Owed(o) /\ plug'[o] = plug[o]
    BY <1>1, OwedSame
<1> QED
    BY <1>1, <1>6, <1>7, <1>8, SpareKeeps

\* A turn that ends without a frame to send, or a frame of another interface that is read.
LEMMA SpareReadElsewhere ==
    ASSUME Roomy, Whole, Whole', Sized, Sized', NEW o \in Iface, Spare(o), ReadData, Turn # o
    PROVE  Spare(o)'
<1>1. /\ toPlug[o] \in Nat /\ toPlug' = toPlug /\ pc = "readData"
      /\ sent' = sent /\ plug' = plug /\ received'[o] = received[o]
    BY DEF ReadData, plugVars, Sized, Whole, Typed
<1>2. Half(o) = 0 /\ Half(o)' = 0
    BY <1>1 DEF Half, ReadData, GoesOn
<1>3. Chances(o) \in Nat /\ ~Reading(o) /\ Typed /\ Typed'
    BY ChancesBounded DEF Reading, Whole
<1>4. Chances(o)' <= Chances(o)
    <2>1. CASE GoesOn
        <3>1. Chances(o)' <= Chances(o) - 1
            BY <1>1, <1>3, <2>1, ChancesGoOn
        <3>2. Chances(o)' \in Int
            <4>1. pc' = "poll" \/ Turn' \in Nat
                BY <1>3, RoomyTyped, MinIsLeast DEF Turn, Typed
            <4> QED
                BY <4>1, RoomyTyped DEF Chances
        <3> QED
            BY <1>3, <3>1, <3>2
    <2>2. CASE ~GoesOn
        <3>1. pc' = "sendLength" /\ ready' = ready
            BY <2>2 DEF ReadData
        <3>2. Turn' = Turn
            BY <3>1 DEF Turn
        <3>3. Chances(o)' = Chances(o)
            BY <1>1, <3>1, <3>2 DEF Chances
        <3> QED
            BY <1>3, <3>3
    <2> QED
        BY <2>1, <2>2
<1>5. Owed(o)' = Owed(o)
    BY <1>1, OwedSame
<1> QED
    BY <1>1, <1>2, <1>4, <1>5, SpareKeeps

\* poll() reports every interface whose plug waits for room.
LEMMA SparePolled ==
    ASSUME Roomy, Whole, Whole', Sized, Sized', NEW o \in Iface, Spare(o), Poll
    PROVE  Spare(o)'
<1>1. /\ toPlug[o] \in Nat /\ UNCHANGED <<plugVars, written, taken, toPlug, out, received>>
      /\ pc = "poll" /\ pc' = "readLength"
    BY DEF Poll, Sized
<1>2. Owed(o)' = Owed(o) /\ Half(o) = 0 /\ Half(o)' = 0
    BY <1>1, OwedSame DEF Half, plugVars
<1>3. CASE Available(o) > 0
    <2>1. Chances(o)' <= Chances(o)
        BY <1>3, ChancesPolled DEF Whole
    <2> QED
        BY <1>1, <1>2, <2>1, SpareKeeps DEF plugVars
<1>4. CASE ~(Available(o) > 0)
    <2> SUFFICES ASSUME plug[o] # "poll", Owed(o) > PIPE_SIZE
                 PROVE  FALSE
        BY <1>1, <1>2 DEF Spare, plugVars
    <2> DEFINE f == sent[o]
               n == Len(f)
    <2>1. n \in Nat /\ n > 0 /\ n \in 1 .. n
        BY WholeAt DEF Wrote
    <2>2. taken[o] = EndOf(f, Len(received[o]))
        BY <1>1, WholeAt DEF Took, Reading
    <2>3. /\ EndOf(f, n) = f[n].at + 2 + f[n].len /\ f[n].at \in Nat /\ f[n].len \in Nat
          /\ 2 + f[n].len <= Long
        <3>1. f[n].len \in FrameLen[o]
            BY <2>1, WholeAt DEF Laid
        <3>2. 2 + f[n].len <= Long
            BY <3>1 DEF Roomy, Header
        <3>3. EndOf(f, n) = f[n].at + 2 + f[n].len /\ f[n].at \in Nat /\ f[n].len \in Nat
            BY <2>1, WholeAt DEF EndOf
        <3> QED
            BY <3>2, <3>3
    <2>4. written[o] >= f[n].at /\ written[o] \in Nat /\ taken[o] \in Nat
        BY <2>3, WholeAt DEF Wrote, Header
    <2>5. Long <= PIPE_SIZE /\ PIPE_SIZE \in Nat /\ Long \in Nat
        <3>1. (Reads - 1) * Slots \in Nat
            BY RoomyTyped
        <3>2. 1 <= Total
            BY <3>1, RoomyTyped DEF Total
        <3>3. 1 * Long <= Total * Long /\ 1 * Long = Long /\ Total * Long \in Nat
            BY <3>2, MoreOf, RoomyTyped
        <3> QED
            BY <3>3, RoomyTyped, PipeAssumption DEF Roomy
    <2>6. Owed(o) = f[n].at + 2 + f[n].len - taken[o]
        BY <2>2, <2>3, <2>4 DEF Owed
    <2>7. written[o] <= taken[o]
        BY <1>4, <2>4 DEF Available
    <2> DEFINE at == f[n].at
               len == f[n].len
    <2>8. /\ at \in Nat /\ len \in Nat /\ 2 + len <= Long /\ at <= written[o]
          /\ Owed(o) = at + 2 + len - taken[o]
        BY <2>3, <2>4, <2>6
    <2> HIDE DEF at, len
    <2> QED
        BY <2>4, <2>5, <2>7, <2>8
<1> QED
    BY <1>3, <1>4

\* Sized does not depend on the schedule: every write stays within the pipe.
LEMMA SizedKeeps ==
    ASSUME Atomic, Roomy, Whole, Whole', Sized, [Next]_vars
    PROVE  Sized'
<1>0. \A i \in Iface : /\ written[i] \in Nat /\ taken[i] \in Nat /\ toPlug[i] \in Nat
                       /\ written'[i] \in Nat /\ taken'[i] \in Nat
                       /\ written[i] - taken[i] <= PIPE_SIZE
    BY DEF Whole, Typed, Sized
<1>a. PIPE_SIZE \in Nat
    BY PipeAssumption
<1>1. CASE UNCHANGED vars
    BY <1>1 DEF vars, plugVars, Sized, Sending
<1>2. CASE Poll
    BY <1>2 DEF Poll, plugVars, Sized, Sending
<1>3. CASE ReadLength
    <2>1. /\ UNCHANGED <<written, toPlug, out>> /\ pc' = "readData"
          /\ \A i \in Iface : taken'[i] >= taken[i]
        <3>1. Turn \in Iface /\ pc = "readLength"
            BY <1>3, TurnExists DEF ReadLength, Whole
        <3>2. Available(Turn) \in Nat
            BY <1>0, <1>3, <3>1 DEF ReadLength, Available
        <3>3. Minimum(Header, Available(Turn)) \in Nat
            BY <3>2 DEF Minimum, Header
        <3>4. taken' = [taken EXCEPT ![Turn] = @ + Minimum(Header, Available(Turn))]
            BY <1>3 DEF ReadLength
        <3> DEFINE n == Minimum(Header, Available(Turn))
        <3>5. \A i \in Iface : taken'[i] >= taken[i]
            <4>1. n \in Nat /\ taken' = [taken EXCEPT ![Turn] = @ + n] /\ taken \in [Iface -> Nat]
                BY <3>3, <3>4 DEF Whole, Typed
            <4> HIDE DEF n
            <4> QED
                BY <1>0, <3>1, <4>1
        <3> QED
            BY <1>3, <3>5 DEF ReadLength, plugVars
    <2>2. \A i \in Iface : written'[i] - taken'[i] <= PIPE_SIZE
        BY <1>0, <1>a, <2>1
    <2> QED
        BY <2>1, <2>2 DEF Sized, Sending
<1>4. CASE ReadData
    <2>1. /\ UNCHANGED <<written, toPlug>>
          /\ \A i \in Iface : taken'[i] >= taken[i]
        <3>1. Turn \in Iface /\ pc = "readData"
            BY <1>4, TurnExists DEF ReadData, Whole
        <3>2. Available(Turn) \in Nat
            BY <1>0, <3>1, WholeAt DEF Available, Took
        <3>3. DataRead(Turn) \in Nat
            <4>1. PICK i \in Iface : i = Turn
                BY <3>1
            <4>2. Len(received[i]) + 1 \in 1 .. Len(sent[i]) /\ head = sent[i][Len(received[i]) + 1]
                BY <3>1, <4>1, WholeAt DEF Took, Reading
            <4>3. head.len \in Nat
                BY <4>2, WholeAt
            <4> QED
                BY <3>2, <4>3 DEF DataRead, Minimum
        <3>4. taken' = [taken EXCEPT ![Turn] = @ + DataRead(Turn)]
            BY <1>4 DEF ReadData
        <3> DEFINE n == DataRead(Turn)
        <3>5. \A i \in Iface : taken'[i] >= taken[i]
            <4>1. n \in Nat /\ taken' = [taken EXCEPT ![Turn] = @ + n] /\ taken \in [Iface -> Nat]
                BY <3>3, <3>4 DEF Whole, Typed
            <4> HIDE DEF n
            <4> QED
                BY <1>0, <3>1, <4>1
        <3> QED
            BY <1>4, <3>5 DEF ReadData, plugVars
    <2>2. \A i \in Iface : written'[i] - taken'[i] <= PIPE_SIZE
        BY <1>0, <1>a, <2>1
    <2>3. \/ pc' \in {"poll", "readLength"}
          \/ /\ pc' = "sendLength"
             /\ \E o \in Iface : \E m \in FrameLen[o] : out' = [iface |-> o, len |-> m, left |-> m]
        BY <1>4 DEF ReadData, GoesOn
    <2>4. Sending' => out'.iface \in Iface /\ out'.len \in FrameLen[out'.iface] /\ out'.left = out'.len
        BY <2>3 DEF Sending
    <2> QED
        BY <2>1, <2>2, <2>4 DEF Sized
<1>5. CASE SendsLength
    <2>1. out.iface \in Iface /\ UNCHANGED <<written, taken, out>> /\ Sending /\ Sending'
        BY <1>5 DEF SendsLength, Sized, Sending
    <2>2. toPlug' \in [Iface -> Nat]
        BY <1>0, <1>5, <2>1 DEF SendsLength, Sized, Header
    <2> QED
        BY <2>1, <2>2 DEF Sized
<1>6. CASE SendsData
    <2>1. /\ out.iface \in Iface /\ UNCHANGED <<written, taken>> /\ Sending
          /\ out.len \in FrameLen[out.iface] /\ out.left = out.len
        BY <1>6 DEF SendsData, Sized, Sending
    <2>2. out.len \in Nat /\ out.len <= PIPE_BUF
        BY <2>1, LengthsPositive DEF Atomic
    <2>3. PICK n \in CanWrite(out.len, out.left, RoomOut(out.iface)) :
            /\ toPlug' = [toPlug EXCEPT ![out.iface] = @ + n]
            /\ \/ n = out.left /\ GoesOn
               \/ n < out.left /\ out' = [out EXCEPT !.left = @ - n] /\ UNCHANGED <<pc, ready>>
        BY <1>6 DEF SendsData
    <2>4. n = out.len
        BY <2>1, <2>2, <2>3 DEF CanWrite
    <2>5. GoesOn /\ toPlug' = [toPlug EXCEPT ![out.iface] = @ + out.len]
        BY <2>1, <2>2, <2>3, <2>4
    <2>6. toPlug' \in [Iface -> Nat] /\ ~Sending'
        BY <1>0, <2>1, <2>2, <2>5 DEF GoesOn, Sending, Sized
    <2> QED
        BY <2>1, <2>6 DEF Sized
<1>7. ASSUME NEW i \in Iface, PlugReads(i)
      PROVE  Sized'
    <2>1. UNCHANGED <<written, taken, pc, out>> /\ toPlug' \in [Iface -> Nat]
        BY <1>7 DEF PlugReads, Sized
    <2> QED
        BY <2>1 DEF Sized, Sending
<1>8. ASSUME NEW i \in Iface, PlugTakes(i)
      PROVE  Sized'
    BY <1>8 DEF PlugTakes, Sized, Sending
<1>9. ASSUME NEW i \in Iface, PlugWritesLength(i)
      PROVE  Sized'
    <2>1. /\ UNCHANGED <<taken, toPlug, pc, out>> /\ PIPE_SIZE - (written[i] - taken[i]) >= 2
          /\ written' = [written EXCEPT ![i] = @ + 2]
        BY <1>9 DEF PlugWritesLength, RoomIn, Header
    <2>2. \A j \in Iface : written'[j] - taken'[j] <= PIPE_SIZE
        BY <1>0, <1>a, <2>1 DEF Whole, Typed
    <2> QED
        BY <2>1, <2>2 DEF Sized, Sending
<1>10. ASSUME NEW i \in Iface, PlugWritesData(i)
       PROVE  Sized'
    <2>1. UNCHANGED <<taken, toPlug, pc, out>>
        BY <1>10 DEF PlugWritesData
    <2>2. PICK n \in CanWrite(Size(i), toWrite[i], RoomIn(i)) :
            written' = [written EXCEPT ![i] = @ + n]
        BY <1>10 DEF PlugWritesData
    <2>3. n \in Nat /\ n <= RoomIn(i) /\ RoomIn(i) = PIPE_SIZE - (written[i] - taken[i])
        BY <1>0, <1>a, <2>2, WholeAt DEF CanWrite, Minimum, RoomIn
    <2>4. \A j \in Iface : written'[j] - taken'[j] <= PIPE_SIZE
        BY <1>0, <1>a, <2>1, <2>2, <2>3 DEF Whole, Typed
    <2> QED
        BY <2>1, <2>4 DEF Sized, Sending
<1> QED
    BY <1>1, <1>2, <1>3, <1>4, <1>5, <1>6, <1>7, <1>8, <1>9, <1>10
    DEF Next, ProcessSteps, PlugSteps

\* What a step means for the plug of one interface.
LEMMA RoomedKeeps ==
    ASSUME Atomic, Roomy, Roomed, [Next]_vars
    PROVE  Roomed'
<1>1. Whole /\ Sized /\ Whole' /\ Sized'
    BY StepsOfQueues, SizedKeeps DEF Roomed
<1> SUFFICES ASSUME NEW o \in Iface PROVE Spare(o)'
    BY <1>1 DEF Roomed
<1>2. Spare(o) /\ toPlug[o] \in Nat /\ toPlug'[o] \in Nat
    BY <1>1 DEF Roomed, Sized
<1>a. Chances(o) \in Nat /\ Half(o) \in Nat
    BY <1>1, ChancesBounded DEF Whole, Half, Header
\* What leaves the process and the frames alone.
<1>b. ASSUME UNCHANGED <<pc, ready, out, received>>, sent'[o] = sent[o], toPlug'[o] = toPlug[o],
             plug'[o] # "poll" => plug[o] # "poll"
      PROVE  Spare(o)'
    <2>1. Chances(o)' = Chances(o) /\ Half(o)' = Half(o)
        BY <1>b DEF Chances, Half, Turn, Sending
    <2>2. Owed(o)' = Owed(o)
        BY <1>b, OwedSame
    <2> QED
        BY <1>1, <1>2, <1>a, <1>b, <2>1, <2>2, SpareKeeps
<1>3. CASE UNCHANGED vars
    BY <1>3, <1>b DEF vars, plugVars
<1>4. CASE Poll
    BY <1>1, <1>2, <1>4, SparePolled
<1>5. CASE ReadLength
    <2>1. /\ UNCHANGED <<sent, plug, received, ready, toPlug, out>>
          /\ pc = "readLength" /\ pc' = "readData"
        BY <1>5 DEF ReadLength, plugVars
    <2>2. Chances(o)' = Chances(o) /\ Half(o)' = 0 /\ Half(o) = 0
        BY <2>1 DEF Chances, Half, Turn, Sending
    <2>3. Owed(o)' = Owed(o)
        BY <2>1, OwedSame
    <2> QED
        BY <1>1, <1>2, <1>a, <2>1, <2>2, <2>3, SpareKeeps
<1>6. CASE ReadData
    BY <1>1, <1>2, <1>6, SpareRead, SpareReadElsewhere
<1>7. CASE SendsLength
    BY <1>1, <1>2, <1>7, SpareLength
<1>8. CASE SendsData
    BY <1>1, <1>2, <1>8, SpareData
<1>9. ASSUME NEW i \in Iface, PlugReads(i)
      PROVE  Spare(o)'
    <2>1. CASE i = o
        BY <1>9, <2>1 DEF PlugReads, plugVars, Spare
    <2>2. CASE i # o
        <3>1. toPlug'[o] = toPlug[o]
            BY <1>1, <1>9, <2>2 DEF PlugReads, Sized
        <3> QED
            BY <1>9, <1>b, <3>1 DEF PlugReads, plugVars
    <2> QED
        BY <2>1, <2>2
<1>10. ASSUME NEW i \in Iface, PlugTakes(i)
       PROVE  Spare(o)'
    <2>1. CASE i = o
        BY <1>1, <1>10, <2>1, SpareTaken
    <2>2. CASE i # o
        <3>1. sent'[o] = sent[o] /\ plug'[o] = plug[o]
            BY <1>1, <1>10, <2>2 DEF PlugTakes, Whole, Typed
        <3> QED
            BY <1>10, <1>b, <3>1 DEF PlugTakes
    <2> QED
        BY <2>1, <2>2
<1>11. ASSUME NEW i \in Iface, PlugWritesLength(i) \/ PlugWritesData(i)
       PROVE  Spare(o)'
    <2>1. UNCHANGED <<pc, ready, out, received, sent, toPlug>>
        BY <1>11 DEF PlugWritesLength, PlugWritesData
    <2>2. plug'[o] # "poll" => plug[o] # "poll"
        BY <1>1, <1>11 DEF PlugWritesLength, PlugWritesData, Whole, Typed
    <2> QED
        BY <1>b, <2>1, <2>2
<1> QED
    BY <1>3, <1>4, <1>5, <1>6, <1>7, <1>8, <1>9, <1>10, <1>11
    DEF Next, ProcessSteps, PlugSteps

\* If no frame is longer than what a pipe takes in one piece, and a pipe holds the frames that
\* the process may send while one of its reads after the other makes room for a plug,
\* then the process never waits in a write() for a plug that waits in a write() for it.
THEOREM NeverStandOff ==
    ASSUME Atomic, Roomy
    PROVE  Spec => []NoStandoff
<1>1. Init => Roomed
    <2> SUFFICES ASSUME Init PROVE Roomed
        OBVIOUS
    <2>1. Sized
        BY PipeAssumption DEF Init, Sized, Sending
    <2>2. \A o \in Iface : Spare(o)
        BY DEF Init, Spare
    <2> QED
        BY <2>1, <2>2, WholeInit DEF Roomed
<1>2. Roomed /\ [Next]_vars => Roomed'
    BY RoomedKeeps
<1>3. Roomed => NoStandoff
    BY RoomedIsSafe
<1> QED
    BY <1>1, <1>2, <1>3, PTL DEF Spec

=============================================================================
