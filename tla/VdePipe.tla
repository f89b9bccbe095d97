------------------------------- MODULE VdePipe ------------------------------
(***************************************************************************)
(* The two pipes between a process and each of its vde_plug children, byte *)
(* by byte: what cs431vde.c reads and writes, and when it blocks.          *)
(*                                                                         *)
(* A frame goes through a pipe behind its length, two bytes.  The process  *)
(* (main() and what it calls) writes the two parts with two calls and reads *)
(* them with two calls, and does not look at what the calls return.  The   *)
(* plug is not part of the repository.  It collects what it reads until a  *)
(* frame is whole.  That it reads all there is on its standard input       *)
(* before it takes a frame from the switch (PlugReads, PlugTakes) is an    *)
(* assumption: of a plug that turns to the switch while there are bytes    *)
(* left for it to read this module says nothing.                           *)
(*                                                                         *)
(* Of the bytes of a pipe only the positions matter: the n-th byte of all  *)
(* that is ever written to it.                                             *)
(***************************************************************************)
EXTENDS Integers, Sequences, FiniteSetsExt

CONSTANTS
    Iface,          \* the interfaces of the process: positions in its table
    FrameLen,       \* FrameLen[i]: lengths of the frames on the network of i
    PIPE_SIZE,      \* bytes that fit in a pipe
    PIPE_BUF,       \* a write of at most so many bytes is atomic (POSIX)
    MaxFrames       \* bound: frames from each plug

ASSUME PipeAssumption ==
    /\ Iface \subseteq Nat
    /\ FrameLen \in [Iface -> SUBSET (Nat \ {0})]
    /\ PIPE_SIZE \in Nat /\ PIPE_BUF \in Nat /\ MaxFrames \in Nat
    /\ 2 <= PIPE_BUF /\ PIPE_BUF <= PIPE_SIZE

VARIABLES
    sent,       \* sent[i]: frames the plug of i has taken on, and where each begins
    plug,       \* plug[i]: what the plug does: "poll", or write a "length" or "data"
    toWrite,    \* toWrite[i]: bytes of data the plug still has to write
    written,    \* written[i]: bytes written so far to the pipe from the plug
    taken,      \* taken[i]: bytes read so far from this pipe
    toPlug,     \* toPlug[i]: bytes in the pipe to the plug
    pc,         \* what the process does
    ready,      \* interfaces flagged by poll() and not yet handled
    head,       \* where the frame at hand began, and its length as read
    out,        \* the frame being sent: its interface, length, and bytes left
    received    \* received[i]: what receive_ethernet_frame read for each frame

plugVars == <<sent, plug, toWrite>>
vars == <<plugVars, written, taken, toPlug, pc, ready, head, out, received>>

Minimum(a, b) == IF a < b THEN a ELSE b

Header == 2
Frame == [at : Nat, len : Nat]
End(f) == f.at + Header + f.len

\* How many bytes a write() of size bytes may move when left of them are still
\* to be written and there is room for so many: it blocks if there are none.
CanWrite(size, left, room) ==
    IF size <= PIPE_BUF THEN {left} \cap (1 .. room) ELSE 1 .. Minimum(left, room)

-----------------------------------------------------------------------------
(* The plug.                                                               *)

RoomIn(i) == PIPE_SIZE - (written[i] - taken[i])

PlugReads(i) ==
    /\ plug[i] = "poll"
    /\ toPlug[i] > 0
    /\ toPlug' = [toPlug EXCEPT ![i] = 0]
    /\ UNCHANGED <<plugVars, written, taken, pc, ready, head, out, received>>

PlugTakes(i) ==
    /\ plug[i] = "poll"
    /\ toPlug[i] = 0
    /\ Len(sent[i]) < MaxFrames
    /\ \E n \in FrameLen[i] :
        /\ sent' = [sent EXCEPT ![i] = Append(@, [at |-> written[i], len |-> n])]
        /\ toWrite' = [toWrite EXCEPT ![i] = n]
    /\ plug' = [plug EXCEPT ![i] = "length"]
    /\ UNCHANGED <<written, taken, toPlug, pc, ready, head, out, received>>

\* The length of the frame the plug is writing.
Size(i) == sent[i][Len(sent[i])].len

PlugWritesLength(i) ==
    /\ plug[i] = "length"
    /\ RoomIn(i) >= Header
    /\ written' = [written EXCEPT ![i] = @ + Header]
    /\ plug' = [plug EXCEPT ![i] = "data"]
    /\ UNCHANGED <<sent, toWrite, taken, toPlug, pc, ready, head, out, received>>

PlugWritesData(i) ==
    /\ plug[i] = "data"
    /\ \E n \in CanWrite(Size(i), toWrite[i], RoomIn(i)) :
        /\ written' = [written EXCEPT ![i] = @ + n]
        /\ toWrite' = [toWrite EXCEPT ![i] = @ - n]
        /\ plug' = [plug EXCEPT ![i] = IF n = toWrite[i] THEN "poll" ELSE "data"]
    /\ UNCHANGED <<sent, taken, toPlug, pc, ready, head, out, received>>

PlugSteps(i) == PlugReads(i) \/ PlugWritesLength(i) \/ PlugWritesData(i)

-----------------------------------------------------------------------------
(* The process.                                                            *)

Available(i) == written[i] - taken[i]

Poll ==
    /\ pc = "poll"
    /\ \E i \in Iface : Available(i) > 0
    /\ ready' = {i \in Iface : Available(i) > 0}
    /\ pc' = "readLength"
    /\ UNCHANGED <<plugVars, written, taken, toPlug, head, out, received>>

\* The interface the loop over the table is at.
Turn == Min(ready)

\* The frames whose length is at the byte that is read next.
Starting(i) == {k \in DOMAIN sent[i] : sent[i][k].at = taken[i]}

\* read(fd, &nbo_len, 2).  Bytes that are not a length, or a single byte, are
\* taken for some length.
ReadLength ==
    LET i == Turn
        n == Minimum(Header, Available(i))
    IN  /\ pc = "readLength"
        /\ Available(i) > 0
        /\ taken' = [taken EXCEPT ![i] = @ + n]
        /\ \/ \E k \in Starting(i) :
                /\ n = Header
                /\ head' = sent[i][k]
           \/ /\ n < Header \/ Starting(i) = {}
              /\ \E any \in FrameLen[i] : head' = [at |-> taken[i], len |-> any]
        /\ pc' = "readData"
        /\ UNCHANGED <<plugVars, written, toPlug, ready, out, received>>

\* Mutant of Waits: a read() that finds nothing returns at once.
WaitsNever(i) == FALSE

\* read(fd, buf, len) blocks while there is nothing to read.
Waits(i) == Available(i) = 0

\* Mutant of Remaining: back to poll() after the first frame.
RemainingNone == {}

\* The flagged interfaces after the one at hand.
Remaining == ready \ {Turn}

NoFrame == [at |-> 0, len |-> 0]
Nothing == [iface |-> 0, len |-> 0, left |-> 0]

\* The handler returns: on to the next flagged interface, or back to poll().
GoesOn ==
    /\ ready' = Remaining
    /\ out' = Nothing
    /\ pc' = IF Remaining = {} THEN "poll" ELSE "readLength"

\* Mutant of DataRead: the length is taken to include its own two bytes.
DataReadMore(i) == Minimum(head.len + Header, Available(i))

\* What read(fd, buf, len) gets.
DataRead(i) == Minimum(head.len, Available(i))

\* read(fd, buf, len) is content with less than len bytes.  What the handlers make of
\* the frame is nothing, or one frame to some interface.
ReadData ==
    LET i == Turn
        n == DataRead(i)
    IN  /\ pc = "readData"
        /\ ~Waits(i)
        /\ taken' = [taken EXCEPT ![i] = @ + n]
        /\ received' = [received EXCEPT ![i] = Append(@, [at |-> head.at, len |-> n])]
        /\ head' = NoFrame
        /\ \/ GoesOn
           \/ /\ \E o \in Iface : \E m \in FrameLen[o] : out' = [iface |-> o, len |-> m, left |-> m]
              /\ pc' = "sendLength"
              /\ UNCHANGED ready
        /\ UNCHANGED <<plugVars, written, toPlug>>

RoomOut(o) == PIPE_SIZE - toPlug[o]

SendsLength ==
    /\ pc = "sendLength"
    /\ RoomOut(out.iface) >= Header
    /\ toPlug' = [toPlug EXCEPT ![out.iface] = @ + Header]
    /\ pc' = "sendData"
    /\ UNCHANGED <<plugVars, written, taken, ready, head, out, received>>

SendsData ==
    /\ pc = "sendData"
    /\ \E n \in CanWrite(out.len, out.left, RoomOut(out.iface)) :
        /\ toPlug' = [toPlug EXCEPT ![out.iface] = @ + n]
        /\ \/ n = out.left /\ GoesOn
           \/ n < out.left /\ out' = [out EXCEPT !.left = @ - n] /\ UNCHANGED <<pc, ready>>
    /\ UNCHANGED <<plugVars, written, taken, head, received>>

ProcessSteps ==
    \/ Poll
    \/ ReadLength
    \/ ReadData
    \/ SendsLength
    \/ SendsData

-----------------------------------------------------------------------------

Init ==
    /\ sent = [i \in Iface |-> <<>>]
    /\ plug = [i \in Iface |-> "poll"]
    /\ toWrite = [i \in Iface |-> 0]
    /\ written = [i \in Iface |-> 0]
    /\ taken = [i \in Iface |-> 0]
    /\ toPlug = [i \in Iface |-> 0]
    /\ pc = "poll"
    /\ ready = {}
    /\ head = NoFrame
    /\ out = Nothing
    /\ received = [i \in Iface |-> <<>>]

Next ==
    \/ ProcessSteps
    \/ \E i \in Iface : PlugSteps(i) \/ PlugTakes(i)

Spec == Init /\ [][Next]_vars

\* The scheduler runs the process and every plug; the switch need not send.
Fairness == WF_vars(ProcessSteps) /\ \A i \in Iface : WF_vars(PlugSteps(i))

FairSpec == Spec /\ Fairness

-----------------------------------------------------------------------------
(* Properties.                                                             *)

Queue == INSTANCE FrameQueue WITH put <- sent, got <- received

\* The process receives the frames of each plug whole, in order, and nothing else,
\* although it reads a frame with two calls that do not check how much they
\* got, and the plug may be in the middle of writing it.
FramesWhole == Queue!Spec

BlockedOnPlug(o) ==
    \/ pc = "sendLength" /\ out.iface = o /\ RoomOut(o) < Header
    \/ pc = "sendData" /\ out.iface = o /\ CanWrite(out.len, out.left, RoomOut(o)) = {}

BlockedOnProcess(o) ==
    \/ plug[o] = "length" /\ RoomIn(o) < Header
    \/ plug[o] = "data" /\ CanWrite(Size(o), toWrite[o], RoomIn(o)) = {}

\* The process never waits in a write() for a plug that waits in a write() for the
\* process: nobody would ever empty the one pipe or the other.
NoStandoff == \A o \in Iface : ~(BlockedOnPlug(o) /\ BlockedOnProcess(o))

\* The process catches up with every plug again and again: poll() flags an
\* interface when only a part of a frame is there, and a plug that waits for
\* room gets it.
CatchesUp == \A i \in Iface : []<>(Len(received[i]) = Len(sent[i]))

=============================================================================
