------------------------------- MODULE Switch -------------------------------
(***************************************************************************)
(* The switch of ethernet-study/switch.c: in each cycle each of X devices  *)
(* sends to a random device or not, and frames to the same device collide. *)
(*                                                                         *)
(* A target is a fraction of X; it is kept here in 256ths.                 *)
(***************************************************************************)
EXTENDS Integers, FiniteSets

CONSTANTS
    X,          \* the number of devices
    Cycles      \* cycles to simulate, 1000 in the program

VARIABLES
    time,           \* the cycle
    i,              \* the device the inner loop is at
    collided,       \* collided[j]: frames of this cycle for device j
    framesSent,     \* frames sent so far
    framesDenied,   \* frames denied in the cycles before
    got,            \* frames that were alone for their target, in the cycles before
    strayed         \* how often a frame was counted behind the end of the array

vars == <<time, i, collided, framesSent, framesDenied, got, strayed>>

Device == 0 .. X - 1

\* (int)target.
Index(target) == target \div 256

\* Mutant of Aimed: the frame goes where the random byte says.
AimedAnywhere(target) == target

\* A device does not send to itself, but the next: or so the code intends.
Aimed(target) ==
    IF Index(target) # i THEN target
    ELSE IF target = 256 * (X - 1) THEN target - 256 + 256 ELSE target + 256

\* Mutant of Cleared: collided is set to 0 once, before the first cycle.
ClearedNot == collided

\* The first loop of a cycle.
Cleared == [j \in Device |-> 0]

\* collided[(int)target]++ within the array.
Hit(to) ==
    /\ to \in Device
    /\ collided' = [collided EXCEPT ![to] = @ + 1]
    /\ framesSent' = framesSent + 1
    /\ i' = i + 1
    /\ UNCHANGED <<strayed, framesDenied, time>>

\* What the compiler may have put behind the array: padding or an int that main() does not use
\* any more, as gcc does, or one that it counts with.  (x is left out, which
\* would change the number of devices.)
Behind == {"unused", "framesSent", "framesDenied", "time", "i"}

\* collided[(int)target]++ behind the end of the array.
Stray(to) ==
    /\ to \notin Device
    /\ strayed' = strayed + 1
    /\ \E int \in Behind :
        LET plus(name) == IF int = name THEN 1 ELSE 0
        IN  /\ framesSent' = framesSent + 1 + plus("framesSent")
            /\ framesDenied' = framesDenied + plus("framesDenied")
            /\ time' = time + plus("time")
            /\ i' = i + 1 + plus("i")
    /\ UNCHANGED collided

Send ==
    \E byte \in 0 .. 255 :
        LET to == Index(Aimed(X * byte))
        IN  Hit(to) \/ Stray(to)

SendNot ==
    /\ i' = i + 1
    /\ UNCHANGED <<framesSent, framesDenied, collided, strayed, time>>

\* main() looks at time only before a cycle.
InCycle == time < Cycles \/ i > 0

Visit ==
    /\ InCycle
    /\ i < X
    /\ Send \/ SendNot
    /\ UNCHANGED got

\* The frames of this cycle for the devices in a set, and how many these are: each is
\* the n-th one for its device.
Frames(devices) == UNION {{j} \X (1 .. collided[j]) : j \in devices}
For(devices) == Cardinality(Frames(devices))

Contended == {j \in Device : collided[j] > 1}

\* The check for collisions, and the start of the next cycle.
EndCycle ==
    /\ InCycle
    /\ i >= X
    /\ framesDenied' = framesDenied + For(Contended)
    /\ got' = got + For(Device \ Contended)
    /\ time' = time + 1
    /\ i' = 0
    /\ collided' = Cleared
    /\ UNCHANGED <<framesSent, strayed>>

Init ==
    /\ time = 0 /\ i = 0
    /\ collided = [j \in Device |-> 0]
    /\ framesSent = 0 /\ framesDenied = 0 /\ got = 0 /\ strayed = 0

Next == Visit \/ EndCycle

Spec == Init /\ [][Next]_vars

\* Only the last device may aim at itself or past the end of the array (its target is a
\* fraction when it is compared with X - 1, switch.c:54): the others always send
\* to another device.
OnlyLastMisaims ==
    [][Visit /\ i < X - 1 =>
        /\ strayed' = strayed
        /\ collided'[i] = collided[i]]_vars

\* Every frame sent is accounted for, denied, received or in the array, as long as none was counted
\* behind its end.
SwitchAccounts == strayed = 0 => framesSent = framesDenied + got + For(Device)

=============================================================================
