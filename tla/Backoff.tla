------------------------------ MODULE Backoff -------------------------------
(***************************************************************************)
(* Binary exponential backoff (ethernet-study/binexpback.c): X devices     *)
(* share a medium.  Those that send in the same time step collide, and     *)
(* each waits for a random time, up to twice as long after each collision. *)
(*                                                                         *)
(* Times are relative: ahead is sendnext - time, or -1 for any time that   *)
(* has passed, among them the -1 that main() sets sendnext to.             *)
(***************************************************************************)
EXTENDS Integers, FiniteSets

CONSTANTS
    X,          \* the number of devices
    MaxCycle    \* bound: collisions of a device after which its range no longer doubles.
                \* The program's doubles on: up to that many collisions of each
                \* device, and one more, the model takes the program's steps.

VARIABLES
    ahead,          \* ahead[i]: time steps until device i sends
    timecycle,      \* timecycle[i]: how often it has collided
    devicesSent,    \* what main() counts
    received        \* the devices reported as received

vars == <<ahead, timecycle, devicesSent, received>>

Device == 0 .. X - 1

\* Mutant of Waits: randtemp / 256 as a division of integers.
WaitsNone(cycle) == {0}

\* round(randtemp / 256 * 2^timecycle) for a random byte: any number up to the range while
\* this has fewer than the byte's 256 values, and a multiple of the byte from then on.
Waits(cycle) == IF cycle < 8 THEN 0 .. 2 ^ cycle
                ELSE {byte * 2 ^ (cycle - 8) : byte \in 0 .. 255}

\* Mutant of Backed: the time step of the collision counts as the first to wait.
BackedNow(wait) == wait

\* sendnext = sendnext + 1 + randdouble, for a device that sends now.
Backed(wait) == 1 + wait

\* What time++ makes of it.
Passed(d) == IF d <= 0 THEN -1 ELSE d - 1

Senders == {i \in Device : ahead[i] = 0}

NoneSends ==
    /\ Senders = {}
    /\ ahead' = [i \in Device |-> Passed(ahead[i])]
    /\ UNCHANGED <<timecycle, devicesSent, received>>

OneSends ==
    \E i \in Device :
        /\ Senders = {i}
        /\ ahead' = [j \in Device |-> IF j = i THEN -1 ELSE Passed(ahead[j])]
        /\ devicesSent' = devicesSent + 1
        /\ received' = received \cup {i}
        /\ UNCHANGED timecycle

Collide ==
    /\ Cardinality(Senders) >= 2
    /\ \E wait \in [Senders -> UNION {Waits(timecycle[i]) : i \in Senders}] :
        /\ \A i \in Senders : wait[i] \in Waits(timecycle[i])
        /\ ahead' = [i \in Device |-> Passed(IF i \in Senders THEN Backed(wait[i]) ELSE ahead[i])]
    /\ timecycle' = [i \in Device |-> IF i \in Senders /\ timecycle[i] < MaxCycle
                                      THEN timecycle[i] + 1 ELSE timecycle[i]]
    /\ UNCHANGED <<devicesSent, received>>

\* One pass of the loop of main().
TimeStep == devicesSent < X /\ (NoneSends \/ OneSends \/ Collide)

Init ==
    /\ ahead = [i \in Device |-> 0]
    /\ timecycle = [i \in Device |-> 0]
    /\ devicesSent = 0
    /\ received = {}

Next == TimeStep

Spec == Init /\ [][Next]_vars

\* After this step one device is alone in being the first to send.
Parts ==
    \E i \in Device :
        /\ ahead'[i] = 0
        /\ \A j \in Device \ {i} : ahead'[j] # 0

\* The program runs on, and the random bytes do not keep the devices together for
\* ever, which has probability zero: getrandom draws one for each of them.
Fairness == WF_vars(TimeStep) /\ SF_vars(TimeStep /\ Parts)

FairSpec == Spec /\ Fairness

-----------------------------------------------------------------------------

\* No device waits for a time that has passed: main() compares sendnext with time
\* for equality (binexpback.c:48), so it would never send again and the loop
\* would never end.  And main() counts each device once.
NotStranded ==
    /\ \A i \in Device : ahead[i] >= 0 \/ i \in received
    /\ devicesSent = Cardinality(received)

\* Every device is received in the end.
AllReceived == <>(received = Device)

=============================================================================
