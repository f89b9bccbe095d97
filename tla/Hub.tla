-------------------------------- MODULE Hub ---------------------------------
(***************************************************************************)
(* The hub of ethernet-study/hub.c: in each cycle each of X devices sends  *)
(* or not, and frames of the same cycle collide.  The program counts the   *)
(* frames sent and denied, as it comes to each device.                     *)
(***************************************************************************)
EXTENDS Integers

CONSTANTS
    X,          \* the number of devices
    Cycles      \* cycles to simulate, 1000 in the program

VARIABLES
    time,           \* the cycle
    i,              \* the device the inner loop is at
    collidecount,   \* frames of this cycle so far
    framesSent,     \* frames of the cycles before
    framesDenied,   \* frames denied so far
    alone           \* cycles in which one device has sent

vars == <<time, i, collidecount, framesSent, framesDenied, alone>>

\* Mutant of Denied: the first frame of a collision is forgotten.
DeniedEach(count) == IF count >= 2 THEN 1 ELSE 0

\* What the frame number count of a cycle adds to framesDenied.
Denied(count) ==
    CASE count = 2 -> 2
      [] count > 2 -> 1
      [] OTHER -> 0

\* randdouble is 0 for one half of the bytes and 1 for the other.
Visit ==
    /\ time < Cycles
    /\ i < X
    /\ \/ UNCHANGED <<collidecount, framesDenied>>
       \/ /\ collidecount' = collidecount + 1
          /\ framesDenied' = framesDenied + Denied(collidecount + 1)
    /\ i' = i + 1
    /\ UNCHANGED <<time, framesSent, alone>>

EndCycle ==
    /\ time < Cycles
    /\ i = X
    /\ framesSent' = framesSent + collidecount
    /\ alone' = IF collidecount = 1 THEN alone + 1 ELSE alone
    /\ time' = time + 1
    /\ i' = 0
    /\ collidecount' = 0
    /\ UNCHANGED framesDenied

Init ==
    /\ time = 0 /\ i = 0 /\ collidecount = 0
    /\ framesSent = 0 /\ framesDenied = 0 /\ alone = 0

Next == Visit \/ EndCycle

Spec == Init /\ [][Next]_vars

\* Every frame is denied, or was alone in its cycle: the statistics main() prints at
\* the end, from sums it keeps device by device (hub.c:43-51), account for all.
HubAccounts ==
    framesSent + collidecount =
        framesDenied + alone + (IF collidecount = 1 THEN 1 ELSE 0)

=============================================================================
