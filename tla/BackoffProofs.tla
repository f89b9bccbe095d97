--------------------------- MODULE BackoffProofs ----------------------------
(***************************************************************************)
(* No device of the backoff study is ever stranded, for any number of      *)
(* devices and whatever random bytes they draw.                            *)
(***************************************************************************)
EXTENDS Backoff, FiniteSetTheorems, TLAPS

\* The inductive invariant: a device that has been received sends no more, and is counted
\* once; every other device will send now or later.
Waiting ==
    /\ ahead \in [Device -> Nat \cup {-1}]
    /\ timecycle \in [Device -> 0 .. MaxCycle]
    /\ received \subseteq Device
    /\ \A i \in Device : ahead[i] = -1 <=> i \in received
    /\ devicesSent = Cardinality(received)

\* At first every device has a time to come.
LEMMA WaitingInit ==
    ASSUME X \in Nat, MaxCycle \in Nat
    PROVE  Init => Waiting
BY FS_EmptySet DEF Init, Waiting, Device

\* One time step brings a device that waits nearer to its time, and leaves one that has been
\* received.
LEMMA PassedWaits ==
    ASSUME NEW d \in Nat \cup {-1}, d # 0
    PROVE  Passed(d) \in Nat \cup {-1} /\ (Passed(d) = -1 <=> d = -1)
BY DEF Passed

\* The ranges are numbers, which takes an induction to prove.
RangesAreNumbers == \A cycle \in 0 .. MaxCycle : 2 ^ cycle \in Nat

\* After a collision the time is still to come.
LEMMA BackedWaits ==
    ASSUME MaxCycle \in Nat, RangesAreNumbers, NEW cycle \in 0 .. MaxCycle, NEW wait \in Waits(cycle)
    PROVE  Passed(Backed(wait)) \in Nat
<1>1. CASE cycle < 8
    BY <1>1 DEF Waits, Backed, Passed
<1>2. CASE cycle >= 8
    <2> PICK byte \in 0 .. 255 : wait = byte * 2 ^ (cycle - 8)
        BY <1>2 DEF Waits
    <2> DEFINE range == 2 ^ (cycle - 8)
    <2>1. range \in Nat
        <3>1. cycle - 8 \in 0 .. MaxCycle
            BY <1>2
        <3> QED
            BY <3>1 DEF RangesAreNumbers
    <2> HIDE DEF range
    <2>2. byte \in Nat /\ byte * range \in Nat
        BY <2>1
    <2>3. wait \in Nat
        BY <2>2 DEF range
    <2> QED
        BY <2>3 DEF Backed, Passed
<1> QED
    BY <1>1, <1>2

\* Nobody's time has come.
LEMMA NoneSendsKeeps ==
    ASSUME Waiting, NoneSends
    PROVE  Waiting'
<1>1. \A i \in Device : ahead[i] # 0
    BY DEF NoneSends, Senders
<1>2. \A i \in Device : Passed(ahead[i]) \in Nat \cup {-1} /\ (Passed(ahead[i]) = -1 <=> ahead[i] = -1)
    BY <1>1, PassedWaits DEF Waiting
<1> QED
    BY <1>2 DEF NoneSends, Waiting

\* One device is received.
LEMMA OneSendsKeeps ==
    ASSUME X \in Nat, Waiting, OneSends
    PROVE  Waiting'
<1> PICK i \in Device :
        /\ Senders = {i}
        /\ ahead' = [j \in Device |-> IF j = i THEN -1 ELSE Passed(ahead[j])]
        /\ devicesSent' = devicesSent + 1
        /\ received' = received \cup {i}
        /\ UNCHANGED timecycle
    BY DEF OneSends
<1>1. i \notin received
    BY DEF Senders, Waiting
<1>2. \A j \in Device \ {i} : Passed(ahead[j]) \in Nat \cup {-1} /\ (Passed(ahead[j]) = -1 <=> ahead[j] = -1)
    BY PassedWaits DEF Senders, Waiting
<1>3. ahead' \in [Device -> Nat \cup {-1}]
    BY <1>2
<1>4. \A j \in Device : ahead'[j] = -1 <=> j \in received'
    BY <1>2 DEF Waiting
<1>5. IsFiniteSet(received)
    <2>1. IsFiniteSet(Device)
        BY FS_Interval DEF Device
    <2> QED
        BY <2>1, FS_Subset DEF Waiting
<1>6. devicesSent' = Cardinality(received')
    BY <1>1, <1>5, FS_AddElement DEF Waiting
<1> QED
    BY <1>3, <1>4, <1>6 DEF Waiting

\* Devices that collide get a time to come.
LEMMA CollideKeeps ==
    ASSUME MaxCycle \in Nat, RangesAreNumbers, Waiting, Collide
    PROVE  Waiting'
<1> PICK wait \in [Senders -> UNION {Waits(timecycle[i]) : i \in Senders}] :
        /\ \A i \in Senders : wait[i] \in Waits(timecycle[i])
        /\ ahead' = [i \in Device |-> Passed(IF i \in Senders THEN Backed(wait[i]) ELSE ahead[i])]
    BY DEF Collide
<1>1. \A i \in Senders : i \in Device /\ ahead[i] = 0
    BY DEF Senders
<1>2. \A i \in Senders : Passed(Backed(wait[i])) \in Nat
    BY <1>1, BackedWaits DEF Waiting
<1>3. \A i \in Device \ Senders : Passed(ahead[i]) \in Nat \cup {-1} /\ (Passed(ahead[i]) = -1 <=> ahead[i] = -1)
    BY PassedWaits DEF Senders, Waiting
<1>4. ahead' \in [Device -> Nat \cup {-1}]
    BY <1>2, <1>3
<1>5. \A i \in Device : ahead'[i] = -1 <=> ahead[i] = -1
    BY <1>1, <1>2, <1>3
<1>6. timecycle' \in [Device -> 0 .. MaxCycle]
    BY DEF Collide, Waiting
<1> QED
    BY <1>4, <1>5, <1>6 DEF Collide, Waiting

\* Every step keeps a time for each device.
LEMMA WaitingNext ==
    ASSUME X \in Nat, MaxCycle \in Nat, RangesAreNumbers
    PROVE  Waiting /\ [Next]_vars => Waiting'
<1> SUFFICES ASSUME Waiting, [Next]_vars PROVE Waiting'
    OBVIOUS
<1>1. CASE NoneSends
    BY <1>1, NoneSendsKeeps
<1>2. CASE OneSends
    BY <1>2, OneSendsKeeps
<1>3. CASE Collide
    BY <1>3, CollideKeeps
<1>4. CASE UNCHANGED vars
    BY <1>4 DEF vars, Waiting
<1> QED
    BY <1>1, <1>2, <1>3, <1>4 DEF Next, TimeStep

\* For any number of devices, and ranges that double up to any bound: until a device is received,
\* the time at which it sends next is now or later, so that the comparison of
\* binexpback.c:48 meets it, and devicesSent counts the devices received.  Of
\* the program this says as much as MaxCycle allows: nothing of a device that
\* has collided more often.
THEOREM NeverStranded ==
    ASSUME X \in Nat, MaxCycle \in Nat, RangesAreNumbers
    PROVE  Spec => []NotStranded
<1>1. Waiting => NotStranded
    BY DEF Waiting, NotStranded
<1> QED
    BY <1>1, WaitingInit, WaitingNext, PTL DEF Spec

=============================================================================
