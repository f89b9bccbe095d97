---------------------------- MODULE SwitchProofs ----------------------------
(***************************************************************************)
(* Where the frames of the switch study go, for any number of devices.     *)
(***************************************************************************)
EXTENDS Switch, FiniteSetTheorems, TLAPS

\* The indices that the program computes for its own devices.
Places ==
    /\ i \in Nat
    /\ collided \in [Device -> Int]

\* The target is a fraction of X, less than X, for every random byte.
LEMMA TargetBelow ==
    ASSUME X \in Nat \ {0}, NEW byte \in 0 .. 255
    PROVE  X * byte \in Nat /\ X * byte < 256 * X
<1>1. byte \in Nat /\ 256 - byte \in Nat \ {0}
    OBVIOUS
<1>2. X * byte \in Nat /\ X * (256 - byte) \in Nat \ {0}
    BY <1>1
<1>3. X * byte + X * (256 - byte) = 256 * X
    BY <1>1
<1> QED
    BY <1>2, <1>3

\* The correction of a target that is the sender itself (switch.c:53-58) hits the next device,
\* unless the sender is the last.
LEMMA AimedElsewhere ==
    ASSUME X \in Nat \ {0}, i \in Nat, i < X - 1,
           NEW target \in Nat, target < 256 * X
    PROVE  Index(Aimed(target)) \in Device /\ Index(Aimed(target)) # i
<1>1. CASE Index(target) # i
    <2>1. Aimed(target) = target
        BY <1>1 DEF Aimed
    <2>2. target \div 256 \in 0 .. X - 1
        OBVIOUS
    <2> QED
        BY <1>1, <2>1, <2>2 DEF Index, Device
<1>2. CASE Index(target) = i
    <2>1. target # 256 * (X - 1)
        BY <1>2 DEF Index
    <2>2. Aimed(target) = target + 256
        BY <1>2, <2>1 DEF Aimed
    <2>3. (target + 256) \div 256 = i + 1
        BY <1>2 DEF Index
    <2> QED
        BY <2>2, <2>3 DEF Index, Device
<1> QED
    BY <1>1, <1>2

\* The loop starts at the first device.
LEMMA PlacesInit == Init => Places
BY DEF Init, Places, Device

\* It stays within the array.
LEMMA PlacesNext == Places /\ [Next]_vars => Places'
<1> SUFFICES ASSUME Places, [Next]_vars PROVE Places'
    OBVIOUS
<1>1. CASE Visit
    <2>1. CASE SendNot
        BY <2>1 DEF SendNot, Places
    <2>2. ASSUME NEW to, Hit(to) PROVE Places'
        BY <2>2 DEF Hit, Places, Device
    <2>3. ASSUME NEW to, Stray(to) PROVE Places'
        BY <2>3 DEF Stray, Places, Device
    <2> QED
        BY <1>1, <2>1, <2>2, <2>3 DEF Visit, Send
<1>2. CASE EndCycle
    BY <1>2 DEF EndCycle, Cleared, Places
<1>3. CASE UNCHANGED vars
    BY <1>3 DEF vars, Places
<1> QED
    BY <1>1, <1>2, <1>3 DEF Next

\* A visit of a device but the last aims at another.
LEMMA VisitAims ==
    ASSUME X \in Nat, Places, Visit, i < X - 1
    PROVE  strayed' = strayed /\ collided'[i] = collided[i]
<1>0. X \in Nat \ {0} /\ i \in Nat
    BY DEF Places
<1>1. CASE SendNot
    BY <1>1 DEF SendNot
<1>2. CASE Send
    <2> PICK byte \in 0 .. 255 : Hit(Index(Aimed(X * byte))) \/ Stray(Index(Aimed(X * byte)))
        BY <1>2 DEF Send
    <2>1. Index(Aimed(X * byte)) \in Device /\ Index(Aimed(X * byte)) # i
        BY <1>0, TargetBelow, AimedElsewhere
    <2>2. i \in Device
        BY DEF Places, Device
    <2> QED
        BY <2>1, <2>2 DEF Places, Hit, Stray
<1> QED
    BY <1>1, <1>2 DEF Visit

\* For any X: no device but the last counts a frame for itself or behind the end of collided.
THEOREM OthersAimRight ==
    ASSUME X \in Nat
    PROVE  Spec => OnlyLastMisaims
<1>1. Places /\ [Next]_vars => [Visit /\ i < X - 1 =>
                                    /\ strayed' = strayed
                                    /\ collided'[i] = collided[i]]_vars
    BY VisitAims
<1> QED
    BY <1>1, PlacesInit, PlacesNext, PTL DEF Spec, OnlyLastMisaims

-----------------------------------------------------------------------------
(* The statistics.                                                         *)

\* The inductive invariant: the counters are numbers, the frames of a cycle are finitely many,
\* and the accounts are right after each device unless a frame went astray.
Accounted ==
    /\ collided \in [Device -> Nat]
    /\ framesSent \in Nat /\ framesDenied \in Nat /\ got \in Nat /\ strayed \in Nat
    /\ IsFiniteSet(Frames(Device))
    /\ SwitchAccounts

\* The frames that are in the array for a set of devices.
LEMMA FramesWhere ==
    ASSUME NEW devices \in SUBSET Device, NEW j, NEW n
    PROVE  <<j, n>> \in Frames(devices) <=> j \in devices /\ n \in 1 .. collided[j]
BY DEF Frames

\* A cleared array holds no frame.
LEMMA NoFrames ==
    ASSUME \A j \in Device : collided[j] = 0
    PROVE  Frames(Device) = {}
BY DEF Frames

\* At first there are no frames.
LEMMA AccountedInit == Init => Accounted
<1> SUFFICES ASSUME Init PROVE Accounted
    OBVIOUS
<1>1. Frames(Device) = {}
    BY NoFrames DEF Init
<1> QED
    BY <1>1, FS_EmptySet DEF Init, Accounted, SwitchAccounts, For

\* A frame for a device is one more, and a different one.
LEMMA FrameMore ==
    ASSUME Accounted, NEW to \in Device, collided' = [collided EXCEPT ![to] = @ + 1]
    PROVE  IsFiniteSet(Frames(Device)') /\ For(Device)' = For(Device) + 1
<1> DEFINE frame == <<to, collided[to] + 1>>
<1>1. collided[to] \in Nat
    BY DEF Accounted
<1>2. frame \notin Frames(Device)
    BY <1>1 DEF Frames
<1>3. \A j \in Device : {j} \X (1 .. collided'[j]) =
                            ({j} \X (1 .. collided[j])) \cup (IF j = to THEN {frame} ELSE {})
    <2> TAKE j \in Device
    <2>1. CASE j = to
        <3>1. 1 .. collided'[to] = (1 .. collided[to]) \cup {collided[to] + 1}
            BY <1>1 DEF Accounted
        <3> QED
            BY <2>1, <3>1
    <2>2. CASE j # to
        BY <2>2 DEF Accounted
    <2> QED
        BY <2>1, <2>2
<1>4. Frames(Device)' = Frames(Device) \cup {frame}
    BY <1>3 DEF Frames, Device
<1> QED
    BY <1>2, <1>4, FS_AddElement DEF Accounted, For

\* The frames for two disjoint sets of devices are counted separately.
LEMMA FramesApart ==
    ASSUME IsFiniteSet(Frames(Device)), NEW devices \in SUBSET Device
    PROVE  /\ For(devices) \in Nat /\ For(Device \ devices) \in Nat
           /\ For(Device) = For(devices) + For(Device \ devices)
<1>1. Frames(Device) = Frames(devices) \cup Frames(Device \ devices)
    BY DEF Frames
<1>2. Frames(devices) \cap Frames(Device \ devices) = {}
    BY DEF Frames
<1>3. IsFiniteSet(Frames(devices)) /\ IsFiniteSet(Frames(Device \ devices))
    BY <1>1, FS_Subset
<1>4. Cardinality(Frames(devices) \cap Frames(Device \ devices)) = 0
    BY <1>2, FS_EmptySet
<1>5. Cardinality(Frames(Device)) =
        Cardinality(Frames(devices)) + Cardinality(Frames(Device \ devices))
            - Cardinality(Frames(devices) \cap Frames(Device \ devices))
    BY <1>1, <1>3, FS_Union
<1>6. For(devices) \in Nat /\ For(Device \ devices) \in Nat
    BY <1>3, FS_CardinalityType DEF For
<1> QED
    BY <1>4, <1>5, <1>6 DEF For

\* Every step accounts for its frames.
LEMMA AccountedNext == Accounted /\ [Next]_vars => Accounted'
<1> SUFFICES ASSUME Accounted, [Next]_vars PROVE Accounted'
    OBVIOUS
<1>0. For(Device) \in Nat
    BY FS_CardinalityType DEF Accounted, For
<1>1. ASSUME UNCHANGED got, NEW to, Hit(to) PROVE Accounted'
    <2>1. to \in Device /\ collided' = [collided EXCEPT ![to] = @ + 1]
        BY <1>1 DEF Hit
    <2>2. IsFiniteSet(Frames(Device)') /\ For(Device)' = For(Device) + 1
        BY <2>1, FrameMore
    <2>3. collided' \in [Device -> Nat] /\ Device' = Device
        BY <2>1 DEF Accounted, Device
    <2> QED
        BY <1>0, <1>1, <2>2, <2>3 DEF Hit, Accounted, SwitchAccounts
<1>2. ASSUME UNCHANGED got, NEW to, Stray(to) PROVE Accounted'
    <2>1. Frames(Device)' = Frames(Device) /\ Device' = Device /\ collided' = collided
        BY <1>2 DEF Stray, Frames, Device
    <2>2. PICK int \in Behind :
              LET plus(name) == IF int = name THEN 1 ELSE 0
              IN  /\ framesSent' = framesSent + 1 + plus("framesSent")
                  /\ framesDenied' = framesDenied + plus("framesDenied")
        BY <1>2 DEF Stray
    <2>3. framesSent' \in Nat /\ framesDenied' \in Nat
        BY <2>2 DEF Accounted
    <2>4. strayed' \in Nat /\ strayed' # 0
        BY <1>2 DEF Stray, Accounted
    <2> QED
        BY <1>2, <2>1, <2>3, <2>4 DEF Accounted, SwitchAccounts
<1>3. CASE EndCycle
    <2>1. For(Contended) \in Nat /\ For(Device \ Contended) \in Nat
        /\ For(Device) = For(Contended) + For(Device \ Contended)
        BY FramesApart DEF Accounted, Contended
    <2>2. collided' = [j \in Device |-> 0]
        BY <1>3 DEF EndCycle, Cleared
    <2>3. Frames(Device)' = {}
        BY <2>2 DEF Frames, Device
    <2>4. IsFiniteSet(Frames(Device)') /\ For(Device)' = 0
        BY <2>3, FS_EmptySet DEF For
    <2>5. collided' \in [Device' -> Nat]
        BY <2>2 DEF Device
    <2> QED
        BY <1>0, <1>3, <2>1, <2>4, <2>5 DEF EndCycle, Accounted, SwitchAccounts
<1>4. CASE UNCHANGED <<framesSent, collided, strayed, framesDenied, got>>
    <2>1. Frames(Device)' = Frames(Device) /\ For(Device)' = For(Device)
        BY <1>4 DEF Frames, For, Device
    <2> QED
        BY <1>4, <2>1 DEF Accounted, SwitchAccounts, Device
<1>5. CASE Visit
    <2>1. CASE SendNot
        BY <1>4, <1>5, <2>1 DEF SendNot, Visit
    <2>2. CASE Send
        BY <1>1, <1>2, <1>5, <2>2 DEF Send, Visit
    <2> QED
        BY <1>5, <2>1, <2>2 DEF Visit
<1> QED
    BY <1>3, <1>4, <1>5 DEF Next, vars

\* For any X and Cycles: as long as no frame was counted behind the end of the array, every frame
\* sent is denied, received or still in the array, in the middle of a cycle as at its
\* end (switch.c:42-76).
THEOREM AllAccounted == Spec => []SwitchAccounts
<1>1. Accounted => SwitchAccounts
    BY DEF Accounted
<1> QED
    BY <1>1, AccountedInit, AccountedNext, PTL DEF Spec

=============================================================================
