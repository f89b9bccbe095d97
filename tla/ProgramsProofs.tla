--------------------------- MODULE ProgramsProofs ---------------------------
(***************************************************************************)
(* Safety of the programs.  The lemmas of BackoffProofs, SwitchProofs and  *)
(* PlugsProofs say what a step of each program keeps; a step of another    *)
(* program leaves its variables alone.  The hub is proved here, and so     *)
(* are the two functions over bytes, for which induction over positions    *)
(* comes first.                                                            *)
(***************************************************************************)
EXTENDS Programs, FiniteSetTheorems, WellFoundedInduction, TLAPS

BP == INSTANCE BackoffProofs
SP == INSTANCE SwitchProofs
PP == INSTANCE PlugsProofs

-----------------------------------------------------------------------------
(* The backoff study.                                                      *)

\* Programs and the proofs start the backoff study alike.
LEMMA BackoffInit == B!Init <=> BP!Init
BY DEF B!Init, BP!Init, B!Device, BP!Device

\* They take the same steps.
LEMMA BackoffNext == B!Next => BP!Next
<1>1. B!NoneSends => BP!NoneSends
    BY DEF B!NoneSends, BP!NoneSends, B!Device, BP!Device, B!Senders, BP!Senders, B!Passed, BP!Passed
<1>2. B!OneSends => BP!OneSends
    BY DEF B!OneSends, BP!OneSends, B!Device, BP!Device, B!Senders, BP!Senders, B!Passed, BP!Passed
<1>3. B!Collide => BP!Collide
    BY DEF B!Collide, BP!Collide, B!Device, BP!Device, B!Senders, BP!Senders, B!Passed, BP!Passed,
           B!Waits, BP!Waits, B!Backed, BP!Backed, B!Cardinality, BP!Cardinality
<1> QED
    BY <1>1, <1>2, <1>3 DEF B!Next, BP!Next, B!TimeStep, BP!TimeStep

BackoffSafe == program = "binexpback" => BP!Waiting

\* The invariant of the backoff study, among the programs.
LEMMA BackoffSafeInit == Init => BackoffSafe
<1>1. MaxCycle \in Nat /\ X \in Nat
    BY ProgramsAssumption
<1> QED
    BY <1>1, BackoffInit, BP!WaitingInit DEF Init, BackoffSafe

\* No program spoils it.
LEMMA BackoffSafeNext == BackoffSafe /\ [Next]_vars => BackoffSafe'
<1> SUFFICES ASSUME BackoffSafe, [Next]_vars, program' = "binexpback" PROVE BP!Waiting'
    BY DEF BackoffSafe
<1>1. MaxCycle \in Nat /\ X \in Nat /\ BP!RangesAreNumbers
    <2>1. MaxCycle \in Nat /\ X \in Nat /\ \A cycle \in 0 .. MaxCycle : cycle \in 0 .. 30
        BY ProgramsAssumption
    <2> QED
        BY <2>1, PowerAssumption, Zenon DEF BP!RangesAreNumbers
<1>2. program = "binexpback" /\ BP!Waiting
    BY DEF Next, RunsBackoff, RunsHub, RunsSwitch, RunsPlugs, RunsCrc32, RunsChecksum, studyVars, vars, BackoffSafe
<1>3. [BP!Next]_BP!vars
    BY <1>2, BackoffNext
    DEF Next, RunsBackoff, RunsHub, RunsSwitch, RunsPlugs, RunsCrc32, RunsChecksum, studyVars, vars, backoffVars, BP!vars
<1> QED
    BY <1>1, <1>2, <1>3, BP!WaitingNext

\* For any number of stations: none is given a time that has passed (binexpback.c:48), in the first
\* 31 collisions of each, which is as far as the program's ints reach.
THEOREM NeverStranded == Spec => []NotStranded
<1>1. BackoffSafe => NotStranded
    BY DEF BackoffSafe, NotStranded, B!NotStranded, BP!Waiting, B!Device, BP!Device, B!Cardinality, BP!Cardinality
<1> QED
    BY <1>1, BackoffSafeInit, BackoffSafeNext, PTL DEF Spec

-----------------------------------------------------------------------------
(* The hub study.                                                          *)

\* The inductive invariant: the counters are numbers, and the accounts are right after each device.
HubSafe ==
    program = "hub" =>
        /\ collidecount \in Nat /\ framesSent \in Nat /\ framesDenied \in Nat /\ alone \in Nat
        /\ H!HubAccounts

\* The invariant of the hub study, among the programs.
LEMMA HubSafeInit == Init => HubSafe
BY DEF Init, H!Init, HubSafe, H!HubAccounts

\* No program spoils it.
LEMMA HubSafeNext == HubSafe /\ [Next]_vars => HubSafe'
<1> SUFFICES ASSUME HubSafe, [Next]_vars, program = "hub" PROVE HubSafe'
    BY DEF Next, RunsBackoff, RunsHub, RunsSwitch, RunsPlugs, RunsCrc32, RunsChecksum, studyVars, vars, HubSafe
<1>1. CASE H!Visit
    <2>1. CASE UNCHANGED <<collidecount, framesDenied>>
        BY <1>1, <2>1 DEF H!Visit, HubSafe, H!HubAccounts
    <2>2. CASE /\ collidecount' = collidecount + 1
               /\ framesDenied' = framesDenied + H!Denied(collidecount + 1)
        <3>1. CASE collidecount = 0
            BY <1>1, <2>2, <3>1 DEF H!Visit, HubSafe, H!HubAccounts, H!Denied
        <3>2. CASE collidecount = 1
            BY <1>1, <2>2, <3>2 DEF H!Visit, HubSafe, H!HubAccounts, H!Denied
        <3>3. CASE collidecount > 1
            BY <1>1, <2>2, <3>3 DEF H!Visit, HubSafe, H!HubAccounts, H!Denied
        <3> QED
            BY <3>1, <3>2, <3>3 DEF HubSafe
    <2> QED
        BY <1>1, <2>1, <2>2 DEF H!Visit
<1>2. CASE H!EndCycle
    BY <1>2 DEF H!EndCycle, HubSafe, H!HubAccounts
<1>3. CASE UNCHANGED vars
    BY <1>3 DEF vars, counters, hubOnly, HubSafe, H!HubAccounts
<1> QED
    BY <1>1, <1>2, <1>3 DEF Next, RunsBackoff, RunsHub, RunsSwitch, RunsPlugs, RunsCrc32, RunsChecksum, studyVars, H!Next

\* For any number of devices and cycles: at every point of every cycle each frame sent is either
\* denied or was alone in its cycle (hub.c:43-61).
THEOREM HubBalances == Spec => []HubAccounts
<1>1. HubSafe => HubAccounts
    BY DEF HubSafe, HubAccounts
<1> QED
    BY <1>1, HubSafeInit, HubSafeNext, PTL DEF Spec

-----------------------------------------------------------------------------
(* The switch study.                                                       *)

\* Programs and the proofs start the switch study alike.
LEMMA SwitchInit == S!Init <=> SP!Init
BY DEF S!Init, SP!Init, S!Device, SP!Device

\* They take the same steps.
LEMMA SwitchNext ==
    /\ S!Visit <=> SP!Visit
    /\ S!Next <=> SP!Next
<1>1. S!Device = SP!Device /\ S!Cleared = SP!Cleared /\ S!Contended = SP!Contended
    BY DEF S!Device, SP!Device, S!Cleared, SP!Cleared, S!Contended, SP!Contended
<1>2. \A target : S!Index(target) = SP!Index(target) /\ S!Aimed(target) = SP!Aimed(target)
    BY DEF S!Index, SP!Index, S!Aimed, SP!Aimed
<1>3. \A devices : S!For(devices) = SP!For(devices)
    BY DEF S!For, SP!For, S!Frames, SP!Frames, S!Cardinality, SP!Cardinality
<1>4. S!Send <=> SP!Send
    <2>1. \A to : (S!Hit(to) <=> SP!Hit(to)) /\ (S!Stray(to) <=> SP!Stray(to))
        BY <1>1 DEF S!Hit, SP!Hit, S!Stray, SP!Stray, S!Behind, SP!Behind
    <2> QED
        BY <1>2, <2>1 DEF S!Send, SP!Send
<1>5. S!Visit <=> SP!Visit
    BY <1>4 DEF S!Visit, SP!Visit, S!SendNot, SP!SendNot, S!InCycle, SP!InCycle
<1>6. S!EndCycle <=> SP!EndCycle
    BY <1>1, <1>3 DEF S!EndCycle, SP!EndCycle, S!InCycle, SP!InCycle
<1> QED
    BY <1>5, <1>6 DEF S!Next, SP!Next

SwitchSafe == SP!Places /\ (program = "switch" => SP!Accounted)

\* The invariant of the switch study, among the programs.
LEMMA SwitchSafeInit == Init => SwitchSafe
BY SwitchInit, SP!PlacesInit, SP!AccountedInit DEF Init, SwitchSafe

\* No program spoils it.
LEMMA SwitchSafeNext == SwitchSafe /\ [Next]_vars => SwitchSafe'
<1> SUFFICES ASSUME SwitchSafe, [Next]_vars PROVE SwitchSafe'
    OBVIOUS
<1>1. CASE RunsHub
    <2>1. i' \in Nat
        BY <1>1 DEF RunsHub, H!Next, H!Visit, H!EndCycle, SwitchSafe, SP!Places
    <2> QED
        BY <1>1, <2>1 DEF RunsHub, switchOnly, SwitchSafe, SP!Places, SP!Device
<1>2. CASE ~RunsHub
    <2>1. (program = "switch") = (program' = "switch") /\ [SP!Next]_SP!vars
        BY <1>2, SwitchNext DEF Next, RunsBackoff, RunsSwitch, RunsPlugs, RunsCrc32, RunsChecksum, studyVars, vars, counters, switchOnly, SP!vars
    <2> QED
        BY <2>1, SP!PlacesNext, SP!AccountedNext DEF SwitchSafe
<1> QED
    BY <1>1, <1>2

\* For any number of devices and cycles, and whatever the compiler puts behind the array: as long as
\* no frame was counted there, every frame sent is denied, received or still in the
\* array (switch.c:42-76).
THEOREM SwitchBalances == Spec => []SwitchAccounts
<1>1. SP!Accounted => S!SwitchAccounts
    BY DEF SP!Accounted, SP!SwitchAccounts, S!SwitchAccounts, S!For, SP!For, S!Frames, SP!Frames,
           S!Cardinality, SP!Cardinality, S!Device, SP!Device
<1>2. SwitchSafe => SwitchAccounts
    BY <1>1 DEF SwitchSafe, SwitchAccounts
<1> QED
    BY <1>2, SwitchSafeInit, SwitchSafeNext, PTL DEF Spec

\* For any number of devices: none but the last ever sends to itself or outside the array
\* (switch.c:50-58).
THEOREM OthersAimRight == Spec => OnlyLastMisaims
<1>1. SwitchSafe /\ [Next]_vars => [S!Visit /\ i < X - 1 =>
                                        /\ strayed' = strayed
                                        /\ collided'[i] = collided[i]]_S!vars
    <2>1. X \in Nat
        BY ProgramsAssumption
    <2> QED
        BY <2>1, SwitchNext, SP!VisitAims DEF SwitchSafe
<1> QED
    BY <1>1, SwitchSafeInit, SwitchSafeNext, PTL DEF Spec, OnlyLastMisaims, S!OnlyLastMisaims

-----------------------------------------------------------------------------
(* The start of the plugs.                                                 *)

\* Programs and the proofs start the plugs alike.
LEMMA PlugsInit == P!Init <=> PP!Init
BY DEF P!Init, PP!Init, P!Interface, PP!Interface, P!Process, PP!Process

\* They take the same steps.
LEMMA PlugsNext == P!Next <=> PP!Next
<1>1. P!Interface = PP!Interface /\ P!Process = PP!Process
    BY DEF P!Interface, PP!Interface, P!Process, PP!Process
<1>2. \A j : P!ToRead(j) = PP!ToRead(j) /\ P!ToWrite(j) = PP!ToWrite(j)
             /\ P!FromRead(j) = PP!FromRead(j) /\ P!FromWrite(j) = PP!FromWrite(j)
    BY DEF P!ToRead, PP!ToRead, P!ToWrite, PP!ToWrite, P!FromRead, PP!FromRead, P!FromWrite, PP!FromWrite
<1>3. \A q, j : P!Surplus(q, j) = PP!Surplus(q, j)
    BY <1>2 DEF P!Surplus, PP!Surplus
<1>4. P!Exits <=> PP!Exits
    BY DEF P!Exits, PP!Exits
<1>5. /\ P!MakesToPipe <=> PP!MakesToPipe
      /\ P!MakesFromPipe <=> PP!MakesFromPipe
      /\ P!Forks <=> PP!Forks
      /\ P!Closes <=> PP!Closes
      /\ P!MainDies <=> PP!MainDies
    BY <1>2, <1>3, <1>4
    DEF P!MakesToPipe, PP!MakesToPipe, P!MakesFromPipe, PP!MakesFromPipe, P!Forks, PP!Forks,
        P!Closes, PP!Closes, P!MainDies, PP!MainDies
<1>6. \A j : /\ P!Execs(j) <=> PP!Execs(j)
             /\ P!PlugEnds(j) <=> PP!PlugEnds(j)
             /\ P!PlugDies(j) <=> PP!PlugDies(j)
    BY <1>1, <1>2, <1>3
    DEF P!Execs, PP!Execs, P!PlugEnds, PP!PlugEnds, P!EndOfInput, PP!EndOfInput, P!PlugDies, PP!PlugDies
<1> QED
    BY <1>1, <1>5, <1>6 DEF P!Next, PP!Next, P!PlugSteps, PP!PlugSteps

\* The invariant of the plugs, among the programs.
LEMMA PlugsSafeInit == Init => PP!Owned
BY PlugsInit, PP!OwnedInit, ProgramsAssumption DEF Init

\* No program spoils it.
LEMMA PlugsSafeNext == PP!Owned /\ [Next]_vars => PP!Owned'
<1> SUFFICES ASSUME [Next]_vars PROVE [PP!Next]_PP!vars
    BY PP!OwnedNext, ProgramsAssumption
<1> QED
    BY PlugsNext DEF Next, RunsBackoff, RunsHub, RunsSwitch, RunsPlugs, RunsCrc32, RunsChecksum, studyVars, vars, plugVars, PP!vars

\* For any number of interfaces: once main() is in its loop, no process has an end of a pipe that
\* would hide that a plug has ended (cs431vde.c, connect_to_vde_switch).
THEOREM EndsAreSeen == Spec => []PlugEndIsSeen
<1>1. P!Interface = PP!Interface /\ P!Process = PP!Process
    BY DEF P!Interface, PP!Interface, P!Process, PP!Process
<1>2. \A j : PP!Own(j) = {P!FromWrite(j), P!ToRead(j)}
    BY DEF PP!Own, PP!ToRead, PP!FromWrite, P!ToRead, P!FromWrite
<1>3. PP!Owned => PlugEndIsSeen
    <2> SUFFICES ASSUME PP!Owned, pc = "run", NEW j \in P!Interface, plug[j] = "ended", NEW q \in P!Process
                 PROVE  open[q] \cap PP!Own(j) = {}
        BY <1>2 DEF PlugEndIsSeen, P!PlugEndIsSeen
    <2>1. open[q] \cap PP!Own(j) # {} => q = j
        BY <1>1 DEF PP!Owned, PP!Making
    <2>2. open[j] = {}
        BY <1>1 DEF PP!Owned
    <2> QED
        BY <2>1, <2>2
<1> QED
    BY <1>3, PlugsSafeInit, PlugsSafeNext, PTL DEF Spec

-----------------------------------------------------------------------------
(* Induction over the positions of a sequence, from the order of finite    *)
(* sets: with it, what a recursive function computes can be proved.        *)

\* A nonempty set of numbers has a least one.
LEMMA LeastNumber ==
    ASSUME NEW numbers \in SUBSET Nat, numbers # {}
    PROVE  \E n \in numbers : \A m \in numbers : n <= m
<1> DEFINE smaller == StrictSubsetOrdering(Nat)
           ranges == {0 .. n : n \in numbers}
<1>1. IsWellFoundedOn(smaller, FiniteSubsetsOf(Nat))
    BY FS_StrictSubsetOrderingWellFounded
<1>2. ranges \subseteq FiniteSubsetsOf(Nat) /\ ranges # {}
    <2>1. \A n \in Nat : IsFiniteSet(0 .. n) /\ 0 .. n \subseteq Nat
        BY FS_Interval
    <2> QED
        BY <2>1 DEF FiniteSubsetsOf
<1>3. \E x \in ranges : \A y \in ranges : ~(<<y, x>> \in smaller)
    <2> HIDE DEF smaller, ranges
    <2> QED
        BY <1>1, <1>2, WFMin
<1>4. PICK n \in numbers : \A m \in numbers : ~(<<0 .. m, 0 .. n>> \in smaller)
    BY <1>3
<1>5. \A m \in numbers : n <= m
    <2> SUFFICES ASSUME NEW m \in numbers, m < n PROVE FALSE
        OBVIOUS
    <2>1. n \in 0 .. n /\ n \notin 0 .. m
        OBVIOUS
    <2>2. 0 .. m \subseteq 0 .. n /\ 0 .. m # 0 .. n
        BY <2>1
    <2>3. 0 .. m \in SUBSET Nat /\ 0 .. n \in SUBSET Nat
        OBVIOUS
    <2>4. <<0 .. m, 0 .. n>> \in smaller
        <3> DEFINE a == 0 .. m
                   b == 0 .. n
        <3>1. a \in SUBSET Nat /\ b \in SUBSET Nat /\ a \subseteq b /\ a # b
            BY <2>2, <2>3
        <3> HIDE DEF a, b
        <3>2. <<a, b>> \in smaller
            BY <3>1 DEF StrictSubsetOrdering
        <3> QED
            BY <3>2 DEF a, b
    <2> QED
        BY <1>4, <2>4
<1> QED
    BY <1>5

\* Induction over the positions of a sequence.
LEMMA Induction ==
    ASSUME NEW len \in Nat, NEW holds, 0 \in holds,
           \A n \in 0 .. (len - 1) : n \in holds => n + 1 \in holds
    PROVE  0 .. len \subseteq holds
<1> DEFINE bad == {n \in 0 .. len : n \notin holds}
<1> SUFFICES ASSUME bad # {} PROVE FALSE
    OBVIOUS
<1>1. PICK n \in bad : \A m \in bad : n <= m
    <2>1. bad \in SUBSET Nat
        OBVIOUS
    <2> HIDE DEF bad
    <2> QED
        BY <2>1, LeastNumber
<1>2. n # 0 /\ n - 1 \in 0 .. (len - 1) /\ n - 1 \notin bad
    BY <1>1
<1> QED
    BY <1>1, <1>2

\* f begins with base and goes on by the steps.
Iterated(f, len, base, step) == f[0] = base /\ \A n \in 1 .. len : f[n] = step[n][f[n - 1]]

\* Such a function exists, so that a recursive definition over positions defines one.
LEMMA IterationExists ==
    ASSUME NEW len \in Nat, NEW values, NEW base \in values,
           NEW step \in [1 .. len -> [values -> values]]
    PROVE  \E f \in [0 .. len -> values] : Iterated(f, len, base, step)
<1> DEFINE Iterates(f, m) ==
               /\ f \in [0 .. m -> values]
               /\ f[0] = base
               /\ \A n \in 1 .. m : f[n] = step[n][f[n - 1]]
           holds == {m \in 0 .. len : \E f : Iterates(f, m)}
<1>1. 0 \in holds
    <2>1. Iterates([n \in 0 .. 0 |-> base], 0)
        OBVIOUS
    <2> HIDE DEF Iterates
    <2> QED
        BY <2>1
<1>2. ASSUME NEW m \in 0 .. (len - 1), m \in holds
      PROVE  m + 1 \in holds
    <2>1. PICK f : Iterates(f, m)
        BY <1>2
    <2> DEFINE g == [n \in 0 .. m + 1 |-> IF n = m + 1 THEN step[n][f[m]] ELSE f[n]]
    <2>2. f[m] \in values /\ step[m + 1] \in [values -> values] /\ step[m + 1][f[m]] \in values
        <3>1. f[m] \in values
            BY <2>1
        <3>2. step[m + 1] \in [values -> values]
            OBVIOUS
        <3> QED
            BY <3>1, <3>2
    <2>3. g \in [0 .. m + 1 -> values] /\ g[0] = base
        BY <2>1, <2>2
    <2>4. \A n \in 1 .. m + 1 : g[n] = step[n][g[n - 1]]
        BY <2>1
    <2>5. Iterates(g, m + 1)
        BY <2>3, <2>4
    <2> HIDE DEF Iterates
    <2> QED
        BY <2>5
<1>3. len \in holds
    <2> HIDE DEF holds
    <2>1. 0 .. len \subseteq holds
        BY <1>1, <1>2, Induction
    <2> QED
        BY <2>1
<1> QED
    BY <1>3 DEF Iterated

\* An element of a sequence.
LEMMA SeqElement ==
    ASSUME NEW values, NEW seq \in Seq(values), NEW n \in 1 .. Len(seq)
    PROVE  seq[n] \in values
OBVIOUS

-----------------------------------------------------------------------------
(* The sums of the standard.                                               *)

\* What byte n adds to the sum.
Weight(bytes, n) == IF n % 2 = 1 THEN 256 * bytes[n] ELSE bytes[n]

\* The partial sums of the standard, byte after byte.
LEMMA SumsRecur ==
    ASSUME NEW bytes \in Seq(Nat)
    PROVE  /\ K!Sums(bytes) \in [0 .. Len(bytes) -> Nat]
           /\ K!Sums(bytes)[0] = 0
           /\ \A n \in 1 .. Len(bytes) : K!Sums(bytes)[n] = K!Sums(bytes)[n - 1] + Weight(bytes, n)
<1> DEFINE len == Len(bytes)
           step == [n \in 1 .. len |-> [v \in Nat |-> v + Weight(bytes, n)]]
           Defines(f) == f = [n \in 0 .. len |->
                                 IF n = 0 THEN 0
                                 ELSE f[n - 1] + (IF n % 2 = 1 THEN 256 * bytes[n] ELSE bytes[n])]
<1>1. \A n \in 1 .. len : Weight(bytes, n) \in Nat
    BY DEF Weight
<1>2. len \in Nat /\ step \in [1 .. len -> [Nat -> Nat]]
    BY <1>1
<1>3. \E f \in [0 .. len -> Nat] : Iterated(f, len, 0, step)
    <2>1. 0 \in Nat
        OBVIOUS
    <2> HIDE DEF len, step, Defines
    <2> QED
        BY <1>2, <2>1, IterationExists
<1>4. PICK f \in [0 .. len -> Nat] : f[0] = 0 /\ \A n \in 1 .. len : f[n] = step[n][f[n - 1]]
    BY <1>3 DEF Iterated
<1>5. ASSUME NEW n \in 0 .. len, n # 0
      PROVE  f[n] = f[n - 1] + Weight(bytes, n)
    <2>1. f[n - 1] \in Nat /\ n \in 1 .. len /\ n - 1 \in 0 .. len
        BY <1>5
    <2>2. f[n] = step[n][f[n - 1]]
        BY <1>4, <2>1, Zenon
    <2>3. step[n] = [v \in Nat |-> v + Weight(bytes, n)]
        BY <2>1
    <2> QED
        BY <2>1, <2>2, <2>3
<1>6. f = [n \in 0 .. len |-> f[n]] /\ f[0] = 0
    BY <1>4
<1>7. Defines(f)
    BY <1>5, <1>6 DEF Weight
<1>8. Defines(K!Sums(bytes))
    <2>1. K!Sums(bytes) = CHOOSE g : Defines(g)
        BY Zenon DEF K!Sums
    <2> HIDE DEF Defines
    <2> QED
        BY <1>7, <2>1
<1> DEFINE sums == K!Sums(bytes)
<1>9. sums[0] = 0 /\ \A n \in 1 .. len : sums[n] = sums[n - 1] + Weight(bytes, n)
    <2> HIDE DEF sums
    <2> QED
        BY <1>8 DEF Weight
<1>10. sums = [n \in 0 .. len |-> sums[n]]
    BY <1>8
<1>11. \A n \in 0 .. len : sums[n] \in Nat
    <2> DEFINE holds == {n \in 0 .. len : sums[n] \in Nat}
    <2>1. 0 \in holds /\ \A n \in 0 .. (len - 1) : n \in holds => n + 1 \in holds
        <3> HIDE DEF sums
        <3> QED
            BY <1>1, <1>9
    <2> HIDE DEF holds, len
    <2>2. 0 .. len \subseteq holds
        BY <1>2, <2>1, Induction
    <2> QED
        BY <2>2 DEF holds
<1> QED
    <2> HIDE DEF sums
    <2>1. sums \in [0 .. len -> Nat]
        BY <1>10, <1>11
    <2> QED
        BY <1>9, <2>1 DEF sums

\* Weights are numbers.
LEMMA WeightTyped ==
    ASSUME NEW bytes \in Seq(Nat), NEW n \in 1 .. Len(bytes)
    PROVE  Weight(bytes, n) \in Nat
BY DEF Weight

\* So are sums.
LEMMA TotalTyped ==
    ASSUME NEW bytes \in Seq(Nat)
    PROVE  K!Total(bytes) \in Nat
<1>1. Len(bytes) \in 0 .. Len(bytes)
    OBVIOUS
<1> QED
    BY <1>1, SumsRecur DEF K!Total

\* Sums of sequences whose bytes differ: by d, if d differs as the bytes do.
LEMMA SumsDiffer ==
    ASSUME NEW old \in Seq(Nat), NEW new \in Seq(Nat), Len(new) = Len(old),
           NEW d \in [0 .. Len(old) -> Int], d[0] = 0,
           \A n \in 1 .. Len(old) : Weight(new, n) + d[n - 1] = Weight(old, n) + d[n]
    PROVE  K!Total(new) = K!Total(old) + d[Len(old)] /\ K!Total(old) \in Nat
<1> DEFINE len == Len(old)
           x == K!Sums(old)
           y == K!Sums(new)
           holds == {n \in 0 .. len : y[n] = x[n] + d[n]}
<1>1. /\ x \in [0 .. len -> Nat] /\ x[0] = 0
      /\ \A n \in 1 .. len : x[n] = x[n - 1] + Weight(old, n)
    BY SumsRecur
<1>2. /\ y \in [0 .. len -> Nat] /\ y[0] = 0
      /\ \A n \in 1 .. len : y[n] = y[n - 1] + Weight(new, n)
    BY SumsRecur
<1>3. len \in Nat /\ \A n \in 1 .. len : Weight(old, n) \in Nat /\ Weight(new, n) \in Nat
    BY WeightTyped
<1>4. 0 \in holds /\ \A n \in 0 .. (len - 1) : n \in holds => n + 1 \in holds
    <2> HIDE DEF x, y
    <2>1. 0 \in holds
        BY <1>1, <1>2, <1>3
    <2>2. ASSUME NEW n \in 0 .. (len - 1), n \in holds
          PROVE  n + 1 \in holds
        <3>1. n + 1 \in 1 .. len /\ (n + 1) - 1 = n /\ n \in 0 .. len /\ n + 1 \in 0 .. len
            BY <1>3
        <3>2. x[n + 1] = x[n] + Weight(old, n + 1) /\ y[n + 1] = y[n] + Weight(new, n + 1)
            BY <1>1, <1>2, <3>1
        <3>3. x[n] \in Nat /\ y[n] \in Nat /\ d[n] \in Int /\ d[n + 1] \in Int
            BY <1>1, <1>2, <3>1
        <3>4. Weight(new, n + 1) + d[n] = Weight(old, n + 1) + d[n + 1]
            BY <3>1
        <3>5. y[n] = x[n] + d[n]
            BY <2>2
        <3>6. Weight(new, n + 1) \in Nat /\ Weight(old, n + 1) \in Nat
            BY <1>3, <3>1
        <3>7. y[n + 1] = x[n + 1] + d[n + 1]
            <4>1. \A e, f \in Int, g, h, u, v \in Nat :
                      u + e = v + f /\ g = h + e => g + u = (h + v) + f
                OBVIOUS
            <4>2. y[n] + Weight(new, n + 1) = (x[n] + Weight(old, n + 1)) + d[n + 1]
                <5> DEFINE g == y[n]
                           h == x[n]
                           e == d[n]
                           f == d[n + 1]
                           u == Weight(new, n + 1)
                           v == Weight(old, n + 1)
                <5>1. g \in Nat /\ h \in Nat /\ e \in Int /\ f \in Int /\ u \in Nat /\ v \in Nat
                    BY <3>3, <3>6, Zenon
                <5>2. u + e = v + f /\ g = h + e
                    BY <3>4, <3>5, Zenon
                <5> HIDE DEF g, h, e, f, u, v
                <5>3. g + u = (h + v) + f
                    BY <4>1, <5>1, <5>2
                <5> QED
                    BY <5>3 DEF g, h, e, f, u, v
            <4> QED
                BY <3>2, <4>2
        <3> QED
            BY <3>1, <3>7
    <2> QED
        BY <2>1, <2>2
<1>5. len \in holds
    <2> HIDE DEF holds, len
    <2>1. 0 .. len \subseteq holds
        BY <1>3, <1>4, Induction
    <2> QED
        BY <1>3, <2>1
<1> QED
    <2>1. x[len] \in Nat
        BY <1>1, <1>3, SMTT(30)
    <2> QED
        BY <1>5, <2>1 DEF K!Total

\* Only byte j has changed.
ChangedAt(old, new, j) ==
    /\ new \in Seq(Nat) /\ Len(new) = Len(old)
    /\ \A n \in 1 .. Len(old) : n # j => new[n] = old[n]

\* So it is when byte j is given another value.
LEMMA ChangedByte ==
    ASSUME NEW old \in Seq(Nat), NEW j \in 1 .. Len(old), NEW v \in Nat
    PROVE  ChangedAt(old, [old EXCEPT ![j] = v], j) /\ [old EXCEPT ![j] = v][j] = v
BY DEF ChangedAt

\* One byte changed changes the sum by what it weighs.
LEMMA SumsOfChanged ==
    ASSUME NEW old \in Seq(Nat), NEW j \in 1 .. Len(old), NEW new, ChangedAt(old, new, j)
    PROVE  /\ K!Total(new) + Weight(old, j) = K!Total(old) + Weight(new, j)
           /\ K!Total(old) \in Nat /\ K!Total(new) \in Nat
           /\ Weight(old, j) \in Nat /\ Weight(new, j) \in Nat
<1> DEFINE len == Len(old)
           u == Weight(old, j)
           v == Weight(new, j)
           delta == v - u
           d == [n \in 0 .. len |-> IF j <= n THEN delta ELSE 0]
<1>1. new \in Seq(Nat) /\ Len(new) = len /\ len \in Nat /\ j \in 1 .. len
    BY DEF ChangedAt
<1>2. u \in Nat /\ v \in Nat
    BY <1>1, WeightTyped
<1>3. \A n \in 1 .. len : Weight(new, n) \in Nat /\ Weight(old, n) \in Nat
    BY <1>1, WeightTyped
<1>4. \A n \in 1 .. len : n # j => Weight(new, n) = Weight(old, n)
    BY DEF Weight, ChangedAt
<1>5. Weight(new, j) = v /\ Weight(old, j) = u
    OBVIOUS
<1> HIDE DEF u, v, len
<1>6. d \in [0 .. len -> Int] /\ d[0] = 0 /\ d[len] = v - u
    BY <1>1, <1>2
<1>7. \A n \in 1 .. len : Weight(new, n) + d[n - 1] = Weight(old, n) + d[n]
    <2> SUFFICES ASSUME NEW n \in 1 .. len
                 PROVE  Weight(new, n) + d[n - 1] = Weight(old, n) + d[n]
        OBVIOUS
    <2>1. CASE n = j
        <3>1. d[n - 1] = 0 /\ d[n] = v - u
            BY <1>1, <2>1
        <3>2. v + 0 = u + (v - u)
            BY <1>2
        <3> QED
            BY <1>5, <2>1, <3>1, <3>2
    <2>2. CASE n # j
        <3>1. d[n - 1] = d[n]
            BY <1>1, <2>2
        <3> QED
            BY <1>4, <2>2, <3>1
    <2> QED
        BY <2>1, <2>2
<1> HIDE DEF d
<1>8. K!Total(new) = K!Total(old) + d[len] /\ K!Total(old) \in Nat
    BY <1>1, <1>6, <1>7, SumsDiffer DEF len
<1>9. K!Total(new) = K!Total(old) + (v - u) /\ K!Total(old) \in Nat
    BY <1>6, <1>8
<1>10. K!Total(new) + u = K!Total(old) + v /\ K!Total(new) \in Nat
    <2>1. K!Total(new) \in Nat
        BY <1>1, TotalTyped
    <2> QED
        BY <1>2, <1>9, <2>1
<1> QED
    BY <1>2, <1>5, <1>9, <1>10

\* Bytes j and j + 4 have changed places.
Swap(old, new, j) ==
    /\ new \in Seq(Nat) /\ Len(new) = Len(old)
    /\ new[j] = old[j + 4] /\ new[j + 4] = old[j]
    /\ \A n \in 1 .. Len(old) : n \notin {j, j + 4} => new[n] = old[n]

\* Two bytes of the same weight may change places.
LEMMA SumsOfSwapped ==
    ASSUME NEW old \in Seq(Nat), NEW j \in 1 .. Len(old), j + 4 \in 1 .. Len(old),
           NEW new, Swap(old, new, j)
    PROVE  K!Total(new) = K!Total(old)
<1> DEFINE once == [old EXCEPT ![j] = old[j + 4]]
<1>1. once \in Seq(Nat) /\ Len(once) = Len(old) /\ once[j] = old[j + 4] /\ once[j + 4] = old[j + 4]
    OBVIOUS
<1>2. ChangedAt(old, once, j)
    BY <1>1 DEF ChangedAt
<1>3. ChangedAt(once, new, j + 4)
    <2>1. new \in Seq(Nat) /\ Len(new) = Len(once)
        BY <1>1 DEF Swap
    <2>2. ASSUME NEW n \in 1 .. Len(once), n # j + 4
          PROVE  new[n] = once[n]
        <3>1. CASE n = j
            BY <1>1, <3>1 DEF Swap
        <3>2. CASE n # j
            <4>1. n \in 1 .. Len(old) /\ n \notin {j, j + 4}
                BY <1>1, <2>2, <3>2
            <4>2. new[n] = old[n]
                BY <4>1 DEF Swap
            <4>3. once[n] = old[n]
                BY <3>2, <4>1
            <4> QED
                BY <4>2, <4>3
        <3> QED
            BY <3>1, <3>2
    <2> HIDE DEF once
    <2> QED
        BY <2>1, <2>2 DEF ChangedAt
<1>4. (j + 4) % 2 = j % 2
    OBVIOUS
<1>5. Weight(once, j) = Weight(once, j + 4) /\ Weight(new, j + 4) = Weight(old, j)
    <2>1. once[j] = once[j + 4]
        BY <1>1
    <2>2. new[j + 4] = old[j]
        BY DEF Swap
    <2> HIDE DEF once
    <2> QED
        BY <1>4, <2>1, <2>2, Zenon DEF Weight
<1> HIDE DEF once
<1> DEFINE e == K!Total(old)
           f == K!Total(new)
           g == K!Total(once)
           u == Weight(old, j)
           v == Weight(once, j)
<1>6. e \in Nat /\ g \in Nat /\ u \in Nat /\ v \in Nat /\ g + u = e + v
    BY <1>2, SumsOfChanged
<1>7. f \in Nat /\ f + v = g + u
    BY <1>1, <1>3, <1>5, SumsOfChanged
<1> HIDE DEF e, f, g, u, v
<1>8. f = e
    BY <1>6, <1>7
<1> QED
    BY <1>8 DEF e, f

\* The first four bytes have changed places with the next four.
Turned(old, new) ==
    /\ new \in Seq(Nat) /\ Len(new) = Len(old)
    /\ \A n \in 1 .. 4 : new[n] = old[n + 4]
    /\ \A n \in 5 .. 8 : new[n] = old[n - 4]
    /\ \A n \in 9 .. Len(old) : new[n] = old[n]

\* The order of the source and the destination does not matter.
LEMMA SumsOfTurned ==
    ASSUME NEW old \in Seq(Nat), 8 <= Len(old), NEW new, Turned(old, new)
    PROVE  K!Total(new) = K!Total(old)
<1> DEFINE len == Len(old)
           Swapping(t, j) == [n \in 1 .. len |-> IF n = j THEN t[j + 4] ELSE IF n = j + 4 THEN t[j] ELSE t[n]]
           Same(u, t) == u \in Seq(Nat) /\ Len(u) = len /\ K!Total(u) = K!Total(t)
<1>1. len \in Nat /\ 8 <= len /\ old \in Seq(Nat) /\ Len(old) = len
    OBVIOUS
<1> HIDE DEF len
<1>2. \A j \in 1 .. 4 : j \in 1 .. len /\ j + 4 \in 1 .. len /\ j + 4 # j
    BY <1>1
<1>3. ASSUME NEW t \in Seq(Nat), Len(t) = len, NEW j \in 1 .. 4
      PROVE  Same(Swapping(t, j), t)
    <2> DEFINE u == Swapping(t, j)
    <2>1. \A n \in 1 .. len : t[n] \in Nat
        BY <1>3
    <2>2. u \in [1 .. len -> Nat]
        BY <1>2, <1>3, <2>1
    <2>3. u \in Seq(Nat) /\ Len(u) = len
        BY <1>1, <2>2
    <2>4. /\ u[j] = t[j + 4] /\ u[j + 4] = t[j]
          /\ \A n \in 1 .. len : n \notin {j, j + 4} => u[n] = t[n]
        BY <1>2, <1>3
    <2>5. Swap(t, u, j)
        BY <1>3, <2>3, <2>4 DEF Swap
    <2> HIDE DEF u
    <2>6. Same(u, t)
        BY <1>2, <1>3, <2>3, <2>5, SumsOfSwapped
    <2> QED
        BY <2>6 DEF u
<1> DEFINE one == Swapping(old, 1)
           two == Swapping(one, 2)
           three == Swapping(two, 3)
           four == Swapping(three, 4)
<1>4. 1 \in 1 .. 4 /\ 2 \in 1 .. 4 /\ 3 \in 1 .. 4 /\ 4 \in 1 .. 4
    OBVIOUS
<1>5. Same(one, old) /\ Same(two, one) /\ Same(three, two) /\ Same(four, three)
    <2> HIDE DEF Swapping
    <2>1. Same(one, old)
        BY <1>1, <1>3, <1>4
    <2>2. Same(two, one)
        BY <1>3, <1>4, <2>1
    <2>3. Same(three, two)
        BY <1>3, <1>4, <2>2
    <2>4. Same(four, three)
        BY <1>3, <1>4, <2>3
    <2> QED
        BY <2>1, <2>2, <2>3, <2>4
<1>6. four = [n \in 1 .. len |-> four[n]]
    OBVIOUS
<1>7. {1, 2, 3, 4, 5, 6, 7, 8} \subseteq 1 .. len
    BY <1>1
<1>8. new \in Seq(Nat) /\ Len(new) = len /\ \A n \in 1 .. len : four[n] = new[n]
    <2>2. /\ one[1] = old[5] /\ one[5] = old[1]
          /\ \A n \in 1 .. len : n \notin {1, 5} => one[n] = old[n]
        BY <1>7
    <2>3. /\ two[2] = one[6] /\ two[6] = one[2]
          /\ \A n \in 1 .. len : n \notin {2, 6} => two[n] = one[n]
        <3> HIDE DEF one
        <3> QED
            BY <1>7
    <2>4. /\ three[3] = two[7] /\ three[7] = two[3]
          /\ \A n \in 1 .. len : n \notin {3, 7} => three[n] = two[n]
        <3> HIDE DEF two
        <3> QED
            BY <1>7
    <2>5. /\ four[4] = three[8] /\ four[8] = three[4]
          /\ \A n \in 1 .. len : n \notin {4, 8} => four[n] = three[n]
        <3> HIDE DEF three
        <3> QED
            BY <1>7
    <2> HIDE DEF one, two, three, four
    <2>6. /\ four[1] = old[5] /\ four[2] = old[6] /\ four[3] = old[7] /\ four[4] = old[8]
          /\ four[5] = old[1] /\ four[6] = old[2] /\ four[7] = old[3] /\ four[8] = old[4]
        BY <1>7, <2>2, <2>3, <2>4, <2>5
    <2>7. \A n \in 9 .. len : four[n] = old[n]
        <3> SUFFICES ASSUME NEW n \in 9 .. len PROVE four[n] = old[n]
            OBVIOUS
        <3>1. n \in 1 .. len /\ n \notin {1, 2, 3, 4, 5, 6, 7, 8}
            BY <1>1
        <3>2. n \notin {1, 5} /\ n \notin {2, 6} /\ n \notin {3, 7} /\ n \notin {4, 8}
            BY <3>1
        <3>3. one[n] = old[n] /\ two[n] = one[n]
            BY <2>2, <2>3, <3>1, <3>2
        <3>4. three[n] = two[n] /\ four[n] = three[n]
            BY <2>4, <2>5, <3>1, <3>2
        <3> QED
            BY <3>3, <3>4
    <2>8. /\ new[1] = old[5] /\ new[2] = old[6] /\ new[3] = old[7] /\ new[4] = old[8]
          /\ new[5] = old[1] /\ new[6] = old[2] /\ new[7] = old[3] /\ new[8] = old[4]
          /\ \A n \in 9 .. len : new[n] = old[n]
        <3>1. 1 \in 1 .. 4 /\ 2 \in 1 .. 4 /\ 3 \in 1 .. 4 /\ 4 \in 1 .. 4
              /\ 5 \in 5 .. 8 /\ 6 \in 5 .. 8 /\ 7 \in 5 .. 8 /\ 8 \in 5 .. 8
            OBVIOUS
        <3>2. \A n \in 1 .. 4 : new[n] = old[n + 4]
            BY DEF Turned
        <3>3. \A n \in 5 .. 8 : new[n] = old[n - 4]
            BY DEF Turned
        <3>4. new[1] = old[5] /\ new[2] = old[6] /\ new[3] = old[7] /\ new[4] = old[8]
            BY <3>1, <3>2
        <3>5. new[5] = old[1] /\ new[6] = old[2] /\ new[7] = old[3] /\ new[8] = old[4]
            BY <3>1, <3>3
        <3>6. \A n \in 9 .. len : new[n] = old[n]
            BY DEF Turned, len
        <3> QED
            BY <3>4, <3>5, <3>6
    <2>9. \A n \in 1 .. len : n \in 9 .. len \/ n \in {1, 2, 3, 4, 5, 6, 7, 8}
        BY <1>1
    <2>10. new \in Seq(Nat) /\ Len(new) = len
        BY DEF Turned, len
    <2>11. ASSUME NEW n \in 1 .. len PROVE four[n] = new[n]
        <3>1. CASE n \in 9 .. len
            BY <2>7, <2>8, <3>1
        <3>2. CASE n \in {1, 2, 3, 4, 5, 6, 7, 8}
            BY <2>6, <2>8, <3>2
        <3> QED
            BY <2>9, <3>1, <3>2
    <2> QED
        BY <2>10, <2>11
<1>9. four = new
    <2>1. new = [n \in 1 .. len |-> new[n]]
        BY <1>8
    <2> HIDE DEF four
    <2> QED
        BY <1>6, <1>8, <2>1
<1> QED
    <2> HIDE DEF one, two, three, four
    <2> QED
        BY <1>5, <1>9

-----------------------------------------------------------------------------
(* Words in either byte order.                                             *)

\* A sum of little-endian words stands for a sum of words in network order.
StandsFor(n, total) == (256 * n) % 65535 = total % 65535 /\ (n = 0 <=> total = 0)

\* They differ by this number of words of ones.
Excess(n, total) == (256 * n) \div 65535 - total \div 65535

\* A sum stands for another if they differ by words of ones.
LEMMA StandsForBy ==
    ASSUME NEW n \in Nat, NEW total \in Nat, NEW q \in Int, 256 * n = total + 65535 * q,
           n = 0 <=> total = 0
    PROVE  StandsFor(n, total)
<1>1. (total + 65535 * q) % 65535 = total % 65535
    BY SMT
<1> QED
    BY <1>1, SMT DEF StandsFor

\* And only if.
LEMMA StandsForGives ==
    ASSUME NEW n \in Nat, NEW total \in Nat, StandsFor(n, total)
    PROVE  /\ n = 0 <=> total = 0
           /\ Excess(n, total) \in Int
           /\ 256 * n = total + 65535 * Excess(n, total)
<1>1. (n = 0 <=> total = 0) /\ (256 * n) % 65535 = total % 65535
    BY SMT DEF StandsFor
<1>2. 256 * n = total + 65535 * Excess(n, total)
    BY <1>1, SMT DEF Excess
<1>3. Excess(n, total) \in Int
    BY SMT DEF Excess
<1> QED
    BY <1>1, <1>2, <1>3, SMT

\* What n and total stand for when a word is added to both.
StandsWith(n, total, first, second) ==
    StandsFor(n + first + 256 * second, total + 256 * first + second)

\* It goes on standing for it when a word is added to both.
LEMMA StandsForAdd ==
    ASSUME NEW n \in Nat, NEW total \in Nat, NEW first \in Nat, NEW second \in Nat, StandsFor(n, total)
    PROVE  StandsWith(n, total, first, second)
<1> DEFINE q == Excess(n, total)
           m == n + first + 256 * second
           t == total + 256 * first + second
           r == q + second
<1>1. q \in Int /\ 256 * n = total + 65535 * q /\ (n = 0 <=> total = 0)
    BY StandsForGives, SMT
<1> HIDE DEF q
<1>2. m \in Nat /\ t \in Nat /\ r \in Int
    BY <1>1, SMT
<1>3. 256 * m = t + 65535 * r
    BY <1>1, SMT
<1>4. m = 0 <=> t = 0
    BY <1>1, SMT
<1> HIDE DEF m, t, r
<1>5. StandsFor(m, t)
    BY <1>2, <1>3, <1>4, StandsForBy, SMT
<1> QED
    BY <1>5 DEF m, t, StandsWith

\* And when the carries are folded into the first.
LEMMA StandsForFold ==
    ASSUME NEW n \in Nat, NEW total \in Nat, n >= 65536, StandsFor(n, total)
    PROVE  K!Folded(n) \in Nat /\ StandsFor(K!Folded(n), total)
<1> DEFINE q == Excess(n, total)
           high == n \div 65536
           low == n % 65536
           m == low + high
           r == q - 256 * high
<1>1. q \in Int /\ 256 * n = total + 65535 * q /\ (n = 0 <=> total = 0)
    BY StandsForGives, SMT
<1>2. high \in Nat /\ low \in Nat /\ n = 65536 * high + low /\ high >= 1
    BY SMT
<1> HIDE DEF q, high, low
<1>3. m \in Nat /\ r \in Int
    BY <1>1, <1>2, SMT
<1>4. 256 * m = total + 65535 * r
    BY <1>1, <1>2, SMT
<1>5. m = 0 <=> total = 0
    BY <1>1, <1>2, SMT
<1> HIDE DEF m, r
<1>6. StandsFor(m, total)
    BY <1>3, <1>4, <1>5, StandsForBy, SMT
<1>7. K!Folded(n) = m
    BY SMT DEF K!Folded, m, low, high
<1> QED
    BY <1>3, <1>6, <1>7, SMT

\* A word with its bytes turned.
LEMMA SwappedWord ==
    ASSUME NEW n \in Nat, n <= 65535
    PROVE  /\ K!Swapped(n) \in Nat /\ K!Swapped(n) <= 65535 /\ (K!Swapped(n) = 0 <=> n = 0)
           /\ K!Swapped(65535 - n) = 65535 - K!Swapped(n)
           /\ n \div 256 \in Nat
           /\ 256 * n = K!Swapped(n) + 65535 * (n \div 256)
<1> DEFINE high == n \div 256
           low == n % 256
<1>1. high \in Nat /\ high <= 255
    BY SMT
<1>2. low \in Nat /\ low <= 255 /\ n = 256 * high + low
    BY SMT
<1>3. K!Swapped(n) = 256 * low + high
    BY SMT DEF K!Swapped
<1>4. (65535 - n) \div 256 = 255 - high
    BY SMT
<1>5. (65535 - n) % 256 = 255 - low
    BY SMT
<1>6. K!Swapped(65535 - n) = (255 - low) * 256 + (255 - high)
    BY <1>4, <1>5, SMT DEF K!Swapped
<1>7. high = n \div 256
    OBVIOUS
<1> HIDE DEF high, low
<1>8. (255 - low) * 256 + (255 - high) = 65535 - (256 * low + high)
    BY <1>1, <1>2, SMT
<1>9. 256 * n = (256 * low + high) + 65535 * high
    BY <1>1, <1>2, SMT
<1>10. 256 * low + high \in Nat /\ 256 * low + high <= 65535
    BY <1>1, <1>2, SMT
<1>11. 256 * low + high = 0 <=> n = 0
    BY <1>1, <1>2, SMT
<1> QED
    BY <1>1, <1>3, <1>6, <1>7, <1>8, <1>9, <1>10, <1>11, SMT

\* The complement that stands for a total is the standard's, with its bytes turned.
LEMMA ComplementRight ==
    ASSUME NEW n \in Nat, n <= 65535, NEW total \in Nat, StandsFor(n, total)
    PROVE  K!Swapped(65535 - n)
               = IF total > 0 /\ total % 65535 = 0 THEN 0 ELSE 65535 - (total % 65535)
<1> DEFINE w == K!Swapped(n)
           q == n \div 256
           r == total % 65535
<1>1. /\ K!Swapped(65535 - n) = 65535 - w
      /\ w \in Nat /\ w <= 65535 /\ (w = 0 <=> n = 0)
      /\ 256 * n = w + 65535 * q /\ q \in Nat
    BY SwappedWord, SMT
<1>2. r \in Nat
    BY SMT
<1> HIDE DEF w, q
<1>3. (w + 65535 * q) % 65535 = w % 65535
    BY <1>1, SMT
<1>4. w % 65535 = r /\ (w = 0 <=> total = 0)
    BY <1>1, <1>3, SMT DEF StandsFor
<1>5. w % 65535 = IF w = 65535 THEN 0 ELSE w
    BY <1>1, SMT
<1>6. r = total % 65535
    OBVIOUS
<1> HIDE DEF r
<1>7. total = 0 => r = 0
    BY <1>6, SMT
<1>8. 65535 - w = IF total > 0 /\ r = 0 THEN 0 ELSE 65535 - r
    BY <1>1, <1>2, <1>4, <1>5, <1>7, SMT
<1> QED
    BY <1>1, <1>6, <1>8, SMT

-----------------------------------------------------------------------------
(* What the checksum functions are given.                                  *)

\* A checksum of the standard is a number of 16 bits.
LEMMA StandardTyped ==
    ASSUME NEW bytes \in Seq(Nat)
    PROVE  K!Standard(bytes) \in Nat /\ K!Standard(bytes) <= 65535
<1> DEFINE total == K!Total(bytes)
<1>1. total \in Nat
    BY TotalTyped
<1>2. K!Standard(bytes) = IF total > 0 /\ total % 65535 = 0 THEN 0 ELSE 65535 - (total % 65535)
    BY DEF K!Standard
<1> HIDE DEF total
<1>3. total % 65535 \in Nat /\ total % 65535 <= 65534
    BY <1>1, SMT
<1> QED
    BY <1>2, <1>3, SMT

\* A byte with another bit is another byte.
LEMMA FlipTyped ==
    ASSUME NEW byte \in 0 .. 255, NEW v \in K!BitValues
    PROVE  /\ K!FlippedBit(byte, v) \in 0 .. 255
           /\ K!FlippedBit(byte, v) \in {byte - v, byte + v}
<1>1. /\ (byte \div 1) % 2 # 1 => byte + 1 <= 255
      /\ (byte \div 2) % 2 # 1 => byte + 2 <= 255
      /\ (byte \div 4) % 2 # 1 => byte + 4 <= 255
      /\ (byte \div 8) % 2 # 1 => byte + 8 <= 255
    BY SMT
<1>2. /\ (byte \div 16) % 2 # 1 => byte + 16 <= 255
      /\ (byte \div 32) % 2 # 1 => byte + 32 <= 255
      /\ (byte \div 64) % 2 # 1 => byte + 64 <= 255
      /\ (byte \div 128) % 2 # 1 => byte + 128 <= 255
    BY SMT
<1>3. /\ (byte \div 1) % 2 = 1 => byte - 1 >= 0
      /\ (byte \div 2) % 2 = 1 => byte - 2 >= 0
      /\ (byte \div 4) % 2 = 1 => byte - 4 >= 0
      /\ (byte \div 8) % 2 = 1 => byte - 8 >= 0
    BY SMT
<1>4. /\ (byte \div 16) % 2 = 1 => byte - 16 >= 0
      /\ (byte \div 32) % 2 = 1 => byte - 32 >= 0
      /\ (byte \div 64) % 2 = 1 => byte - 64 >= 0
      /\ (byte \div 128) % 2 = 1 => byte - 128 >= 0
    BY SMT
<1>5. v \in Nat /\ byte \in Nat /\ byte <= 255
    BY SMT DEF K!BitValues
<1>6. (byte \div v) % 2 = 1 => byte - v >= 0
    BY <1>3, <1>4, SMT DEF K!BitValues
<1>7. (byte \div v) % 2 # 1 => byte + v <= 255
    BY <1>1, <1>2, SMT DEF K!BitValues
<1>8. CASE (byte \div v) % 2 = 1
    <2>1. K!FlippedBit(byte, v) = byte - v
        BY <1>8 DEF K!FlippedBit
    <2> QED
        BY <1>5, <1>6, <1>8, <2>1, SMT
<1>9. CASE (byte \div v) % 2 # 1
    <2>1. K!FlippedBit(byte, v) = byte + v
        BY <1>9 DEF K!FlippedBit
    <2> QED
        BY <1>5, <1>7, <1>9, <2>1, SMT
<1> QED
    BY <1>8, <1>9

Header(bytes) == bytes \in Seq(0 .. 255) /\ Len(bytes) = 20 /\ bytes[1] % 16 = 5

\* What is to be received is a header.
LEMMA FilledTyped ==
    ASSUME NEW h \in IpHeaders, NEW number \in Nat, number <= 65535
    PROVE  /\ Header(h) /\ h[11] = 0 /\ h[12] = 0
           /\ Header(K!Filled(h, number))
           /\ K!Filled(h, number)[11] = number \div 256
           /\ K!Filled(h, number)[12] = number % 256
           /\ \A n \in 1 .. 20 : n \notin {11, 12} => K!Filled(h, number)[n] = h[n]
<1>1. Header(h) /\ h[11] = 0 /\ h[12] = 0
    BY BytesAssumption DEF Header
<1>2. number \div 256 \in 0 .. 255
    <2>1. number \div 256 \in Nat /\ number \div 256 <= 255
        BY SMT
    <2> QED
        BY <2>1, SMT
<1>3. number % 256 \in 0 .. 255
    BY SMT
<1> DEFINE high == number \div 256
           low == number % 256
           filled == [h EXCEPT ![11] = high, ![12] = low]
<1>4. K!Filled(h, number) = filled
    BY DEF K!Filled
<1>5. high \in 0 .. 255 /\ low \in 0 .. 255
    BY <1>2, <1>3
<1> HIDE DEF high, low
<1>6. h \in Seq(0 .. 255) /\ Len(h) = 20 /\ h[1] % 16 = 5
    BY <1>1 DEF Header
<1>7. filled \in Seq(0 .. 255) /\ Len(filled) = 20
    <2> DEFINE once == [h EXCEPT ![11] = high]
    <2>1. 11 \in 1 .. Len(h) /\ 12 \in 1 .. Len(h) /\ h \in Seq(0 .. 255)
        BY <1>6, SMT
    <2>2. once \in Seq(0 .. 255) /\ Len(once) = Len(h)
        BY <1>5, <2>1, SMT
    <2> HIDE DEF once
    <2>3. 12 \in 1 .. Len(once)
        BY <2>1, <2>2
    <2>4. [once EXCEPT ![12] = low] \in Seq(0 .. 255) /\ Len([once EXCEPT ![12] = low]) = Len(once)
        BY <1>5, <2>2, <2>3, SMT
    <2> QED
        BY <1>6, <2>2, <2>4 DEF once
<1>8. filled[11] = high /\ filled[12] = low /\ \A n \in 1 .. 20 : n \notin {11, 12} => filled[n] = h[n]
    <2>1. DOMAIN h = 1 .. 20
        BY <1>6, SMT
    <2>2. 11 \in DOMAIN h /\ 12 \in DOMAIN h
        BY <2>1, SMT
    <2>3. filled[12] = low /\ filled[11] = high
        BY <2>2, SMT
    <2>4. \A n \in DOMAIN h : n \notin {11, 12} => filled[n] = h[n]
        BY SMT
    <2> QED
        BY <2>1, <2>3, <2>4
<1>9. filled[1] = h[1]
    BY <1>8
<1> HIDE DEF filled
<1>10. Header(filled)
    BY <1>6, <1>7, <1>9 DEF Header
<1> QED
    BY <1>1, <1>4, <1>8, <1>10 DEF high, low

\* A damaged header is a header.
LEMMA DamagedTyped ==
    ASSUME NEW whole, Header(whole), NEW bytes \in K!Damages(whole)
    PROVE  /\ Header(bytes)
           /\ \E n \in 1 .. 20, v \in K!BitValues :
                 bytes = [whole EXCEPT ![n] = K!FlippedBit(whole[n], v)]
<1>1. whole \in Seq(0 .. 255) /\ Len(whole) = 20 /\ whole[1] % 16 = 5
    BY DEF Header
<1>2. \A n \in 1 .. 20 : whole[n] \in 0 .. 255
    BY <1>1, SeqElement
<1>3. PICK n \in 1 .. 20, v \in K!BitValues :
          /\ bytes = [whole EXCEPT ![n] = K!FlippedBit(whole[n], v)]
          /\ n = 1 => v \in K!BitValues \ {1, 2, 4, 8}
    <2> DEFINE Damaged(n, v) == [whole EXCEPT ![n] = K!FlippedBit(whole[n], v)]
    <2>1. bytes \in {Damaged(n, v) : n \in 2 .. 20, v \in K!BitValues}
              \cup {Damaged(1, v) : v \in K!BitValues \ {1, 2, 4, 8}}
        BY DEF K!Damages
    <2> HIDE DEF Damaged
    <2>2. 1 \in 1 .. 20 /\ \A n \in 2 .. 20 : n \in 1 .. 20 /\ n # 1
        BY SMT
    <2>3. CASE \E n \in 2 .. 20, v \in K!BitValues : bytes = Damaged(n, v)
        BY <2>2, <2>3 DEF Damaged
    <2>4. CASE \E v \in K!BitValues \ {1, 2, 4, 8} : bytes = Damaged(1, v)
        BY <2>2, <2>4, Zenon DEF Damaged
    <2> QED
        BY <2>1, <2>3, <2>4
<1> DEFINE byte == K!FlippedBit(whole[n], v)
<1>4. byte \in 0 .. 255 /\ byte \in {whole[n] - v, whole[n] + v}
    BY <1>2, FlipTyped, Zenon
<1> HIDE DEF byte
<1>5. bytes = [whole EXCEPT ![n] = byte]
    BY <1>3 DEF byte
<1>6. bytes \in Seq(0 .. 255) /\ Len(bytes) = 20
    <2>1. n \in 1 .. Len(whole) /\ whole \in Seq(0 .. 255) /\ byte \in 0 .. 255
        BY <1>1, <1>4
    <2>2. bytes \in Seq(0 .. 255) /\ Len(bytes) = Len(whole)
        BY <1>5, <2>1, SMT
    <2> QED
        BY <1>1, <2>2
<1>7. bytes[1] = IF n = 1 THEN byte ELSE whole[1]
    BY <1>1, <1>5
<1>8. bytes[1] % 16 = 5
    <2>1. CASE n # 1
        BY <1>1, <1>7, <2>1
    <2>2. CASE n = 1
        <3>1. v \in {16, 32, 64, 128}
            BY <1>3, <2>2, SMTT(30) DEF K!BitValues
        <3>2. whole[1] \in 0 .. 255 /\ byte \in {whole[1] - v, whole[1] + v}
            BY <1>2, <1>3, <1>4, <2>2
        <3>3. \A b \in 0 .. 255 : b % 16 = 5 =>
                  /\ (b - 16) % 16 = 5 /\ (b + 16) % 16 = 5 /\ (b - 32) % 16 = 5 /\ (b + 32) % 16 = 5
                  /\ (b - 64) % 16 = 5 /\ (b + 64) % 16 = 5 /\ (b - 128) % 16 = 5 /\ (b + 128) % 16 = 5
            BY SMT
        <3>4. \A u \in {16, 32, 64, 128} : (whole[1] - u) % 16 = 5 /\ (whole[1] + u) % 16 = 5
            BY <1>1, <3>2, <3>3
        <3> QED
            BY <1>7, <2>2, <3>1, <3>2, <3>4
    <2> QED
        BY <2>1, <2>2
<1>9. Header(bytes)
    BY <1>6, <1>8 DEF Header
<1> QED
    BY <1>3, <1>9

-----------------------------------------------------------------------------
(* Their loops.                                                            *)

\* Bytes are numbers.
LEMMA BytesTyped ==
    ASSUME NEW bytes \in Seq(0 .. 255)
    PROVE  bytes \in Seq(Nat) /\ \A n \in 1 .. Len(bytes) : bytes[n] \in Nat /\ bytes[n] <= 255
<1>1. \A n \in 1 .. Len(bytes) : bytes[n] \in 0 .. 255
    BY SeqElement
<1>2. \A n \in 1 .. Len(bytes) : bytes[n] \in Nat /\ bytes[n] <= 255
    <2>1. \A byte \in 0 .. 255 : byte \in Nat /\ byte <= 255
        BY SMT
    <2> QED
        BY <1>1, <2>1
<1>3. bytes = [n \in 1 .. Len(bytes) |-> bytes[n]] /\ Len(bytes) \in Nat
    BY SMT
<1>4. bytes \in [1 .. Len(bytes) -> Nat]
    BY <1>2, <1>3
<1> QED
    BY <1>2, <1>3, <1>4

\* What the functions are given is bytes.
LEMMA GivenTyped ==
    ASSUME K!InitHeader \/ K!InitMessage
    PROVE  /\ octets \in Seq(0 .. 255)
           /\ kind \in {"header", "icmp", "tcp"}
           /\ kind = "header" => K!InitHeader /\ Header(octets)
           /\ kind = "tcp" => Len(octets) % 2 = 0 /\ 32 <= Len(octets)
<1>1. CASE K!InitHeader
    <2>1. PICK h \in IpHeaders :
              \E whole \in {K!Filled(h, K!Standard(h)), K!Filled(h, K!Swapped(K!Standard(h)))} :
                  octets = whole \/ octets \in K!Damages(whole)
        BY <1>1 DEF K!InitHeader
    <2>2. h \in Seq(Nat)
        BY BytesAssumption, BytesTyped
    <2>3. K!Standard(h) \in Nat /\ K!Standard(h) <= 65535
        BY <2>2, StandardTyped
    <2>4. K!Swapped(K!Standard(h)) \in Nat /\ K!Swapped(K!Standard(h)) <= 65535
        BY <2>3, SwappedWord
    <2>5. Header(K!Filled(h, K!Standard(h))) /\ Header(K!Filled(h, K!Swapped(K!Standard(h))))
        BY <2>3, <2>4, FilledTyped
    <2>6. Header(octets)
        BY <2>1, <2>5, DamagedTyped
    <2>7. kind = "header"
        BY <1>1 DEF K!InitHeader
    <2> QED
        BY <1>1, <2>6, <2>7 DEF Header
<1>2. CASE K!InitMessage
    <2>1. octets \in Seq(0 .. 255) /\ kind \in {"icmp", "tcp"}
        BY <1>2, BytesAssumption DEF K!InitMessage
    <2>2. kind = "tcp" => Len(octets) % 2 = 0 /\ Len(octets) >= 32
        BY <1>2 DEF K!InitMessage
    <2>3. Len(octets) \in Nat
        BY <2>1
    <2> QED
        BY <2>1, <2>2, <2>3, SMT
<1> QED
    BY <1>1, <1>2

\* The bytes as they are added.
Taken == [n \in 1 .. Len(octets) |-> K!Counted(n)]

\* The sum stands for the words that are added up.
Summing ==
    /\ K!InitHeader \/ K!InitMessage
    /\ s \in 0 .. Len(octets) /\ sum \in Nat
    /\ s % 2 = 0 => StandsFor(sum, K!Sums(Taken)[s])
    /\ s % 2 = 0 \/ s = Len(octets)

\* All bytes are added.
LEMMA TakenTyped ==
    ASSUME K!InitHeader \/ K!InitMessage
    PROVE  /\ Taken \in Seq(Nat) /\ Len(Taken) = Len(octets)
           /\ K!Size = Len(octets)
           /\ \A n \in 1 .. Len(octets) : K!Counted(n) = Taken[n] /\ Taken[n] \in Nat
<1>1. octets \in Seq(0 .. 255)
    BY GivenTyped
<1>2. \A n \in 1 .. Len(octets) : octets[n] \in Nat
    BY <1>1, BytesTyped
<1>3. \A n \in 1 .. Len(octets) : K!Counted(n) \in Nat
    BY <1>2 DEF K!Counted
<1>4. Len(octets) \in Nat
    BY <1>1
<1>5. Taken \in Seq(Nat) /\ Len(Taken) = Len(octets)
    BY <1>3, <1>4 DEF Taken
<1>6. \A n \in 1 .. Len(octets) : K!Counted(n) = Taken[n]
    BY DEF Taken
<1>7. K!Size = Len(octets)
    <2>1. CASE kind = "header"
        <3>1. octets[1] % 16 = 5 /\ Len(octets) = 20
            BY <2>1, GivenTyped DEF Header
        <3> QED
            BY <2>1, <3>1 DEF K!Size
    <2>2. CASE kind # "header"
        BY <2>2 DEF K!Size
    <2> QED
        BY <2>1, <2>2
<1> QED
    BY <1>3, <1>5, <1>6, <1>7

\* Two bytes further the standard has added a word in network order.
LEMMA TakenSums ==
    ASSUME K!InitHeader \/ K!InitMessage, NEW n \in 0 .. Len(octets), n + 2 <= Len(octets), n % 2 = 0
    PROVE  /\ K!Sums(Taken)[n] \in Nat
           /\ K!Sums(Taken)[n + 2] = K!Sums(Taken)[n] + 256 * K!Counted(n + 1) + K!Counted(n + 2)
           /\ K!Counted(n + 1) \in Nat /\ K!Counted(n + 2) \in Nat
<1> DEFINE len == Len(octets)
           sums == K!Sums(Taken)
<1>1. /\ Taken \in Seq(Nat) /\ Len(Taken) = len
      /\ \A m \in 1 .. len : K!Counted(m) = Taken[m] /\ Taken[m] \in Nat
    BY TakenTyped
<1>2. /\ sums \in [0 .. len -> Nat]
      /\ \A m \in 1 .. len : sums[m] = sums[m - 1] + Weight(Taken, m)
    BY <1>1, SumsRecur
<1>3. len \in Nat /\ n \in Nat /\ n + 2 <= len /\ n % 2 = 0
    BY <1>1
<1> HIDE DEF len, sums
<1>4. n \in 0 .. len /\ n + 1 \in 1 .. len /\ n + 2 \in 1 .. len /\ n + 1 \in 0 .. len
      /\ (n + 1) - 1 = n /\ (n + 2) - 1 = n + 1
    BY <1>3
<1>5. sums[n] \in Nat /\ Taken[n + 1] \in Nat /\ Taken[n + 2] \in Nat
      /\ Taken[n + 1] = K!Counted(n + 1) /\ Taken[n + 2] = K!Counted(n + 2)
    BY <1>1, <1>2, <1>4
<1>6. (n + 1) % 2 = 1 /\ (n + 2) % 2 # 1
    BY <1>3
<1>7. Weight(Taken, n + 1) = 256 * Taken[n + 1] /\ Weight(Taken, n + 2) = Taken[n + 2]
    BY <1>6 DEF Weight
<1>8. sums[n + 1] = sums[n] + 256 * Taken[n + 1]
    BY <1>2, <1>4, <1>7
<1>9. sums[n + 2] = sums[n + 1] + Taken[n + 2]
    BY <1>2, <1>4, <1>7
<1> QED
    BY <1>5, <1>8, <1>9 DEF sums

\* The invariant holds at the start.
LEMMA SummingInit == K!Init => Summing
<1> SUFFICES ASSUME K!Init PROVE Summing
    OBVIOUS
<1>1. (K!InitHeader \/ K!InitMessage) /\ s = 0 /\ sum = 0
    BY DEF K!Init
<1>2. Taken \in Seq(Nat) /\ Len(octets) \in Nat
    BY <1>1, TakenTyped, GivenTyped
<1>3. K!Sums(Taken)[0] = 0
    BY <1>2, SumsRecur
<1>4. StandsFor(0, 0)
    BY DEF StandsFor
<1> QED
    BY <1>1, <1>2, <1>3, <1>4 DEF Summing

\* The bytes stay, and so does what is added for them.
LEMMA GivenStays ==
    ASSUME UNCHANGED <<kind, octets, damaged>>
    PROVE  /\ (K!InitHeader \/ K!InitMessage)' <=> K!InitHeader \/ K!InitMessage
           /\ Taken' = Taken
BY DEF K!InitHeader, K!InitMessage, Taken, K!Counted

\* Each pass of the loops keeps it.
LEMMA SummingNext == Summing /\ [K!Next]_sumVars => Summing'
<1> SUFFICES ASSUME Summing, [K!Next]_sumVars PROVE Summing'
    OBVIOUS
<1>1. (K!InitHeader \/ K!InitMessage) /\ s \in 0 .. Len(octets) /\ sum \in Nat
    BY DEF Summing
<1>2. K!Size = Len(octets) /\ Len(octets) \in Nat /\ s \in Nat
    BY <1>1, TakenTyped, GivenTyped
<1>3. UNCHANGED <<kind, octets, damaged>>
    BY DEF K!Next, K!AddWord, K!AddLast, K!Fold, sumVars
<1>4. (K!InitHeader \/ K!InitMessage)' /\ Taken' = Taken /\ octets' = octets
    BY <1>1, <1>3, GivenStays
<1> DEFINE sums == K!Sums(Taken)
<1>5. (s % 2 = 0 => StandsFor(sum, sums[s])) /\ (s % 2 = 0 \/ s = Len(octets))
    BY DEF Summing
<1>6. ASSUME s' \in 0 .. Len(octets), sum' \in Nat, s' % 2 = 0 => StandsFor(sum', sums[s']),
                s' % 2 = 0 \/ s' = Len(octets)
      PROVE  Summing'
    <2>1. (K!Sums(Taken))' = sums
        BY <1>4
    <2> QED
        BY <1>4, <1>6, <2>1 DEF Summing
<1>7. CASE K!AddWord
    <2>1. s + 2 <= Len(octets) /\ s' = s + 2 /\ sum' = sum + K!Counted(s + 1) + 256 * K!Counted(s + 2)
        BY <1>2, <1>7 DEF K!AddWord
    <2>2. s' \in 0 .. Len(octets)
        BY <1>2, <2>1
    <2> DEFINE a == K!Counted(s + 1)
               b == K!Counted(s + 2)
    <2>3. a \in Nat /\ b \in Nat
        <3>1. s + 1 \in 1 .. Len(octets) /\ s + 2 \in 1 .. Len(octets)
            BY <1>2, <2>1
        <3> QED
            BY <1>1, <3>1, TakenTyped
    <2>4. sum' = sum + a + 256 * b
        BY <2>1
    <2>5. s % 2 = 0 => sums[s] \in Nat /\ sums[s + 2] = sums[s] + 256 * a + b
        BY <1>1, <2>1, TakenSums
    <2> HIDE DEF a, b, sums
    <2>6. sum' \in Nat
        BY <1>1, <2>3, <2>4
    <2>7. s % 2 = 0 /\ s' % 2 = 0
        BY <1>2, <1>5, <2>1
    <2>8. StandsFor(sum', sums[s'])
        <3>1. StandsFor(sum, sums[s]) /\ sums[s] \in Nat
            BY <1>5, <2>5, <2>7
        <3> DEFINE t == sums[s]
        <3>2. sum \in Nat /\ t \in Nat /\ StandsFor(sum, t)
            BY <1>1, <3>1
        <3> HIDE DEF t
        <3>3. StandsWith(sum, t, a, b)
            BY <2>3, <3>2, StandsForAdd
        <3>4. sum' = sum + a + 256 * b /\ sums[s'] = t + 256 * a + b
            BY <2>1, <2>4, <2>5, <2>7 DEF t
        <3> QED
            BY <3>3, <3>4 DEF StandsWith
    <2> QED
        BY <1>6, <2>2, <2>6, <2>7, <2>8 DEF sums
<1>8. CASE K!AddLast
    <2>1. s + 1 = Len(octets) /\ s' = s + 1 /\ sum' = sum + K!Counted(s + 1) + 255 /\ kind = "icmp"
        BY <1>2, <1>8 DEF K!AddLast
    <2>2. s' \in 0 .. Len(octets) /\ s + 1 \in 1 .. Len(octets)
        BY <1>2, <2>1
    <2>3. sum' \in Nat
        <3>1. K!Counted(s + 1) \in Nat
            BY <1>1, <2>2, TakenTyped
        <3> QED
            BY <1>1, <2>1, <3>1
    <2>4. s' % 2 # 0 /\ s' = Len(octets)
        BY <1>2, <1>5, <2>1
    <2> QED
        BY <1>6, <2>2, <2>3, <2>4
<1>9. CASE K!Fold
    <2>1. s' = s /\ sum' = K!Folded(sum) /\ sum >= 65536
        BY <1>9 DEF K!Fold
    <2>2. sums[s] \in Nat
        <3>1. Taken \in Seq(Nat) /\ Len(Taken) = Len(octets)
            BY <1>1, TakenTyped
        <3>2. sums \in [0 .. Len(octets) -> Nat]
            BY <3>1, SumsRecur
        <3> HIDE DEF sums
        <3> QED
            BY <1>1, <3>2
    <2>3. K!Folded(sum) \in Nat
        BY <1>1, SMT DEF K!Folded
    <2> HIDE DEF sums
    <2>4. s % 2 = 0 => StandsFor(K!Folded(sum), sums[s])
        BY <1>1, <1>5, <2>1, <2>2, StandsForFold
    <2> QED
        BY <1>1, <1>5, <1>6, <2>1, <2>3, <2>4 DEF sums
<1>10. CASE UNCHANGED sumVars
    BY <1>1, <1>5, <1>6, <1>10 DEF sumVars
<1> QED
    BY <1>7, <1>8, <1>9, <1>10 DEF K!Next

\* What the reply has where the sum was taken adds up to the same.
LEMMA AnsweredSums ==
    ASSUME K!InitHeader \/ K!InitMessage
    PROVE  K!Answered \in Seq(Nat) /\ K!Total(K!Answered) = K!Total(Taken)
<1>1. /\ octets \in Seq(0 .. 255)
      /\ kind \in {"header", "icmp", "tcp"}
      /\ kind = "header" => Header(octets)
      /\ kind = "tcp" => 32 <= Len(octets)
    BY GivenTyped
<1>2. Taken \in Seq(Nat) /\ octets \in Seq(Nat) /\ Len(octets) \in Nat
    BY <1>1, TakenTyped, BytesTyped
<1>3. octets = [n \in 1 .. Len(octets) |-> octets[n]]
    BY <1>2
<1>4. CASE kind = "header"
    <2>1. K!Answered = [octets EXCEPT ![11] = 0, ![12] = 0]
        BY <1>4 DEF K!Answered
    <2>2. Taken = [n \in 1 .. Len(octets) |-> IF n \in {11, 12} THEN 0 ELSE octets[n]]
        BY <1>4 DEF Taken, K!Counted, K!Field
    <2>3. [octets EXCEPT ![11] = 0, ![12] = 0]
              = [n \in 1 .. Len(octets) |-> IF n \in {11, 12} THEN 0 ELSE octets[n]]
        BY <1>3
    <2>4. K!Answered = Taken
        BY <2>1, <2>2, <2>3
    <2> QED
        BY <1>2, <2>4
<1>5. CASE kind = "icmp"
    <2>1. Taken = octets
        BY <1>3, <1>5 DEF Taken, K!Counted
    <2>2. K!Answered = octets
        BY <1>5 DEF K!Answered
    <2> QED
        BY <1>2, <2>1, <2>2
<1>6. CASE kind = "tcp"
    <2> DEFINE len == Len(octets)
               turned == SubSeq(octets, 5, 8) \o SubSeq(octets, 1, 4) \o SubSeq(octets, 9, len)
    <2>1. Taken = octets
        BY <1>3, <1>6 DEF Taken, K!Counted
    <2>2. K!Answered = turned
        BY <1>6 DEF K!Answered
    <2>3. len \in Nat /\ 32 <= len
        BY <1>1, <1>2, <1>6
    <2>4. /\ SubSeq(octets, 5, 8) \in Seq(Nat) /\ Len(SubSeq(octets, 5, 8)) = 4
          /\ \A n \in 1 .. 4 : SubSeq(octets, 5, 8)[n] = octets[n + 4]
        BY <1>2, <2>3, SMTT(40)
    <2>5. /\ SubSeq(octets, 1, 4) \in Seq(Nat) /\ Len(SubSeq(octets, 1, 4)) = 4
          /\ \A n \in 1 .. 4 : SubSeq(octets, 1, 4)[n] = octets[n]
        BY <1>2, <2>3, SMTT(40)
    <2>6. /\ SubSeq(octets, 9, len) \in Seq(Nat) /\ Len(SubSeq(octets, 9, len)) = len - 8
          /\ \A n \in 1 .. len - 8 : SubSeq(octets, 9, len)[n] = octets[n + 8]
        <3> DEFINE rest == SubSeq(octets, 9, len)
        <3>1. rest = [n \in 1 .. (len - 9 + 1) |-> octets[9 + n - 1]]
            BY <1>2, <2>3, SMT
        <3>2. len - 9 + 1 = len - 8 /\ \A n \in 1 .. len - 8 : 9 + n - 1 = n + 8 /\ n + 8 \in 1 .. len
            BY <2>3, SMT
        <3>3. \A n \in 1 .. len - 8 : octets[n + 8] \in Nat
            BY <1>2, <3>2, SeqElement
        <3>4. rest = [n \in 1 .. len - 8 |-> octets[n + 8]]
            BY <3>1, <3>2
        <3> HIDE DEF rest
        <3>5. rest \in Seq(Nat) /\ Len(rest) = len - 8
            BY <2>3, <3>3, <3>4
        <3>6. \A n \in 1 .. len - 8 : rest[n] = octets[n + 8]
            BY <3>4
        <3> QED
            BY <3>5, <3>6 DEF rest
    <2> HIDE DEF len
    <2>7. turned \in Seq(Nat) /\ Len(turned) = len
        BY <2>3, <2>4, <2>5, <2>6
    <2>8. \A n \in 1 .. 4 : turned[n] = octets[n + 4]
        BY <2>3, <2>4, <2>5, <2>6
    <2>9. \A n \in 5 .. 8 : turned[n] = octets[n - 4]
        BY <2>3, <2>4, <2>5, <2>6
    <2>10. \A n \in 9 .. len : turned[n] = octets[n]
        BY <2>3, <2>4, <2>5, <2>6
    <2> HIDE DEF turned
    <2>11. Turned(octets, turned)
        BY <2>7, <2>8, <2>9, <2>10 DEF Turned, len
    <2>12. K!Total(turned) = K!Total(octets)
        BY <1>2, <2>3, <2>11, SumsOfTurned, SMTT(30) DEF len
    <2> QED
        BY <2>1, <2>2, <2>7, <2>12
<1> QED
    BY <1>1, <1>4, <1>5, <1>6

\* At the end the complement of the sum is the standard's, with its bytes turned.
LEMMA SummedRight ==
    ASSUME Summing, K!Done, Len(octets) % 2 = 0
    PROVE  /\ sum \in Nat /\ sum <= 65535
           /\ K!Swapped(65535 - sum) = K!Standard(K!Answered)
<1>1. (K!InitHeader \/ K!InitMessage) /\ sum \in Nat /\ sum <= 65535
    BY DEF Summing, K!Done
<1>2. s = Len(octets)
    BY <1>1, TakenTyped DEF K!Done
<1>3. Taken \in Seq(Nat) /\ Len(Taken) = Len(octets)
    BY <1>1, TakenTyped
<1>4. StandsFor(sum, K!Total(Taken))
    BY <1>2, <1>3 DEF Summing, K!Total
<1>5. K!Total(Taken) \in Nat
    BY <1>3, TotalTyped
<1>6. K!Total(K!Answered) = K!Total(Taken)
    BY <1>1, AnsweredSums
<1> DEFINE total == K!Total(Taken)
<1>7. K!Standard(K!Answered) = IF total > 0 /\ total % 65535 = 0 THEN 0 ELSE 65535 - (total % 65535)
    BY <1>6 DEF K!Standard
<1> HIDE DEF total
<1>8. K!Swapped(65535 - sum) = IF total > 0 /\ total % 65535 = 0 THEN 0 ELSE 65535 - (total % 65535)
    BY <1>1, <1>4, <1>5, ComplementRight DEF total
<1> QED
    BY <1>1, <1>7, <1>8

SumSafe == program = "checksum" => Summing

\* The invariant of the sums, among the programs.
LEMMA SumSafeInit == Init => SumSafe
BY SummingInit DEF Init, SumSafe

\* No program spoils it.
LEMMA SumSafeNext == SumSafe /\ [Next]_vars => SumSafe'
<1> SUFFICES ASSUME SumSafe, [Next]_vars, program' = "checksum" PROVE Summing'
    BY DEF SumSafe
<1>1. program = "checksum" /\ [K!Next]_sumVars
    BY DEF Next, RunsBackoff, RunsHub, RunsSwitch, RunsPlugs, RunsCrc32, RunsChecksum, byteVars, vars, sumVars
<1> QED
    BY <1>1, SummingNext DEF SumSafe

\* Of any bytes: each loop computes the standard's checksum.
THEOREM ChecksumIsStandard == Spec => []ChecksumRight
<1>1. SumSafe => ChecksumRight
    BY SummedRight DEF SumSafe, ChecksumRight, K!ChecksumRight, K!Complement
<1> QED
    BY <1>1, SumSafeInit, SumSafeNext, PTL DEF Spec

-----------------------------------------------------------------------------
(* What verify_checksum accepts.                                           *)

\* A header without its checksum.
Cleared(bytes) == [bytes EXCEPT ![11] = 0, ![12] = 0]

\* The numbers that the bytes of the field may stand for.
Claims(bytes) == {bytes[11] + 256 * bytes[12], 256 * bytes[11] + bytes[12]}

\* Turned twice, the bytes of a word are as they were.
LEMMA SwappedTwice ==
    ASSUME NEW n \in Nat, n <= 65535
    PROVE  /\ K!Swapped(n) = n \div 256 + 256 * (n % 256)
           /\ K!Swapped(K!Swapped(n)) = n
           /\ n = 256 * (n \div 256) + (n % 256)
<1> DEFINE high == n \div 256
           low == n % 256
<1>1. high \in Nat /\ high <= 255 /\ low \in Nat /\ low <= 255 /\ n = 256 * high + low
    BY SMT
<1>2. K!Swapped(n) = low * 256 + high
    BY DEF K!Swapped
<1> HIDE DEF high, low
<1>3. K!Swapped(n) = high + 256 * low
    BY <1>1, <1>2, SMT
<1>4. K!Swapped(high + 256 * low) = n
    <2>1. (high + 256 * low) % 256 = high /\ (high + 256 * low) \div 256 = low
        BY <1>1, SMT
    <2> QED
        BY <1>1, <2>1, SMT DEF K!Swapped
<1> QED
    BY <1>1, <1>3, <1>4, SMT DEF high, low

\* A header and one without its checksum.
LEMMA ClearedSum ==
    ASSUME NEW bytes, Header(bytes)
    PROVE  /\ bytes[11] \in Nat /\ bytes[11] <= 255 /\ bytes[12] \in Nat /\ bytes[12] <= 255
           /\ Cleared(bytes) \in Seq(Nat) /\ bytes \in Seq(Nat)
           /\ K!Total(Cleared(bytes)) \in Nat
           /\ K!Total(bytes) = K!Total(Cleared(bytes)) + 256 * bytes[11] + bytes[12]
<1>1. bytes \in Seq(Nat) /\ Len(bytes) = 20 /\ \A n \in 1 .. 20 : bytes[n] \in Nat /\ bytes[n] <= 255
    BY BytesTyped DEF Header
<1>2. 11 \in 1 .. 20 /\ 12 \in 1 .. 20
    BY SMT
<1> DEFINE once == [bytes EXCEPT ![11] = 0]
           twice == [once EXCEPT ![12] = 0]
<1>3. Cleared(bytes) = twice
    BY DEF Cleared
<1>4. ChangedAt(bytes, once, 11) /\ once[11] = 0
    <2>1. bytes \in Seq(Nat) /\ 11 \in 1 .. Len(bytes) /\ 0 \in Nat
        BY <1>1, <1>2
    <2> QED
        BY <2>1, SMT DEF ChangedAt
<1> HIDE DEF once
<1>5. once \in Seq(Nat) /\ Len(once) = 20 /\ once[12] = bytes[12]
    BY <1>1, <1>2, <1>4 DEF ChangedAt
<1>6. ChangedAt(once, twice, 12) /\ twice[12] = 0
    <2>1. once \in Seq(Nat) /\ 12 \in 1 .. Len(once) /\ 0 \in Nat
        BY <1>2, <1>5
    <2> QED
        BY <2>1, SMT DEF ChangedAt
<1> HIDE DEF twice
<1>7. twice \in Seq(Nat)
    BY <1>6 DEF ChangedAt
<1>8. /\ K!Total(once) + Weight(bytes, 11) = K!Total(bytes) + Weight(once, 11)
      /\ K!Total(bytes) \in Nat /\ K!Total(once) \in Nat
    BY <1>1, <1>2, <1>4, SumsOfChanged
<1>9. /\ K!Total(twice) + Weight(once, 12) = K!Total(once) + Weight(twice, 12)
      /\ K!Total(twice) \in Nat
    BY <1>2, <1>5, <1>6, SumsOfChanged
<1>10. /\ Weight(bytes, 11) = 256 * bytes[11] /\ Weight(once, 11) = 0
       /\ Weight(once, 12) = bytes[12] /\ Weight(twice, 12) = 0
    BY <1>4, <1>5, <1>6, SMT DEF Weight
<1>11. bytes[11] \in Nat /\ bytes[11] <= 255 /\ bytes[12] \in Nat /\ bytes[12] <= 255
    BY <1>1, <1>2
<1> DEFINE e == K!Total(bytes)
           f == K!Total(once)
           g == K!Total(twice)
           a == bytes[11]
           b == bytes[12]
<1>12. /\ e \in Nat /\ f \in Nat /\ g \in Nat /\ a \in Nat /\ b \in Nat
       /\ f + 256 * a = e + 0 /\ g + b = f + 0
    BY <1>8, <1>9, <1>10, <1>11
<1> HIDE DEF e, f, g, a, b
<1>13. e = g + 256 * a + b
    BY <1>12, SMT
<1> QED
    BY <1>1, <1>3, <1>7, <1>9, <1>11, <1>13 DEF e, g, a, b

\* All bytes of a header that is accepted add up to words of ones, if a byte counts the same
\* wherever it stands: 256 leaves 1 when divided by 255.
LEMMA AcceptedSum ==
    ASSUME NEW bytes, Header(bytes), K!Standard(Cleared(bytes)) \in Claims(bytes)
    PROVE  K!Total(bytes) \in Nat /\ K!Total(bytes) % 255 = 0
<1> DEFINE e == K!Total(bytes)
           g == K!Total(Cleared(bytes))
           a == bytes[11]
           b == bytes[12]
           c == K!Standard(Cleared(bytes))
           q == g \div 65535
           r == g % 65535
<1>1. g \in Nat /\ a \in Nat /\ b \in Nat /\ e = g + 256 * a + b
    BY ClearedSum
<1>2. c \in {a + 256 * b, 256 * a + b}
    BY DEF Claims
<1>3. c = IF g > 0 /\ r = 0 THEN 0 ELSE 65535 - r
    BY DEF K!Standard
<1> HIDE DEF e, g, a, b, c
<1>4. q \in Nat /\ r \in Nat /\ g = 65535 * q + r
    BY <1>1, SMT
<1> HIDE DEF q, r
<1>5. g + c = 255 * (257 * q) \/ g + c = 255 * (257 * q + 257)
    BY <1>3, <1>4, SMT
<1>6. c \in Nat
    BY <1>1, <1>2, SMT
<1>7. e = g + c \/ e = g + c + 255 * a - 255 * b
    BY <1>1, <1>2, <1>6, SMT
<1>8. e \in Nat
    BY <1>1, SMT
<1>9. e % 255 = 0
    <2>1. \A x \in Int : (255 * x) % 255 = 0
        BY SMT
    <2>2. \/ e = 255 * (257 * q) \/ e = 255 * (257 * q + 257)
          \/ e = 255 * (257 * q + a - b) \/ e = 255 * (257 * q + 257 + a - b)
        BY <1>1, <1>4, <1>5, <1>6, <1>7, SMT
    <2>3. /\ 257 * q \in Int /\ 257 * q + 257 \in Int
          /\ 257 * q + a - b \in Int /\ 257 * q + 257 + a - b \in Int
        BY <1>1, <1>4, SMT
    <2> QED
        BY <2>1, <2>2, <2>3
<1> QED
    BY <1>8, <1>9 DEF e

\* No bit counts as much as a word of ones.
LEMMA FlippedSum ==
    ASSUME NEW whole, Header(whole), NEW bytes, NEW n \in 1 .. 20, NEW v \in K!BitValues,
           bytes = [whole EXCEPT ![n] = K!FlippedBit(whole[n], v)],
           K!Total(whole) % 255 = 0, K!Total(bytes) % 255 = 0
    PROVE  FALSE
<1>1. whole \in Seq(Nat) /\ Len(whole) = 20 /\ whole[n] \in Nat /\ whole[n] \in 0 .. 255
    BY BytesTyped, SeqElement, Zenon DEF Header
<1> DEFINE byte == K!FlippedBit(whole[n], v)
<1>2. byte \in 0 .. 255 /\ byte \in {whole[n] - v, whole[n] + v}
    BY <1>1, FlipTyped, Zenon
<1>3. byte \in Nat
    BY <1>2
<1> HIDE DEF byte
<1>4. bytes = [whole EXCEPT ![n] = byte]
    BY DEF byte
<1>5. n \in 1 .. Len(whole)
    BY <1>1
<1>6. ChangedAt(whole, bytes, n) /\ bytes[n] = byte
    <2>1. whole \in Seq(Nat)
        BY <1>1
    <2>2. ChangedAt(whole, [whole EXCEPT ![n] = byte], n) /\ [whole EXCEPT ![n] = byte][n] = byte
        BY <1>3, <1>5, <2>1, ChangedByte, Zenon
    <2> QED
        BY <1>4, <2>2, Zenon
<1>7. /\ K!Total(bytes) + Weight(whole, n) = K!Total(whole) + Weight(bytes, n)
      /\ K!Total(whole) \in Nat /\ K!Total(bytes) \in Nat
    BY <1>1, <1>5, <1>6, SumsOfChanged
<1>8. \/ Weight(whole, n) = 256 * whole[n] /\ Weight(bytes, n) = 256 * byte
      \/ Weight(whole, n) = whole[n] /\ Weight(bytes, n) = byte
    BY <1>6 DEF Weight
<1>9. v \in Nat /\ 1 <= v /\ v <= 128
    BY SMT DEF K!BitValues
<1> DEFINE e == K!Total(whole)
           f == K!Total(bytes)
           x == whole[n]
           d == e \div 255
           c == f \div 255
<1>10. e \in Nat /\ f \in Nat /\ x \in Nat /\ byte \in Nat
    BY <1>1, <1>3, <1>7
<1>11. \/ f + 256 * x = e + 256 * byte
       \/ f + x = e + byte
    BY <1>7, <1>8
<1>12. byte = x - v \/ byte = x + v
    BY <1>2
<1>13. e % 255 = 0 /\ f % 255 = 0
    OBVIOUS
<1> HIDE DEF e, f, x
<1>14. d \in Nat /\ c \in Nat /\ e = 255 * d /\ f = 255 * c
    BY <1>10, <1>13, SMT
<1> HIDE DEF d, c
<1>15. \/ 255 * (c - d) = 256 * v \/ 255 * (c - d) = 0 - 256 * v
       \/ 255 * (c - d) = v \/ 255 * (c - d) = 0 - v
    BY <1>9, <1>10, <1>11, <1>12, <1>14, SMT
<1>16. 255 * (c - d - v) # v /\ 255 * (c - d + v) # 0 - v /\ 255 * (c - d) # v /\ 255 * (c - d) # 0 - v
    BY <1>9, <1>14, SMT
<1> QED
    BY <1>9, <1>14, <1>15, <1>16, SMT

\* A header that nothing has happened to is one that its checksum claims.
LEMMA FilledClaims ==
    ASSUME NEW h \in IpHeaders, NEW number \in {K!Standard(h), K!Swapped(K!Standard(h))}
    PROVE  /\ Header(K!Filled(h, number))
           /\ Cleared(K!Filled(h, number)) = h
           /\ K!Standard(h) \in Claims(K!Filled(h, number))
<1> DEFINE c == K!Standard(h)
           filled == K!Filled(h, number)
           high == number \div 256
           low == number % 256
<1>1. c \in Nat /\ c <= 65535
    BY StandardTyped, BytesTyped, BytesAssumption
<1>2. K!Swapped(c) \in Nat /\ K!Swapped(c) <= 65535 /\ K!Swapped(K!Swapped(c)) = c
    BY <1>1, SwappedWord, SwappedTwice
<1>3. number \in Nat /\ number <= 65535 /\ (number = c \/ K!Swapped(number) = c)
    BY <1>1, <1>2
<1>4. /\ Header(h) /\ h[11] = 0 /\ h[12] = 0
      /\ Header(filled) /\ filled[11] = high /\ filled[12] = low
      /\ \A n \in 1 .. 20 : n \notin {11, 12} => filled[n] = h[n]
    BY <1>3, FilledTyped
<1>5. K!Swapped(number) = high + 256 * low /\ number = 256 * high + low
    BY <1>3, SwappedTwice
<1>6. c \in Claims(filled)
    BY <1>3, <1>4, <1>5, SMT DEF Claims
<1> HIDE DEF filled
<1>7. Cleared(filled) = h
    <2>1. /\ h = [n \in 1 .. 20 |-> h[n]] /\ filled = [n \in 1 .. 20 |-> filled[n]]
        BY <1>4, SMT DEF Header
    <2>2. Cleared(filled) = [n \in 1 .. 20 |-> IF n \in {11, 12} THEN 0 ELSE filled[n]]
        BY <2>1, SMT DEF Cleared
    <2>3. \A n \in 1 .. 20 : (IF n \in {11, 12} THEN 0 ELSE filled[n]) = h[n]
        BY <1>4
    <2> QED
        BY <2>1, <2>2, <2>3
<1> QED
    BY <1>4, <1>6, <1>7 DEF filled

\* At the end verify_checksum compares the standard's checksum with the field, either way round.
LEMMA AcceptsClaims ==
    ASSUME Summing, K!Done, kind = "header"
    PROVE  Header(octets) /\ (K!Accepts <=> K!Standard(Cleared(octets)) \in Claims(octets))
<1>1. K!InitHeader /\ Header(octets)
    BY GivenTyped DEF Summing
<1>2. Len(octets) % 2 = 0
    BY <1>1, SMT DEF Header
<1>3. K!Swapped(65535 - sum) = K!Standard(K!Answered)
    BY <1>2, SummedRight
<1>4. K!Answered = Cleared(octets)
    BY DEF K!Answered, Cleared
<1>5. K!Computed = K!Standard(Cleared(octets))
    BY <1>3, <1>4 DEF K!Computed, K!Complement
<1>6. K!HeadChksum = octets[11] + 256 * octets[12]
    BY DEF K!HeadChksum
<1>7. K!Swapped(octets[11] + 256 * octets[12]) = 256 * octets[11] + octets[12]
    <2> DEFINE a == octets[11]
               b == octets[12]
    <2>1. a \in Nat /\ a <= 255 /\ b \in Nat /\ b <= 255
        BY <1>1, ClearedSum
    <2> HIDE DEF a, b
    <2>2. (a + 256 * b) % 256 = a /\ (a + 256 * b) \div 256 = b
        BY <2>1, SMT
    <2>3. K!Swapped(a + 256 * b) = 256 * a + b
        BY <2>1, <2>2, SMT DEF K!Swapped
    <2> QED
        BY <2>3 DEF a, b
<1> QED
    BY <1>1, <1>5, <1>6, <1>7 DEF K!Accepts, Claims

\* Of any header: it is accepted as it was sent, and with any bit changed it is not.
LEMMA SummingSeesDamage == Summing => K!DamageSeen
<1> SUFFICES ASSUME Summing, kind = "header", K!Done PROVE K!Accepts <=> ~damaged
    BY DEF K!DamageSeen
<1>1. K!InitHeader
    BY GivenTyped DEF Summing
<1>2. Header(octets) /\ (K!Accepts <=> K!Standard(Cleared(octets)) \in Claims(octets))
    BY AcceptsClaims
<1>3. PICK h \in IpHeaders :
          \E number \in {K!Standard(h), K!Swapped(K!Standard(h))} :
              \/ damaged = FALSE /\ octets = K!Filled(h, number)
              \/ damaged = TRUE /\ octets \in K!Damages(K!Filled(h, number))
    BY <1>1 DEF K!InitHeader
<1>4. PICK number \in {K!Standard(h), K!Swapped(K!Standard(h))} :
          \/ damaged = FALSE /\ octets = K!Filled(h, number)
          \/ damaged = TRUE /\ octets \in K!Damages(K!Filled(h, number))
    BY <1>3
<1> DEFINE whole == K!Filled(h, number)
<1>5. Header(whole) /\ Cleared(whole) = h /\ K!Standard(Cleared(whole)) \in Claims(whole)
    BY FilledClaims
<1> HIDE DEF whole
<1>6. CASE damaged = FALSE /\ octets = whole
    BY <1>2, <1>5, <1>6
<1>7. CASE damaged = TRUE /\ octets \in K!Damages(whole)
    <2> SUFFICES ASSUME K!Accepts PROVE FALSE
        BY <1>7
    <2>1. PICK n \in 1 .. 20, v \in K!BitValues :
              octets = [whole EXCEPT ![n] = K!FlippedBit(whole[n], v)]
        BY <1>5, <1>7, DamagedTyped
    <2>2. K!Total(whole) % 255 = 0
        BY <1>5, AcceptedSum
    <2>3. K!Total(octets) % 255 = 0
        BY <1>2, AcceptedSum
    <2> QED
        BY <1>5, <2>1, <2>2, <2>3, FlippedSum
<1> QED
    BY <1>4, <1>6, <1>7 DEF whole

\* verify_checksum, although it takes the field either way round, refuses every header in which
\* one bit has changed, other than the four bits that give the header's length: these
\* decide how many bytes it adds up (ip.c:307).
THEOREM DamageIsSeen == Spec => []DamageSeen
<1>1. SumSafe => DamageSeen
    BY SummingSeesDamage DEF SumSafe, DamageSeen
<1> QED
    BY <1>1, SumSafeInit, SumSafeNext, PTL DEF Spec

-----------------------------------------------------------------------------
(* The frame check sequence.                                               *)

\* The words of 32 bits.
Words == SUBSET C!Ones

\* A word that is shifted.
LEMMA ShiftElement ==
    ASSUME NEW c \in Words, NEW n \in Nat
    PROVE  /\ C!ShiftRight(c, n) \in Words
           /\ \A b : b \in C!ShiftRight(c, n) <=> b \in Nat /\ b + n \in c
<1>1. \A b \in c : b \in Nat /\ b <= 31
    BY DEF Words, C!Ones
<1>2. ASSUME NEW b PROVE b \in C!ShiftRight(c, n) <=> b \in Nat /\ b + n \in c
    BY <1>1 DEF C!ShiftRight
<1>3. ASSUME NEW b, b \in C!ShiftRight(c, n) PROVE b \in C!Ones
    BY <1>1, <1>2, <1>3 DEF C!Ones
<1> QED
    BY <1>2, <1>3 DEF Words

\* Shifting twice.
LEMMA ShiftTwice ==
    ASSUME NEW c \in Words, NEW m \in Nat, NEW n \in Nat
    PROVE  C!ShiftRight(C!ShiftRight(c, m), n) = C!ShiftRight(c, m + n)
<1>1. C!ShiftRight(c, m) \in Words /\ m + n \in Nat
    BY ShiftElement
<1>2. ASSUME NEW b
      PROVE  b \in C!ShiftRight(C!ShiftRight(c, m), n) <=> b \in C!ShiftRight(c, m + n)
    <2>1. b \in C!ShiftRight(C!ShiftRight(c, m), n) <=> b \in Nat /\ b + n \in C!ShiftRight(c, m)
        BY <1>1, ShiftElement
    <2>2. b + n \in C!ShiftRight(c, m) <=> b + n \in Nat /\ (b + n) + m \in c
        BY ShiftElement
    <2>3. b \in C!ShiftRight(c, m + n) <=> b \in Nat /\ b + (m + n) \in c
        BY <1>1, ShiftElement
    <2>4. b \in Nat => b + n \in Nat /\ (b + n) + m = b + (m + n)
        BY SMT
    <2> QED
        BY <2>1, <2>2, <2>3, <2>4
<1> QED
    BY <1>2

\* Shifting a difference.
LEMMA ShiftLinear ==
    ASSUME NEW c \in Words, NEW d \in Words, NEW n \in Nat
    PROVE  /\ C!SymDiff(c, d) \in Words
           /\ C!ShiftRight(C!SymDiff(c, d), n) = C!SymDiff(C!ShiftRight(c, n), C!ShiftRight(d, n))
<1>1. C!SymDiff(c, d) \in Words
    BY DEF C!SymDiff, Words
<1> QED
    BY <1>1, ShiftElement DEF C!SymDiff

\* One step of the division.
LEMMA BitLinear ==
    ASSUME NEW c \in Words, NEW d \in Words
    PROVE  /\ C!Bit(c) \in Words
           /\ C!Bit(C!SymDiff(c, d)) = C!SymDiff(C!Bit(c), C!Bit(d))
<1>1. 0 \in C!SymDiff(c, d) <=> ~(0 \in c <=> 0 \in d)
    BY DEF C!SymDiff
<1>2. C!Polynomial \in Words
    BY SMT DEF C!Polynomial, Words, C!Ones
<1>3. C!ShiftRight(c, 1) \in Words
    BY ShiftElement
<1>4. C!Bit(c) \in Words
    BY <1>2, <1>3 DEF C!Bit, C!SymDiff, Words
<1>5. C!ShiftRight(C!SymDiff(c, d), 1) = C!SymDiff(C!ShiftRight(c, 1), C!ShiftRight(d, 1))
    BY ShiftLinear
<1>6. C!Bit(C!SymDiff(c, d)) = C!SymDiff(C!Bit(c), C!Bit(d))
    BY <1>1, <1>5 DEF C!Bit, C!SymDiff
<1> QED
    BY <1>4, <1>6

\* Eight steps of it.
LEMMA BitsLinear ==
    ASSUME NEW c \in Words, NEW d \in Words
    PROVE  /\ C!Bits(c) \in Words
           /\ C!Bits(C!SymDiff(c, d)) = C!SymDiff(C!Bits(c), C!Bits(d))
<1> DEFINE Both(x, y, z) == x \in Words /\ y \in Words /\ z = C!SymDiff(x, y)
<1>1. ASSUME NEW x, NEW y, NEW z, Both(x, y, z)
      PROVE  Both(C!Bit(x), C!Bit(y), C!Bit(z))
    BY <1>1, BitLinear
<1>2. Both(c, d, C!SymDiff(c, d))
    OBVIOUS
<1> HIDE DEF Both
<1>3. Both(C!Bits(c), C!Bits(d), C!Bits(C!SymDiff(c, d)))
    BY <1>1, <1>2 DEF C!Bits
<1> QED
    BY <1>3 DEF Both

\* Eight steps only shift a word whose lowest eight bits are 0.
LEMMA BitsOfHigh ==
    ASSUME NEW c \in Words, c \cap C!Low = {}
    PROVE  C!Bits(c) = C!ShiftRight(c, 8)
<1>1. ASSUME NEW n \in 0 .. 7
      PROVE  C!Bit(C!ShiftRight(c, n)) = C!ShiftRight(c, n + 1)
    <2>1. 0 \notin C!ShiftRight(c, n)
        BY ShiftElement DEF C!Low
    <2>2. C!Bit(C!ShiftRight(c, n)) = C!ShiftRight(C!ShiftRight(c, n), 1)
        BY <2>1 DEF C!Bit
    <2> QED
        BY <2>2, ShiftTwice
<1>2. C!ShiftRight(c, 0) = c
    <2>1. \A b \in c : b \in Nat /\ b + 0 = b
        BY DEF Words, C!Ones
    <2>2. \A b : b \in C!ShiftRight(c, 0) <=> b \in Nat /\ b + 0 \in c
        BY ShiftElement
    <2>3. \A b \in Nat : b + 0 = b
        BY SMT
    <2>4. \A b : b \in C!ShiftRight(c, 0) <=> b \in c
        BY <2>1, <2>2, <2>3
    <2> QED
        BY <2>4
<1>3. /\ C!Bit(c) = C!ShiftRight(c, 1)
      /\ C!Bit(C!ShiftRight(c, 1)) = C!ShiftRight(c, 2)
      /\ C!Bit(C!ShiftRight(c, 2)) = C!ShiftRight(c, 3)
      /\ C!Bit(C!ShiftRight(c, 3)) = C!ShiftRight(c, 4)
      /\ C!Bit(C!ShiftRight(c, 4)) = C!ShiftRight(c, 5)
      /\ C!Bit(C!ShiftRight(c, 5)) = C!ShiftRight(c, 6)
      /\ C!Bit(C!ShiftRight(c, 6)) = C!ShiftRight(c, 7)
      /\ C!Bit(C!ShiftRight(c, 7)) = C!ShiftRight(c, 8)
    BY <1>1, <1>2
<1> QED
    BY <1>3 DEF C!Bits

\* Looking up the table is eight steps of the division.
LEMMA StepIsBits ==
    ASSUME NEW c \in Words, NEW byte \in SUBSET C!Low
    PROVE  C!Step(c, byte) = C!Bits(C!SymDiff(c, byte))
<1> DEFINE x == C!SymDiff(c, byte)
           low == x \cap C!Low
           high == c \ C!Low
<1>1. C!Low \subseteq C!Ones
    BY DEF C!Low, C!Ones
<1>2. low \in Words /\ high \in Words /\ low \in SUBSET C!Low /\ high \cap C!Low = {}
    BY <1>1 DEF Words
<1>3. x = C!SymDiff(low, high)
    BY DEF C!SymDiff
<1>4. C!Entry(low) = C!Bits(low)
    BY <1>2, TableAssumption DEF C!TableRight
<1>5. C!Bits(high) = C!ShiftRight(high, 8)
    BY <1>2, BitsOfHigh
<1>6. C!ShiftRight(high, 8) = C!ShiftRight(c, 8)
    <2>1. \A b : b \in C!ShiftRight(high, 8) <=> b \in Nat /\ b + 8 \in high
        BY <1>2, ShiftElement
    <2>2. \A b : b \in C!ShiftRight(c, 8) <=> b \in Nat /\ b + 8 \in c
        BY ShiftElement
    <2>3. \A b \in Nat : b + 8 \notin C!Low
        BY DEF C!Low
    <2> QED
        BY <2>1, <2>2, <2>3
<1>7. C!Step(c, byte) = C!SymDiff(C!Entry(low), C!ShiftRight(c, 8))
    BY DEF C!Step
<1> HIDE DEF low, high, x
<1>8. C!Bits(x) = C!SymDiff(C!Bits(low), C!Bits(high))
    BY <1>2, <1>3, BitsLinear
<1> QED
    BY <1>4, <1>5, <1>6, <1>7, <1>8 DEF x

\* The bits of a byte.
LEMMA ByteTyped ==
    ASSUME NEW byte \in 0 .. 255
    PROVE  C!BitsOf(byte) \in SUBSET C!Low /\ C!BitsOf(byte) \in Words
<1>1. C!BitsOf(byte) \in SUBSET C!Low
    BY TableAssumption
<1>2. C!Low \subseteq C!Ones
    BY DEF C!Low, C!Ones
<1> QED
    BY <1>1, <1>2 DEF Words

\* The division, byte after byte.
LEMMA RemaindersRecur ==
    ASSUME NEW bytes \in Seq(0 .. 255)
    PROVE  /\ C!Remainders(bytes) \in [0 .. Len(bytes) -> Words]
           /\ C!Remainders(bytes)[0] = C!Ones
           /\ \A n \in 1 .. Len(bytes) :
                 C!Remainders(bytes)[n] = C!Bits(C!SymDiff(C!Remainders(bytes)[n - 1], C!BitsOf(bytes[n])))
<1> DEFINE len == Len(bytes)
           After(v, n) == C!Bits(C!SymDiff(v, C!BitsOf(bytes[n])))
           step == [n \in 1 .. len |-> [v \in Words |-> After(v, n)]]
           Defines(f) == f = [n \in 0 .. len |-> IF n = 0 THEN C!Ones ELSE After(f[n - 1], n)]
<1>1. \A n \in 1 .. len : \A v \in Words : After(v, n) \in Words
    <2> SUFFICES ASSUME NEW n \in 1 .. len, NEW v \in Words PROVE After(v, n) \in Words
        OBVIOUS
    <2>1. bytes[n] \in 0 .. 255
        BY SeqElement
    <2>2. C!BitsOf(bytes[n]) \in Words
        BY <2>1, ByteTyped
    <2>3. C!SymDiff(v, C!BitsOf(bytes[n])) \in Words
        BY <2>2, ShiftLinear
    <2> QED
        BY <2>3, BitsLinear
<1> HIDE DEF After
<1>2. len \in Nat /\ step \in [1 .. len -> [Words -> Words]] /\ C!Ones \in Words
    BY <1>1 DEF Words
<1>3. PICK f \in [0 .. len -> Words] : Iterated(f, len, C!Ones, step)
    <2> HIDE DEF len, step, Defines
    <2> QED
        BY <1>2, IterationExists
<1>4. f[0] = C!Ones /\ \A n \in 1 .. len : f[n] = step[n][f[n - 1]]
    BY <1>3 DEF Iterated
<1>5. ASSUME NEW n \in 0 .. len, n # 0
      PROVE  f[n] = After(f[n - 1], n)
    <2>1. f[n - 1] \in Words /\ n \in 1 .. len /\ n - 1 \in 0 .. len
        BY <1>2, <1>5
    <2>2. f[n] = step[n][f[n - 1]]
        BY <1>4, <2>1
    <2>3. step[n] = [v \in Words |-> After(v, n)]
        BY <2>1
    <2> QED
        BY <2>1, <2>2, <2>3
<1>6. Defines(f)
    <2>1. f = [n \in 0 .. len |-> f[n]]
        BY <1>3
    <2> QED
        BY <1>4, <1>5, <2>1
<1>7. Defines(C!Remainders(bytes))
    <2>1. C!Remainders(bytes) = CHOOSE g : Defines(g)
        BY Zenon DEF C!Remainders, After
    <2> HIDE DEF Defines
    <2> QED
        BY <1>6, <2>1
<1> DEFINE rests == C!Remainders(bytes)
<1>8. rests = [n \in 0 .. len |-> IF n = 0 THEN C!Ones ELSE After(rests[n - 1], n)]
    BY <1>7
<1> HIDE DEF rests
<1>9. rests[0] = C!Ones /\ \A n \in 1 .. len : rests[n] = After(rests[n - 1], n)
    BY <1>2, <1>8, SMTT(40)
<1>10. \A n \in 0 .. len : rests[n] \in Words
    <2> DEFINE holds == {n \in 0 .. len : rests[n] \in Words}
    <2>1. 0 \in holds
        BY <1>2, <1>9
    <2>2. ASSUME NEW n \in 0 .. (len - 1), n \in holds PROVE n + 1 \in holds
        <3>1. n + 1 \in 1 .. len /\ (n + 1) - 1 = n /\ n + 1 \in 0 .. len
            BY <1>2
        <3>2. rests[n + 1] = After(rests[n], n + 1)
            BY <1>9, <3>1
        <3> QED
            BY <1>1, <2>2, <3>1, <3>2
    <2> HIDE DEF holds, len
    <2>3. 0 .. len \subseteq holds
        BY <1>2, <2>1, <2>2, Induction
    <2> QED
        BY <2>3 DEF holds
<1>11. rests \in [0 .. len -> Words]
    BY <1>8, <1>10
<1> QED
    BY <1>9, <1>11 DEF rests, After

\* The register is what the division leaves of the bytes that are done.
CrcSafe ==
    /\ buf \in Seq(0 .. 255)
    /\ p \in 0 .. Len(buf)
    /\ C!CrcRight

\* So it is at the start.
LEMMA CrcSafeInit == Init => CrcSafe
<1> SUFFICES ASSUME Init PROVE CrcSafe
    OBVIOUS
<1>1. buf \in Seq(0 .. 255) /\ p = 0 /\ crc = C!Ones
    <2>1. C!SymDiff({}, C!Ones) = C!Ones
        BY DEF C!SymDiff
    <2>2. CASE program = "crc32"
        <3>1. C!Init
            BY <2>2 DEF Init
        <3> QED
            BY <2>1, <3>1, BytesAssumption DEF C!Init
    <2>3. CASE program # "crc32"
        <3>1. buf = <<>> /\ p = 0 /\ crc = C!Ones
            BY <2>3 DEF Init
        <3>2. <<>> \in Seq(0 .. 255)
            OBVIOUS
        <3> QED
            BY <3>1, <3>2
    <2> QED
        BY <2>2, <2>3
<1>2. C!Remainders(buf)[0] = C!Ones /\ Len(buf) \in Nat
    BY <1>1, RemaindersRecur
<1> QED
    BY <1>1, <1>2 DEF CrcSafe, C!CrcRight

\* And after every step.
LEMMA CrcSafeNext == CrcSafe /\ [Next]_vars => CrcSafe'
<1> SUFFICES ASSUME CrcSafe, [Next]_vars PROVE CrcSafe'
    OBVIOUS
<1>1. C!TakeByte \/ UNCHANGED crcVars
    BY DEF Next, RunsBackoff, RunsHub, RunsSwitch, RunsPlugs, RunsCrc32, RunsChecksum, byteVars, vars, C!Next
<1>2. buf \in Seq(0 .. 255) /\ p \in 0 .. Len(buf) /\ crc = C!Remainders(buf)[p] /\ Len(buf) \in Nat
    BY DEF CrcSafe, C!CrcRight
<1>3. CASE C!TakeByte
    <2>1. p < Len(buf) /\ crc' = C!Step(crc, C!BitsOf(buf[p + 1])) /\ p' = p + 1 /\ buf' = buf
        BY <1>3 DEF C!TakeByte
    <2>2. p + 1 \in 1 .. Len(buf) /\ (p + 1) - 1 = p /\ p + 1 \in 0 .. Len(buf)
        BY <1>2, <2>1
    <2>3. buf[p + 1] \in 0 .. 255
        BY <1>2, <2>2, SeqElement
    <2>4. C!BitsOf(buf[p + 1]) \in SUBSET C!Low
        BY <2>3, ByteTyped
    <2>5. crc \in Words
        BY <1>2, RemaindersRecur
    <2>6. crc' = C!Bits(C!SymDiff(crc, C!BitsOf(buf[p + 1])))
        BY <2>1, <2>4, <2>5, StepIsBits
    <2>7. C!Remainders(buf)[p + 1] = C!Bits(C!SymDiff(C!Remainders(buf)[p], C!BitsOf(buf[p + 1])))
        BY <1>2, <2>2, RemaindersRecur
    <2>8. crc' = C!Remainders(buf)[p + 1]
        BY <1>2, <2>6, <2>7
    <2> QED
        BY <1>2, <2>1, <2>2, <2>8 DEF CrcSafe, C!CrcRight
<1>4. CASE UNCHANGED crcVars
    BY <1>2, <1>4 DEF CrcSafe, C!CrcRight, crcVars
<1> QED
    BY <1>1, <1>3, <1>4

\* Of any bytes: the loop with the table leaves what the division bit by bit leaves.
THEOREM CrcIsRemainder == Spec => []CrcRight
<1>1. CrcSafe => CrcRight
    BY DEF CrcSafe, CrcRight
<1> QED
    BY <1>1, CrcSafeInit, CrcSafeNext, PTL DEF Spec

\* A byte that is the lowest of a word takes it away and leaves the rest of it, shifted.
LEMMA StepTakes ==
    ASSUME NEW w \in Words, NEW e \in Words
    PROVE  /\ C!Step(C!SymDiff(w, e), w \cap C!Low) = C!SymDiff(C!ShiftRight(w, 8), C!Bits(e))
           /\ C!ShiftRight(w, 8) \in Words /\ C!Bits(e) \in Words
<1> DEFINE high == w \ C!Low
           low == w \cap C!Low
<1>1. high \in Words /\ high \cap C!Low = {} /\ low \in SUBSET C!Low /\ C!SymDiff(w, e) \in Words
    BY DEF Words, C!SymDiff
<1>2. C!SymDiff(C!SymDiff(w, e), low) = C!SymDiff(high, e)
    BY DEF C!SymDiff
<1>3. C!ShiftRight(high, 8) = C!ShiftRight(w, 8)
    <2>1. \A b : b \in C!ShiftRight(high, 8) <=> b \in Nat /\ b + 8 \in high
        BY <1>1, ShiftElement
    <2>2. \A b : b \in C!ShiftRight(w, 8) <=> b \in Nat /\ b + 8 \in w
        BY ShiftElement
    <2>3. \A b \in Nat : b + 8 \notin C!Low
        BY DEF C!Low
    <2> QED
        BY <2>1, <2>2, <2>3
<1> HIDE DEF high, low
<1>4. C!Step(C!SymDiff(w, e), low) = C!Bits(C!SymDiff(high, e))
    BY <1>1, <1>2, StepIsBits
<1>5. C!Bits(C!SymDiff(high, e)) = C!SymDiff(C!Bits(high), C!Bits(e)) /\ C!Bits(e) \in Words
    BY <1>1, BitsLinear
<1>6. C!Bits(high) = C!ShiftRight(w, 8)
    BY <1>1, <1>3, BitsOfHigh
<1>7. C!ShiftRight(w, 8) \in Words
    BY ShiftElement
<1> QED
    BY <1>4, <1>5, <1>6, <1>7 DEF low

\* The four bytes of the sequence take all of it away.
LEMMA StoredTakes ==
    ASSUME crc \in Words
    PROVE  C!Residue
<1> DEFINE v == C!Value
           After(n, e) == C!SymDiff(C!ShiftRight(v, n), e)
           e1 == C!Bits(C!Ones)
           e2 == C!Bits(e1)
           e3 == C!Bits(e2)
           e4 == C!Bits(e3)
<1>1. v \in Words /\ C!Ones \in Words /\ crc = C!SymDiff(v, C!Ones)
    BY DEF C!Value, C!SymDiff, Words
<1>2. C!Stored = <<C!ByteAt(v, 0), C!ByteAt(v, 8), C!ByteAt(v, 16), C!ByteAt(v, 24)>>
    BY DEF C!Stored
<1> HIDE DEF v
<1>3. ASSUME NEW n \in Nat, NEW e \in Words
      PROVE  C!Step(After(n, e), C!ByteAt(v, n)) = After(n + 8, C!Bits(e)) /\ C!Bits(e) \in Words
    <2>1. C!ShiftRight(v, n) \in Words
        BY <1>1, ShiftElement
    <2>2. C!ShiftRight(C!ShiftRight(v, n), 8) = C!ShiftRight(v, n + 8)
        BY <1>1, ShiftTwice
    <2> QED
        BY <2>1, <2>2, StepTakes DEF C!ByteAt
<1>4. C!ShiftRight(v, 0) = v
    <2>1. \A b \in v : b \in Nat /\ b + 0 = b
        BY <1>1 DEF Words, C!Ones
    <2>2. \A b : b \in C!ShiftRight(v, 0) <=> b \in Nat /\ b + 0 \in v
        BY <1>1, ShiftElement
    <2>3. \A b \in Nat : b + 0 = b
        BY SMT
    <2>4. \A b : b \in C!ShiftRight(v, 0) <=> b \in v
        BY <2>1, <2>2, <2>3
    <2> QED
        BY <2>4
<1>5. C!ShiftRight(v, 32) = {}
    <2>1. \A b : b \in C!ShiftRight(v, 32) <=> b \in Nat /\ b + 32 \in v
        BY <1>1, ShiftElement
    <2>2. \A b \in Nat : b + 32 \notin v
        BY <1>1 DEF Words, C!Ones
    <2> QED
        BY <2>1, <2>2
<1>6. crc = After(0, C!Ones)
    BY <1>1, <1>4
<1>7. C!Step(After(0, C!Ones), C!ByteAt(v, 0)) = After(8, e1) /\ e1 \in Words
    BY <1>1, <1>3
<1> HIDE DEF After, e1
<1>8. C!Step(After(8, e1), C!ByteAt(v, 8)) = After(16, e2) /\ e2 \in Words
    BY <1>3, <1>7
<1> HIDE DEF e2
<1>9. C!Step(After(16, e2), C!ByteAt(v, 16)) = After(24, e3) /\ e3 \in Words
    BY <1>3, <1>8
<1> HIDE DEF e3
<1>10. C!Step(After(24, e3), C!ByteAt(v, 24)) = After(32, e4)
    BY <1>3, <1>9
<1> HIDE DEF e4
<1>11. After(32, e4) = e4
    BY <1>5 DEF After, C!SymDiff
<1>12. e4 = C!Magic
    BY TableAssumption DEF e1, e2, e3, e4
<1> QED
    BY <1>2, <1>6, <1>7, <1>8, <1>9, <1>10, <1>11, <1>12 DEF C!Residue

\* Of any data: the stored sequence brings the register to the same value.
THEOREM ResidueIsMagic == Spec => []Residue
<1>1. CrcSafe => crc \in Words
    BY RemaindersRecur DEF CrcSafe, C!CrcRight
<1>2. CrcSafe => Residue
    BY <1>1, StoredTakes DEF Residue
<1> QED
    BY <1>2, CrcSafeInit, CrcSafeNext, PTL DEF Spec

=============================================================================
