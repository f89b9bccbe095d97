----------------------------- MODULE PlugsProofs ----------------------------
(***************************************************************************)
(* The end of a plug is seen, for any number of interfaces, at whatever    *)
(* point processes fail or are killed.                                     *)
(***************************************************************************)
EXTENDS Plugs, TLAPS

\* The ends of pipes that only the plug of an interface should have in the end.
Own(i) == {ToRead(i), FromWrite(i)}

\* The process itself has them from pipe() until the close() after the fork.
Making(i) == k = i /\ pc \in {"from", "fork", "close"}

\* The inductive invariant: nobody else has them, and a process that has not begun or has ended
\* has nothing.
Owned ==
    /\ k \in Interface
    /\ plug \in [Interface -> {"none", "forked", "running", "ended"}]
    /\ open \in [Process -> SUBSET End]
    /\ \A i \in Interface : \A p \in Process :
        open[p] \cap Own(i) # {} => p = i \/ (p = 0 /\ Making(i))
    /\ \A i \in Interface : plug[i] \in {"none", "ended"} => open[i] = {}

\* The ends of the pipes of different interfaces are different.
LEMMA EndsApart ==
    ASSUME NEW i \in Interface, NEW j \in Interface
    PROVE  /\ {ToRead(j), ToWrite(j)} \cap Own(i) # {} => i = j
           /\ {FromRead(j), FromWrite(j)} \cap Own(i) # {} => i = j
           /\ Own(i) \cap Surplus(0, i) = Own(i)
           /\ {ToRead(j), ToWrite(j), FromRead(j), FromWrite(j)} \subseteq End
BY DEF Own, ToRead, ToWrite, FromRead, FromWrite, Surplus, End

\* The main process is not one of the plugs.
LEMMA ProcessApart ==
    ASSUME N \in Nat \ {0}
    PROVE  0 \in Process /\ Interface \subseteq Process /\ 0 \notin Interface
BY DEF Process, Interface

\* At first there are no pipes.
LEMMA OwnedInit ==
    ASSUME N \in Nat \ {0}
    PROVE  Init => Owned
BY DEF Init, Owned, Interface, Process

\* A process that ends takes nothing from the others.
LEMMA EmptiedKeeps ==
    ASSUME Owned, NEW q \in Process, k' = k,
           open' = [open EXCEPT ![q] = {}],
           q = 0 \/ pc' = pc,
           \/ plug' = plug
           \/ q \in Interface /\ plug' = [plug EXCEPT ![q] = "ended"]
    PROVE  Owned'
<1>1. plug' \in [Interface -> {"none", "forked", "running", "ended"}] /\ open' \in [Process -> SUBSET End]
    BY DEF Owned
<1>2. ASSUME NEW i \in Interface, NEW p \in Process, open'[p] \cap Own(i)' # {}
      PROVE  p = i \/ (p = 0 /\ Making(i)')
    <2>1. p # q /\ open'[p] = open[p]
        BY <1>2 DEF Owned
    <2>2. open[p] \cap Own(i) # {}
        BY <1>2, <2>1 DEF Own, ToRead, FromWrite
    <2> QED
        BY <2>1, <2>2 DEF Owned, Making
<1>3. ASSUME NEW i \in Interface, plug'[i] \in {"none", "ended"}
      PROVE  open'[i] = {}
    BY <1>3 DEF Owned
<1> QED
    BY <1>1, <1>2, <1>3 DEF Owned

\* A new pipe belongs to the main process.
LEMMA MakesKeeps ==
    ASSUME N \in Nat \ {0}, Owned, MakesToPipe \/ MakesFromPipe
    PROVE  Owned'
<1> USE ProcessApart
<1>1. CASE Exits
    BY <1>1, EmptiedKeeps DEF Exits
<1>2. ASSUME NEW ends \in SUBSET End, open' = [open EXCEPT ![0] = @ \cup ends],
             \A i \in Interface : ends \cap Own(i) # {} => i = k,
             pc' \in {"from", "fork"}, UNCHANGED <<k, plug>>,
             pc \in {"to", "from"}
      PROVE  Owned'
    <2>1. plug' \in [Interface -> {"none", "forked", "running", "ended"}] /\ open' \in [Process -> SUBSET End]
        BY <1>2 DEF Owned
    <2>2. ASSUME NEW i \in Interface, NEW p \in Process, open'[p] \cap Own(i)' # {}
          PROVE  p = i \/ (p = 0 /\ Making(i)')
        <3>1. open'[p] \cap Own(i) # {}
            BY <2>2 DEF Own, ToRead, FromWrite
        <3>2. CASE p = 0
            <4>1. open[0] \cap Own(i) # {} \/ ends \cap Own(i) # {}
                BY <1>2, <3>1, <3>2 DEF Owned
            <4>2. i = k
                BY <1>2, <4>1 DEF Owned, Making
            <4> QED
                BY <1>2, <3>2, <4>2 DEF Making
        <3>3. CASE p # 0
            <4>1. open[p] \cap Own(i) # {}
                BY <1>2, <3>1, <3>3 DEF Owned
            <4> QED
                BY <3>3, <4>1 DEF Owned
        <3> QED
            BY <3>2, <3>3
    <2>3. ASSUME NEW i \in Interface, plug'[i] \in {"none", "ended"}
          PROVE  open'[i] = {}
        BY <1>2, <2>3 DEF Owned
    <2> QED
        BY <1>2, <2>1, <2>2, <2>3 DEF Owned
<1>3. CASE MakesToPipe /\ ~Exits
    <2>1. \A i \in Interface : {ToRead(k), ToWrite(k)} \cap Own(i) # {} => i = k
        BY EndsApart DEF Owned
    <2>2. {ToRead(k), ToWrite(k)} \in SUBSET End
        BY EndsApart DEF Owned
    <2> QED
        BY <1>2, <1>3, <2>1, <2>2 DEF MakesToPipe
<1>4. CASE MakesFromPipe /\ ~Exits
    <2>1. \A i \in Interface : {FromRead(k), FromWrite(k)} \cap Own(i) # {} => i = k
        BY EndsApart DEF Owned
    <2>2. {FromRead(k), FromWrite(k)} \in SUBSET End
        BY EndsApart DEF Owned
    <2> QED
        BY <1>2, <1>4, <2>1, <2>2 DEF MakesFromPipe
<1> QED
    BY <1>1, <1>3, <1>4

\* A child has what its parent has.
LEMMA ForksKeeps ==
    ASSUME N \in Nat \ {0}, Owned, Forks
    PROVE  Owned'
<1> USE ProcessApart
<1>1. CASE Exits
    BY <1>1, EmptiedKeeps DEF Exits
<1>2. CASE ~Exits
    <2>1. /\ pc = "fork" /\ pc' = "close" /\ k' = k
          /\ plug' = [plug EXCEPT ![k] = "forked"]
          /\ open' = [open EXCEPT ![k] = open[0]]
        BY <1>2 DEF Forks
    <2>2. plug' \in [Interface -> {"none", "forked", "running", "ended"}] /\ open' \in [Process -> SUBSET End]
        BY <2>1 DEF Owned
    <2>3. ASSUME NEW i \in Interface, NEW p \in Process, open'[p] \cap Own(i)' # {}
          PROVE  p = i \/ (p = 0 /\ Making(i)')
        <3>1. open'[p] \cap Own(i) # {}
            BY <2>3 DEF Own, ToRead, FromWrite
        <3>2. CASE p = k
            <4>1. open[0] \cap Own(i) # {}
                BY <2>1, <3>1, <3>2 DEF Owned
            <4> QED
                BY <3>2, <4>1 DEF Owned, Making
        <3>3. CASE p # k
            <4>1. open[p] \cap Own(i) # {}
                BY <2>1, <3>1, <3>3 DEF Owned
            <4> QED
                BY <2>1, <4>1 DEF Owned, Making
        <3> QED
            BY <3>2, <3>3
    <2>4. ASSUME NEW i \in Interface, plug'[i] \in {"none", "ended"}
          PROVE  open'[i] = {}
        BY <2>1, <2>4 DEF Owned
    <2> QED
        BY <2>1, <2>2, <2>3, <2>4 DEF Owned
<1> QED
    BY <1>1, <1>2

\* Parent and child close the ends of the other.
LEMMA ClosesKeeps ==
    ASSUME N \in Nat \ {0}, Owned, Closes
    PROVE  Owned'
<1> USE ProcessApart
<1>1. /\ open' = [open EXCEPT ![0] = @ \ Surplus(0, k)]
      /\ plug' = plug
      /\ pc = "close"
    BY DEF Closes
<1>2. k' \in Interface
    BY DEF Closes, Owned, Interface
<1>3. open' \in [Process -> SUBSET End]
    BY <1>1 DEF Owned
<1>4. ASSUME NEW i \in Interface, NEW p \in Process, open'[p] \cap Own(i)' # {}
      PROVE  p = i \/ (p = 0 /\ Making(i)')
    <2>1. open'[p] \cap Own(i) # {}
        BY <1>4 DEF Own, ToRead, FromWrite
    <2>2. open[p] \cap Own(i) # {}
        BY <1>1, <2>1 DEF Owned
    <2>3. CASE p = 0
        <3>1. i = k
            BY <2>2, <2>3 DEF Owned, Making
        <3>2. Own(i) \subseteq Surplus(0, k)
            BY <3>1, EndsApart
        <3> QED
            BY <1>1, <2>1, <2>3, <3>2 DEF Owned
    <2> QED
        BY <2>2, <2>3 DEF Owned
<1>5. ASSUME NEW i \in Interface, plug'[i] \in {"none", "ended"}
      PROVE  open'[i] = {}
    BY <1>1, <1>5 DEF Owned
<1> QED
    BY <1>1, <1>2, <1>3, <1>4, <1>5 DEF Owned

\* A plug that starts only closes ends.
LEMMA RunsKeeps ==
    ASSUME N \in Nat \ {0}, Owned, NEW j \in Interface, Execs(j)
    PROVE  Owned'
<1> USE ProcessApart
<1>1. CASE plug' = [plug EXCEPT ![j] = "ended"] /\ open' = [open EXCEPT ![j] = {}]
    BY <1>1, EmptiedKeeps DEF Execs
<1>2. CASE /\ plug' = [plug EXCEPT ![j] = "running"]
           /\ open' = [open EXCEPT ![j] = @ \ Surplus(j, j)]
    <2>1. plug' \in [Interface -> {"none", "forked", "running", "ended"}] /\ open' \in [Process -> SUBSET End]
        BY <1>2 DEF Owned
    <2>2. ASSUME NEW i \in Interface, NEW p \in Process, open'[p] \cap Own(i)' # {}
          PROVE  p = i \/ (p = 0 /\ Making(i)')
        <3>1. open'[p] \cap Own(i) # {}
            BY <2>2 DEF Own, ToRead, FromWrite
        <3>2. open[p] \cap Own(i) # {}
            BY <1>2, <3>1 DEF Owned
        <3> QED
            BY <3>2 DEF Owned, Making, Execs
    <2>3. ASSUME NEW i \in Interface, plug'[i] \in {"none", "ended"}
          PROVE  open'[i] = {}
        BY <1>2, <2>3 DEF Owned
    <2> QED
        BY <2>1, <2>2, <2>3 DEF Owned, Execs
<1> QED
    BY <1>1, <1>2 DEF Execs

\* Every step keeps the ends with their owners.
LEMMA OwnedNext ==
    ASSUME N \in Nat \ {0}
    PROVE  Owned /\ [Next]_vars => Owned'
<1> SUFFICES ASSUME Owned, [Next]_vars PROVE Owned'
    OBVIOUS
<1> USE ProcessApart
<1>1. CASE MakesToPipe \/ MakesFromPipe
    BY <1>1, MakesKeeps
<1>2. CASE Forks
    BY <1>2, ForksKeeps
<1>3. CASE Closes
    BY <1>3, ClosesKeeps
<1>4. CASE MainDies
    BY <1>4, EmptiedKeeps DEF MainDies, Exits
<1>5. ASSUME NEW i \in Interface, Execs(i)
      PROVE  Owned'
    BY <1>5, RunsKeeps
<1>6. ASSUME NEW i \in Interface, PlugEnds(i) \/ PlugDies(i)
      PROVE  Owned'
    BY <1>6, EmptiedKeeps DEF PlugEnds, PlugDies
<1>7. CASE UNCHANGED vars
    BY <1>7 DEF vars, Owned, Own, Making, ToRead, FromWrite
<1> QED
    BY <1>1, <1>2, <1>3, <1>4, <1>5, <1>6, <1>7 DEF Next, PlugSteps

\* For any number of interfaces: once main() is in its loop, no process has an end of a pipe
\* that would hide that a plug has ended.
THEOREM EndsAreSeen ==
    ASSUME N \in Nat \ {0}
    PROVE  Spec => []PlugEndIsSeen
<1>1. Owned => PlugEndIsSeen
    <2> SUFFICES ASSUME Owned, pc = "run", NEW i \in Interface, plug[i] = "ended", NEW p \in Process
                 PROVE  open[p] \cap {FromWrite(i), ToRead(i)} = {}
        BY DEF PlugEndIsSeen
    <2>1. open[p] \cap Own(i) # {} => p = i
        BY DEF Owned, Making
    <2>2. open[i] = {}
        BY DEF Owned
    <2> QED
        BY <2>1, <2>2 DEF Own
<1> QED
    BY <1>1, OwnedInit, OwnedNext, PTL DEF Spec

=============================================================================
