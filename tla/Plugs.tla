------------------------------- MODULE Plugs --------------------------------
(***************************************************************************)
(* How a process starts its vde_plug children, and how they end: pipe(),   *)
(* fork(), close() and execvp() in connect_to_vde_switch (cs431vde.c),     *)
(* called by add_interface for one interface after the other.              *)
(*                                                                         *)
(* A child inherits every file descriptor its parent has at that time.  A  *)
(* pipe ends for its reader when no process has its writing end open.      *)
(***************************************************************************)
EXTENDS Integers

CONSTANT N      \* the interfaces main() adds, 1 .. N

VARIABLES
    pc,         \* what main() does: "to", "from", "fork", "close", "run" or "ended"
    k,          \* for which interface
    plug,       \* plug[i]: "none", "forked", "running" or "ended"
    open        \* open[p]: the ends of pipes that process p has; main() is process 0

vars == <<pc, k, plug, open>>

Interface == 1 .. N
Process == 0 .. N

\* to_plug_fds[0] and [1], from_plug_fds[0] and [1] for interface i.
ToRead(i) == <<"to", "read", i>>
ToWrite(i) == <<"to", "write", i>>
FromRead(i) == <<"from", "read", i>>
FromWrite(i) == <<"from", "write", i>>
End == {"to", "from"} \X {"read", "write"} \X Interface

\* exit() and signals close what a process has.
Exits == pc' = "ended" /\ open' = [open EXCEPT ![0] = {}] /\ UNCHANGED <<k, plug>>

\* The two calls of pipe(); add_interface exits when one fails.
MakesToPipe ==
    /\ pc = "to"
    /\ \/ Exits
       \/ /\ pc' = "from"
          /\ open' = [open EXCEPT ![0] = @ \cup {ToRead(k), ToWrite(k)}]
          /\ UNCHANGED <<k, plug>>

MakesFromPipe ==
    /\ pc = "from"
    /\ \/ Exits
       \/ /\ pc' = "fork"
          /\ open' = [open EXCEPT ![0] = @ \cup {FromRead(k), FromWrite(k)}]
          /\ UNCHANGED <<k, plug>>

Forks ==
    /\ pc = "fork"
    /\ \/ Exits
       \/ /\ pc' = "close"
          /\ plug' = [plug EXCEPT ![k] = "forked"]
          /\ open' = [open EXCEPT ![k] = open[0]]
          /\ UNCHANGED k

\* Mutants of Surplus: the parent keeps the end its child writes to; the child keeps
\* the end its parent writes to.
SurplusParent(p, i) == IF p = 0 THEN {ToRead(i)} ELSE {ToWrite(i), FromRead(i)}
SurplusChild(p, i) == IF p = 0 THEN {ToRead(i), FromWrite(i)} ELSE {FromRead(i)}

\* The ends that the parent and the child close after the fork.
Surplus(p, i) ==
    IF p = 0 THEN {ToRead(i), FromWrite(i)} ELSE {ToWrite(i), FromRead(i)}

\* The parent goes on to the next interface, or to the poll loop.
Closes ==
    /\ pc = "close"
    /\ open' = [open EXCEPT ![0] = @ \ Surplus(0, k)]
    /\ \/ k < N /\ pc' = "to" /\ k' = k + 1
       \/ k = N /\ pc' = "run" /\ UNCHANGED k
    /\ UNCHANGED plug

\* The child: close, dup2 to standard input and output, execvp, which may fail.
Execs(i) ==
    /\ plug[i] = "forked"
    /\ \/ /\ plug' = [plug EXCEPT ![i] = "running"]
          /\ open' = [open EXCEPT ![i] = @ \ Surplus(i, i)]
       \/ /\ plug' = [plug EXCEPT ![i] = "ended"]
          /\ open' = [open EXCEPT ![i] = {}]
    /\ UNCHANGED <<pc, k>>

\* A vde_plug ends when its standard input does.
EndOfInput(i) == \A p \in Process : ToWrite(i) \notin open[p]
PlugEnds(i) ==
    /\ plug[i] = "running"
    /\ EndOfInput(i)
    /\ plug' = [plug EXCEPT ![i] = "ended"]
    /\ open' = [open EXCEPT ![i] = {}]
    /\ UNCHANGED <<pc, k>>

\* Any process may be killed: the router by a fault, a plug by its switch.
MainDies == pc # "ended" /\ Exits
PlugDies(i) ==
    /\ plug[i] = "running"
    /\ plug' = [plug EXCEPT ![i] = "ended"]
    /\ open' = [open EXCEPT ![i] = {}]
    /\ UNCHANGED <<pc, k>>

Init ==
    /\ pc = "to"
    /\ k = 1
    /\ plug = [i \in Interface |-> "none"]
    /\ open = [p \in Process |-> {}]

PlugSteps(i) == Execs(i) \/ PlugEnds(i)

Next ==
    \/ MakesToPipe \/ MakesFromPipe \/ Forks \/ Closes
    \/ MainDies
    \/ \E i \in Interface : PlugSteps(i) \/ PlugDies(i)

Spec == Init /\ [][Next]_vars

\* A plug that can go on does.
Fairness == \A i \in Interface : WF_vars(PlugSteps(i))

-----------------------------------------------------------------------------

\* When the process has ended, at whatever point of its start or later, its plugs end,
\* although a later plug has inherited the writing ends of the pipes to the
\* earlier ones: nothing stays attached to the switches.
PlugsEnd == pc = "ended" ~> \A i \in Interface : plug[i] \in {"none", "ended"}

\* When a plug has ended, the running process can tell: the pipe from it is at its end and the
\* pipe to it is broken, because no other process has the other ends, not even
\* the plugs that were forked before or after it.
PlugEndIsSeen ==
    pc = "run" =>
        \A i \in Interface : plug[i] = "ended" =>
            \A p \in Process : open[p] \cap {FromWrite(i), ToRead(i)} = {}

=============================================================================
