----------------------------- MODULE FrameQueue -----------------------------
(***************************************************************************)
(* What the pipe from a vde_plug promises the process that reads it: the   *)
(* process gets the frames the plug was given, whole and in order.  Every  *)
(* interface has a queue of its own.                                       *)
(***************************************************************************)
EXTENDS Integers, Sequences

CONSTANTS Iface, Frame

VARIABLES
    put,    \* put[i]: the frames handed to the plug of interface i
    got     \* got[i]: the frames the process has received there

vars == <<put, got>>

Init ==
    /\ put = [i \in Iface |-> <<>>]
    /\ got = [i \in Iface |-> <<>>]

\* The next state says which frame it is: any frame may be handed over.
Put(i) ==
    LET n == Len(put[i]) + 1
    IN  /\ Len(put'[i]) = n
        /\ put'[i][n] \in Frame
        /\ put' = [put EXCEPT ![i] = Append(@, put'[i][n])]
        /\ UNCHANGED got

Get(i) ==
    /\ Len(got[i]) < Len(put[i])
    /\ got' = [got EXCEPT ![i] = Append(@, put[i][Len(@) + 1])]
    /\ UNCHANGED put

Next == \E i \in Iface : Put(i) \/ Get(i)

Spec == Init /\ [][Next]_vars

=============================================================================
