------------------------------ MODULE Datagram ------------------------------
(***************************************************************************)
(* What the simulation promises the people at the terminals: a host sends  *)
(* messages, and the terminal of the host a message is for displays it.    *)
(* A message may be lost.  It is never displayed elsewhere, never twice,   *)
(* and never before an earlier message of the same sender.                 *)
(***************************************************************************)
EXTENDS Integers, Sequences

CONSTANTS Host, Nobody

VARIABLES
    messages,   \* messages sent so far: who to whom; a message is its position
    display     \* display[h]: messages on the terminal of h, oldest first

vars == <<messages, display>>

Init ==
    /\ messages = <<>>
    /\ display = [h \in Host |-> <<>>]

\* A message to Nobody has an address that no host of the network has.
Submit(h) ==
    \E to \in Host \cup {Nobody} :
        /\ messages' = Append(messages, [from |-> h, to |-> to])
        /\ UNCHANGED display

InOrder(h, n) ==
    \A k \in DOMAIN display[h] :
        messages[display[h][k]].from = messages[n].from => display[h][k] < n

Deliver(h) ==
    \E n \in DOMAIN messages :
        /\ messages[n].to = h
        /\ InOrder(h, n)
        /\ display' = [display EXCEPT ![h] = Append(@, n)]
        /\ UNCHANGED messages

Next == \E h \in Host : Submit(h) \/ Deliver(h)

Spec == Init /\ [][Next]_vars

=============================================================================
