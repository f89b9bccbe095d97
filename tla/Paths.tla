------------------------------- MODULE Paths --------------------------------
(***************************************************************************)
(* The ways of messages through the network, and the invariants of the     *)
(* copies of a message that are on their way: why the network implements   *)
(* the datagram service.                                                   *)
(*                                                                         *)
(* Where a message may go next depends on the tables and the networks      *)
(* alone.  It is said of a numbering Nth of the places (Nth[g][h][x] is    *)
(* the number of place x on the way from host g to host h, 0 off the way)  *)
(* that it makes all ways lines.                                           *)
(***************************************************************************)
EXTENDS Network

\* A frame is in a pipe to or from the process at a port.
Place == {"in", "out"} \X Port

Outlet(h) == <<"out", HostPort[h]>>
Inlet(h) == <<"in", HostPort[h]>>

\* Where the router r forwards packets to ip: out of port p.
Onward(r, ip, p) ==
    /\ ~Local(r, ip)
    /\ LookupRoute(r, ip) # NULL
    /\ NextHop(r, LookupRoute(r, ip), ip) # NULL
    /\ p = interfaces[r][LookupRoute(r, ip).iface].port

\* The Ethernet addresses on the frames with packets to ip that leave at port p.
Addressed(p, ip) ==
    {s.via : s \in UNION {{t \in Script[h] \ {NULL} : t.to = ip} :
                            h \in {g \in Host : HostPort[g] = p}}}
        \cup {NextHop(r, LookupRoute(r, ip), ip) : r \in {s \in Router : Onward(s, ip, p)}}

\* From which place to which a packet to ip may pass: a switch repeats it to the stations
\* with its Ethernet address, a router forwards it.
Passes(x, y, ip) ==
    \/ /\ x[1] = "out" /\ y[1] = "in"
       /\ x[2] # y[2] /\ Lan[x[2]] = Lan[y[2]]
       /\ Addressed(x[2], ip) \cap (MacAt(y[2]) \cup {Broadcast}) # {}
    \/ /\ x[1] = "in" /\ y[1] = "out"
       /\ \E r \in Router : x[2] \in PortsOf(r) /\ Onward(r, ip, y[2])

\* Each way starts at its sender, goes from place to place without branches, and ends
\* where its addressee reads.
OneWay(Nth) ==
    /\ Nth \in [Host -> [Host -> [Place -> Nat]]]
    /\ \A g, h \in Host :
        /\ Nth[g][h][Outlet(g)] = 1
        /\ \A x, y \in Place :
            /\ Nth[g][h][x] > 0 /\ Passes(x, y, HostIp[h]) => Nth[g][h][y] = Nth[g][h][x] + 1
            /\ Nth[g][h][x] > 0 /\ Nth[g][h][x] = Nth[g][h][y] => x = y
            /\ Nth[g][h][Inlet(h)] > 0 => Nth[g][h][x] <= Nth[g][h][Inlet(h)]

\* Each way leads to its addressee: a switch has the station that a frame with a packet
\* to ip is addressed to, a router knows where to send the packet, and what hosts send is
\* long enough for handle_ethernet_frame and lives long enough for the routers on the way.
Complete(Nth) ==
    \A g, h \in Host :
        /\ \A s \in Script[g] \ {NULL} :
            s.to = HostIp[h] => s.len >= 46 /\ 2 * s.ttl >= Nth[g][h][Inlet(h)]
        /\ \A p \in Port : \A m \in Addressed(p, HostIp[h]) :
            Nth[g][h][<<"out", p>>] > 0 =>
                \E q \in Port \ {p} : Lan[q] = Lan[p] /\ m \in MacAt(q)
        /\ \A r \in Router : \A p \in PortsOf(r) :
            Nth[g][h][<<"in", p>>] > 0 =>
                /\ \E q \in Port : Onward(r, HostIp[h], q)
                /\ Nth[g][h][<<"in", p>>] < Nth[g][h][Inlet(h)]

-----------------------------------------------------------------------------
(* The copies of messages.                                                 *)

Content(x) == IF x[1] = "in" THEN inPipe[x[2]] ELSE outPipe[x[2]]

\* The frame at position k of place x carries message n to a host, and its station will not
\* ignore it for its Ethernet address.
Copy(n, x, k) ==
    /\ k \in DOMAIN Content(x)
    /\ n \in DOMAIN sent /\ sent[n].to \in Host
    /\ LET f == Content(x)[k]
       IN  /\ IsKind(f, {"data"}) /\ f.body.id = n
           /\ x[1] = "in" => f.dst \in MacAt(x[2]) \cup {Broadcast}

At(Nth, n, x) == Nth[sent[n].from][sent[n].to][x]

\* The copies of a message are on its way, and only the sender's are in its outgoing pipe.
Tracked(Nth) ==
    \A x \in Place : \A k \in DOMAIN Content(x) : \A n \in DOMAIN sent :
        Copy(n, x, k) =>
            /\ At(Nth, n, x) > 0
            /\ x[1] = "out" => Content(x)[k].dst \in Addressed(x[2], HostIp[sent[n].to])
            /\ \A h \in Host : x = Outlet(h) => sent[n].from = h

Alike(m, n) == sent[m].from = sent[n].from /\ sent[m].to = sent[n].to

\* Of two messages between the same hosts the earlier one is ahead of the later one; in
\* particular there is one copy of a message at most.
Ordered(Nth) ==
    \A x, y \in Place : \A j \in DOMAIN Content(x), k \in DOMAIN Content(y) :
        \A m, n \in DOMAIN sent :
            Copy(m, x, j) /\ Copy(n, y, k) /\ Alike(m, n) /\ m <= n =>
                At(Nth, m, x) > At(Nth, n, y) \/ (x = y /\ j <= k)

\* What has been displayed is earlier than what is still on its way.
ShownBefore ==
    \A x \in Place : \A k \in DOMAIN Content(x) : \A n \in DOMAIN sent :
        Copy(n, x, k) =>
            \A i \in DOMAIN shown[sent[n].to] :
                LET m == shown[sent[n].to][i]
                IN  sent[m].from = sent[n].from => m < n

\* The frame f at place x can still bring message n to its addressee: a router must decrease
\* its ttl and find that it is not 0.
Live(Nth, n, x, f) ==
    /\ IsKind(f, {"data"}) /\ f.body.id = n
    /\ f.len >= 46 /\ f.body.chk # "bad"
    /\ x[1] = "in" => f.dst \in MacAt(x[2])
    /\ 2 * f.body.ttl + At(Nth, n, x) >=
           At(Nth, n, Inlet(sent[n].to)) + (IF x[1] = "in" THEN 2 ELSE 1)

\* Such a frame is on its way for every message that is due.
Accounted(Nth) ==
    \A n \in due :
        /\ sent[n].to \in Host /\ up[sent[n].to]
        /\ \A r \in Router : alive[r]
        /\ \E x \in Place : \E k \in DOMAIN Content(x) : Live(Nth, n, x, Content(x)[k])

=============================================================================
