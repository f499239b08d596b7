---------------------------- MODULE MCFederation ----------------------------
(* Instances of Federation for TLC. *)
EXTENDS Federation, TLC

CONSTANTS p1, p2, p3, addr1, f1, f2

Entry(p, a) == [peer |-> p, addr |-> a]

\* p1 tells of itself and of p2, and p2 of the router, of p3 and of p1.
MCPeerLists ==
    {[by |-> p1, entries |-> <<Entry(p1, addr1), Entry(p2, NoAddr)>>],
     [by |-> p2, entries |-> <<Entry(Self, addr1), Entry(p3, NoAddr), Entry(p1, NoAddr)>>]}
=============================================================================
