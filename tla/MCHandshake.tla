----------------------------- MODULE MCHandshake -----------------------------
(* Instances of Handshake for TLC. *)
EXTENDS Handshake, TLC

CONSTANTS c1, c2, p1, p2, q, a1, k1, k2

MCMccs == [auth : {a1}, signer : {k1, k2}, valid : BOOLEAN]
Mcc(key, valid) == [auth |-> a1, signer |-> key, valid |-> valid]

\* The ends of the two connections.  One agent calls a server twice; two agents call
\* a server; a dashboard q, whose server and client threads share a root store, is
\* called by one agent and calls another.
Ends(i1, r1, i2, r2) == [i |-> (c1 :> i1 @@ c2 :> i2), r |-> (c1 :> r1 @@ c2 :> r2)]
OneClient == Ends(p1, q, p1, q)
TwoClients == Ends(p1, q, p2, q)
Dashboard == Ends(p1, q, q, p2)

\* Who runs the two connections.  p1 and q are of the same authority; p2 is of it, or
\* of another one that uses the same name, or its credential is expired or revoked.
\* pins: the authority keys p1, p2 and q start with.
Each(x, y, z) == p1 :> x @@ p2 :> y @@ q :> z
Holding(x, y, z) == [p \in {p1, p2, q} |-> [a \in {a1} |-> Each(x, y, z)[p]]]
Setup(ends, kind1, kind2, mcc2, held, mode, tls) ==
    [host |-> ends,
     kind |-> (c1 :> kind1 @@ c2 :> kind2),
     mcc  |-> Each(Mcc(k1, TRUE), mcc2, Mcc(k1, TRUE)),
     pins |-> held,
     mode |-> [p \in {p1, p2, q} |-> mode],
     tls  |-> tls]

\* Root stores that are empty, that hold the authority's key, and that hold the
\* authority's next key while credentials signed with the old one are around.
Unpinned == Holding(NoKey, NoKey, NoKey)
ClientPinned == Holding(k1, NoKey, NoKey)
Pinned == Holding(k1, NoKey, k1)
Rotated == Holding(k1, NoKey, k2)

MCSetups ==
    {Setup(OneClient, kind, kind, Mcc(k1, TRUE), Unpinned, "tofu", "none") :
        kind \in {"agent", "interop", "static"}}
    \cup {Setup(OneClient, "interop", "static", Mcc(k1, TRUE), held, "tofu", "other") :
        held \in {Unpinned, Pinned}}
    \cup {Setup(TwoClients, "interop", "interop", mcc2, held, "tofu", "none") :
        mcc2 \in {Mcc(k1, TRUE), Mcc(k2, TRUE), Mcc(k1, FALSE)},
        held \in {ClientPinned, Rotated}}
    \cup {Setup(TwoClients, "interop", "static", Mcc(k2, TRUE), Pinned, "strict", "none")}
    \cup {Setup(Dashboard, "interop", "agent", Mcc(k2, TRUE), held, "tofu", "none") :
        held \in {Unpinned, Pinned}}

\* Two agents over mutual TLS that trust each other's authority.
MCTlsSetups ==
    {[host |-> [i |-> (c1 :> p1), r |-> (c1 :> q)],
      kind |-> (c1 :> "agent"),
      mcc  |-> [p \in {p1, q} |-> Mcc(k1, TRUE)],
      pins |-> [p \in {p1, q} |-> [a \in {a1} |-> k1]],
      mode |-> [p \in {p1, q} |-> "strict"],
      tls  |-> "other"]}
=============================================================================
