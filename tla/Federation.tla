----------------------------- MODULE Federation -----------------------------
(***************************************************************************)
(* A server's FederationRouter, federation.py: its routing table, which peer  *)
(* lists, heartbeats and time change, and its pool of outbound connections,   *)
(* over which TASK_FORWARD frames go on to other servers.                     *)
(*                                                                          *)
(* Everything runs on the server's event loop.  The peers of a list are merged *)
(* by tasks of their own, one after the other, and forwards are tasks too: any *)
(* other step may come in between.  The locks are never held across an await.  *)
(***************************************************************************)
EXTENDS Naturals, Sequences, SequencesExt, FiniteSets

CONSTANTS
    Peers,         \* peer_ids
    Self,          \* the router's node_id
    Addrs,         \* host:port
    NoAddr,        \* an entry of a list without host and port
    PeerLists,     \* PEER_DISCOVERY frames that may come: [by, entries]
    Targets,       \* target_peer_ids that TASK_FORWARD frames may name
    Forwards,      \* forwards under way at once
    MaxClients,    \* bound: ATPClients that are made
    MaxPeers,      \* FED_MAX_PEERS_TRACKED
    Timeout,       \* FED_PEER_TIMEOUT_S, in heartbeat intervals
    MaxTtl,        \* FED_MAX_TASK_TTL
    MaxMerges,     \* bound: merges that are waiting
    MaxHops        \* bound: distance of a peer

ASSUME PeersAssumption ==
    /\ IsFiniteSet(Forwards)
    /\ Self \notin Peers /\ NoAddr \notin Addrs /\ Self \notin Nat
    /\ Targets \subseteq Peers \cup {Self}
    /\ \A l \in PeerLists : /\ l.by \in Peers \cup {Self}
                            /\ l.entries \in Seq([peer : Peers \cup {Self}, addr : Addrs \cup {NoAddr}])
ASSUME NumbersAssumption ==
    /\ MaxPeers \in Nat \ {0} /\ Timeout \in Nat \ {0}
    /\ MaxClients \in Nat /\ MaxTtl \in Nat /\ MaxMerges \in Nat /\ MaxHops \in Nat \ {0}

VARIABLES
    known,     \* keys of _peers, in the order of the dictionary
    peer,      \* its PeerRecords: [addr, hop, age]; age is in heartbeat intervals
    merges,    \* add_or_update_peer tasks: [peer, addr, by]
    forward,   \* of each forward under way: [at, target, ttl, addr, client]
    pool,      \* _outbound_pool
    conn,      \* of each client that was made: [addr, alive]
    loop,      \* HeartbeatManager.loop is asleep, sends heartbeats, or is held up by a client
    refused    \* a server has refused a TASK_FORWARD that was sent on (history)

tableVars == <<known, peer>>
poolVars == <<pool, conn>>
vars == <<known, peer, merges, forward, pool, conn, loop, refused>>

Places == Addrs \cup {NoAddr}
Clients == 1 .. MaxClients
NoClient == 0
NoForward == [at |-> "none", target |-> Self, ttl |-> 0, addr |-> NoAddr, client |-> NoClient]
NoConn == [addr |-> NoAddr, alive |-> FALSE]

TypeOK ==
    /\ known \in Seq(Peers) /\ Len(known) <= MaxPeers
    /\ \A i, j \in DOMAIN known : known[i] = known[j] => i = j
    /\ peer \in [ToSet(known) -> [addr : Places, hop : 1 .. MaxHops, age : 0 .. Timeout]]
    /\ merges \in Seq([peer : Peers, addr : Places, by : Peers \cup {Self}])
    /\ forward \in [Forwards -> [at : {"none", "ready", "connect", "send"},
                                 target : Peers \cup {Self}, ttl : 0 .. MaxTtl,
                                 addr : Places, client : Clients \cup {NoClient}]]
    /\ pool \in [Addrs -> Clients \cup {NoClient}]
    /\ conn \in [Clients -> [addr : Places, alive : BOOLEAN]]
    /\ loop \in {"asleep", "sending", "held"}
    /\ refused \in BOOLEAN

Init ==
    /\ known = << >> /\ peer = << >>
    /\ merges = << >>
    /\ forward = [f \in Forwards |-> NoForward]
    /\ pool = [a \in Addrs |-> NoClient]
    /\ conn = [c \in Clients |-> NoConn]
    /\ loop = "asleep"
    /\ refused = FALSE

-----------------------------------------------------------------------------
(* The routing table *)

\* The elements of seq that are in S, in their order.
Within(seq, S) ==
    LET within[n \in 0 .. Len(seq)] ==
            IF n = 0 THEN << >>
            ELSE IF seq[n] \in S THEN Append(within[n - 1], seq[n]) ELSE within[n - 1]
    IN within[Len(seq)]

InTable(p) == p \in DOMAIN peer
Alive(p) == peer[p].age < Timeout
Dead == {p \in DOMAIN peer : ~ Alive(p)}

\* PEER_DISCOVERY with a good signature: a merge for each entry but the router's own.
ReceivePeerList(l) ==
    LET named == Within(l.entries, {e \in ToSet(l.entries) : e.peer # Self}) IN
    /\ Len(merges) + Len(named) <= MaxMerges
    /\ merges' = merges \o [i \in DOMAIN named |->
                              [peer |-> named[i].peer, addr |-> named[i].addr, by |-> l.by]]
    /\ UNCHANGED <<tableVars, forward, poolVars, loop, refused>>

\* How far a peer is that the peer by has told us of, going by those in the table.
Via(by, table) == IF by \in table THEN peer[by].hop + 1 ELSE 1

\* "Keep the shortest known hop distance".
UpdatePeer(m) ==
    LET via == Via(m.by, DOMAIN peer) IN
    /\ InTable(m.peer)
    /\ peer' = [peer EXCEPT ![m.peer] =
                  [addr |-> IF m.addr = NoAddr THEN @.addr ELSE m.addr,
                   hop |-> IF via < @.hop THEN via ELSE @.hop, age |-> 0]]
    /\ UNCHANGED known

\* Mutants: a full table loses its oldest entry, or none.
MutantKeepAll == known
MutantStaying == IF Len(known) < MaxPeers THEN known ELSE Tail(known)

\* The peers that stay when one more is added: a full table loses its first dead one.
Staying ==
    IF Len(known) < MaxPeers THEN known
    ELSE RemoveAt(known, CHOOSE i \in DOMAIN known :
                            /\ known[i] \in Dead
                            /\ \A j \in 1 .. i - 1 : known[j] \notin Dead)

AddPeer(m) ==
    LET staying == ToSet(Staying)
        via == Via(m.by, staying) IN
    /\ ~ InTable(m.peer)
    /\ Len(known) < MaxPeers \/ Dead # {}
    /\ via <= MaxHops
    /\ known' = Append(Staying, m.peer)
    /\ peer' = [p \in staying \cup {m.peer} |->
                  IF p = m.peer THEN [addr |-> m.addr, hop |-> via, age |-> 0] ELSE peer[p]]

TableFull(m) ==
    /\ ~ InTable(m.peer) /\ Len(known) >= MaxPeers /\ Dead = {}
    /\ UNCHANGED tableVars

\* add_or_update_peer: the merge that was created first runs first.
Merge ==
    /\ merges # << >>
    /\ merges' = Tail(merges)
    /\ LET m == Head(merges) IN UpdatePeer(m) \/ AddPeer(m) \/ TableFull(m)
    /\ UNCHANGED <<forward, poolVars, loop, refused>>

\* PEER_HEARTBEAT: a peer that is not in the table does not come into it.
ReceiveHeartbeat(p) ==
    /\ InTable(p)
    /\ peer' = [peer EXCEPT ![p].age = 0]
    /\ UNCHANGED <<known, merges, forward, poolVars, loop, refused>>

Keep(staying) ==
    /\ known' = Within(known, staying)
    /\ peer' = [p \in staying |-> peer[p]]

\* Mutant: nothing is pruned before the table is full.
MutantPrune ==
    /\ loop = "asleep"
    /\ Keep(IF Len(known) = MaxPeers THEN DOMAIN peer \ Dead ELSE DOMAIN peer)
    /\ loop' = "sending"
    /\ UNCHANGED <<merges, forward, poolVars, refused>>

\* HeartbeatManager.loop, after its sleep: prune, and begin to send the clients, whose
\* dispatcher has no case for it, a heartbeat.
Prune ==
    /\ loop = "asleep"
    /\ Keep(DOMAIN peer \ Dead)
    /\ loop' = "sending"
    /\ UNCHANGED <<merges, forward, poolVars, refused>>

\* Every client has been sent its heartbeat, or has failed to take it.
HeartbeatsSent ==
    /\ loop = "sending"
    /\ loop' = "asleep"
    /\ UNCHANGED <<tableVars, merges, forward, poolVars, refused>>

\* The clients are awaited in turn and without a timeout: one that keeps its connection
\* and does not read holds the loop up, once what is written to it no longer drains.
ClientHolds ==
    /\ loop = "sending"
    /\ loop' = "held"
    /\ UNCHANGED <<tableVars, merges, forward, poolVars, refused>>

\* It reads again, or its connection goes.
ClientReads ==
    /\ loop = "held"
    /\ loop' = "sending"
    /\ UNCHANGED <<tableVars, merges, forward, poolVars, refused>>

\* A heartbeat interval passes.
Tick ==
    /\ \E p \in DOMAIN peer : Alive(p)
    /\ peer' = [p \in DOMAIN peer |-> [peer[p] EXCEPT !.age = IF Alive(p) THEN @ + 1 ELSE @]]
    /\ UNCHANGED <<known, merges, forward, poolVars, loop, refused>>

-----------------------------------------------------------------------------
(* Forwarding *)

\* TASK_FORWARD with a good signature, for another node: a task to send it on.
ReceiveForward(f, target, ttl) ==
    /\ forward[f] = NoForward
    /\ ttl > 0 /\ target # Self
    /\ forward' = [forward EXCEPT ![f] = [NoForward EXCEPT !.at = "ready", !.target = target,
                                                           !.ttl = ttl - 1]]
    /\ UNCHANGED <<tableVars, merges, poolVars, loop, refused>>

\* forward_task: the peer may be told the task.
Routed(fwd) == fwd.ttl > 0 /\ InTable(fwd.target) /\ Alive(fwd.target)

\* Mutant: an entry is taken out of the pool when it is used.
MutantLookUp(f) ==
    LET a == peer[forward[f].target].addr IN
    /\ forward[f].at = "ready" /\ Routed(forward[f]) /\ a # NoAddr
    /\ forward' = [forward EXCEPT ![f].addr = a, ![f].client = pool[a],
                                  ![f].at = IF pool[a] # NoClient THEN "send" ELSE "connect"]
    /\ pool' = [pool EXCEPT ![a] = NoClient]
    /\ UNCHANGED <<tableVars, merges, conn, loop, refused>>

\* forward_task, then get_outbound_connection.  A client in the pool counts as
\* alive once it has been connected: nothing unsets its writer.
LookUp(f) ==
    LET a == peer[forward[f].target].addr IN
    /\ forward[f].at = "ready" /\ Routed(forward[f]) /\ a # NoAddr
    /\ forward' = [forward EXCEPT ![f].addr = a, ![f].client = pool[a],
                                  ![f].at = IF pool[a] # NoClient THEN "send" ELSE "connect"]
    /\ UNCHANGED <<tableVars, merges, poolVars, loop, refused>>

\* No route, or an address that nobody can connect to.
NoRoute(f) ==
    /\ forward[f].at = "ready"
    /\ Routed(forward[f]) => peer[forward[f].target].addr = NoAddr
    /\ forward' = [forward EXCEPT ![f] = NoForward]
    /\ UNCHANGED <<tableVars, merges, poolVars, loop, refused>>

\* The connection, which is made without the pool's lock, is there: it takes the
\* place in the pool of one that another forward has made meanwhile.
Connected(f, c) ==
    /\ forward[f].at = "connect"
    /\ conn[c] = NoConn /\ \A d \in 1 .. c - 1 : conn[d] # NoConn
    /\ conn' = [conn EXCEPT ![c] = [addr |-> forward[f].addr, alive |-> TRUE]]
    /\ pool' = [pool EXCEPT ![forward[f].addr] = c]
    /\ forward' = [forward EXCEPT ![f].at = "send", ![f].client = c]
    /\ UNCHANGED <<tableVars, merges, loop, refused>>

NotConnected(f) ==
    /\ forward[f].at = "connect"
    /\ forward' = [forward EXCEPT ![f] = NoForward]
    /\ UNCHANGED <<tableVars, merges, poolVars, loop, refused>>

\* The key a forwarded frame is signed with, and the one its receiver verifies it
\* with: that of the router's server, and that in the credential of the client.
SigningKey == Self
ConnectionKey(c) == c

\* The frame is sent; the server at the other end of a live connection verifies it.
SendForward(f) ==
    LET c == forward[f].client IN
    /\ forward[f].at = "send"
    /\ refused' = (refused \/ (conn[c].alive /\ ConnectionKey(c) # SigningKey))
    /\ forward' = [forward EXCEPT ![f] = NoForward]
    /\ UNCHANGED <<tableVars, merges, poolVars, loop>>

\* The server at an address goes away, and its connections with it.
PeerCloses(a) ==
    /\ \E c \in Clients : conn[c].addr = a /\ conn[c].alive
    /\ conn' = [c \in Clients |-> IF conn[c].addr = a THEN [conn[c] EXCEPT !.alive = FALSE] ELSE conn[c]]
    /\ UNCHANGED <<tableVars, merges, forward, pool, loop, refused>>

-----------------------------------------------------------------------------
Next ==
    \/ \E l \in PeerLists : ReceivePeerList(l)
    \/ \E p \in Peers : ReceiveHeartbeat(p)
    \/ Merge \/ Tick
    \/ Prune \/ HeartbeatsSent \/ ClientHolds \/ ClientReads
    \/ \E f \in Forwards : \/ \E target \in Targets, ttl \in 0 .. MaxTtl : ReceiveForward(f, target, ttl)
                           \/ LookUp(f) \/ NoRoute(f) \/ NotConnected(f) \/ SendForward(f)
                           \/ \E c \in Clients : Connected(f, c)
    \/ \E a \in Addrs : PeerCloses(a)

Spec == Init /\ [][Next]_vars

\* The loop of HeartbeatManager survives every exception, and is done with a client
\* that reads.
FairSpec == Spec /\ WF_vars(Prune) /\ WF_vars(HeartbeatsSent)

-----------------------------------------------------------------------------
(* Properties *)

\* A peer leaves the table only when it has not been heard of for the whole timeout:
\* neither pruning nor a table that is full (MAX_PEERS) takes one that is alive.
LiveStay == [][\A p \in Peers : InTable(p) /\ ~ InTable(p)' => ~ Alive(p)]_vars

\* A peer that is not heard of any more is gone from the table in the end, as long as no
\* client that does not read holds up the loop that prunes: if one does, as soon as it
\* reads again or is gone the same is promised anew.
DeadAreRemoved ==
    \A p \in Peers : InTable(p) /\ ~ Alive(p) ~> ~ InTable(p) \/ Alive(p) \/ loop = "held"

\* Forwards to one address that find no connection each make one, and only the last
\* of these stays in the pool; but there are no more of them than forwards that run
\* at once, for a connection in the pool is used for all later ones.
FewConnections ==
    \A a \in Addrs : Cardinality({c \in Clients : conn[c].addr = a}) <= Cardinality(Forwards)

\* "Il task viene inoltrato attraverso la rete fino al nodo target": the next server
\* takes a frame that a router has signed and sent on.
ForwardedIsTaken == ~ refused
=============================================================================
