------------------------------- MODULE Gossip -------------------------------
(***************************************************************************)
(* How revocations spread, revocation.py: each process keeps the serials it   *)
(* has revoked in its cuckoo filter, which the handshake asks, and in its     *)
(* GossipProtocol, which sends all of them to a few random peers every round. *)
(* Both are singletons of the process, made when they are first used, and     *)
(* neither is saved.  Nothing that is sent is acknowledged.                   *)
(*                                                                          *)
(* A process signs with a key of its own, made with the singleton; a receiver *)
(* that has pinned a key for the sender's node_id takes no other key from it. *)
(***************************************************************************)
EXTENDS Naturals, FiniteSets

CONSTANTS
    Nodes,
    Serials,
    Default,       \* the node_id get_gossip gives when it is called without one
    NoName,        \* of a process that has no GossipProtocol yet
    Topology,      \* <<n, m>>: n may be given m as a peer
    Pinnable,      \* <<m, n>>: m may be given a key to pin for n
    Origins,       \* <<n, s>>: s may be revoked at n other than by gossip
    Unsteady,      \* nodes whose server may be stopped and whose process may end
    Fanout,        \* peers a round sends to
    MaxLives,      \* bound: processes of a node, one after the other
    MaxRebuilds,   \* bound: rebuilds of a process's filter that drop entries
    MaxInFlight    \* bound: payloads on their way from one process to one node

ASSUME NamesAssumption == Default # NoName /\ {Default, NoName} \cap Nodes = {}
ASSUME BoundsAssumption ==
    /\ Topology \subseteq Nodes \X Nodes /\ Pinnable \subseteq Nodes \X Nodes
    /\ Origins \subseteq Nodes \X Serials
    /\ Fanout \in Nat \ {0} /\ MaxLives \in Nat \ {0}
    /\ MaxRebuilds \in Nat /\ MaxInFlight \in Nat

VARIABLES
    life,       \* number of the node's present process
    name,       \* node_id of its GossipProtocol
    listening,  \* its GossipServer has bound the gossip port
    looping,    \* its gossip_loop runs
    peers,      \* _peers
    trusted,    \* _trusted_peers: the process of a node whose key is pinned, or 0
    filter,     \* what the cuckoo filter finds
    revoked,    \* _revoked_serials
    rebuilds,   \* rebuilds of the filter that dropped entries so far
    msgs        \* payloads sent and not yet read

vars == <<life, name, listening, looping, peers, trusted, filter, revoked, rebuilds, msgs>>

Names == Nodes \cup {Default}
Lives == 1 .. MaxLives
Payloads == [to : Nodes, name : Names, from : Nodes, key : Lives, serials : SUBSET Serials]

TypeOK ==
    /\ life \in [Nodes -> Lives]
    /\ name \in [Nodes -> Names \cup {NoName}]
    /\ listening \in [Nodes -> BOOLEAN] /\ looping \in [Nodes -> BOOLEAN]
    /\ peers \in [Nodes -> SUBSET Nodes]
    /\ trusted \in [Nodes -> [Nodes -> 0 .. MaxLives]]
    /\ filter \in [Nodes -> SUBSET Serials] /\ revoked \in [Nodes -> SUBSET Serials]
    /\ rebuilds \in [Nodes -> 0 .. MaxRebuilds]
    /\ msgs \subseteq Payloads

Init ==
    /\ life = [n \in Nodes |-> 1]
    /\ name = [n \in Nodes |-> NoName]
    /\ listening = [n \in Nodes |-> FALSE] /\ looping = [n \in Nodes |-> FALSE]
    /\ peers = [n \in Nodes |-> {}]
    /\ trusted = [n \in Nodes |-> [m \in Nodes |-> 0]]
    /\ filter = [n \in Nodes |-> {}] /\ revoked = [n \in Nodes |-> {}]
    /\ rebuilds = [n \in Nodes |-> 0]
    /\ msgs = {}

-----------------------------------------------------------------------------
(* The singletons, and revoke_serial *)

\* get_gossip: the first caller's node_id stays.
GetGossip(n, id) == name' = [name EXCEPT ![n] = IF @ = NoName THEN id ELSE @]

\* Mutant: the serial goes to the filter alone.
MutantMarkRevoked(n, new) == UNCHANGED revoked

\* mark_revoked, for each of the new serials.
MarkRevoked(n, new) == revoked' = [revoked EXCEPT ![n] = @ \cup new]

\* Mutant: one rebuild after the other.
MutantInsertAll(n, new) ==
    \E lost \in SUBSET (filter[n] \cup new) :
       /\ filter' = [filter EXCEPT ![n] = (@ \cup new) \ lost]
       /\ rebuilds' = [rebuilds EXCEPT ![n] = @ + 1]

\* CuckooFilter.insert: a rebuild may drop entries, of any serial but the last.
InsertAll(n, new) ==
    \/ /\ filter' = [filter EXCEPT ![n] = @ \cup new]
       /\ UNCHANGED rebuilds
    \/ \E last \in new : \E lost \in SUBSET ((filter[n] \cup new) \ {last}) :
          /\ lost # {} /\ rebuilds[n] < MaxRebuilds
          /\ filter' = [filter EXCEPT ![n] = (@ \cup new) \ lost]
          /\ rebuilds' = [rebuilds EXCEPT ![n] = @ + 1]

\* revoke_serial, serial by serial, as the callers that have a list of them do.
RevokeSerials(n, new) ==
    /\ InsertAll(n, new)
    /\ IF new = {} THEN UNCHANGED <<name, revoked>>
       ELSE GetGossip(n, Default) /\ MarkRevoked(n, new)

\* check_revoked, which the verification of a credential asks.
CheckRevoked(n, s) == s \in filter[n]

\* The application revokes a credential, whether or not its server runs.
Revoke(n, s) ==
    /\ <<n, s>> \in Origins
    /\ RevokeSerials(n, {s})
    /\ UNCHANGED <<life, listening, looping, peers, trusted, msgs>>

\* CONTROL_REVOKE_NOTIFY on a connection of a server; a client's dispatcher has
\* no case for the frame.
Notice(n, new) ==
    /\ listening[n] /\ {n} \X new \subseteq Origins
    /\ RevokeSerials(n, new)
    /\ UNCHANGED <<life, listening, looping, peers, trusted, msgs>>

-----------------------------------------------------------------------------
(* Configuration, by the application or the operator *)

AddPeer(n, m) ==
    /\ <<n, m>> \in Topology
    /\ GetGossip(n, Default)
    /\ peers' = [peers EXCEPT ![n] = @ \cup {m}]
    /\ UNCHANGED <<life, listening, looping, trusted, filter, revoked, rebuilds, msgs>>

RemovePeer(n, m) ==
    /\ m \in peers[n]
    /\ peers' = [peers EXCEPT ![n] = @ \ {m}]
    /\ UNCHANGED <<life, name, listening, looping, trusted, filter, revoked, rebuilds, msgs>>

\* trust_gossip_peer and load_trusted_peers: a key that the node has or had, under
\* the node_id of its server.
TrustGossipPeer(m, n, k) ==
    /\ <<m, n>> \in Pinnable /\ k <= life[n]
    /\ GetGossip(m, Default)
    /\ trusted' = [trusted EXCEPT ![m][n] = k]
    /\ UNCHANGED <<life, listening, looping, peers, filter, revoked, rebuilds, msgs>>

-----------------------------------------------------------------------------
(* The processes *)

\* Mutant: a server that is started makes its singletons anew.
MutantStartServer(n, bound) ==
    /\ ~ looping[n]
    /\ name' = [name EXCEPT ![n] = n]
    /\ revoked' = [revoked EXCEPT ![n] = {}]
    /\ looping' = [looping EXCEPT ![n] = TRUE]
    /\ listening' = [listening EXCEPT ![n] = bound]
    /\ UNCHANGED <<life, peers, trusted, filter, rebuilds, msgs>>

\* ATPServer.start: gossip_loop and GossipServer.start become tasks.  If the port
\* is taken, the exception stays in the task and the server runs without it.
StartServer(n, bound) ==
    /\ ~ looping[n]
    /\ GetGossip(n, n)
    /\ looping' = [looping EXCEPT ![n] = TRUE]
    /\ listening' = [listening EXCEPT ![n] = bound]
    /\ UNCHANGED <<life, peers, trusted, filter, revoked, rebuilds, msgs>>

\* The server is stopped in a process that goes on.
StopServer(n) ==
    /\ looping[n] /\ n \in Unsteady
    /\ looping' = [looping EXCEPT ![n] = FALSE]
    /\ listening' = [listening EXCEPT ![n] = FALSE]
    /\ UNCHANGED <<life, name, peers, trusted, filter, revoked, rebuilds, msgs>>

\* The process ends, and another one begins with nothing.
Restart(n) ==
    /\ n \in Unsteady /\ life[n] < MaxLives
    /\ life' = [life EXCEPT ![n] = @ + 1]
    /\ name' = [name EXCEPT ![n] = NoName]
    /\ listening' = [listening EXCEPT ![n] = FALSE]
    /\ looping' = [looping EXCEPT ![n] = FALSE]
    /\ peers' = [peers EXCEPT ![n] = {}]
    /\ trusted' = [trusted EXCEPT ![n] = [m \in Nodes |-> 0]]
    /\ filter' = [filter EXCEPT ![n] = {}] /\ revoked' = [revoked EXCEPT ![n] = {}]
    /\ rebuilds' = [rebuilds EXCEPT ![n] = 0]
    /\ msgs' = {p \in msgs : p.to # n}

-----------------------------------------------------------------------------
(* Rounds *)

\* The peers a round may send to: as many as there are, at most Fanout.
Samples(n) ==
    {T \in SUBSET peers[n] :
        \/ T = peers[n] /\ Cardinality(T) <= Fanout
        \/ Cardinality(T) = Fanout}

Payload(n, m) ==
    [to |-> m, name |-> name[n], from |-> n, key |-> life[n], serials |-> revoked[n]]

InFlight(n, m) == Cardinality({p \in msgs : p.from = n /\ p.to = m})

\* gossip_round: those of the targets that listen may be reached; from the others,
\* and from those that do not answer in time, there is an exception, and the round
\* goes on to the next.
GossipRound(n, reached) ==
    /\ looping[n] /\ revoked[n] # {}
    /\ \E T \in Samples(n) : reached \subseteq {m \in T : listening[m]}
    /\ \A m \in reached : InFlight(n, m) < MaxInFlight
    /\ msgs' = msgs \cup {Payload(n, m) : m \in reached}
    /\ UNCHANGED <<life, name, listening, looping, peers, trusted, filter, revoked, rebuilds>>

\* Mutant: who is not pinned is not heard.
MutantRefuses(m, id, k) == id \in Nodes /\ trusted[m][id] # k

\* A pinned node_id whose payload has another key than the pinned one.
Refuses(m, id, k) == id \in Nodes /\ trusted[m][id] \notin {0, k}

\* _on_gossip_connect: the payload is read, its signature checked, and every
\* serial in it revoked here too.
Receive(p) ==
    /\ p \in msgs /\ listening[p.to]
    /\ msgs' = msgs \ {p}
    /\ IF Refuses(p.to, p.name, p.key)
       THEN UNCHANGED <<name, filter, revoked, rebuilds>>
       ELSE RevokeSerials(p.to, p.serials)
    /\ UNCHANGED <<life, listening, looping, peers, trusted>>

\* A payload that does not arrive in time, or not whole, is dropped.
Lose(p) ==
    /\ p \in msgs
    /\ msgs' = msgs \ {p}
    /\ UNCHANGED <<life, name, listening, looping, peers, trusted, filter, revoked, rebuilds>>

-----------------------------------------------------------------------------
Next ==
    \/ \E n \in Nodes :
          \/ \E s \in Serials : Revoke(n, s)
          \/ \E new \in SUBSET Serials : Notice(n, new)
          \/ \E m \in Nodes : \/ AddPeer(n, m) \/ RemovePeer(n, m)
                              \/ \E k \in Lives : TrustGossipPeer(n, m, k)
          \/ \E bound \in BOOLEAN : StartServer(n, bound)
          \/ StopServer(n) \/ Restart(n)
          \/ \E reached \in SUBSET peers[n] : GossipRound(n, reached)
    \/ \E p \in msgs : Receive(p) \/ Lose(p)

Spec == Init /\ [][Next]_vars

Reaches(n, m) == \E reached \in SUBSET peers[n] : m \in reached /\ GossipRound(n, reached)
Hears(n, m) == \E p \in msgs : p.from = n /\ p.to = m /\ Receive(p)

\* The loop samples at random, so that every peer has its turn; not every
\* connection to it fails.
Fairness ==
    \A pair \in Topology : WF_vars(Reaches(pair[1], pair[2])) /\ SF_vars(Hears(pair[1], pair[2]))

FairSpec == Spec /\ Fairness

-----------------------------------------------------------------------------
(* Properties *)

\* A credential the filter finds is one this process tells its peers about:
\* whatever path a serial came by, revoke_serial keeps the two sets in step.
FoundAreGossiped == \A n \in Nodes : \A s \in Serials : CheckRevoked(n, s) => s \in revoked[n]

\* What a process has revoked it goes on gossiping as long as it lives, also when
\* its server is stopped and started again (the singleton behind get_gossip).
KeptForLife ==
    [][\A n \in Nodes : life'[n] = life[n] => revoked[n] \subseteq revoked'[n]]_vars

\* While gossip runs from n to m, m finds each serial that n has revoked, in the end:
\* over connections that fail, and again after m's filter has dropped it.  It does
\* not when m has pinned a key of n's that is not that of n's present process.
Spreads ==
    \A pair \in Topology : \A s \in Serials :
        LET n == pair[1]
            m == pair[2] IN
        s \in revoked[n] /\ m \in peers[n] ~>
            \/ CheckRevoked(m, s)
            \/ ~ looping[n] \/ ~ listening[m] \/ m \notin peers[n]
            \/ trusted[m][n] \notin {0, life[n]}

=============================================================================
