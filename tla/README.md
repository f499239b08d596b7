# A TLA+ model of the ATP agent

This directory is a verification project for the Python implementation of the
Agent Trust Protocol in `src/`: TLA+ modules translated from the code, TLC
configurations that check them on small instances, and proofs checked by TLAPS.
`PROJECT.json` holds the machine-readable side: components, runs, mutants, the
lines each definition stands for, findings, hazards and theorems.

    cd tla
    tlc -workers 2 -config MCHandshake.cfg MCHandshake
    tlapm HandshakeProofs.tla

## 1. The system

An ATP process is an `ATPAgent` (agent.py) with an identity (an Ed25519 signing
key and an X25519 key), a credential (MCC) issued by an authority, and a root
store of authorities it trusts. It is a client or a server, or both in one process:
dashboard.py (58, 104) runs a server thread and a client thread, each with an
event loop, over one root store. Frames are CBOR, over TCP with mutual TLS or QUIC.

| component | state it keeps | operations | interacts with |
|---|---|---|---|
| handshake (agent.py, agent_io.py, agent_crypto.py, client.py, server.py, atp_quic.py) | per connection: phase, peer credential, nonces, ephemeral keys, `bound`; per process: the root store | `_client_handshake`, `_server_handshake`, `_verify_peer`, `_setup_e2e`, `connect`, `_handle_client` | root store (lookup, TOFU pin), revocation filter, TLS set-up |
| task session (agent.py, agent_task.py, agent_io.py, atp_core.py) | client: `_pending_responses`, the frame reader task, the read buffer; server: `_current_task`, background jobs | `send_task`, `_frame_reader_loop`, `_dispatch_frame`, `handle_task_loop`, `_handle_task_request`, TASK_CANCEL, PING/PONG | both ends over one connection; rate limiter; monitor |
| root store, JSON (revocation.py 235-413) | authorities, seen nonces, latest versions, the file | `add_authority`, `get_authority`, `chain_add`, `_save`, `_load` | handshake (pins), pushes of manifests |
| root store, SQLite (revocation_sqlite.py) | three tables | the same | other processes on the same file |
| revocation filter (revocation.py 37-219) | buckets of fingerprints | `insert`, `contains`, `remove`, `_resize` | gossip inserts, handshakes look up |
| gossip (revocation.py 480-926) | per process: `_peers`, `_trusted_peers`, `_revoked_serials`, a signing key | `gossip_round`, `_on_gossip_connect`, `revoke_serial`, `trust_gossip_peer` | filter, CONTROL_REVOKE_NOTIFY, the server that starts it |
| federation (federation.py, agent.py 648-754, agent_task.py 212-264) | `_peers`, `_outbound_pool` | peer lists, heartbeats, pruning, TASK_FORWARD | task session, clients of its own |
| server lifecycle (server.py, production.py, atp_quic.py, sdk/atp_sdk/server.py) | listeners, connections, `ConnectionLimiter`, drain state, health, certificate | start, stop, accept, `GracefulShutdown`, `CertRotator`, `reload_ssl` | asyncio servers, starts the loops of gossip and federation |
| circuit breaker, limiters, anti-replay (production.py, config.py) | counters, windows, seen ids | `allow`, `record_failure`, `check` | server, task session |
| credentials (atp_core.py, authority.py, agent_tls.py) | the key file of the authority, the two of the CA | `sign_mcc`, `MCC.verify`, `_load_or_create_keypair`, `_ensure_ca` | handshake, TLS set-up, other processes on the same files |
| monitor, degradation policy, key exchange, tunnels, dashboard, tests | see PROJECT.json | | |

What is hard about it, and what each part has to get right:

- **handshake**: two coroutines, each of which may fail, be cancelled, time out
  or lose its connection at every await, and several of them share a root store
  that TOFU writes to. Authentication must be mutual, both must derive one key,
  neither may wait for ever, and trust on first use must be trust in one key.
- **task session**: any number of `send_task` coroutines, one frame reader, a
  request loop and one asyncio task per request, with deadlines, cancels, skewed
  clocks, rate limits and broken connections. A call must be answered with the result
  of its own task; a task must be run at most once and replied to once; a
  call on a working connection must return without its deadline.
- **root stores**: verification outside the lock, commitment inside (JSON), or reads
  outside the transaction that writes (SQLite); crashes anywhere. A manifest must
  not be accepted twice, versions must not roll back, what was acknowledged must
  be on disk.
- **revocation filter**: evictions and rebuilds; an accepted revocation must be
  found afterwards.
- **gossip**: nothing is acknowledged, connections fail, processes end. What a
  process finds revoked it must also pass on, and that must reach its peers.
- **federation**: every merge, heartbeat and forward is a task of its own. A live
  peer must stay, a dead one must go although the loop that prunes also sends to every
  client, and connections must be shared.
- **server lifecycle**: rotation, stops, other starts and connections that stay
  meet in any order. Slots must be given back once, the server must stay reachable
  until it is stopped, and a stop must come to its end.
- **credentials**: files created without a lock by processes that may end in between,
  and reads and writes whose failure is only logged.
  One installation must have one authority key and one CA, and what it signed must be
  accepted exactly as it was signed.

## 2. Modules

| module | models | uses |
|---|---|---|
| `Handshake` | the five-phase handshake over several connections of two processes | |
| `HandshakeProofs` | theorems about it | `Handshake`, TLAPS |
| `TaskService` | abstract: what sending a task promises | |
| `TaskSession` | the client and server of one bound connection | `TaskService` by `INSTANCE ... WITH` |
| `TaskSessionProofs` | theorems about both | `TaskSession`, TLAPS |
| `Manifests` | authority-chain manifests and their verification | |
| `RootStore` | the JSON store, its threads, its file; the properties of both stores | `Manifests` |
| `RootStoreSqlite` | the SQLite store and the processes on it | `Manifests` |
| `RootStores` | the store a process has, by ROOT_STORE_BACKEND | `RootStore`, `RootStoreSqlite` by `INSTANCE ... WITH` |
| `RootStoresProofs` | theorems about both stores | `RootStores`, TLAPS |
| `CuckooFilter` | insertion and rebuilding of the revocation filter | |
| `CuckooFilterProofs` | theorems about it | `CuckooFilter`, TLAPS |
| `Gossip` | revocations on several nodes and how they spread | |
| `GossipProofs` | theorems about it | `Gossip`, TLAPS |
| `Federation` | the routing table and the outbound pool of one server | |
| `FederationProofs` | theorems about it | `Federation`, TLAPS |
| `Server` | five kinds of server, from start to stop | |
| `ServerProofs` | theorems about it | `Server`, TLAPS |
| `ClaimCards` | making and verifying a Merkle-Claim Card | |
| `Credentials` | the keys of an installation and a card on its way | `ClaimCards` |
| `CredentialsProofs` | theorems about the keys of an installation and about cards | `Credentials`, TLAPS |
| `MC*` | the instances TLC checks | |

In every module an action is what the code does between two awaits that can
suspend, or while it holds a lock. Operators named `Mutant...` are the plausible
faults that `PROJECT.json` pairs with each property: with one in place of the
definition after it, the property fails under the run's own configuration.

### Handshake

`iState[c]` and `rState[c]` are named for the frame each side awaits; `toI` and
`toR` are the queues of frames of each connection. `setup`, chosen in the initial state,
says which process is at which end of which connection, with what credential, root store
and trust mode. A process may be the initiator of some connections and the responder of
others; each role is a thread, which does nothing else between looking an authority up
and its next await (`IThreadFree`, `RThreadFree`), while the other thread of the process may.
`pins` and `expired` are the root stores: `Lookup` is `get_authority`, which hides an
expired entry, and `AddAuthority` is `add_authority`, which leaves an entry with the same
key as it is, expired or not, and replaces any other. `iTrusted[c]` and `rTrusted[c]` are
the key that was found, and then the one the peer's credential was checked with.
`disturbed` is history: authorities of which an entry expired or that the two
threads of a process looked up at once.

A credential is the authority it names, the key that really signed it, and whether it is
still valid (expiry and revocation together). Signatures are records of what they cover
(nonce and ephemeral key); `ConfirmAccepted` compares them the way agent.py:1282 does.

| code | actions |
|---|---|
| `_client_handshake` phases 1-4 | `SendPropose`, `SendBindRequest`, `LookUpResponder`, `SendBindConfirm`, `RefuseBindResponse`, `SendCapabilities`, `FinishInitiator`, `InitiatorMisreads` |
| `_server_handshake` | `SendVersionAck`, `LookUpInitiator`, `AcceptBindRequest`, `SendBindResponse`, `RefuseBindRequest`, `AcceptConfirm`, `RefuseConfirm`, `FinishResponder`, `ResponderMisreads` |
| an entry of a root store expires | `Expire` |
| timers, `QUICClient.connect` cancelling, closing, losing the transport | `InitiatorAborts`, `ResponderAborts`, `InitiatorCancelled`, `CloseInitiator`, `CloseResponder`, `LoseConnection` |

There are three kinds of initiator. `agent` is agent.py, whose confirm the
responder of the same code always refuses (the first divergence of section 6); if it were the only kind,
nothing could be said of what comes after the confirm. `interop` is an initiator that
signs what the responder verifies, and `static` one that has no ephemeral key,
for which `_setup_e2e` has its fallback. Manifests that replace an authority's key while
handshakes run are part of `RootStore`, not of this module.

### TaskSession

`call[t]` is where `send_task` is for task `t`, `pending` and `answer` are
`_pending_responses` and its futures, `reader` and `bufClosed` the shared frame
reader; `server` is `handle_task_loop`, `job[t]` the asyncio task of a request,
`slot` is `_current_task`. `replies` and `asked` are history.

agent_task.py:78-83 makes one byte string of whatever a handler returns, so this
server writes one response frame (`Chunks = 1`). The client is written for more
(agent.py:476-500); with `Chunks = 2` the server is one of another implementation
that streams.

Outside the session: payloads, the keepalive ping (its pong is consumed by the
reader and changes nothing here), and encryption of frames. The reader's own
30 s timer wins over the inner one, so an idle reader goes on (`ReaderIdles`);
the server's loop has no outer timer and 30 s of silence end it even with jobs in
progress (`ServerReadsNone` without `ServerAtEof`).

### TaskService

For each task, what its caller knows (`new`, `asked`, `ok`, `error`, `unknown`) and what
has become of the work (`none`, `refused`, `begun`, `done`, `failed`, `dropped`).
A task begins at most once; `ok` is learned only when the work is done and `error`
only when there is no result; a caller may always give up. `TaskSession` maps
`call` to the one (`Outcome`) and `job`, `sent` and `replies` to the other
(`Work`).

### RootStore, RootStoreSqlite and RootStores

`RootStore`: `VerifyManifest` is the part of `chain_add` outside the lock,
`AcceptManifest`/`RejectManifest` the part inside; `BeginSave` truncates the file
and `FinishSave` ends with it whole, or with the exception the code swallows;
`Restart` may come anywhere. `RootStoreSqlite`: `VerifyManifest`, `CheckNonce` and
`CheckVersion` are the SELECTs, `Commit` is the transaction, `Restart` kills a
process between any two. Time is the age of a manifest (fresh, stale, old) and the
expiry of entries. `told` (what callers have been told is trusted), `failed` (a save
was cut short), `accepts` and `highest` are history. In the JSON store
`accepts` and `highest` begin anew with each process, because the code forgets
nonces and versions too.

### CuckooFilter

An item has a first bucket, a fingerprint and a mask (the hash of the fingerprint).
`Place`, `StartKicks`, `Kick`, `GiveUp` are `insert`; `Resize`, `Reinsert` and
`RetryInsert` are `_resize` and the call that follows it. The hash function is
chosen in the initial state, so TLC covers every assignment of the hashes to items.

### Gossip

`filter[n]` is what `check_revoked` finds at node n, `revoked[n]` is
`_revoked_serials`, `life[n]` counts its processes, and the key of a process is that
number. `InsertAll` takes from `CuckooFilter` only what matters here: a
rebuild may drop serials. `GossipRound` sends to a random sample, `Receive` is
`_on_gossip_connect`, `Notice` the frame, `Revoke` the application.

### Federation

`known` and `peer` are the dictionary `_peers` with its order; `merges` are the tasks
that `add_or_update_peer` runs in; `forward[f]` is one `forward_task_to_peer`
from the frame that asks for it to the frame it sends; `pool[a]` and `conn[c]` are the
outbound pool and the clients made for it. `loop` is the heartbeat loop: it prunes
(`Prune`), sends to each client in turn (`HeartbeatsSent`), and is `held` while a client
that keeps its connection does not read (`ClientHolds`), since nothing bounds the drain
(federation.py:279, atp_core.py:470-474).

### Server

A gen is one asyncio server (or QUIC endpoint): `reload_ssl` and another start make a
new one. `server[g]` is its listener and `task[g]` the coroutine in its
`serve_forever`. `stopper` is how far `stop()` has come. The constants of the
environment, `waits` (Python 3.12 and later wait for connections in `wait_closed`)
and `shared` (two sockets may listen at one address), are chosen in the initial
state. `Accept`, `HandshakeOk`, `HandlerEnds` and `ConnectionClosed` are the
parts of `_on_connect`.

### ClaimCards and Credentials

A hash is a tuple of what went into it, and a signature the key that made it with
what it covers, so that a card is forged by nobody and equal hashes mean equal trees.
`Root` sorts and pads as `_build_merkle_tree` does; `ByPlace`, by which leaves and masks are
sorted, counts for each entry those before it. `Credentials` interleaves
processes that create or read the files, and takes one card from `Sign` over
`Change` to every process that may verify it. A file that cannot be read is made anew
(`KeyUnreadable`, `CaUnreadable`), and what cannot be written is used from memory
(`KeyNotWritten`, `CaNotWritten`), which `unsaved` tells of each process; the file is then
unchanged or empty. `disturbed` tells when keys were made beside another process, when a
file that holds a key could not be read, and when the CA's key was left empty: what the
code then does is in section 6, and promises nothing of the files.

## 3. What TLC checks

| run | instance | shows |
|---|---|---|
| `handshake` | 2 connections between 2 or 3 processes, of which one may have both roles, 1 authority, 2 keys, 4 contents of the root stores, which expire; timers, loss and cancellation on one connection (260 000 states) | `MutualAuthentication`, `OneKeyPerAuthority`, `KeyAgreement`, `NoMutualWait`, `EveryHandshakeReturns` |
| `task_calls` | 2 calls, every fault on (361 000) | `OkIsOwnResult`, `OneReply`, `JobsReply`, refinement of `TaskService`, `EveryCallReturns` |
| `task_streaming` | 2 calls, 2 frames each (152 000) | `NothingLeftPending`, `TakenOnce`, `StreamsReturn` |
| `rootstores` | both stores; 2 threads or 1 process, 3 manifests, failing saves, expiry, kills (456 000) | `AcceptedOnce`, `NoRollback`, `AddedIsTrusted`, `AcceptedIsPersisted`, `PersistedTrustSurvives` |
| `cuckoo` | 3 serials, every hash assignment, 3 insertions each (706 000) | `EntriesInPlace`, `NothingForgotten`, `AcceptedAreFound` |
| `gossip` | 2 nodes, 2 serials, a server that stops, a process that ends, a filter that drops (109 000) | `FoundAreGossiped`, `KeptForLife`, `Spreads` |
| `federation` | 3 peers, a table for 2, 2 forwards, a loop that clients hold up (436 000) | `LiveStay`, `DeadAreRemoved`, `FewConnections` |
| `server` | 5 kinds, 3 clients, 2 slots, 2 gens, 2 calls of the model at a time (900 000) | `SlotsMatch`, `StaysReachable`, `StopReturns`, `FailureReopens` |
| `credentials` | 2 processes, 2 requests, 2 ends or failing reads or writes, 1 card and every change of one entry (644 000, up to exchanging the processes) | `OneInstallation`, `KeyIsForever`, `SignedAreAccepted` |
| `tls_binding`, `server_signal`, `federation_forward` | one property each | the findings of section 5 |

Each module has its `TypeOK` among the properties of one of its runs, but for the
filter and the credentials, whose shape the other properties would already betray.

Why the bounds are enough to be interesting:

- Two connections are what it takes for one handshake to pin a key between the
  lookup and the pin of another; more would repeat that. One agent calls a server twice,
  two agents call it, or a process with a server and a client thread (the dashboard) is
  called by one and calls another. Faults are confined to one connection, so that the
  liveness of the other is shown not to need its timers. Two keys under one authority
  name are a name collision or a rotated key.
- Two calls make the shared reader, the shared buffer and the single
  `_current_task` slot contended. One chunk more than one is enough to have a
  partial frame and a last one.
- Two threads hold the same manifest verified; the manifests are two versions of
  one grant, of which the second replaces the signer's own key, and one that has no
  version and only its nonce to protect it. `MaxAccepts = 2` lets a second
  acceptance happen. `MaxNonces` is large enough never to be reached: the clearing
  of the set beyond 10 000 is a divergence of section 6.
- Two slots a bucket, one to four buckets and two kicks: three serials overflow,
  evict in circles, give up and rebuild. Doubling stops at `MaxBuckets`, which
  stands for the bits of a hash; the code has no such stop, and what that means is
  a divergence of section 6.
- Two nodes make a round whose only peer fails, a serial that comes back to where it
  was revoked, and a key pinned for an earlier process. One dropping rebuild shows
  that the next round repairs the filter.
- A table for two and three peers make the table full with a dead entry, with live
  ones, and with one whose discoverer was dropped. Two forwards race for one pool
  entry. `MaxHops` cuts off distances that count upwards (section 6).
- Two slots and three clients fill the limiter; one attempt per window makes the
  handshake limiter refuse while slots are free; two gens are one reload or one
  restart. Two failures open the circuit, and of two calls that
  are let in at a time one may be from before it opened.
- Two processes, three keys and two mishaps (`MaxMishaps`), each of which ends a process
  or fails a read or a write: a process ends in the middle of creating a file and another
  one goes on, or one holds a key in memory only and another one makes the file. Three
  keys are one authority key, one CA and one that replaces either. The card's changes are every single one there is.

`CHECK_DEADLOCK` is off for `server`, which really ends, and for `credentials`, where the
bounds end a behaviour. `Settled`, `Quiet` and `Done` are the stuttering steps of a
system that has finished.

### Fairness

- `Handshake!FairSpec`: weak fairness of each side of each connection, that is, the event
  loop resumes a coroutine whose frame (or end of stream) has arrived, and of the
  responder's timer where there are timers (`asyncio.wait_for` in `_read_frame`). No
  timer of an initiator, no cancellation and no loss is required to happen, so
  `EveryHandshakeReturns` on the connection without timers rests on frames and
  closing alone. The responder's timer is needed for one case: `QUICClient.connect`
  cancels the handshake without sending or closing anything.
- `TaskSession!FairSpec`: weak fairness of the reader, of the request loop, of the
  rest of each call and of each job (handlers return). Deadlines, idle timers,
  cancels, closing and loss are never required: `EveryCallReturns` says that a
  call does not need its deadline as long as the connection is open.
- `Gossip!FairSpec`: weak fairness of "a round reaches this peer" (the loop samples at
  random, and a peer is reached again and again while it listens), strong fairness of
  "what was sent is heard" (not every connection fails). Nobody has to start,
  restart, revoke or pin.
- `Federation!FairSpec`: weak fairness of the two steps of the heartbeat loop, which
  catches every exception. Nothing requires a client that does not read to read again:
  `DeadAreRemoved` promises nothing while one holds the loop up.
- `Server!FairSpec`: the event loop resumes what is ready, timeouts expire, and
  `close_async` ends. Clients may stay for ever.
- The stores, the filter and the credentials are checked for safety only.

## 4. What is proved

`HandshakeProofs` proves, for any sets of connections, processes, authorities, keys,
credentials, set-ups, timers and losses that satisfy the named assumptions of
`Handshake` (`KeysAssumption`, `MccsAssumption`, `SetupsAssumption`, `ChoicesAssumption`):

- `TypeCorrect`: `Spec => []TypeOK`, inductive once it is known that a side that is deciding
  on its peer has the peer's frame (`Reading`); one step for each action, over lemmas
  about frames and queues.
- `AuthenticationIsMutual`: `Spec => []MutualAuthentication`. The property speaks
  of a responder past the confirm and says nothing of how it got there, so it is not
  inductive. `AuthInv` adds that a confirm in flight was sent by an initiator
  that has verified the responder (`ConfirmsInFlight`) and that a responder that awaits the
  confirm has verified the initiator (`ResponderVerified`), each under the key in
  `iTrusted` and `rTrusted`, which no other handshake of the process writes.
- `PeersShareAKey`: `Spec => []OneKeyPerAuthority`. `PinInv` says that what a thread has found
  is still what the store holds when it pins (`FoundIsHeld`): one thread of a process is
  between a lookup and its pin on one connection only (`OneAtATime`), and where the other
  thread is there too, for the same authority, `disturbed` has noted it (`OverlapsNoted`),
  as it has every expiry (`ExpiriesNoted`). Under strict trust nothing is ever pinned.
- `KeysAgree`: `Spec => []KeyAgreement`, by `KeyInv`: a bind request in flight
  carries the initiator's ephemeral key (`EphsToR`), a bind response the
  responder's (`EphsToI`), and a side that has read its peer's frame holds it
  (`EphsHeld`).
- `NobodyWaitsForever`: `Spec => []NoMutualWait`. `InTurn` says of the two states and the two
  queues of a connection whose turn it is: either a side is to move and nothing is on its
  way, or one frame is. Every step that leaves both sides under way leads to the next turn,
  so both waiting with both queues empty is no turn at all.

`RootStoresProofs` speaks of both backends, for any authorities, keys, manifests, threads
and processes under `ManifestsAssumption` and `MaxAcceptsAssumption`:

- `TypesCorrect`: `StoresSpec => []StoresTypeOK`, inductive once it is known that a
  process in `chain_add` has a manifest (`AtWork`).
- `TrustKept`, `AcceptedPersisted` and `TrustSurvives` are `AddedIsTrusted`,
  `AcceptedIsPersisted` and `PersistedTrustSurvives`, by `SavedInv`: the first two, and that
  what is in force has a key, in the table, in the file, and in both while saves
  succeed (`Lasting`). A restart in the middle of a save sets `failed`; any other one
  loads a file that is the table.
- `VersionsRise`: `OneProcess => (StoresSpec => NoRollback)`, by `VersionsInv`: the version table
  is the history, and what a process that is about to commit has read is still in it. That
  nobody else commits in between is what `OneProcess` says; the JSON store checks
  and writes under one lock and needs no such condition.
- `OnceAccepted`: `StoresSpec => []AcceptedOnce` under four named conditions: one process; fewer
  nonces than the JSON store's limit (`NoncesFit`), for at the limit it forgets them all; a
  nonce belongs to one manifest (`NoncesAreOwn`); and that manifest has a date
  (`NoncesAreDated`), for the SQLite store forgets a nonce after an hour. `NoncesInv`
  says that an accepted manifest has left its nonce or is too old to be verified, and
  that a process past the nonce check has a manifest nobody has accepted.

`CuckooFilterProofs`, for any numbers of buckets, slots, items and inserts and any hash
function (under `SizesAssumption`, by which the sizes are powers of 2, and `HashesAssumption`):
`AllInPlace` (`EntriesInPlace`), `NoneForgotten` (`NothingForgotten`) and `AcceptedFound`
(`AcceptedAreFound`), by `FilterInv`:

- an entry is in its first bucket or in the other one. A kick puts what it takes out of one
  bucket into the other, which is the same relation seen from there because
  exclusive or undone by itself is nothing (`XorBack`); that it stays below the
  number of buckets needs that number to be a power of 2 (`XorBound`). After a doubling
  all entries are inserted again, so the invariant is about one table at a time;
- for every item, its copies in the table, in the list to be inserted again and in hand,
  with those a rebuild has dropped, are the inserts begun (`Counted`). A step moves a
  copy from one of these to another; `EntriesAreAll`, a theorem of its own, says that
  the list a rebuild starts from holds each entry as often as the table does;
- the bucket from which an entry is evicted is full and is one of the two of the entry that
  is put there (`EvictsFromFull`), so that there is one to evict.

`FederationProofs`, for any peers, addresses, lists, clients and forwards
(`PeersAssumption`, by which the forwards are finitely many, and `NumbersAssumption`):
`TypesCorrect`, `LivePeersStay` (`LiveStay`) and `ConnectionsBounded` (`FewConnections`). `TypeOK` includes that the table's order and its
records name the same peers, each once; that pruning keeps it so is a fact about
`Within`, which leaves out of a list what is not in a set. `PoolInv` is what bounds the
connections: an address whose pool entry is empty has none, nothing is ever taken out of the
pool, and so a connection to an address is made only by a forward that found
nothing there before the first was made; connections and forwards that are making
one are together never more than the forwards.

`GossipProofs`, for any nodes, serials, topology, pins and losses: `TypesCorrect`;
`FoundGossiped`, `Spec => []FoundAreGossiped`, since every way a serial comes by is
`RevokeSerials`; `RevocationsKept`, `Spec => KeptForLife`. The invariant adds that a loop that runs has
a `GossipProtocol` (`LoopsAreNamed`), without which a payload would have no name.

`ServerProofs`, for any numbers of connections, slots, listeners and calls: `TypesCorrect`,
`SlotsAgree` (`SlotsMatch`), `Reachable` (`StaysReachable`), `ProbesReopen` (`FailureReopens`). `SlotsMatch` is needed for the
types too: that `release` does not lift the semaphore over its limit follows from
the connection that is being closed having a slot. `FailureReopens` is about steps; what
it rests on is `Counted`, that a circuit which is not CLOSED has counted `Threshold` failures,
whatever transitions and answers came in between.

`CredentialsProofs`, for any numbers of processes, keys and mishaps, under `FilesAssumption`,
`BoundsAssumption` and `RequestsAssumption`:

- `SharedInstallation` (`OneInstallation`) and `KeyPersists` (`KeyIsForever`). As long as
  nothing is `disturbed`, `Calm` says at each step of whoever creates them what the files
  contain, that there is one such process, and that nobody holds what is still to be written,
  but for what a process could not write and keeps to itself.
- `CardsAccepted`: `RequestsAreWhole => (Spec => []SignedAreAccepted)`. `sign_mcc` signs whatever
  it is asked to, and a card with a claim twice, with a key in its mask that nothing
  supplies, or with one key for both purposes is refused by everyone (security_test.py:121-170
  has the last two); `RequestsAreWhole` leaves these requests out.
  `create_mcc_for_identity`, the caller in the package, makes none of them, and TLC
  evaluates the condition for the requests of the run. It makes no assumption on the files:
  processes that hold another key refuse the card. The invariant, `CardInv`, says
  that what was signed is `Good` and that the card on its way carries its signature.
  `VerifiedIsSigned` goes from the signature to the claims: it binds the commitment, the
  commitment the mask (`MaskBinds`) and the root, and the root the claims (`RootBinds`).
  `SignedIsVerified` is the converse. `SignedIsGood` follows `sign_mcc` claim by claim.
- `RootBinds`: two lists of claims without a key twice have one root only if they are the same
  claims. The heights of the trees may differ: equal roots are followed down level by
  level to equal padded lists, and of these the claims are the first that are
  not repeated. There are seven keys (`KeyOrder`), hence trees of up to eight leaves; the order
  and number of the claims among them are arbitrary.

`TaskSessionProofs`, for any number of calls and any setting of the faults: `TypesCorrect`,
`PendingIsExact` (`NothingLeftPending`), `AnsweredOnce` (`OneReply`) and `JobsAnswer` (`JobsReply`). The
invariant adds that a request in flight is of a called task the server has not seen, in
flight once (`RequestsFresh`); that a cancel frame in flight has been asked for; and what a
job has written in each of its states (`JobShape`). Two more theorems assume `Chunks = 1`, a
result in one frame, which is what agent_task.py writes: `OwnResults` (`OkIsOwnResult`)
and `SessionServes`, the refinement `Spec => ImplementsService`. Their difficulty is `CancelJob`, which
writes an error after the response of a job that is done: a caller told error must
know that there is no result. `FramesTrue` says that such an error is behind its
response in the queue or that its call has been settled, and `Delivered` that a response
written on an open connection is in the queue or has arrived. With more frames a
call may return ok with the frames of another task or without its last one, and neither holds.

What recursive functions compute is proved by the least counterexample: the library's induction
theorems take an operator as a parameter, which the provers cannot instantiate, but that
every set of numbers has a least element (`LeastNumber`) follows from its theorems about
well-founded relations. With it the lists filtered by `Within`, `Xor`, the powers of 2, the
concatenation of all buckets and the leaves that `sign_mcc` collects (`Completed`) are reasoned
about for every input.

Every invariant and every action property that a run checks is proved. Only model-checked are
the liveness properties, since fairness and `ENABLED` are out of the prover's reach.

## 5. Findings

Each is a run in which TLC finds the quoted statement violated.

1. **`tls_binding`**. SPEC.md:511-512 binds the TLS certificate's key to
   `agent_sign_pk`. `make_ssl_context` and `AgentIdentity` use different key
   pairs, so over mutual TLS agents that trust each other never bind.
2. **`server_signal`**. README.md:305 and production.py:192 have SIGTERM drain and
   close. The handler (production.py:213-216) sets a flag that only
   `_on_connect` reads: the server goes on listening and refuses every client.
3. **`federation_forward`**. DOCS.md:391 has a signed TASK_FORWARD forwarded through the
   network. It is signed with the server's key (agent_task.py:245) and sent by a
   pooled client with another one, so the next server refuses it (agent.py:743). The run
   supposes that the pooled client has bound, which over mutual TLS finding 1 denies.

## 6. Other divergences met while modelling

They have no run; the properties that hold in spite of them, or only without them, are
named.

Handshake and task session:

- RFC.md:499 has both peers set `bound`. The initiator signs the responder's nonce with
  its own ephemeral key (agent.py:1396-1399), the responder verifies it with the
  responder's (1282) and refuses; the initiator takes any frame or none for the
  capabilities (1419-1423) and reports a bound connection, also when the responder has
  refused it. (`MutualAuthentication` is about the responder's side; no property covers
  the initiator's.)
- An entry of the root store that has expired is the same as none (revocation.py:336-338),
  so that trust on first use applies again: a peer that offers the old key is accepted
  although `add_authority` then does nothing (317-319) and the entry stays expired, and a
  peer that offers another key replaces it (320-324). `MutualAuthentication` therefore
  speaks of the key the peer was verified with, and `OneKeyPerAuthority` leaves such
  authorities out (`disturbed`). A key that was pinned for a peer which the TLS binding or
  its signature then refuses stays.
- A TOFU pin is looked up and added in two steps (agent.py:250-261). On one event loop
  nothing comes in between; the server thread and the client thread of dashboard.py
  (58, 104) may both find nothing and pin different keys, the second in place of the
  first. (`OneKeyPerAuthority` leaves these out too.)
- ROADMAP.md:63 has the client accumulate chunks to the last. `send_task` reads the
  connection itself (agent.py:488) while the frame reader waits in the same buffer: a
  truncated result, or one with frames of other tasks, may be reported as `ok`.
  (`OkIsOwnResult` is checked where servers answer in one frame, and `TakenOnce` bounds
  what happens elsewhere.)
- A closed connection does not wake pending calls; the "disconnected" answer of
  agent.py:441 cannot be reached and the caller waits for its deadline.
  (`EveryCallReturns` is about an open connection.) The future of a call whose request
  could not be written stays registered (agent.py:413-423), which `NothingLeftPending` says.
- TASK_CANCEL cancels the task in the single `_current_task` slot, whichever task
  it names, and the end of any job empties the slot (agent_task.py:207). A job
  cancelled before its first step never replies, one cancelled while its
  response drains replies twice (RFC.md:508-510, SDK_SPEC.md:130). (`OneReply` and
  `JobsReply` are about behaviours without a cancel.)
- A request whose timestamp is skewed ends `handle_task_loop`, and with it every
  task of the connection; RFC.md:453 and 459 end the task stream only.
- ROADMAP.md:62 has the server send a list in chunks. A handler's result never is
  one (agent_task.py:78-83); only the echo of a list payload reaches the branch, and
  with a monitor the report at agent_task.py:150 then raises, so that a TASK_ERROR follows
  a complete result.

Root stores and filter:

- JSON: nonces and versions are lost at a restart and the nonce set is emptied, not
  pruned, beyond 10 000 entries (SPEC.md:535-536). A process killed inside
  `_save` leaves a torn file and the next one trusts nobody; a save that fails
  is logged, and `chain_add` returns "accepted and persisted" (revocation.py:347).
  (`failed` keeps these apart.)
- An expired authority added again with its old key stays expired, and the caller is
  told `True`. In the SQLite store `chain_add` renews the expiry date and
  `add_authority` does not. (`told` does not count such an answer.)
- SQLite is for "concurrent multi-process access" (revocation_sqlite.py:3-4), but
  reads nonce and version outside the transaction that writes them (192-216): two
  processes accept the same manifest. With `Procs = {p1, p2}` TLC finds
  `AcceptedOnce` violated. A manifest without a date is accepted again after an hour.
- A manifest of the same version as the last one is accepted (both stores);
  `NoRollback` is about lower versions.
- SPEC.md:432 has the filter doubled up to 8192. `insert` does not look whether a
  serial is there already, gossip inserts every serial again in every round, and no
  doubling parts the copies of one serial (revocation.py:114).

Gossip:

- No code of the program calls `add_peer`, `trust_gossip_peer` or
  `load_trusted_peers`; `known_serials` is never read. The key is new in every
  process, so a peer that pinned it refuses the next process.
- A payload that is not signed (the older formats) is taken, also under a pinned
  node_id. Nothing is persisted: a process that ends forgets what it revoked.
- `gossip_loop` ends at the first exception other than those it names.

Federation:

- Each server's node_id is its agent's name, "atp-server" for all. Heartbeats and
  broadcasts go from servers to their clients, whose dispatcher ignores them.
- `cleanup_pool` has no caller, though README.md:293 has connections closed after
  300 s; a pooled client whose connection is gone counts as alive.
- The heartbeat loop sends to its clients in turn and without a timeout
  (federation.py:277-281): one that keeps its connection and does not read stops pruning
  once what is written to it no longer drains. (`DeadAreRemoved` excepts that.)
- `last_seen` is renewed by hearsay, and distances of peers that know each other only
  through each other can grow when they leave and come back.

Server:

- Readiness stays true after SIGTERM. `reload_ssl` binds the address a second time:
  on Linux it fails, and is not tried again, since the cached certificate
  has been replaced; where it succeeds it ends the `serve_forever` of
  `start(block=True)`, which returns: the new listener lives as long as the event loop
  does, which is so under the `run_forever` of dashboard.py:79 and not under an
  `asyncio.run` of `start`. (`StaysReachable` is about the listener.) Certificates last ten years. A reload beside a stop leaves a
  listener behind.
- The drain waits 15 s for loops that never end, and not for connections.
  `start(block=False)` tracks nothing, so `stop` leaves the loops of gossip and
  federation running. A stopped `ATPServer` that is started again refuses everybody.
- SPEC.md:727-728 closes the circuit at the first success; `record_success` has no
  caller. Only the handler of `ATPServer` asks `allow`.
- `SimpleATPServer.stop` "closes all connections": it closes none, and from
  Python 3.12 on waits for them (`StopReturns` leaves that case out). A start during
  such a stop is undone by it. `SyncATPServer.stop` gives up after 0.3 s and may
  leave the port bound.

Credentials:

- A key file that is whole but cannot be read, or a CA file, is made anew over the old one
  (authority.py:72-79, agent_tls.py:101-108): the processes that are running hold the old
  key, later ones the new one. A key or a CA that cannot be written is used all the same
  (authority.py:84-85, agent_tls.py:112-113), and the file is left absent, empty or as it was.
- A process that ends, or a write that fails, between the opening and the writing of the CA's
  key leaves an empty file that the next one reads as the key (agent_tls.py:93); two
  processes that start together may hold different CAs or different authority keys,
  though SPEC.md:339-340 has one CA. (`OneInstallation` and `KeyIsForever` leave out what
  `disturbed` marks, and `OneInstallation` what a process holds `unsaved`.)
- `DegradationPolicy` is asked only where the authority is unknown, and its answer is
  logged; SPEC.md:450-456 has it refuse after 24 hours. It reads `_manifest`, which
  the SQLite store does not have.

## 7. Not modelled, and the plan

Not modelled: the contents of certificates and SSL contexts, the dashboard, key exchange,
UPnP and tunnels (I/O and cryptography with little state of their own); cryptography
itself, which is taken to be sound; the contents of frames; the monitor, whose buffers no
decision reads; AntiReplay, whose refusals need two requests with one id, which no
client of the program sends; the QUIC streams of aioquic; `SimpleATPClient`, which is
one `send_task` after the other; advertisements of root stores, which grant nothing.

What is left, in this order:

1. The reader of the filter in another thread while `_resize` rebuilds it.
2. The keepalive of a connection against the idle timer of its server.
3. `TaskSession` over the connections of `Federation`: where the answer of a forwarded
   task goes.
