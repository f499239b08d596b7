------------------------------ MODULE Handshake ------------------------------
(***************************************************************************)
(* The five-phase ATP handshake of agent.py over several connections at once,*)
(* each run by an initiator (ATPAgent with is_server = False) and a responder*)
(* (is_server = True).  A process may be the initiator of some connections   *)
(* and the responder of others, each in a thread with an event loop of its   *)
(* own; all of them share its root store, in which trust-on-first-use pins   *)
(* authority keys, and whose entries expire.                                 *)
(*                                                                          *)
(* Frames travel in order on each connection.  A side that fails sends an   *)
(* ERROR frame and its caller then closes the connection; a timer            *)
(* (HANDSHAKE_TIMEOUT_S) may fail a side at any of its awaits; a connection *)
(* may be lost.  Nonces and ephemeral keys are generated once per handshake  *)
(* and are named by the role that generated them.                            *)
(***************************************************************************)
EXTENDS Naturals, Sequences

CONSTANTS
    Conns,            \* the connections
    Processes,        \* the processes at their ends
    Authorities,      \* authority ids
    Keys,             \* Ed25519 public keys of authorities
    NoKey,            \* no authority key: root store miss, or authority_pk absent
    Mccs,             \* credentials: [auth, signer, valid]
    Setups,           \* who runs which side of which connection, and with what
    Expiring,         \* the authorities whose root store entries may expire
    Timers,           \* the connections on which handshake timers may expire
    Losses            \* the connections that may be lost

Sides == {"i", "r"}

\* get_tls_peer_pk: nothing without TLS or a raw key of the peer's certificate, else
\* that key.
TlsPeerKeys == {"none", "own", "other"}

ASSUME KeysAssumption == NoKey \notin Keys
ASSUME MccsAssumption == Mccs = [auth : Authorities, signer : Keys, valid : BOOLEAN]
ASSUME SetupsAssumption ==
    Setups \subseteq
        [host : [Sides -> [Conns -> Processes]],           \* the process at each end
         kind : [Conns -> {"agent", "interop", "static"}],  \* of initiator
         mcc  : [Processes -> Mccs],                        \* its own credential
         pins : [Processes -> [Authorities -> Keys \cup {NoKey}]],  \* its root store
         mode : [Processes -> {"strict", "tofu"}],          \* trust_bootstrap_mode
         tls  : TlsPeerKeys]             \* what TLS says of the peer's key, everywhere
ASSUME ChoicesAssumption ==
    /\ Expiring \subseteq Authorities
    /\ Timers \subseteq Conns /\ Losses \subseteq Conns

VARIABLES
    setup,    \* who runs the connections; never changes
    pins,     \* RootStore of each process: authority -> key
    expired,  \* the authorities whose entry in it has expired
    iState, rState, \* where each side of a connection is
    iTrusted, rTrusted,  \* auth_pk of each side: the key its peer's credential is checked with
    iPeerEph, rPeerEph,  \* _peer_eph_pk of each side
    toI, toR,       \* frames in flight to each side, oldest first
    lost,     \* connections whose transport is gone
    disturbed \* history: the authorities of which an entry expired, or was looked up
              \* by two threads at once, in each root store

store == <<pins, expired>>
trust == <<store, disturbed, iTrusted, rTrusted>>
ephs == <<iPeerEph, rPeerEph>>
vars == <<setup, pins, expired, iState, rState, iTrusted, rTrusted,
          iPeerEph, rPeerEph, toI, toR, lost, disturbed>>

-----------------------------------------------------------------------------
IStates == {"start", "ack", "response", "looking", "announce", "caps",
            "bound", "failed", "closed", "abandoned"}
RStates == {"propose", "request", "looking", "answering", "confirm", "caps",
            "bound", "failed", "closed"}

\* The states in which a side awaits a frame.
IWaiting == {"ack", "response", "caps"}
RWaiting == {"propose", "request", "confirm", "caps"}
Finished == {"bound", "failed", "closed", "abandoned"}

Ephs == {"none", "i", "r"}

\* What a proof-of-possession signature covers: a nonce and an ephemeral key,
\* named by the role that generated them.  The signing key is agent_sign_pk of
\* the sender's own credential; the frame type separates the two domains.
Signatures == [nonce : {"none", "i", "r"}, eph : Ephs]
NoSignature == [nonce |-> "none", eph |-> "none"]

FrameTypes == {"propose", "ack", "request", "response", "confirm", "caps", "error"}
Frames == [type : FrameTypes, offered : Keys \cup {NoKey}, eph : Ephs, sig : Signatures]

Frame(type) ==
    [type |-> type, offered |-> NoKey, eph |-> "none", sig |-> NoSignature]

TypeOK ==
    /\ setup \in Setups
    /\ pins \in [Processes -> [Authorities -> Keys \cup {NoKey}]]
    /\ expired \in [Processes -> SUBSET Authorities]
    /\ iState \in [Conns -> IStates]
    /\ rState \in [Conns -> RStates]
    /\ iTrusted \in [Conns -> Keys \cup {NoKey}]
    /\ rTrusted \in [Conns -> Keys \cup {NoKey}]
    /\ iPeerEph \in [Conns -> Ephs]
    /\ rPeerEph \in [Conns -> Ephs]
    /\ toI \in [Conns -> Seq(Frames)]
    /\ toR \in [Conns -> Seq(Frames)]
    /\ lost \in SUBSET Conns
    /\ disturbed \in [Processes -> SUBSET Authorities]

Init ==
    /\ setup \in Setups
    /\ pins = setup.pins
    /\ expired = [p \in Processes |-> {}]
    /\ iState = [c \in Conns |-> "start"]
    /\ rState = [c \in Conns |-> "propose"]
    /\ iTrusted = [c \in Conns |-> NoKey]
    /\ rTrusted = [c \in Conns |-> NoKey]
    /\ iPeerEph = [c \in Conns |-> "none"]
    /\ rPeerEph = [c \in Conns |-> "none"]
    /\ toI = [c \in Conns |-> << >>]
    /\ toR = [c \in Conns |-> << >>]
    /\ lost = {}
    /\ disturbed = [p \in Processes |-> {}]

-----------------------------------------------------------------------------
\* The two ends of a connection: the process there and its own credential.
IHost(c) == setup.host["i"][c]
RHost(c) == setup.host["r"][c]
InitiatorMcc(c) == setup.mcc[IHost(c)]
ResponderMcc(c) == setup.mcc[RHost(c)]

\* A thread does nothing else between looking an authority up and the next frame
\* it sends: there is no await in between.
IThreadFree(p) == \A d \in Conns : IHost(d) = p => iState[d] # "looking"

\* Mutant: something between the lookup and the pin awaits.
MutantRThreadFree(p) == TRUE

RThreadFree(p) == \A d \in Conns : RHost(d) = p => rState[d] \notin {"looking", "answering"}

-----------------------------------------------------------------------------
\* The root store of a process.

\* get_authority: nothing for an authority that is unknown or has expired.
Lookup(p, a) == IF a \in expired[p] THEN NoKey ELSE pins[p][a]

\* Mutant: the credential is pinned in place of its authority's key.
MutantAddAuthority(p, mcc, key) ==
    /\ pins' = [pins EXCEPT ![p][mcc.auth] = mcc]
    /\ expired' = IF pins[p][mcc.auth] = key THEN expired
                  ELSE [expired EXCEPT ![p] = @ \ {mcc.auth}]

\* add_authority of the authority of a credential: nothing changes when the entry
\* has this key already, be it expired; any other entry is replaced by a fresh one.
AddAuthority(p, mcc, key) ==
    /\ pins' = [pins EXCEPT ![p][mcc.auth] = key]
    /\ expired' = IF pins[p][mcc.auth] = key THEN expired
                  ELSE [expired EXCEPT ![p] = @ \ {mcc.auth}]

\* A thread of process p has looked authority a up and not yet decided.
ILookedUp(p, a) == \E d \in Conns :
    iState[d] = "looking" /\ IHost(d) = p /\ ResponderMcc(d).auth = a
RLookedUp(p, a) == \E d \in Conns :
    rState[d] = "looking" /\ RHost(d) = p /\ InitiatorMcc(d).auth = a

\* History: a lookup while the other thread of the process has looked up the same.
Overlapping(p, a, lookedUp) ==
    IF lookedUp THEN [disturbed EXCEPT ![p] = @ \cup {a}] ELSE disturbed

\* Time passes: an entry of a root store expires.
Expire(p, a) ==
    /\ a \in Expiring \ expired[p] /\ pins[p][a] # NoKey
    /\ expired' = [expired EXCEPT ![p] = @ \cup {a}]
    /\ disturbed' = [disturbed EXCEPT ![p] = @ \cup {a}]
    /\ UNCHANGED <<setup, pins, iState, rState, iTrusted, rTrusted, ephs, toI, toR, lost>>

-----------------------------------------------------------------------------
\* Checks and derivations shared by the two roles.

\* MCC.verify under an authority key: the signature, and everything else it
\* checks of the credential (expiry, critical leaves, revocation) as one bit.
VerifyMcc(mcc, key) == mcc.valid /\ mcc.signer = key

\* Mutant: TOFU applies even when the root store knows the authority.
MutantAcceptsPeer(p, mcc, found, offered) ==
    \/ found # NoKey /\ VerifyMcc(mcc, found)
    \/ setup.mode[p] = "tofu" /\ offered # NoKey /\ VerifyMcc(mcc, offered)

\* The key found for the credential's authority decides when there is one;
\* otherwise TOFU may take the key the peer offers.
AcceptsPeer(p, mcc, found, offered) ==
    IF found # NoKey
    THEN VerifyMcc(mcc, found)
    ELSE setup.mode[p] = "tofu" /\ offered # NoKey /\ VerifyMcc(mcc, offered)

\* The root store after accepting: first use pins the offered key.
Trust(p, mcc, found, offered) ==
    IF found = NoKey THEN AddAuthority(p, mcc, offered) ELSE UNCHANGED store

\* The key an accepted credential was checked with.
TrustedKey(found, offered) == IF found # NoKey THEN found ELSE offered

\* The key a side offers for its own authority: what its root store holds, else
\* the key of the default authority, which signed its credential.
OfferedKey(p, mcc) ==
    IF Lookup(p, mcc.auth) # NoKey THEN Lookup(p, mcc.auth) ELSE mcc.signer

\* TLS-ATP binding: skipped when TLS yields no raw key, else the keys must agree.
TlsBindingHolds == setup.tls # "other"

\* Mutant: ECDHE whenever this side has an ephemeral key.
MutantSessionKey(ownEph, peerEph) ==
    IF ownEph # "none" THEN {ownEph, peerEph} ELSE {"static"}

\* The session key: ECDHE over both ephemeral keys when this side has its own
\* and the peer's, else static ECDH.  ownEph is "none" for a peer without one.
SessionKey(ownEph, peerEph) ==
    IF ownEph # "none" /\ peerEph # "none" THEN {ownEph, peerEph} ELSE {"static"}

\* agent.py always has an ephemeral key; a "static" initiator sends none.
InitiatorEph(c) == IF setup.kind[c] = "static" THEN "none" ELSE "i"

\* The ephemeral key an initiator's confirm signature covers.  agent.py signs
\* its own; the other kinds are initiators built to what the responder of
\* agent.py verifies, which is the responder's key.
ConfirmEph(c) == IF setup.kind[c] = "agent" THEN "i" ELSE "r"

-----------------------------------------------------------------------------
\* Reading: the next frame, or None once the peer is gone and nothing is left.

IHas(c, type) == toI[c] # << >> /\ Head(toI[c]).type = type
RHas(c, type) == toR[c] # << >> /\ Head(toR[c]).type = type
IGone(c) == rState[c] = "closed" \/ c \in lost
RGone(c) == iState[c] = "closed" \/ c \in lost
IReadsNone(c) == toI[c] = << >> /\ IGone(c)
RReadsNone(c) == toR[c] = << >> /\ RGone(c)

\* Sending: nothing reaches a lost connection.
Sent(queue, c, frame) ==
    IF c \in lost THEN queue ELSE [queue EXCEPT ![c] = Append(@, frame)]
IConsumed(c) == [toI EXCEPT ![c] = Tail(@)]
RConsumed(c) == [toR EXCEPT ![c] = Tail(@)]

\* What is left of a queue that is destroyed: the frame its reader has read already
\* and is looking at.
IDropped(c) == [toI EXCEPT ![c] = IF iState[c] = "looking" THEN <<Head(@)>> ELSE << >>]
RDropped(c) == [toR EXCEPT ![c] = IF rState[c] = "looking" THEN <<Head(@)>> ELSE << >>]

\* perform_handshake returns False after a best-effort ERROR frame.  The frame
\* that caused the failure, if any, has been read.
IFail(c, rest) ==
    /\ iState' = [iState EXCEPT ![c] = "failed"]
    /\ toI' = rest
    /\ toR' = Sent(toR, c, Frame("error"))
    /\ UNCHANGED <<setup, trust, rState, ephs, lost>>

RFail(c, rest) ==
    /\ rState' = [rState EXCEPT ![c] = "failed"]
    /\ toR' = rest
    /\ toI' = Sent(toI, c, Frame("error"))
    /\ UNCHANGED <<setup, trust, iState, ephs, lost>>

-----------------------------------------------------------------------------
\* The initiator (_client_handshake).

SendPropose(c) ==
    /\ iState[c] = "start"
    /\ iState' = [iState EXCEPT ![c] = "ack"]
    /\ toR' = Sent(toR, c, Frame("propose"))
    /\ UNCHANGED <<setup, trust, rState, ephs, toI, lost>>

\* VERSION_ACK read: send MCC_BIND_REQUEST.
SendBindRequest(c) ==
    /\ iState[c] = "ack" /\ IHas(c, "ack")
    /\ iState' = [iState EXCEPT ![c] = "response"]
    /\ toI' = IConsumed(c)
    /\ toR' = Sent(toR, c, [Frame("request") EXCEPT
                              !.offered = OfferedKey(IHost(c), InitiatorMcc(c)),
                              !.eph = InitiatorEph(c)])
    /\ UNCHANGED <<setup, trust, rState, ephs, lost>>

\* MCC_BIND_RESPONSE read: look the authority of its credential up.
LookUpResponder(c) ==
    /\ iState[c] = "response" /\ IHas(c, "response")
    /\ iState' = [iState EXCEPT ![c] = "looking"]
    /\ iTrusted' = [iTrusted EXCEPT ![c] = Lookup(IHost(c), ResponderMcc(c).auth)]
    /\ disturbed' = Overlapping(IHost(c), ResponderMcc(c).auth,
                                RLookedUp(IHost(c), ResponderMcc(c).auth))
    /\ UNCHANGED <<setup, store, rTrusted, rState, ephs, toI, toR, lost>>

ResponderAccepted(c) ==
    AcceptsPeer(IHost(c), ResponderMcc(c), iTrusted[c], Head(toI[c]).offered)
ResponseAccepted(c) ==
    LET f == Head(toI[c]) IN
    /\ ResponderAccepted(c)
    /\ TlsBindingHolds
    /\ f.sig = [nonce |-> "i", eph |-> f.eph]

\* The response is verified: send MCC_BIND_CONFIRM.
SendBindConfirm(c) ==
    LET f == Head(toI[c]) IN
    /\ iState[c] = "looking"
    /\ ResponseAccepted(c)
    /\ Trust(IHost(c), ResponderMcc(c), iTrusted[c], f.offered)
    /\ iTrusted' = [iTrusted EXCEPT ![c] = TrustedKey(@, f.offered)]
    /\ iPeerEph' = [iPeerEph EXCEPT ![c] = f.eph]
    /\ iState' = [iState EXCEPT ![c] = "announce"]
    /\ toI' = IConsumed(c)
    /\ toR' = Sent(toR, c, [Frame("confirm") EXCEPT
                              !.sig = [nonce |-> "r", eph |-> ConfirmEph(c)]])
    /\ UNCHANGED <<setup, disturbed, rTrusted, rState, rPeerEph, lost>>

\* A verification fails: a key pinned before the failing check stays pinned.
RefuseBindResponse(c) ==
    LET f == Head(toI[c]) IN
    /\ iState[c] = "looking"
    /\ ~ ResponseAccepted(c)
    /\ IF ResponderAccepted(c)
       THEN Trust(IHost(c), ResponderMcc(c), iTrusted[c], f.offered) ELSE UNCHANGED store
    /\ iPeerEph' = IF ResponderAccepted(c) /\ TlsBindingHolds
                   THEN [iPeerEph EXCEPT ![c] = f.eph] ELSE iPeerEph
    /\ iState' = [iState EXCEPT ![c] = "failed"]
    /\ toI' = IConsumed(c)
    /\ toR' = Sent(toR, c, Frame("error"))
    /\ UNCHANGED <<setup, disturbed, iTrusted, rTrusted, rState, rPeerEph, lost>>

\* Mutant: the client reads the server's capabilities before sending its own.
MutantSendCapabilities(c) ==
    /\ iState[c] = "announce"
    /\ iState' = [iState EXCEPT ![c] = "caps"]
    /\ UNCHANGED <<setup, trust, rState, ephs, toI, toR, lost>>

SendCapabilities(c) ==
    /\ iState[c] = "announce"
    /\ iState' = [iState EXCEPT ![c] = "caps"]
    /\ toR' = Sent(toR, c, Frame("caps"))
    /\ UNCHANGED <<setup, trust, rState, ephs, toI, lost>>

\* Whatever is read next, a frame of any type or None, the initiator is bound.
FinishInitiator(c) ==
    /\ iState[c] = "caps"
    /\ \/ toI[c] # << >> /\ toI' = IConsumed(c)
       \/ IReadsNone(c) /\ UNCHANGED toI
    /\ iState' = [iState EXCEPT ![c] = "bound"]
    /\ UNCHANGED <<setup, trust, rState, ephs, toR, lost>>

\* The wrong frame, or None, where a particular frame is required.
InitiatorMisreads(c) ==
    /\ iState[c] \in {"ack", "response"}
    /\ \/ /\ toI[c] # << >> /\ ~ IHas(c, iState[c])
          /\ IFail(c, IConsumed(c))
       \/ IReadsNone(c) /\ IFail(c, toI)

-----------------------------------------------------------------------------
\* The responder (_server_handshake).

SendVersionAck(c) ==
    /\ rState[c] = "propose" /\ RHas(c, "propose")
    /\ rState' = [rState EXCEPT ![c] = "request"]
    /\ toR' = RConsumed(c)
    /\ toI' = Sent(toI, c, Frame("ack"))
    /\ UNCHANGED <<setup, trust, iState, ephs, lost>>

\* MCC_BIND_REQUEST read: look the authority of its credential up.
LookUpInitiator(c) ==
    /\ rState[c] = "request" /\ RHas(c, "request")
    /\ rState' = [rState EXCEPT ![c] = "looking"]
    /\ rTrusted' = [rTrusted EXCEPT ![c] = Lookup(RHost(c), InitiatorMcc(c).auth)]
    /\ disturbed' = Overlapping(RHost(c), InitiatorMcc(c).auth,
                                ILookedUp(RHost(c), InitiatorMcc(c).auth))
    /\ UNCHANGED <<setup, store, iTrusted, iState, ephs, toI, toR, lost>>

InitiatorAccepted(c) ==
    AcceptsPeer(RHost(c), InitiatorMcc(c), rTrusted[c], Head(toR[c]).offered)

\* The request is verified.
AcceptBindRequest(c) ==
    LET f == Head(toR[c]) IN
    /\ rState[c] = "looking"
    /\ InitiatorAccepted(c) /\ TlsBindingHolds
    /\ Trust(RHost(c), InitiatorMcc(c), rTrusted[c], f.offered)
    /\ rTrusted' = [rTrusted EXCEPT ![c] = TrustedKey(@, f.offered)]
    /\ rPeerEph' = [rPeerEph EXCEPT ![c] = f.eph]
    /\ rState' = [rState EXCEPT ![c] = "answering"]
    /\ toR' = RConsumed(c)
    /\ UNCHANGED <<setup, disturbed, iTrusted, iState, iPeerEph, toI, lost>>

\* A credential that passes is pinned even when the TLS binding then fails.
RefuseBindRequest(c) ==
    LET f == Head(toR[c]) IN
    /\ rState[c] = "looking"
    /\ ~ (InitiatorAccepted(c) /\ TlsBindingHolds)
    /\ IF InitiatorAccepted(c)
       THEN Trust(RHost(c), InitiatorMcc(c), rTrusted[c], f.offered) ELSE UNCHANGED store
    /\ rState' = [rState EXCEPT ![c] = "failed"]
    /\ toR' = RConsumed(c)
    /\ toI' = Sent(toI, c, Frame("error"))
    /\ UNCHANGED <<setup, disturbed, iTrusted, rTrusted, iState, ephs, lost>>

\* Look the responder's own authority up and send MCC_BIND_RESPONSE.
SendBindResponse(c) ==
    /\ rState[c] = "answering"
    /\ rState' = [rState EXCEPT ![c] = "confirm"]
    /\ toI' = Sent(toI, c, [Frame("response") EXCEPT
                              !.offered = OfferedKey(RHost(c), ResponderMcc(c)),
                              !.eph = "r",
                              !.sig = [nonce |-> "i", eph |-> "r"]])
    /\ UNCHANGED <<setup, trust, iState, ephs, toR, lost>>

\* The confirm is verified over the responder's own nonce and its own eph_pk.
ConfirmAccepted(c) == Head(toR[c]).sig = [nonce |-> "r", eph |-> "r"]

AcceptConfirm(c) ==
    /\ rState[c] = "confirm" /\ RHas(c, "confirm") /\ ConfirmAccepted(c)
    /\ rState' = [rState EXCEPT ![c] = "caps"]
    /\ toR' = RConsumed(c)
    /\ UNCHANGED <<setup, trust, iState, ephs, toI, lost>>

RefuseConfirm(c) ==
    /\ rState[c] = "confirm" /\ RHas(c, "confirm") /\ ~ ConfirmAccepted(c)
    /\ RFail(c, RConsumed(c))

\* Capabilities are answered in kind; any other frame, or None, is let pass.
FinishResponder(c) ==
    /\ rState[c] = "caps"
    /\ \/ /\ toR[c] # << >>
          /\ toR' = RConsumed(c)
          /\ toI' = IF RHas(c, "caps") THEN Sent(toI, c, Frame("caps")) ELSE toI
       \/ RReadsNone(c) /\ UNCHANGED <<toI, toR>>
    /\ rState' = [rState EXCEPT ![c] = "bound"]
    /\ UNCHANGED <<setup, trust, iState, ephs, lost>>

\* Mutant: frames of another type are skipped, and None is read again.
MutantResponderMisreads(c) ==
    /\ rState[c] \in {"propose", "request", "confirm"}
    /\ \/ /\ toR[c] # << >> /\ ~ RHas(c, rState[c])
          /\ toR' = RConsumed(c)
          /\ UNCHANGED <<setup, trust, iState, rState, ephs, toI, lost>>
       \/ RReadsNone(c) /\ UNCHANGED vars

ResponderMisreads(c) ==
    /\ rState[c] \in {"propose", "request", "confirm"}
    /\ \/ /\ toR[c] # << >> /\ ~ RHas(c, rState[c])
          /\ RFail(c, RConsumed(c))
       \/ RReadsNone(c) /\ RFail(c, toR)

-----------------------------------------------------------------------------
\* The timer, the write that fails, the callers' close, the network.

\* asyncio.wait_for expires, or a write or drain raises on a broken connection.
InitiatorAborts(c) ==
    /\ c \in Timers \/ IGone(c)
    /\ IThreadFree(IHost(c))
    /\ iState[c] \in IWaiting \cup {"announce"}
    /\ IFail(c, toI)

\* QUICClient.connect puts a shorter timer around perform_handshake and cancels
\* it: no ERROR frame is sent and the stream is left open.  QUIC yields no TLS
\* key, so these are initiators of behaviours with tls = "none".
InitiatorCancelled(c) ==
    /\ c \in Timers /\ setup.tls = "none"
    /\ IThreadFree(IHost(c))
    /\ iState[c] \in IWaiting \cup {"announce"}
    /\ iState' = [iState EXCEPT ![c] = "abandoned"]
    /\ UNCHANGED <<setup, trust, rState, ephs, toI, toR, lost>>

ResponderAborts(c) ==
    /\ c \in Timers \/ RGone(c)
    /\ RThreadFree(RHost(c))
    /\ rState[c] \in RWaiting
    /\ RFail(c, toR)

\* A failed side's caller closes the connection.  Closing with frames unread
\* resets it, which may destroy what the peer has not read yet.
CloseInitiator(c) ==
    /\ iState[c] = "failed"
    /\ iState' = [iState EXCEPT ![c] = "closed"]
    /\ \/ UNCHANGED toR
       \/ toI[c] # << >> /\ toR' = RDropped(c)
    /\ toI' = [toI EXCEPT ![c] = << >>]
    /\ UNCHANGED <<setup, trust, rState, ephs, lost>>

CloseResponder(c) ==
    /\ rState[c] = "failed"
    /\ rState' = [rState EXCEPT ![c] = "closed"]
    /\ \/ UNCHANGED toI
       \/ toR[c] # << >> /\ toI' = IDropped(c)
    /\ toR' = [toR EXCEPT ![c] = << >>]
    /\ UNCHANGED <<setup, trust, iState, ephs, lost>>

\* The transport goes away with everything in flight.
LoseConnection(c) ==
    /\ c \in Losses \ lost
    /\ lost' = lost \cup {c}
    /\ toI' = IDropped(c) /\ toR' = RDropped(c)
    /\ UNCHANGED <<setup, trust, iState, rState, ephs>>

-----------------------------------------------------------------------------
Initiator(c) ==
    \/ /\ IThreadFree(IHost(c))
       /\ \/ SendPropose(c) \/ SendBindRequest(c) \/ LookUpResponder(c)
          \/ SendCapabilities(c) \/ FinishInitiator(c)
          \/ InitiatorMisreads(c) \/ CloseInitiator(c)
    \/ SendBindConfirm(c) \/ RefuseBindResponse(c)

Responder(c) ==
    \/ /\ RThreadFree(RHost(c))
       /\ \/ SendVersionAck(c) \/ LookUpInitiator(c)
          \/ AcceptConfirm(c) \/ RefuseConfirm(c) \/ FinishResponder(c)
          \/ ResponderMisreads(c) \/ CloseResponder(c)
    \/ AcceptBindRequest(c) \/ RefuseBindRequest(c) \/ SendBindResponse(c)

\* Every handshake has returned: nothing is left to do.
Settled ==
    /\ \A c \in Conns : iState[c] \in {"bound", "closed", "abandoned"}
                     /\ rState[c] \in {"bound", "closed"}
    /\ UNCHANGED vars

Next ==
    \/ \E c \in Conns : Initiator(c) \/ Responder(c)
    \/ \E c \in Conns : \/ InitiatorAborts(c) \/ InitiatorCancelled(c)
                       \/ ResponderAborts(c) \/ LoseConnection(c)
    \/ \E p \in Processes, a \in Authorities : Expire(p, a)
    \/ Settled

Spec == Init /\ [][Next]_vars

\* The event loop runs a coroutine whose frame has arrived.  Where there are
\* timers, the one of a responder that still waits expires; an initiator needs
\* none, and no connection has to be lost.
FairSpec ==
    /\ Spec
    /\ \A c \in Conns : WF_vars(Initiator(c)) /\ WF_vars(Responder(c))
    /\ \A c \in Timers : WF_vars(ResponderAborts(c))

-----------------------------------------------------------------------------
(* Properties *)

\* The responder returns from the handshake only after the initiator has
\* authenticated it: by then the initiator is past MCC_BIND_RESPONSE, and each side
\* has verified the other's credential, under the key its root store had for the
\* authority when there was one (_server_handshake reaches phase 5 only through a
\* verified confirm).
MutualAuthentication ==
    \A c \in Conns : rState[c] \in {"caps", "bound"} =>
        /\ iState[c] \notin {"start", "ack", "response", "looking"}
        /\ VerifyMcc(ResponderMcc(c), iTrusted[c])
        /\ VerifyMcc(InitiatorMcc(c), rTrusted[c])

\* When both sides return from the handshake as bound, _setup_e2e has given
\* them the same session key, whichever of them has an ephemeral key to offer.
KeyAgreement ==
    \A c \in Conns : iState[c] = "bound" /\ rState[c] = "bound" =>
        SessionKey(InitiatorEph(c), iPeerEph[c]) = SessionKey("r", rPeerEph[c])

\* The two sides are never both waiting for a frame with nothing in flight: a
\* handshake does not need its timer to get out of a mutual wait.
NoMutualWait ==
    \A c \in Conns : c \notin lost =>
        ~ /\ iState[c] \in IWaiting /\ rState[c] \in RWaiting
          /\ toI[c] = << >> /\ toR[c] = << >>

IAccepted(c) == iState[c] \in {"announce", "caps", "bound"}
RAccepted(c) == rState[c] \in {"answering", "confirm", "caps", "bound"}

\* What process p goes by: no entry of the authority has expired and no two threads
\* of p have looked it up at once, or p never pins (strict mode).
Steady(p, a) == a \notin disturbed[p] \/ setup.mode[p] = "strict"

\* Trust on first use is trust in one key: the peers that a process has accepted, on
\* whatever connections and in whichever role, and however their handshakes
\* interleaved, were all signed by the key its root store holds for their authority.
\* An entry that expires, and two threads that look an authority up at once, are
\* exceptions the code makes.
OneKeyPerAuthority ==
    \A c \in Conns :
        /\ IAccepted(c) /\ Steady(IHost(c), ResponderMcc(c).auth) =>
              VerifyMcc(ResponderMcc(c), pins[IHost(c)][ResponderMcc(c).auth])
        /\ RAccepted(c) /\ Steady(RHost(c), InitiatorMcc(c).auth) =>
              VerifyMcc(InitiatorMcc(c), pins[RHost(c)][InitiatorMcc(c).auth])

\* Every handshake returns on both sides.  Without timers (a connection outside
\* Timers) the frames the sides send and the closing of the connection are
\* enough; a responder needs its timer only for an initiator cancelled by
\* QUICClient.connect, which neither sends nor closes anything.
EveryHandshakeReturns ==
    <>[](\A c \in Conns : iState[c] \in Finished /\ rState[c] \in Finished)

\* Two agents that trust each other's authorities and present valid credentials
\* end up bound, both of them.
TrustedAgentsBind ==
    <>(\A c \in Conns : iState[c] = "bound" /\ rState[c] = "bound")
=============================================================================
