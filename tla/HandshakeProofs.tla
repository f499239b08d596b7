--------------------------- MODULE HandshakeProofs ---------------------------
(***************************************************************************)
(* Proofs about Handshake: type correctness, mutual authentication, one key   *)
(* per authority, key agreement and the absence of mutual waits, for any       *)
(* number of connections, processes, authorities and keys.                     *)
(***************************************************************************)
EXTENDS Handshake, TLAPS

\* The frames the code builds are frames, and queues stay queues of frames.
LEMMA FrameType ==
    ASSUME NEW type \in FrameTypes
    PROVE  Frame(type) \in Frames
  BY KeysAssumption DEF Frame, Frames, FrameTypes, NoSignature, Signatures, Ephs

\* A queue in a connection stays one of frames when a frame is sent.
LEMMA SentType ==
    ASSUME NEW queue \in [Conns -> Seq(Frames)], NEW c \in Conns, NEW f \in Frames
    PROVE  Sent(queue, c, f) \in [Conns -> Seq(Frames)]
  BY DEF Sent

\* What is read is a frame, and the rest of its queue are frames.
LEMMA ConsumedType ==
    ASSUME NEW queue \in [Conns -> Seq(Frames)], NEW c \in Conns, queue[c] # << >>
    PROVE  /\ [queue EXCEPT ![c] = Tail(@)] \in [Conns -> Seq(Frames)]
           /\ Head(queue[c]) \in Frames
  OBVIOUS

\* A queue that is closed is an empty one.
LEMMA EmptiedType ==
    ASSUME NEW queue \in [Conns -> Seq(Frames)], NEW c \in Conns
    PROVE  [queue EXCEPT ![c] = << >>] \in [Conns -> Seq(Frames)]
<1>1. << >> \in Seq(Frames)
  OBVIOUS
<1>2. QED
  BY <1>1

\* A side that has looked an authority up still has the frame it read before it:
\* what types rest on when a queue is destroyed.
Reading ==
    \A c \in Conns :
        /\ iState[c] = "looking" => IHas(c, "response")
        /\ rState[c] = "looking" => RHas(c, "request")

TypeInv == TypeOK /\ Reading

\* What a reader has read survives the destruction of its queue, and is a frame.
LEMMA DroppedType ==
    ASSUME TypeInv, NEW c \in Conns
    PROVE  /\ IDropped(c) \in [Conns -> Seq(Frames)]
           /\ RDropped(c) \in [Conns -> Seq(Frames)]
<1> USE DEF TypeInv, TypeOK
<1>1. << >> \in Seq(Frames)
  OBVIOUS
<1>2. iState[c] = "looking" => <<Head(toI[c])>> \in Seq(Frames)
  BY DEF Reading, IHas
<1>3. rState[c] = "looking" => <<Head(toR[c])>> \in Seq(Frames)
  BY DEF Reading, RHas
<1>4. QED
  BY <1>1, <1>2, <1>3 DEF IDropped, RDropped

\* The initial states are well typed.
THEOREM InitTypeOK == Init => TypeInv
<1> SUFFICES ASSUME Init  PROVE TypeInv
  OBVIOUS
<1>1. setup.pins \in [Processes -> [Authorities -> Keys \cup {NoKey}]]
  BY SetupsAssumption DEF Init
<1>2. QED
  BY <1>1 DEF Init, TypeInv, TypeOK, Reading, IStates, RStates, Ephs

\* A side that fails keeps every variable in its type.
LEMMA FailType ==
    ASSUME TypeOK, NEW c \in Conns, NEW rest \in [Conns -> Seq(Frames)]
    PROVE  /\ IFail(c, rest) => TypeOK'
           /\ RFail(c, rest) => TypeOK'
<1>1. Frame("error") \in Frames
  BY FrameType DEF FrameTypes
<1>2. CASE IFail(c, rest)
  BY <1>1, <1>2, SentType DEF IFail, TypeOK, trust, store, ephs, IStates
<1>3. CASE RFail(c, rest)
  BY <1>1, <1>3, SentType DEF RFail, TypeOK, trust, store, ephs, RStates
<1>4. QED
  BY <1>2, <1>3

\* The processes at the ends of a connection, and their credentials.
LEMMA EndTypes ==
    ASSUME TypeOK, NEW c \in Conns
    PROVE  /\ IHost(c) \in Processes /\ RHost(c) \in Processes
           /\ InitiatorMcc(c) \in Mccs /\ ResponderMcc(c) \in Mccs
<1>1. /\ setup.host \in [Sides -> [Conns -> Processes]]
      /\ setup.mcc \in [Processes -> Mccs]
  BY SetupsAssumption DEF TypeOK
<1>2. IHost(c) \in Processes /\ RHost(c) \in Processes
  BY <1>1 DEF Sides, IHost, RHost
<1>3. QED
  BY <1>1, <1>2 DEF InitiatorMcc, ResponderMcc

\* A credential names an authority and the key that signed it.
LEMMA MccTypes ==
    ASSUME NEW mcc \in Mccs
    PROVE  mcc.auth \in Authorities /\ mcc.signer \in Keys
  BY MccsAssumption

\* A root store maps authorities to keys, whatever is looked up and pinned.
LEMMA LookupType ==
    ASSUME TypeOK, NEW p \in Processes, NEW a \in Authorities
    PROVE  Lookup(p, a) \in Keys \cup {NoKey}
  BY DEF TypeOK, Lookup

\* What a side offers for its own authority is a key or nothing.
LEMMA OfferedType ==
    ASSUME TypeOK, NEW p \in Processes, NEW mcc \in Mccs
    PROVE  OfferedKey(p, mcc) \in Keys \cup {NoKey}
  BY MccTypes, LookupType DEF OfferedKey

\* add_authority keeps the root stores in their type.
LEMMA AddType ==
    ASSUME TypeOK, NEW p \in Processes, NEW mcc \in Mccs,
           NEW key \in Keys \cup {NoKey}, AddAuthority(p, mcc, key)
    PROVE  /\ pins' \in [Processes -> [Authorities -> Keys \cup {NoKey}]]
           /\ expired' \in [Processes -> SUBSET Authorities]
  BY MccTypes DEF AddAuthority, TypeOK

\* So does accepting a peer, whether or not its key is pinned.
LEMMA TrustType ==
    ASSUME TypeOK, NEW p \in Processes, NEW mcc \in Mccs, NEW found,
           NEW offered \in Keys \cup {NoKey},
           Trust(p, mcc, found, offered) \/ UNCHANGED store
    PROVE  /\ pins' \in [Processes -> [Authorities -> Keys \cup {NoKey}]]
           /\ expired' \in [Processes -> SUBSET Authorities]
<1>1. CASE UNCHANGED store
  BY <1>1 DEF store, TypeOK
<1>2. CASE AddAuthority(p, mcc, offered)
  BY <1>2, AddType
<1>3. QED
  BY <1>1, <1>2 DEF Trust

\* The history of overlapping lookups stays in its type.
LEMMA OverlappingType ==
    ASSUME TypeOK, NEW p \in Processes, NEW a \in Authorities, NEW lookedUp
    PROVE  Overlapping(p, a, lookedUp) \in [Processes -> SUBSET Authorities]
  BY DEF Overlapping, TypeOK

\* Every step keeps the variables in their types.
LEMMA NextTypeOK ==
    ASSUME TypeInv, [Next]_vars
    PROVE  TypeOK'
<1> USE DEF TypeInv, TypeOK
<1>f. /\ \A t \in FrameTypes : Frame(t) \in Frames
      /\ {"propose", "ack", "caps", "error", "request", "response", "confirm"} = FrameTypes
  BY FrameType DEF FrameTypes
<1>m. /\ \A c \in Conns : /\ IHost(c) \in Processes /\ RHost(c) \in Processes
                          /\ InitiatorMcc(c) \in Mccs /\ ResponderMcc(c) \in Mccs
      /\ \A mcc \in Mccs : mcc.auth \in Authorities
  BY EndTypes, MccTypes
<1>1. ASSUME NEW c \in Conns, Initiator(c)  PROVE TypeOK'
  <2>1. CASE SendPropose(c)
    BY <2>1, <1>f, SentType DEF SendPropose, trust, store, ephs, IStates
  <2>2. CASE SendBindRequest(c)
    <3> DEFINE f == [Frame("request") EXCEPT !.offered = OfferedKey(IHost(c), InitiatorMcc(c)),
                                            !.eph = InitiatorEph(c)]
    <3>o. OfferedKey(IHost(c), InitiatorMcc(c)) \in Keys \cup {NoKey}
      BY <1>m, OfferedType
    <3>1. f \in Frames
      BY <3>o DEF Frame, Frames, FrameTypes, Signatures, NoSignature, Ephs, InitiatorEph
    <3>2. toR' = Sent(toR, c, f) /\ toI' = IConsumed(c) /\ toI[c] # << >>
      BY <2>2 DEF SendBindRequest, IHas
    <3> HIDE DEF f
    <3>3. toR' \in [Conns -> Seq(Frames)] /\ toI' \in [Conns -> Seq(Frames)]
      BY <3>1, <3>2, SentType, ConsumedType DEF IConsumed
    <3>4. QED
      BY <2>2, <3>3 DEF SendBindRequest, trust, store, ephs, IStates
  <2>3. CASE LookUpResponder(c)
    <3>1. /\ iTrusted' \in [Conns -> Keys \cup {NoKey}]
          /\ disturbed' \in [Processes -> SUBSET Authorities]
      BY <2>3, <1>m, LookupType, OverlappingType DEF LookUpResponder
    <3>2. QED
      BY <2>3, <3>1 DEF LookUpResponder, store, ephs, IStates
  <2>4. CASE SendBindConfirm(c)
    <3> DEFINE f == [Frame("confirm") EXCEPT !.sig = [nonce |-> "r", eph |-> ConfirmEph(c)]]
    <3>1. f \in Frames
      BY KeysAssumption DEF Frame, Frames, FrameTypes, Signatures, NoSignature, Ephs, ConfirmEph
    <3>2. /\ toR' = Sent(toR, c, f) /\ toI' = IConsumed(c) /\ toI[c] # << >>
          /\ Trust(IHost(c), ResponderMcc(c), iTrusted[c], Head(toI[c]).offered)
          /\ iTrusted' = [iTrusted EXCEPT ![c] = TrustedKey(@, Head(toI[c]).offered)]
          /\ iPeerEph' = [iPeerEph EXCEPT ![c] = Head(toI[c]).eph]
      BY <2>4 DEF SendBindConfirm, Reading, IHas
    <3> HIDE DEF f
    <3>3. toR' \in [Conns -> Seq(Frames)] /\ toI' \in [Conns -> Seq(Frames)]
      BY <3>1, <3>2, SentType, ConsumedType DEF IConsumed
    <3>4. Head(toI[c]).offered \in Keys \cup {NoKey} /\ Head(toI[c]).eph \in Ephs
      BY <3>2, ConsumedType DEF Frames
    <3>5. /\ pins' \in [Processes -> [Authorities -> Keys \cup {NoKey}]]
          /\ expired' \in [Processes -> SUBSET Authorities]
      BY <3>2, <3>4, <1>m, TrustType
    <3>6. /\ iTrusted' \in [Conns -> Keys \cup {NoKey}] /\ iPeerEph' \in [Conns -> Ephs]
      BY <3>2, <3>4 DEF TrustedKey
    <3>7. QED
      BY <2>4, <3>3, <3>5, <3>6 DEF SendBindConfirm, IStates
  <2>5. CASE RefuseBindResponse(c)
    <3>1. toI[c] # << >> /\ toI' = IConsumed(c) /\ toR' = Sent(toR, c, Frame("error"))
      BY <2>5 DEF RefuseBindResponse, Reading, IHas
    <3>2. toR' \in [Conns -> Seq(Frames)] /\ toI' \in [Conns -> Seq(Frames)]
      BY <3>1, <1>f, SentType, ConsumedType DEF IConsumed
    <3>3. Head(toI[c]).offered \in Keys \cup {NoKey} /\ Head(toI[c]).eph \in Ephs
      BY <3>1, ConsumedType DEF Frames
    <3>4. Trust(IHost(c), ResponderMcc(c), iTrusted[c], Head(toI[c]).offered) \/ UNCHANGED store
      BY <2>5 DEF RefuseBindResponse
    <3>5. /\ pins' \in [Processes -> [Authorities -> Keys \cup {NoKey}]]
          /\ expired' \in [Processes -> SUBSET Authorities]
      BY <3>3, <3>4, <1>m, TrustType
    <3>6. iPeerEph' \in [Conns -> Ephs]
      BY <2>5, <3>3 DEF RefuseBindResponse
    <3>7. QED
      BY <2>5, <3>2, <3>5, <3>6 DEF RefuseBindResponse, IStates
  <2>6. CASE SendCapabilities(c)
    BY <2>6, <1>f, SentType DEF SendCapabilities, trust, store, ephs, IStates
  <2>7. CASE FinishInitiator(c)
    <3>1. toI' \in [Conns -> Seq(Frames)]
      <4>1. CASE toI[c] # << >> /\ toI' = IConsumed(c)
        BY <4>1, ConsumedType DEF IConsumed
      <4>2. CASE UNCHANGED toI
        BY <4>2
      <4>3. QED
        BY <2>7, <4>1, <4>2 DEF FinishInitiator
    <3>2. QED
      BY <2>7, <3>1 DEF FinishInitiator, trust, store, ephs, IStates
  <2>8. CASE InitiatorMisreads(c)
    <3>1. toI[c] # << >> => IConsumed(c) \in [Conns -> Seq(Frames)]
      BY ConsumedType DEF IConsumed
    <3>2. CASE toI[c] # << >> /\ IFail(c, IConsumed(c))
      BY <3>1, <3>2, FailType, Zenon
    <3>3. CASE IFail(c, toI)
      BY <3>3, FailType, Zenon
    <3>4. QED
      BY <2>8, <3>2, <3>3 DEF InitiatorMisreads
  <2>9. CASE CloseInitiator(c)
    <3>1. toR' \in [Conns -> Seq(Frames)] /\ toI' \in [Conns -> Seq(Frames)]
      <4>1. RDropped(c) \in [Conns -> Seq(Frames)]
        BY DroppedType
      <4>2. [toI EXCEPT ![c] = << >>] \in [Conns -> Seq(Frames)]
        BY EmptiedType
      <4>3. (toR' = toR \/ toR' = RDropped(c)) /\ toI' = [toI EXCEPT ![c] = << >>]
        BY <2>9 DEF CloseInitiator
      <4>4. QED
        BY <4>1, <4>2, <4>3
    <3>2. QED
      BY <2>9, <3>1 DEF CloseInitiator, trust, store, ephs, IStates
  <2>10. QED
    BY <1>1, <2>1, <2>2, <2>3, <2>4, <2>5, <2>6, <2>7, <2>8, <2>9 DEF Initiator
<1>2. ASSUME NEW c \in Conns, Responder(c)  PROVE TypeOK'
  <2>1. CASE SendVersionAck(c)
    BY <2>1, <1>f, SentType, ConsumedType
    DEF SendVersionAck, RHas, RConsumed, trust, store, ephs, RStates
  <2>2. CASE LookUpInitiator(c)
    <3>1. /\ rTrusted' \in [Conns -> Keys \cup {NoKey}]
          /\ disturbed' \in [Processes -> SUBSET Authorities]
      BY <2>2, <1>m, LookupType, OverlappingType DEF LookUpInitiator
    <3>2. QED
      BY <2>2, <3>1 DEF LookUpInitiator, store, ephs, RStates
  <2>3. CASE AcceptBindRequest(c)
    <3>1. /\ toR' = RConsumed(c) /\ toR[c] # << >>
          /\ Trust(RHost(c), InitiatorMcc(c), rTrusted[c], Head(toR[c]).offered)
          /\ rTrusted' = [rTrusted EXCEPT ![c] = TrustedKey(@, Head(toR[c]).offered)]
          /\ rPeerEph' = [rPeerEph EXCEPT ![c] = Head(toR[c]).eph]
      BY <2>3 DEF AcceptBindRequest, Reading, RHas
    <3>2. Head(toR[c]).offered \in Keys \cup {NoKey} /\ Head(toR[c]).eph \in Ephs
      BY <3>1, ConsumedType DEF Frames
    <3>3. /\ pins' \in [Processes -> [Authorities -> Keys \cup {NoKey}]]
          /\ expired' \in [Processes -> SUBSET Authorities]
      BY <3>1, <3>2, <1>m, TrustType
    <3>4. toR' \in [Conns -> Seq(Frames)]
      BY <3>1, ConsumedType DEF RConsumed
    <3>5. /\ rTrusted' \in [Conns -> Keys \cup {NoKey}] /\ rPeerEph' \in [Conns -> Ephs]
      BY <3>1, <3>2 DEF TrustedKey
    <3>6. QED
      BY <2>3, <3>3, <3>4, <3>5 DEF AcceptBindRequest, RStates
  <2>4. CASE RefuseBindRequest(c)
    <3>1. toR[c] # << >> /\ toR' = RConsumed(c) /\ toI' = Sent(toI, c, Frame("error"))
      BY <2>4 DEF RefuseBindRequest, Reading, RHas
    <3>2. toR' \in [Conns -> Seq(Frames)] /\ toI' \in [Conns -> Seq(Frames)]
      BY <3>1, <1>f, SentType, ConsumedType DEF RConsumed
    <3>3. Head(toR[c]).offered \in Keys \cup {NoKey}
      BY <3>1, ConsumedType DEF Frames
    <3>4. Trust(RHost(c), InitiatorMcc(c), rTrusted[c], Head(toR[c]).offered) \/ UNCHANGED store
      BY <2>4 DEF RefuseBindRequest
    <3>5. /\ pins' \in [Processes -> [Authorities -> Keys \cup {NoKey}]]
          /\ expired' \in [Processes -> SUBSET Authorities]
      BY <3>3, <3>4, <1>m, TrustType
    <3>6. QED
      BY <2>4, <3>2, <3>5 DEF RefuseBindRequest, ephs, RStates
  <2>5. CASE SendBindResponse(c)
    <3> DEFINE f == [Frame("response") EXCEPT !.offered = OfferedKey(RHost(c), ResponderMcc(c)),
                                             !.eph = "r",
                                             !.sig = [nonce |-> "i", eph |-> "r"]]
    <3>o. OfferedKey(RHost(c), ResponderMcc(c)) \in Keys \cup {NoKey}
      BY <1>m, OfferedType
    <3>1. f \in Frames
      BY <3>o DEF Frame, Frames, FrameTypes, Signatures, NoSignature, Ephs
    <3>2. toI' = Sent(toI, c, f)
      BY <2>5 DEF SendBindResponse
    <3> HIDE DEF f
    <3>3. toI' \in [Conns -> Seq(Frames)]
      BY <3>1, <3>2, SentType
    <3>4. QED
      BY <2>5, <3>3 DEF SendBindResponse, trust, store, ephs, RStates
  <2>6. CASE AcceptConfirm(c)
    BY <2>6, ConsumedType DEF AcceptConfirm, RHas, RConsumed, trust, store, ephs, RStates
  <2>7. CASE RefuseConfirm(c)
    BY <2>7, ConsumedType, FailType DEF RefuseConfirm, RHas, RConsumed
  <2>8. CASE FinishResponder(c)
    <3>1. toR' \in [Conns -> Seq(Frames)] /\ toI' \in [Conns -> Seq(Frames)]
      <4>1. CASE toR[c] # << >> /\ toR' = RConsumed(c)
                 /\ toI' = IF RHas(c, "caps") THEN Sent(toI, c, Frame("caps")) ELSE toI
        BY <4>1, <1>f, SentType, ConsumedType DEF RConsumed
      <4>2. CASE UNCHANGED <<toI, toR>>
        BY <4>2
      <4>3. QED
        BY <2>8, <4>1, <4>2 DEF FinishResponder
    <3>2. QED
      BY <2>8, <3>1 DEF FinishResponder, trust, store, ephs, RStates
  <2>9. CASE ResponderMisreads(c)
    <3>1. toR[c] # << >> => RConsumed(c) \in [Conns -> Seq(Frames)]
      BY ConsumedType DEF RConsumed
    <3>2. QED
      BY <2>9, <3>1, FailType DEF ResponderMisreads
  <2>10. CASE CloseResponder(c)
    <3>1. toR' \in [Conns -> Seq(Frames)] /\ toI' \in [Conns -> Seq(Frames)]
      <4>1. IDropped(c) \in [Conns -> Seq(Frames)]
        BY DroppedType
      <4>2. [toR EXCEPT ![c] = << >>] \in [Conns -> Seq(Frames)]
        BY EmptiedType
      <4>3. (toI' = toI \/ toI' = IDropped(c)) /\ toR' = [toR EXCEPT ![c] = << >>]
        BY <2>10 DEF CloseResponder
      <4>4. QED
        BY <4>1, <4>2, <4>3
    <3>2. QED
      BY <2>10, <3>1 DEF CloseResponder, trust, store, ephs, RStates
  <2>11. QED
    BY <1>2, <2>1, <2>2, <2>3, <2>4, <2>5, <2>6, <2>7, <2>8, <2>9, <2>10 DEF Responder
<1>3. ASSUME NEW c \in Conns,
             \/ InitiatorAborts(c) \/ InitiatorCancelled(c)
             \/ ResponderAborts(c) \/ LoseConnection(c)
      PROVE  TypeOK'
  <2>1. CASE InitiatorAborts(c) \/ ResponderAborts(c)
    BY <2>1, FailType DEF InitiatorAborts, ResponderAborts
  <2>2. CASE InitiatorCancelled(c)
    BY <2>2 DEF InitiatorCancelled, trust, store, ephs, IStates
  <2>3. CASE LoseConnection(c)
    <3>1. toR' \in [Conns -> Seq(Frames)] /\ toI' \in [Conns -> Seq(Frames)]
      <4>1. IDropped(c) \in [Conns -> Seq(Frames)] /\ RDropped(c) \in [Conns -> Seq(Frames)]
        BY DroppedType
      <4>2. toI' = IDropped(c) /\ toR' = RDropped(c)
        BY <2>3 DEF LoseConnection
      <4>3. QED
        BY <4>1, <4>2
    <3>2. QED
      BY <2>3, <3>1 DEF LoseConnection, trust, store, ephs
  <2>4. QED
    BY <1>3, <2>1, <2>2, <2>3
<1>4. ASSUME NEW p \in Processes, NEW a \in Authorities, Expire(p, a)  PROVE TypeOK'
  BY <1>4 DEF Expire, ephs
<1>5. CASE UNCHANGED vars
  BY <1>5 DEF vars
<1>6. QED
  BY <1>1, <1>2, <1>3, <1>4, <1>5 DEF Next, Settled

\* What a step of a connection leaves of the frames of another.
LEMMA OtherQueues ==
    ASSUME TypeOK, NEW c \in Conns, NEW d \in Conns, c # d
    PROVE  /\ \A f : Sent(toI, c, f)[d] = toI[d] /\ Sent(toR, c, f)[d] = toR[d]
           /\ IConsumed(c)[d] = toI[d] /\ RConsumed(c)[d] = toR[d]
           /\ IDropped(c)[d] = toI[d] /\ RDropped(c)[d] = toR[d]
           /\ [toI EXCEPT ![c] = << >>][d] = toI[d]
           /\ [toR EXCEPT ![c] = << >>][d] = toR[d]
  BY DEF TypeOK, Sent, IConsumed, RConsumed, IDropped, RDropped

\* What a connection's handshake does stays on that connection.
LEMMA StepsAreLocal ==
    ASSUME TypeOK, NEW c \in Conns, NEW d \in Conns, c # d,
           \/ Initiator(c) \/ Responder(c)
           \/ InitiatorAborts(c) \/ InitiatorCancelled(c)
           \/ ResponderAborts(c) \/ LoseConnection(c)
    PROVE  /\ iState'[d] = iState[d] /\ rState'[d] = rState[d]
           /\ iTrusted'[d] = iTrusted[d] /\ rTrusted'[d] = rTrusted[d]
           /\ toI'[d] = toI[d] /\ toR'[d] = toR[d]
<1>1. /\ iState'[d] = iState[d] /\ rState'[d] = rState[d]
      /\ iTrusted'[d] = iTrusted[d] /\ rTrusted'[d] = rTrusted[d]
  BY DEF TypeOK, trust, store, Initiator, SendPropose, SendBindRequest, LookUpResponder,
         SendBindConfirm, RefuseBindResponse,
         SendCapabilities, FinishInitiator, InitiatorMisreads, CloseInitiator, IFail,
         Responder, SendVersionAck, LookUpInitiator, AcceptBindRequest, SendBindResponse,
         RefuseBindRequest, AcceptConfirm,
         RefuseConfirm, FinishResponder, ResponderMisreads, CloseResponder, RFail,
         InitiatorAborts, InitiatorCancelled, ResponderAborts, LoseConnection
<1>q. /\ \A f : Sent(toI, c, f)[d] = toI[d] /\ Sent(toR, c, f)[d] = toR[d]
      /\ IConsumed(c)[d] = toI[d] /\ RConsumed(c)[d] = toR[d]
      /\ IDropped(c)[d] = toI[d] /\ RDropped(c)[d] = toR[d]
      /\ [toI EXCEPT ![c] = << >>][d] = toI[d]
      /\ [toR EXCEPT ![c] = << >>][d] = toR[d]
  BY OtherQueues
<1>2. toI'[d] = toI[d] /\ toR'[d] = toR[d]
  <2>1. CASE Initiator(c)
    <3>1. CASE SendPropose(c) \/ SendBindRequest(c) \/ LookUpResponder(c) \/ SendBindConfirm(c)
               \/ RefuseBindResponse(c) \/ SendCapabilities(c)
      BY <3>1, <1>q DEF SendPropose, SendBindRequest, LookUpResponder, SendBindConfirm,
                        RefuseBindResponse, SendCapabilities
    <3>2. CASE FinishInitiator(c) \/ InitiatorMisreads(c) \/ CloseInitiator(c)
      BY <3>2, <1>q DEF FinishInitiator, InitiatorMisreads, CloseInitiator, IFail
    <3>3. QED
      BY <2>1, <3>1, <3>2 DEF Initiator
  <2>2. CASE Responder(c)
    <3>1. CASE SendVersionAck(c) \/ LookUpInitiator(c) \/ AcceptBindRequest(c)
               \/ SendBindResponse(c) \/ RefuseBindRequest(c) \/ AcceptConfirm(c)
      BY <3>1, <1>q DEF SendVersionAck, LookUpInitiator, AcceptBindRequest,
                        SendBindResponse, RefuseBindRequest, AcceptConfirm
    <3>2. CASE RefuseConfirm(c) \/ FinishResponder(c) \/ ResponderMisreads(c)
               \/ CloseResponder(c)
      BY <3>2, <1>q DEF RefuseConfirm, FinishResponder, ResponderMisreads, CloseResponder, RFail
    <3>3. QED
      BY <2>2, <3>1, <3>2 DEF Responder
  <2>3. CASE \/ InitiatorAborts(c) \/ InitiatorCancelled(c)
             \/ ResponderAborts(c) \/ LoseConnection(c)
    BY <2>3, <1>q
    DEF InitiatorAborts, InitiatorCancelled, ResponderAborts, LoseConnection, IFail, RFail
  <2>4. QED
    BY <2>1, <2>2, <2>3
<1>3. QED
  BY <1>1, <1>2

\* Sending leaves the oldest frame of a queue where it is.
LEMMA HeadOfAppend ==
    ASSUME NEW S, NEW s \in Seq(S), s # << >>, NEW f
    PROVE  Append(s, f) # << >> /\ Head(Append(s, f)) = Head(s)
<1>1. s \in Seq(S \cup {f})
  <2>1. \A n \in 1 .. Len(s) : s[n] \in S \cup {f}
    OBVIOUS
  <2>2. QED
    BY <2>1
<1>2. f \in S \cup {f}
  OBVIOUS
<1> DEFINE T == S \cup {f}
<1> HIDE DEF T
<1>3. s \in Seq(T) /\ f \in T
  BY <1>1, <1>2 DEF T
<1>4. QED
  BY <1>3

\* Neither what is sent nor what is destroyed disturbs the frame a side is looking at.
LEMMA HeadStays ==
    ASSUME TypeInv, NEW c \in Conns
    PROVE  /\ \A f, type : IHas(c, type) =>
                Sent(toI, c, f)[c] # << >> /\ Head(Sent(toI, c, f)[c]).type = type
           /\ \A f, type : RHas(c, type) =>
                Sent(toR, c, f)[c] # << >> /\ Head(Sent(toR, c, f)[c]).type = type
           /\ iState[c] = "looking" => IDropped(c)[c] = <<Head(toI[c])>>
           /\ rState[c] = "looking" => RDropped(c)[c] = <<Head(toR[c])>>
<1> USE DEF TypeInv, TypeOK
<1>1. \A f, type : IHas(c, type) =>
         Sent(toI, c, f)[c] # << >> /\ Head(Sent(toI, c, f)[c]).type = type
  BY HeadOfAppend DEF IHas, Sent
<1>2. \A f, type : RHas(c, type) =>
         Sent(toR, c, f)[c] # << >> /\ Head(Sent(toR, c, f)[c]).type = type
  BY HeadOfAppend DEF RHas, Sent
<1>3. QED
  BY <1>1, <1>2 DEF IDropped, RDropped

\* A side that looks an authority up keeps the frame it read before it, whatever the
\* rest of the connection and the other connections do.
LEMMA ReadingStep ==
    ASSUME TypeInv, [Next]_vars
    PROVE  Reading'
<1> USE DEF TypeInv
<1> DEFINE Kept(c) ==
        /\ iState'[c] = "looking" => toI'[c] # << >> /\ Head(toI'[c]).type = "response"
        /\ rState'[c] = "looking" => toR'[c] # << >> /\ Head(toR'[c]).type = "request"
<1> SUFFICES ASSUME NEW c \in Conns  PROVE Kept(c)
  BY DEF Reading, IHas, RHas
<1>r. /\ iState[c] = "looking" => toI[c] # << >> /\ Head(toI[c]).type = "response"
      /\ rState[c] = "looking" => toR[c] # << >> /\ Head(toR[c]).type = "request"
  BY DEF Reading, IHas, RHas
<1>s. /\ \A f : iState[c] = "looking" =>
            Sent(toI, c, f)[c] # << >> /\ Head(Sent(toI, c, f)[c]).type = "response"
      /\ \A f : rState[c] = "looking" =>
            Sent(toR, c, f)[c] # << >> /\ Head(Sent(toR, c, f)[c]).type = "request"
  BY HeadStays DEF Reading
<1>d. /\ iState[c] = "looking" =>
            IDropped(c)[c] # << >> /\ Head(IDropped(c)[c]).type = "response"
      /\ rState[c] = "looking" =>
            RDropped(c)[c] # << >> /\ Head(RDropped(c)[c]).type = "request"
  BY <1>r, HeadStays
<1> USE DEF TypeOK
<1>1. CASE Initiator(c)
  <2>1. CASE SendPropose(c) \/ SendBindRequest(c) \/ SendCapabilities(c)
    BY <2>1, <1>r, <1>s DEF SendPropose, SendBindRequest, SendCapabilities
  <2>2. CASE LookUpResponder(c)
    BY <2>2, <1>r DEF LookUpResponder, IHas
  <2>3. CASE SendBindConfirm(c) \/ RefuseBindResponse(c)
    BY <2>3, <1>r, <1>s DEF SendBindConfirm, RefuseBindResponse
  <2>4. CASE FinishInitiator(c)
    BY <2>4, <1>r DEF FinishInitiator
  <2>5. CASE InitiatorMisreads(c)
    BY <2>5, <1>r, <1>s DEF InitiatorMisreads, IFail
  <2>6. CASE CloseInitiator(c)
    BY <2>6, <1>r, <1>d DEF CloseInitiator
  <2>7. QED
    BY <1>1, <2>1, <2>2, <2>3, <2>4, <2>5, <2>6 DEF Initiator
<1>2. CASE Responder(c)
  <2>1. CASE SendVersionAck(c) \/ SendBindResponse(c) \/ AcceptConfirm(c)
    BY <2>1, <1>r, <1>s DEF SendVersionAck, SendBindResponse, AcceptConfirm
  <2>2. CASE LookUpInitiator(c)
    BY <2>2, <1>r DEF LookUpInitiator, RHas
  <2>3. CASE AcceptBindRequest(c) \/ RefuseBindRequest(c)
    BY <2>3, <1>r, <1>s DEF AcceptBindRequest, RefuseBindRequest
  <2>4. CASE FinishResponder(c)
    BY <2>4, <1>r, <1>s DEF FinishResponder
  <2>5. CASE RefuseConfirm(c) \/ ResponderMisreads(c)
    BY <2>5, <1>r, <1>s DEF RefuseConfirm, ResponderMisreads, RFail
  <2>6. CASE CloseResponder(c)
    BY <2>6, <1>r, <1>d DEF CloseResponder
  <2>7. QED
    BY <1>2, <2>1, <2>2, <2>3, <2>4, <2>5, <2>6 DEF Responder
<1>3. CASE \/ InitiatorAborts(c) \/ InitiatorCancelled(c)
           \/ ResponderAborts(c) \/ LoseConnection(c)
  <2>1. CASE InitiatorAborts(c) \/ ResponderAborts(c)
    BY <2>1, <1>r, <1>s DEF InitiatorAborts, ResponderAborts, IFail, RFail
  <2>2. CASE InitiatorCancelled(c)
    BY <2>2, <1>r DEF InitiatorCancelled
  <2>3. CASE LoseConnection(c)
    BY <2>3, <1>d DEF LoseConnection
  <2>4. QED
    BY <1>3, <2>1, <2>2, <2>3
<1>4. ASSUME NEW d \in Conns, d # c,
             \/ Initiator(d) \/ Responder(d)
             \/ InitiatorAborts(d) \/ InitiatorCancelled(d)
             \/ ResponderAborts(d) \/ LoseConnection(d)
      PROVE  Kept(c)
  BY <1>4, <1>r, StepsAreLocal
<1>5. ASSUME NEW p \in Processes, NEW a \in Authorities, Expire(p, a)  PROVE Kept(c)
  BY <1>5, <1>r DEF Expire
<1>6. CASE UNCHANGED vars
  BY <1>6, <1>r DEF vars
<1> HIDE DEF Kept
<1>7. QED
  BY <1>1, <1>2, <1>3, <1>4, <1>5, <1>6 DEF Next, Settled

\* Every step keeps types, and the frames that sides are looking at.
LEMMA NextTypeInv ==
    ASSUME TypeInv, [Next]_vars
    PROVE  TypeInv'
  BY NextTypeOK, ReadingStep DEF TypeInv

\* Types, with what they rest on.
THEOREM TypeInvariant == Spec => []TypeInv
  BY InitTypeOK, NextTypeInv, PTL DEF Spec

\* The handshake keeps every variable in its type: frames are only ever built as
\* the code builds them, and root stores only ever hold authority keys.
THEOREM TypeCorrect == Spec => []TypeOK
<1>1. TypeInv => TypeOK
  BY DEF TypeInv
<1>2. QED
  BY <1>1, TypeInvariant, PTL

-----------------------------------------------------------------------------
(***************************************************************************)
(* Mutual authentication is not inductive: that the initiator is past the    *)
(* bind response when the responder accepts a confirm depends on what the    *)
(* frames still in flight say.  ConfirmsInFlight strengthens it: a confirm    *)
(* in flight to the responder was sent by an initiator that has accepted the *)
(* responder.                                                                *)
(***************************************************************************)
Authenticated(c) ==
    /\ iState[c] \notin {"start", "ack", "response", "looking"}
    /\ VerifyMcc(ResponderMcc(c), iTrusted[c])

ConfirmsInFlight ==
    \A c \in Conns : \A n \in 1 .. Len(toR[c]) :
        toR[c][n].type = "confirm" => Authenticated(c)

ResponderVerified ==
    \A c \in Conns : RAccepted(c) => VerifyMcc(InitiatorMcc(c), rTrusted[c])

ConfirmsAccepted ==
    \A c \in Conns : rState[c] \in {"caps", "bound"} => Authenticated(c)

AuthInv == TypeInv /\ ConfirmsInFlight /\ ResponderVerified /\ ConfirmsAccepted

\* What is in a queue after its head is read was there before.
LEMMA ConsumedFrames ==
    ASSUME NEW queue \in [Conns -> Seq(Frames)], NEW c \in Conns, queue[c] # << >>,
           NEW d \in Conns, NEW n \in 1 .. Len([queue EXCEPT ![c] = Tail(@)][d])
    PROVE  \E m \in 1 .. Len(queue[d]) :
              [queue EXCEPT ![c] = Tail(@)][d][n] = queue[d][m]
<1>1. CASE d = c
  BY <1>1, n + 1 \in 1 .. Len(queue[c])
<1>2. CASE d # c
  BY <1>2
<1>3. QED
  BY <1>1, <1>2

\* The head of a queue is one of its frames.
LEMMA HeadFrame ==
    ASSUME NEW queue \in [Conns -> Seq(Frames)], NEW c \in Conns, queue[c] # << >>
    PROVE  1 \in 1 .. Len(queue[c]) /\ Head(queue[c]) = queue[c][1]
  OBVIOUS

\* Who runs the connections does not change.
LEMMA SetupStays ==
    ASSUME [Next]_vars
    PROVE  setup' = setup
  BY DEF Next, vars, Settled, Initiator, Responder, SendPropose, SendBindRequest,
         LookUpResponder, SendBindConfirm, RefuseBindResponse, SendCapabilities,
         FinishInitiator, InitiatorMisreads, CloseInitiator, IFail, RFail, SendVersionAck,
         LookUpInitiator, AcceptBindRequest, SendBindResponse, RefuseBindRequest,
         AcceptConfirm, RefuseConfirm, FinishResponder, ResponderMisreads, CloseResponder,
         InitiatorAborts, InitiatorCancelled, ResponderAborts, LoseConnection, Expire

\* Once an initiator has authenticated the responder, it stays so.
LEMMA AuthenticatedStable ==
    ASSUME TypeOK, [Next]_vars, NEW c \in Conns, Authenticated(c)
    PROVE  Authenticated(c)'
<1> USE DEF TypeOK
<1>1. ResponderMcc(c)' = ResponderMcc(c)
  BY SetupStays DEF ResponderMcc, RHost
<1> DEFINE Kept == /\ iState'[c] \notin {"start", "ack", "response", "looking"}
                   /\ iTrusted'[c] = iTrusted[c]
<1>2. Kept
  <2>1. ASSUME NEW d \in Conns, Initiator(d)  PROVE Kept
    BY <2>1
    DEF Authenticated, Initiator, SendPropose, SendBindRequest, LookUpResponder,
        SendBindConfirm, RefuseBindResponse, SendCapabilities, FinishInitiator,
        InitiatorMisreads, CloseInitiator, IFail, trust
  <2>2. ASSUME NEW d \in Conns, Responder(d)  PROVE iState' = iState /\ iTrusted' = iTrusted
    BY <2>2
    DEF Responder, SendVersionAck, LookUpInitiator, AcceptBindRequest, SendBindResponse,
        RefuseBindRequest, AcceptConfirm, RefuseConfirm, FinishResponder,
        ResponderMisreads, CloseResponder, RFail, trust
  <2>3. ASSUME NEW d \in Conns, \/ InitiatorAborts(d) \/ InitiatorCancelled(d)
                                \/ ResponderAborts(d) \/ LoseConnection(d)
        PROVE  Kept
    BY <2>3 DEF Authenticated, InitiatorAborts, InitiatorCancelled, ResponderAborts,
                LoseConnection, IFail, RFail, trust
  <2>4. ASSUME NEW p \in Processes, NEW a \in Authorities, Expire(p, a)  PROVE Kept
    BY <2>4 DEF Authenticated, Expire
  <2>5. QED
    BY <2>1, <2>2, <2>3, <2>4 DEF Authenticated, Next, Settled, vars
<1>3. QED
  BY <1>1, <1>2 DEF Authenticated, VerifyMcc

\* Sending a confirm is what it takes: the initiator has just verified the
\* responder's credential under the key it goes by.
LEMMA ConfirmAuthenticates ==
    ASSUME TypeOK, NEW c \in Conns, SendBindConfirm(c)
    PROVE  Authenticated(c)'
<1>1. ResponderMcc(c)' = ResponderMcc(c)
  BY DEF SendBindConfirm, ResponderMcc, RHost
<1>2. VerifyMcc(ResponderMcc(c), iTrusted'[c])
  BY DEF TypeOK, SendBindConfirm, ResponseAccepted, ResponderAccepted, AcceptsPeer,
         TrustedKey, VerifyMcc
<1>3. iState'[c] = "announce"
  BY DEF TypeOK, SendBindConfirm
<1>4. QED
  BY <1>1, <1>2, <1>3 DEF Authenticated, VerifyMcc

\* A confirm in flight after a step was in flight before or has just been sent.
LEMMA ConfirmsOrigin ==
    ASSUME TypeInv, [Next]_vars, NEW c \in Conns, NEW n \in 1 .. Len(toR'[c]),
           toR'[c][n].type = "confirm"
    PROVE  \/ \E m \in 1 .. Len(toR[c]) : toR[c][m].type = "confirm"
           \/ SendBindConfirm(c)
<1> USE DEF TypeInv, TypeOK
<1> DEFINE Kept == \A d \in Conns : \A k \in 1 .. Len(toR'[d]) :
                      \/ toR'[d][k].type # "confirm"
                      \/ \E m \in 1 .. Len(toR[d]) : toR'[d][k] = toR[d][m]
<1>f. \A t \in FrameTypes : Frame(t) \in Frames /\ Frame(t).type = t
  BY FrameType DEF Frame
<1>s. ASSUME NEW d \in Conns, NEW f \in Frames, f.type # "confirm", toR' = Sent(toR, d, f)
      PROVE  Kept
  <2> SUFFICES ASSUME NEW e \in Conns, NEW k \in 1 .. Len(toR'[e]),
                      toR'[e][k].type = "confirm"
               PROVE  \E m \in 1 .. Len(toR[e]) : toR'[e][k] = toR[e][m]
    OBVIOUS
  <2>1. k \in 1 .. Len(Sent(toR, d, f)[e]) /\ Sent(toR, d, f)[e][k] # f
    BY <1>s
  <2>2. k \in 1 .. Len(toR[e]) /\ Sent(toR, d, f)[e][k] = toR[e][k]
    BY <2>1 DEF Sent
  <2>3. QED
    BY <1>s, <2>2
<1>x. ASSUME NEW d \in Conns, toR' = Sent(toR, d, Frame("error"))
      PROVE  Kept
  <2>1. Frame("error") \in Frames /\ Frame("error").type # "confirm"
    BY <1>f DEF FrameTypes
  <2>2. QED
    BY <1>s, <1>x, <2>1, Zenon
<1>c. ASSUME NEW d \in Conns, toR[d] # << >>, toR' = RConsumed(d)
      PROVE  Kept
  BY <1>c, ConsumedFrames DEF RConsumed
<1>e. ASSUME NEW d \in Conns, toR' = [toR EXCEPT ![d] = << >>]
      PROVE  Kept
  BY <1>e
<1>d. ASSUME NEW d \in Conns, toR' = RDropped(d)
      PROVE  Kept
  BY <1>d, HeadFrame DEF RDropped, Reading, RHas
<1>u. ASSUME UNCHANGED toR  PROVE Kept
  BY <1>u
<1> HIDE DEF Kept
<1>1. ASSUME NEW d \in Conns, Initiator(d), ~ SendBindConfirm(d)  PROVE Kept
  <2>1. CASE SendPropose(d)
    BY <2>1, <1>f, <1>s DEF SendPropose, FrameTypes
  <2>2. CASE SendBindRequest(d)
    <3> DEFINE f == [Frame("request") EXCEPT !.offered = OfferedKey(IHost(d), InitiatorMcc(d)),
                                            !.eph = InitiatorEph(d)]
    <3>o. OfferedKey(IHost(d), InitiatorMcc(d)) \in Keys \cup {NoKey}
      BY EndTypes, OfferedType
    <3>1. f \in Frames /\ f.type # "confirm"
      BY <3>o
      DEF Frame, Frames, FrameTypes, Signatures, NoSignature, Ephs, InitiatorEph
    <3>2. toR' = Sent(toR, d, f)
      BY <2>2 DEF SendBindRequest
    <3>3. QED
      BY <3>1, <3>2, <1>s
  <2>3. CASE RefuseBindResponse(d)
    BY <2>3, <1>x DEF RefuseBindResponse
  <2>4. CASE SendCapabilities(d)
    BY <2>4, <1>f, <1>s DEF SendCapabilities, FrameTypes
  <2>5. CASE FinishInitiator(d) \/ LookUpResponder(d)
    BY <2>5, <1>u DEF FinishInitiator, LookUpResponder
  <2>6. CASE InitiatorMisreads(d)
    BY <2>6, <1>x DEF InitiatorMisreads, IFail
  <2>7. CASE CloseInitiator(d)
    BY <2>7, <1>u, <1>d DEF CloseInitiator
  <2>8. QED
    BY <1>1, <2>1, <2>2, <2>3, <2>4, <2>5, <2>6, <2>7 DEF Initiator
<1>2. ASSUME NEW d \in Conns, Responder(d)  PROVE Kept
  <2>1. CASE SendVersionAck(d) \/ AcceptBindRequest(d) \/ RefuseBindRequest(d)
             \/ AcceptConfirm(d)
    BY <2>1, <1>c
    DEF SendVersionAck, AcceptBindRequest, RefuseBindRequest, AcceptConfirm, RHas, Reading
  <2>2. CASE RefuseConfirm(d) \/ ResponderMisreads(d)
    BY <2>2, <1>c, <1>u DEF RefuseConfirm, ResponderMisreads, RFail, RHas
  <2>3. CASE FinishResponder(d)
    BY <2>3, <1>c, <1>u DEF FinishResponder
  <2>4. CASE CloseResponder(d)
    BY <2>4, <1>e DEF CloseResponder
  <2>l. CASE LookUpInitiator(d) \/ SendBindResponse(d)
    BY <2>l, <1>u DEF LookUpInitiator, SendBindResponse
  <2>5. QED
    BY <1>2, <2>1, <2>2, <2>3, <2>4, <2>l DEF Responder
<1>3. ASSUME NEW d \in Conns,
             \/ InitiatorAborts(d) \/ InitiatorCancelled(d)
             \/ ResponderAborts(d) \/ LoseConnection(d)
      PROVE  Kept
  <2>1. CASE InitiatorAborts(d)
    BY <2>1, <1>x DEF InitiatorAborts, IFail
  <2>2. CASE InitiatorCancelled(d) \/ ResponderAborts(d)
    BY <2>2, <1>u DEF InitiatorCancelled, ResponderAborts, RFail
  <2>3. CASE LoseConnection(d)
    BY <2>3, <1>d DEF LoseConnection
  <2>4. QED
    BY <1>3, <2>1, <2>2, <2>3
<1>4. ASSUME NEW d \in Conns, SendBindConfirm(d), d # c
      PROVE  toR'[c] = toR[c]
  BY <1>4 DEF SendBindConfirm, Sent
<1>5. Kept \/ \E d \in Conns : SendBindConfirm(d)
  BY <1>1, <1>2, <1>3, <1>u DEF Next, Settled, vars, Expire
<1>6. CASE Kept
  BY <1>6 DEF Kept
<1>7. CASE \E d \in Conns : SendBindConfirm(d)
  <2>1. PICK d \in Conns : SendBindConfirm(d)
    BY <1>7
  <2>2. CASE d = c
    BY <2>1, <2>2
  <2>3. CASE d # c
    <3>1. toR'[c] = toR[c]
      BY <1>4, <2>1, <2>3
    <3>2. QED
      BY <3>1
  <2>4. QED
    BY <2>2, <2>3
<1>8. QED
  BY <1>5, <1>6, <1>7

\* The responder has verified the initiator's credential from the moment it
\* accepts the bind request, and keeps the key it verified it with.
LEMMA ResponderVerifiedStep ==
    ASSUME AuthInv, [Next]_vars
    PROVE  ResponderVerified'
<1> USE DEF AuthInv, TypeInv, TypeOK
<1> SUFFICES ASSUME NEW c \in Conns, RAccepted(c)'
             PROVE  VerifyMcc(InitiatorMcc(c), rTrusted[c])'
  BY DEF ResponderVerified
<1>1. InitiatorMcc(c)' = InitiatorMcc(c)
  BY SetupStays DEF InitiatorMcc, IHost
<1> DEFINE Kept == RAccepted(c) /\ rTrusted'[c] = rTrusted[c]
<1>2. Kept \/ AcceptBindRequest(c)
  <2>1. ASSUME NEW d \in Conns, Initiator(d)  PROVE Kept
    BY <2>1
    DEF RAccepted, Initiator, SendPropose, SendBindRequest, LookUpResponder,
        SendBindConfirm, RefuseBindResponse, SendCapabilities, FinishInitiator,
        InitiatorMisreads, CloseInitiator, IFail, trust
  <2>2. ASSUME NEW d \in Conns, Responder(d), ~ AcceptBindRequest(c)  PROVE Kept
    <3>1. CASE SendVersionAck(d) \/ LookUpInitiator(d) \/ AcceptBindRequest(d)
               \/ SendBindResponse(d) \/ RefuseBindRequest(d)
      BY <2>2, <3>1 DEF RAccepted, SendVersionAck, LookUpInitiator, AcceptBindRequest,
                        SendBindResponse, RefuseBindRequest, trust
    <3>2. CASE AcceptConfirm(d) \/ RefuseConfirm(d) \/ FinishResponder(d)
               \/ ResponderMisreads(d) \/ CloseResponder(d)
      BY <3>2 DEF RAccepted, AcceptConfirm, RefuseConfirm, FinishResponder,
                  ResponderMisreads, CloseResponder, RFail, trust
    <3>3. QED
      BY <2>2, <3>1, <3>2 DEF Responder
  <2>3. ASSUME NEW d \in Conns, \/ InitiatorAborts(d) \/ InitiatorCancelled(d)
                                \/ ResponderAborts(d) \/ LoseConnection(d)
        PROVE  Kept
    BY <2>3 DEF RAccepted, InitiatorAborts, InitiatorCancelled, ResponderAborts,
                LoseConnection, IFail, RFail, trust
  <2>4. ASSUME NEW p \in Processes, NEW a \in Authorities, Expire(p, a)  PROVE Kept
    BY <2>4 DEF RAccepted, Expire
  <2>5. CASE UNCHANGED vars
    BY <2>5 DEF RAccepted, vars
  <2> HIDE DEF Kept
  <2>6. QED
    BY <2>1, <2>2, <2>3, <2>4, <2>5 DEF Next, Settled
<1>3. CASE Kept
  BY <1>1, <1>3 DEF ResponderVerified, VerifyMcc
<1>4. CASE AcceptBindRequest(c)
  <2>1. VerifyMcc(InitiatorMcc(c), rTrusted'[c])
    BY <1>4 DEF AcceptBindRequest, InitiatorAccepted, AcceptsPeer, TrustedKey, VerifyMcc
  <2>2. QED
    BY <1>1, <2>1 DEF VerifyMcc
<1>5. QED
  BY <1>2, <1>3, <1>4

\* A responder that accepts a confirm has read one, so its sender is authenticated.
LEMMA ConfirmsAcceptedStep ==
    ASSUME AuthInv, [Next]_vars
    PROVE  ConfirmsAccepted'
<1> USE DEF AuthInv, TypeInv, TypeOK
<1> SUFFICES ASSUME NEW c \in Conns, rState'[c] \in {"caps", "bound"}
             PROVE  Authenticated(c)'
  BY DEF ConfirmsAccepted
<1>1. rState[c] \in {"caps", "bound"} \/ AcceptConfirm(c)
  <2>1. \A d \in Conns : Initiator(d) => rState' = rState
    BY DEF Initiator, SendPropose, SendBindRequest, LookUpResponder, SendBindConfirm,
           RefuseBindResponse, SendCapabilities, FinishInitiator, InitiatorMisreads,
           CloseInitiator, IFail
  <2>2. ASSUME NEW d \in Conns, Responder(d), ~ AcceptConfirm(c)
        PROVE  rState[c] \in {"caps", "bound"}
    <3>1. CASE FinishResponder(d)
      BY <3>1 DEF FinishResponder
    <3>2. CASE AcceptConfirm(d)
      BY <2>2, <3>2 DEF AcceptConfirm
    <3>3. CASE SendVersionAck(d) \/ LookUpInitiator(d) \/ AcceptBindRequest(d)
               \/ SendBindResponse(d) \/ RefuseBindRequest(d)
      BY <3>3 DEF SendVersionAck, LookUpInitiator, AcceptBindRequest, SendBindResponse,
                  RefuseBindRequest
    <3>4. CASE RefuseConfirm(d) \/ ResponderMisreads(d) \/ CloseResponder(d)
      BY <3>4 DEF RefuseConfirm, ResponderMisreads, CloseResponder, RFail
    <3>5. QED
      BY <2>2, <3>1, <3>2, <3>3, <3>4 DEF Responder
  <2>3. \A d \in Conns : \/ InitiatorAborts(d) \/ InitiatorCancelled(d)
                         \/ ResponderAborts(d) \/ LoseConnection(d)
          => rState[c] \in {"caps", "bound"}
    BY DEF InitiatorAborts, InitiatorCancelled, ResponderAborts, LoseConnection, IFail, RFail
  <2>4. QED
    BY <2>1, <2>2, <2>3 DEF Next, Settled, vars, Expire
<1>2. CASE rState[c] \in {"caps", "bound"}
  BY <1>2, AuthenticatedStable DEF ConfirmsAccepted
<1>3. CASE AcceptConfirm(c)
  <2>1. 1 \in 1 .. Len(toR[c]) /\ toR[c][1].type = "confirm"
    BY <1>3, HeadFrame DEF AcceptConfirm, RHas
  <2>2. Authenticated(c)
    BY <2>1 DEF ConfirmsInFlight
  <2>3. QED
    BY <2>2, AuthenticatedStable
<1>4. QED
  BY <1>1, <1>2, <1>3

\* The strengthened invariant holds of every reachable state.
THEOREM AuthInvariant == Spec => []AuthInv
<1>1. Init => AuthInv
  BY InitTypeOK
  DEF Init, AuthInv, ConfirmsInFlight, ResponderVerified, RAccepted, ConfirmsAccepted
<1>2. AuthInv /\ [Next]_vars => AuthInv'
  <2> SUFFICES ASSUME AuthInv, [Next]_vars  PROVE AuthInv'
    OBVIOUS
  <2>1. TypeInv'
    BY NextTypeInv DEF AuthInv
  <2>2. ConfirmsInFlight'
    <3> SUFFICES ASSUME NEW c \in Conns, NEW n \in 1 .. Len(toR'[c]),
                        toR'[c][n].type = "confirm"
                 PROVE  Authenticated(c)'
      BY DEF ConfirmsInFlight
    <3>1. CASE SendBindConfirm(c)
      BY <3>1, ConfirmAuthenticates DEF AuthInv, TypeInv
    <3>2. CASE \E m \in 1 .. Len(toR[c]) : toR[c][m].type = "confirm"
      BY <3>2, AuthenticatedStable DEF AuthInv, TypeInv, ConfirmsInFlight
    <3>3. QED
      BY <3>1, <3>2, ConfirmsOrigin DEF AuthInv
  <2>3. ResponderVerified' /\ ConfirmsAccepted'
    BY ResponderVerifiedStep, ConfirmsAcceptedStep
  <2>4. QED
    BY <2>1, <2>2, <2>3 DEF AuthInv
<1>3. QED
  BY <1>1, <1>2, PTL DEF Spec

\* A responder gets past the confirm only when the initiator has accepted it, and
\* each has verified the other's credential under a key it goes by.
THEOREM AuthenticationIsMutual == Spec => []MutualAuthentication
<1>1. AuthInv => MutualAuthentication
  BY DEF AuthInv, MutualAuthentication, ConfirmsAccepted, ResponderVerified, RAccepted,
         Authenticated
<1>2. QED
  BY <1>1, AuthInvariant, PTL

-----------------------------------------------------------------------------
(***************************************************************************)
(* One key per authority is not inductive: a side that has looked an         *)
(* authority up and is about to accept its peer must still find the root     *)
(* store as it was.  Within a thread nothing runs in between (OneAtATime),   *)
(* and two threads of one process that have both looked the authority up     *)
(* have disturbed it (OverlapsNoted); so what a side has found is what the    *)
(* store holds (FoundIsHeld).                                                *)
(***************************************************************************)
ILooks(c) == iState[c] = "looking"
RLooks(c) == rState[c] = "looking"
IAuth(c) == ResponderMcc(c).auth
RAuth(c) == InitiatorMcc(c).auth

OneAtATime ==
    \A c \in Conns, d \in Conns : c # d =>
        /\ ~ (ILooks(c) /\ ILooks(d) /\ IHost(c) = IHost(d))
        /\ ~ (RLooks(c) /\ RLooks(d) /\ RHost(c) = RHost(d))

OverlapsNoted ==
    \A c \in Conns, d \in Conns :
        ILooks(c) /\ RLooks(d) /\ IHost(c) = RHost(d) /\ IAuth(c) = RAuth(d)
           => IAuth(c) \in disturbed[IHost(c)]

\* Under strict trust an expired entry is not found, and is still the entry.
Finds(p, a, found) ==
    /\ a \notin disturbed[p] => found = pins[p][a]
    /\ setup.mode[p] = "strict" => found \in {NoKey, pins[p][a]}

FoundIsHeld ==
    \A c \in Conns :
        /\ ILooks(c) => Finds(IHost(c), IAuth(c), iTrusted[c])
        /\ RLooks(c) => Finds(RHost(c), RAuth(c), rTrusted[c])

ExpiriesNoted == \A p \in Processes : expired[p] \subseteq disturbed[p]

PinInv ==
    /\ TypeInv /\ OneAtATime /\ OverlapsNoted /\ FoundIsHeld /\ ExpiriesNoted
    /\ OneKeyPerAuthority

\* The steps that neither touch a root store nor look one up, and what they leave.
Quiet ==
    /\ UNCHANGED trust
    /\ \A c \in Conns :
          /\ iState'[c] = "looking" => ILooks(c)
          /\ rState'[c] = "looking" => RLooks(c)
          /\ IAccepted(c)' => IAccepted(c)
          /\ RAccepted(c)' => RAccepted(c)

\* Every step is quiet, a lookup, a decision on a peer or an expiry.
LEMMA StepKinds ==
    ASSUME TypeOK, [Next]_vars
    PROVE  \/ Quiet
           \/ \E c \in Conns : \/ LookUpResponder(c) /\ IThreadFree(IHost(c))
                               \/ SendBindConfirm(c) \/ RefuseBindResponse(c)
                               \/ LookUpInitiator(c) /\ RThreadFree(RHost(c))
                               \/ AcceptBindRequest(c) \/ RefuseBindRequest(c)
           \/ \E p \in Processes, a \in Authorities : Expire(p, a)
<1> USE DEF TypeOK
<1>1. ASSUME NEW c \in Conns, Initiator(c)
      PROVE  \/ Quiet
             \/ LookUpResponder(c) /\ IThreadFree(IHost(c))
             \/ SendBindConfirm(c) \/ RefuseBindResponse(c)
  <2>1. CASE SendPropose(c) \/ SendBindRequest(c)
    BY <2>1 DEF SendPropose, SendBindRequest, Quiet, ILooks, RLooks, IAccepted, RAccepted
  <2>3. CASE SendCapabilities(c) \/ FinishInitiator(c)
    BY <2>3 DEF SendCapabilities, FinishInitiator, Quiet, ILooks, RLooks, IAccepted, RAccepted
  <2>2. CASE InitiatorMisreads(c) \/ CloseInitiator(c)
    BY <2>2 DEF InitiatorMisreads, IFail, CloseInitiator, Quiet,
                ILooks, RLooks, IAccepted, RAccepted
  <2>4. QED
    BY <1>1, <2>1, <2>2, <2>3 DEF Initiator
<1>2. ASSUME NEW c \in Conns, Responder(c)
      PROVE  \/ Quiet
             \/ LookUpInitiator(c) /\ RThreadFree(RHost(c))
             \/ AcceptBindRequest(c) \/ RefuseBindRequest(c)
  <2>1. CASE SendVersionAck(c) \/ SendBindResponse(c)
    BY <2>1 DEF SendVersionAck, SendBindResponse, Quiet, ILooks, RLooks, IAccepted, RAccepted
  <2>3. CASE AcceptConfirm(c) \/ FinishResponder(c)
    BY <2>3 DEF AcceptConfirm, FinishResponder, Quiet, ILooks, RLooks, IAccepted, RAccepted
  <2>2. CASE RefuseConfirm(c) \/ ResponderMisreads(c) \/ CloseResponder(c)
    BY <2>2 DEF RefuseConfirm, ResponderMisreads, RFail, CloseResponder, Quiet,
                ILooks, RLooks, IAccepted, RAccepted
  <2>4. QED
    BY <1>2, <2>1, <2>2, <2>3 DEF Responder
<1>3. ASSUME NEW c \in Conns, \/ InitiatorAborts(c) \/ InitiatorCancelled(c)
                              \/ ResponderAborts(c) \/ LoseConnection(c)
      PROVE  Quiet
  BY <1>3 DEF InitiatorAborts, InitiatorCancelled, ResponderAborts, LoseConnection, IFail,
              RFail, Quiet, ILooks, RLooks, IAccepted, RAccepted, trust
<1>4. CASE UNCHANGED vars
  BY <1>4 DEF vars, Quiet, ILooks, RLooks, IAccepted, RAccepted, trust, store
<1>5. QED
  BY <1>1, <1>2, <1>3, <1>4 DEF Next, Settled

\* Who is at the ends of a connection, for which authority, and how it trusts.
LEMMA EndsStay ==
    ASSUME [Next]_vars, NEW c \in Conns
    PROVE  /\ IHost(c)' = IHost(c) /\ RHost(c)' = RHost(c)
           /\ InitiatorMcc(c)' = InitiatorMcc(c) /\ ResponderMcc(c)' = ResponderMcc(c)
           /\ IAuth(c)' = IAuth(c) /\ RAuth(c)' = RAuth(c)
  BY SetupStays DEF IHost, RHost, InitiatorMcc, ResponderMcc, IAuth, RAuth

\* The invariant says the same of a step that leaves the root stores alone, and of
\* one by which a side merely ceases to look.
LEMMA QuietStep ==
    ASSUME PinInv, [Next]_vars, Quiet
    PROVE  OneAtATime' /\ OverlapsNoted' /\ FoundIsHeld' /\ ExpiriesNoted' /\ OneKeyPerAuthority'
<1>s. setup' = setup /\ pins' = pins /\ expired' = expired /\ disturbed' = disturbed
      /\ iTrusted' = iTrusted /\ rTrusted' = rTrusted
  BY SetupStays DEF Quiet, trust, store
<1>q. \A c \in Conns : /\ ILooks(c)' => ILooks(c)
                       /\ RLooks(c)' => RLooks(c)
                       /\ IAccepted(c)' => IAccepted(c)
                       /\ RAccepted(c)' => RAccepted(c)
  BY DEF Quiet, ILooks, RLooks
<1>e. \A c \in Conns : /\ IHost(c)' = IHost(c) /\ RHost(c)' = RHost(c)
                       /\ InitiatorMcc(c)' = InitiatorMcc(c)
                       /\ ResponderMcc(c)' = ResponderMcc(c)
                       /\ IAuth(c)' = IAuth(c) /\ RAuth(c)' = RAuth(c)
  BY EndsStay
<1>1. OneAtATime'
  BY <1>q, <1>e DEF PinInv, OneAtATime
<1>2. OverlapsNoted'
  BY <1>s, <1>q, <1>e DEF PinInv, OverlapsNoted
<1>3. FoundIsHeld'
  BY <1>s, <1>q, <1>e DEF PinInv, FoundIsHeld, Finds
<1>4. ExpiriesNoted'
  BY <1>s DEF PinInv, ExpiriesNoted
<1>5. OneKeyPerAuthority'
  BY <1>s, <1>q, <1>e DEF PinInv, OneKeyPerAuthority, Steady, VerifyMcc
<1>6. QED
  BY <1>1, <1>2, <1>3, <1>4, <1>5

\* An initiator looks up: what it finds is what the store holds, its thread had
\* nothing else under way, and the other thread's lookup is noted.
LEMMA LookUpResponderStep ==
    ASSUME PinInv, [Next]_vars, NEW c \in Conns, LookUpResponder(c), IThreadFree(IHost(c))
    PROVE  OneAtATime' /\ OverlapsNoted' /\ FoundIsHeld' /\ ExpiriesNoted' /\ OneKeyPerAuthority'
<1> USE DEF PinInv, TypeInv, TypeOK
<1> DEFINE p == IHost(c)
           a == IAuth(c)
<1>t. p \in Processes /\ a \in Authorities
  BY EndTypes, MccTypes DEF IAuth
<1>s. /\ setup' = setup /\ pins' = pins /\ expired' = expired /\ rTrusted' = rTrusted
      /\ iTrusted' = [iTrusted EXCEPT ![c] = Lookup(p, a)]
      /\ iState' = [iState EXCEPT ![c] = "looking"] /\ rState' = rState
      /\ disturbed' = IF RLookedUp(p, a) THEN [disturbed EXCEPT ![p] = @ \cup {a}]
                      ELSE disturbed
  BY DEF LookUpResponder, Overlapping, store, IAuth
<1>m. \A x \in Processes : disturbed[x] \subseteq disturbed'[x]
  BY <1>s
<1>q. \A d \in Conns : /\ d # c => /\ ILooks(d)' <=> ILooks(d)
                                   /\ iTrusted'[d] = iTrusted[d]
                       /\ RLooks(d)' <=> RLooks(d)
                       /\ IAccepted(d)' => IAccepted(d)
                       /\ RAccepted(d)' => RAccepted(d)
  BY <1>s DEF ILooks, RLooks, IAccepted, RAccepted
<1>e. \A d \in Conns : /\ IHost(d)' = IHost(d) /\ RHost(d)' = RHost(d)
                       /\ InitiatorMcc(d)' = InitiatorMcc(d)
                       /\ ResponderMcc(d)' = ResponderMcc(d)
                       /\ IAuth(d)' = IAuth(d) /\ RAuth(d)' = RAuth(d)
                       /\ IHost(d) \in Processes /\ RHost(d) \in Processes
  BY EndsStay, EndTypes
<1> HIDE DEF p, a
<1>1. OneAtATime'
  <2>1. \A d \in Conns : IHost(d) = IHost(c) => ~ ILooks(d)
    BY DEF IThreadFree, ILooks
  <2>2. QED
    BY <2>1, <1>q, <1>e DEF OneAtATime
<1>2. OverlapsNoted'
  <2> SUFFICES ASSUME NEW d \in Conns, NEW e \in Conns, ILooks(d)', RLooks(e)',
                      IHost(d) = RHost(e), IAuth(d) = RAuth(e)
               PROVE  IAuth(d) \in disturbed'[IHost(d)]
    BY <1>e DEF OverlapsNoted
  <2>1. CASE d = c
    <3>1. RLookedUp(p, a)
      BY <2>1, <1>q DEF RLookedUp, RLooks, RAuth, IAuth, p, a
    <3>2. QED
      BY <2>1, <3>1, <1>s, <1>t DEF p, a
  <2>2. CASE d # c
    <3>1. IAuth(d) \in disturbed[IHost(d)]
      BY <2>2, <1>q DEF OverlapsNoted
    <3>2. QED
      BY <3>1, <1>m, <1>e
  <2>3. QED
    BY <2>1, <2>2
<1>3. FoundIsHeld'
  <2>1. Finds(IHost(c), IAuth(c), iTrusted[c])'
    <3>1. expired[p] \subseteq disturbed[p] /\ disturbed[p] \subseteq disturbed'[p]
      BY <1>t, <1>m DEF ExpiriesNoted
    <3>2. iTrusted'[c] = Lookup(p, a)
      BY <1>s
    <3>3. /\ a \notin disturbed'[p] => iTrusted'[c] = pins'[p][a]
          /\ setup'.mode[p] = "strict" => iTrusted'[c] \in {NoKey, pins'[p][a]}
      BY <3>1, <3>2, <1>s DEF Lookup
    <3>4. QED
      BY <3>3, <1>e DEF Finds, p, a
  <2>2. \A d \in Conns : /\ d # c /\ ILooks(d) => Finds(IHost(d), IAuth(d), iTrusted[d])
                         /\ RLooks(d) => Finds(RHost(d), RAuth(d), rTrusted[d])
    BY DEF FoundIsHeld
  <2>3. \A d \in Conns : /\ d # c /\ ILooks(d)' => Finds(IHost(d), IAuth(d), iTrusted[d])'
                         /\ RLooks(d)' => Finds(RHost(d), RAuth(d), rTrusted[d])'
    BY <2>2, <1>q, <1>e, <1>m, <1>s DEF Finds
  <2>4. QED
    BY <2>1, <2>3 DEF FoundIsHeld
<1>4. ExpiriesNoted'
  BY <1>s, <1>m DEF ExpiriesNoted
<1>5. OneKeyPerAuthority'
  BY <1>s, <1>q, <1>e, <1>m, EndTypes, MccTypes DEF OneKeyPerAuthority, Steady, VerifyMcc
<1>6. QED
  BY <1>1, <1>2, <1>3, <1>4, <1>5


\* A responder does the same; its thread has nothing else under way either.
LEMMA LookUpInitiatorStep ==
    ASSUME PinInv, [Next]_vars, NEW c \in Conns, LookUpInitiator(c), RThreadFree(RHost(c))
    PROVE  OneAtATime' /\ OverlapsNoted' /\ FoundIsHeld' /\ ExpiriesNoted' /\ OneKeyPerAuthority'
<1> USE DEF PinInv, TypeInv, TypeOK
<1> DEFINE p == RHost(c)
           a == RAuth(c)
<1>t. p \in Processes /\ a \in Authorities
  BY EndTypes, MccTypes DEF RAuth
<1>s. /\ setup' = setup /\ pins' = pins /\ expired' = expired /\ iTrusted' = iTrusted
      /\ rTrusted' = [rTrusted EXCEPT ![c] = Lookup(p, a)]
      /\ rState' = [rState EXCEPT ![c] = "looking"] /\ iState' = iState
      /\ disturbed' = IF ILookedUp(p, a) THEN [disturbed EXCEPT ![p] = @ \cup {a}]
                      ELSE disturbed
  BY DEF LookUpInitiator, Overlapping, store, RAuth
<1>m. \A x \in Processes : disturbed[x] \subseteq disturbed'[x]
  BY <1>s
<1>q. \A d \in Conns : /\ d # c => /\ RLooks(d)' <=> RLooks(d)
                                   /\ rTrusted'[d] = rTrusted[d]
                       /\ ILooks(d)' <=> ILooks(d)
                       /\ RAccepted(d)' => RAccepted(d)
                       /\ IAccepted(d)' => IAccepted(d)
  BY <1>s DEF RLooks, ILooks, RAccepted, IAccepted
<1>e. \A d \in Conns : /\ RHost(d)' = RHost(d) /\ IHost(d)' = IHost(d)
                       /\ ResponderMcc(d)' = ResponderMcc(d)
                       /\ InitiatorMcc(d)' = InitiatorMcc(d)
                       /\ RAuth(d)' = RAuth(d) /\ IAuth(d)' = IAuth(d)
                       /\ RHost(d) \in Processes /\ IHost(d) \in Processes
  BY EndsStay, EndTypes
<1> HIDE DEF p, a
<1>1. OneAtATime'
  <2>1. \A d \in Conns : RHost(d) = RHost(c) => ~ RLooks(d)
    BY DEF RThreadFree, RLooks
  <2>2. QED
    BY <2>1, <1>q, <1>e DEF OneAtATime
<1>2. OverlapsNoted'
  <2> SUFFICES ASSUME NEW d \in Conns, NEW e \in Conns, RLooks(d)', ILooks(e)',
                      RHost(d) = IHost(e), RAuth(d) = IAuth(e)
               PROVE  RAuth(d) \in disturbed'[RHost(d)]
    BY <1>e DEF OverlapsNoted
  <2>1. CASE d = c
    <3>1. ILookedUp(p, a)
      BY <2>1, <1>q DEF ILookedUp, ILooks, IAuth, RAuth, p, a
    <3>2. QED
      BY <2>1, <3>1, <1>s, <1>t DEF p, a
  <2>2. CASE d # c
    <3>1. RAuth(d) \in disturbed[RHost(d)]
      BY <2>2, <1>q DEF OverlapsNoted
    <3>2. QED
      BY <3>1, <1>m, <1>e
  <2>3. QED
    BY <2>1, <2>2
<1>3. FoundIsHeld'
  <2>1. Finds(RHost(c), RAuth(c), rTrusted[c])'
    <3>1. expired[p] \subseteq disturbed[p] /\ disturbed[p] \subseteq disturbed'[p]
      BY <1>t, <1>m DEF ExpiriesNoted
    <3>2. rTrusted'[c] = Lookup(p, a)
      BY <1>s
    <3>3. /\ a \notin disturbed'[p] => rTrusted'[c] = pins'[p][a]
          /\ setup'.mode[p] = "strict" => rTrusted'[c] \in {NoKey, pins'[p][a]}
      BY <3>1, <3>2, <1>s DEF Lookup
    <3>4. QED
      BY <3>3, <1>e DEF Finds, p, a
  <2>2. \A d \in Conns : /\ d # c /\ RLooks(d) => Finds(RHost(d), RAuth(d), rTrusted[d])
                         /\ ILooks(d) => Finds(IHost(d), IAuth(d), iTrusted[d])
    BY DEF FoundIsHeld
  <2>3. \A d \in Conns : /\ d # c /\ RLooks(d)' => Finds(RHost(d), RAuth(d), rTrusted[d])'
                         /\ ILooks(d)' => Finds(IHost(d), IAuth(d), iTrusted[d])'
    BY <2>2, <1>q, <1>e, <1>m, <1>s DEF Finds
  <2>4. QED
    BY <2>1, <2>3 DEF FoundIsHeld
<1>4. ExpiriesNoted'
  BY <1>s, <1>m DEF ExpiriesNoted
<1>5. OneKeyPerAuthority'
  BY <1>s, <1>q, <1>e, <1>m, EndTypes, MccTypes DEF OneKeyPerAuthority, Steady, VerifyMcc
<1>6. QED
  BY <1>1, <1>2, <1>3, <1>4, <1>5


\* What deciding on a peer may do to the root store: under tofu and for an authority it
\* was not found to know, pin the key the peer offers, which signed the credential.
Pins(p, mcc, found) ==
    /\ \A x \in Processes, b \in Authorities : pins'[x][b] # pins[x][b] =>
          x = p /\ b = mcc.auth /\ found = NoKey /\ setup.mode[p] = "tofu"
    /\ \A x \in Processes : expired'[x] \subseteq expired[x]

\* A peer that is accepted is accepted under what the store then holds, unless the
\* entry was disturbed.
LEMMA TrustPins ==
    ASSUME PinInv, NEW p \in Processes, NEW mcc \in Mccs, NEW found \in Keys \cup {NoKey},
           NEW offered \in Keys \cup {NoKey}, Finds(p, mcc.auth, found),
           AcceptsPeer(p, mcc, found, offered), Trust(p, mcc, found, offered)
    PROVE  /\ Pins(p, mcc, found)
           /\ Steady(p, mcc.auth) => VerifyMcc(mcc, pins'[p][mcc.auth])
<1> USE DEF PinInv, TypeInv, TypeOK
<1>m. mcc.auth \in Authorities
  BY MccsAssumption
<1>1. CASE found # NoKey
  <2>1. pins' = pins /\ expired' = expired
    BY <1>1 DEF Trust, store
  <2>2. Steady(p, mcc.auth) => found = pins[p][mcc.auth]
    BY <1>1 DEF Finds, Steady
  <2>3. VerifyMcc(mcc, found)
    BY <1>1 DEF AcceptsPeer
  <2>4. QED
    BY <2>1, <2>2, <2>3 DEF Pins
<1>2. CASE found = NoKey
  <2>1. /\ pins' = [pins EXCEPT ![p][mcc.auth] = offered]
        /\ expired' = IF pins[p][mcc.auth] = offered THEN expired
                      ELSE [expired EXCEPT ![p] = @ \ {mcc.auth}]
    BY <1>2 DEF Trust, AddAuthority
  <2>2. VerifyMcc(mcc, offered) /\ setup.mode[p] = "tofu"
    BY <1>2 DEF AcceptsPeer
  <2>3. Pins(p, mcc, found)
    <3>1. \A x \in Processes, b \in Authorities : pins'[x][b] # pins[x][b] =>
             x = p /\ b = mcc.auth
      BY <2>1, <1>m
    <3>2. \A x \in Processes : expired'[x] \subseteq expired[x]
      BY <2>1
    <3>3. QED
      BY <3>1, <3>2, <2>2, <1>2 DEF Pins
  <2>4. pins'[p][mcc.auth] = offered
    BY <2>1, <1>m
  <2>5. QED
    BY <2>2, <2>3, <2>4
<1>3. QED
  BY <1>1, <1>2

\* A step that leaves the root stores alone pins nothing.
LEMMA NothingPinned ==
    ASSUME UNCHANGED store, NEW p, NEW mcc, NEW found
    PROVE  Pins(p, mcc, found)
  BY DEF store, Pins

\* An entry that is pinned held nothing, unless it was disturbed: so every peer that was
\* accepted stays accepted under what the store holds.
LEMMA EntriesStay ==
    ASSUME PinInv, NEW p \in Processes, NEW mcc \in Mccs, NEW found \in Keys \cup {NoKey},
           Finds(p, mcc.auth, found), Pins(p, mcc, found),
           NEW x \in Processes, NEW other \in Mccs, Steady(x, other.auth),
           VerifyMcc(other, pins[x][other.auth])
    PROVE  VerifyMcc(other, pins'[x][other.auth])
<1>1. other.auth \in Authorities /\ other.signer # NoKey
  BY MccsAssumption, KeysAssumption
<1>2. CASE pins'[x][other.auth] = pins[x][other.auth]
  BY <1>2
<1>3. CASE pins'[x][other.auth] # pins[x][other.auth]
  <2>1. x = p /\ other.auth = mcc.auth /\ found = NoKey /\ setup.mode[p] = "tofu"
    BY <1>1, <1>3 DEF Pins
  <2>2. pins[x][other.auth] = NoKey
    BY <2>1 DEF Finds, Steady
  <2>3. QED
    BY <2>2, <1>1 DEF VerifyMcc
<1>4. QED
  BY <1>2, <1>3

\* What a side that still looks has found is still what the store holds: the same
\* thread looks one authority up at a time, and the other thread's lookup is noted.
LEMMA FindingsStay ==
    ASSUME PinInv, NEW p \in Processes, NEW mcc \in Mccs, NEW found \in Keys \cup {NoKey},
           Pins(p, mcc, found), NEW x \in Processes, NEW b \in Authorities,
           x = p /\ b = mcc.auth => b \in disturbed[x],
           NEW held, Finds(x, b, held)
    PROVE  /\ b \notin disturbed[x] => held = pins'[x][b]
           /\ setup.mode[x] = "strict" => held \in {NoKey, pins'[x][b]}
<1>1. CASE pins'[x][b] = pins[x][b]
  BY <1>1 DEF Finds
<1>2. CASE pins'[x][b] # pins[x][b]
  BY <1>2 DEF Pins
<1>3. QED
  BY <1>1, <1>2

\* An initiator that has looked its peer's authority up accepts the peer or refuses it.
LEMMA InitiatorDecides ==
    ASSUME PinInv, [Next]_vars, NEW c \in Conns, SendBindConfirm(c) \/ RefuseBindResponse(c)
    PROVE  OneAtATime' /\ OverlapsNoted' /\ FoundIsHeld' /\ ExpiriesNoted' /\ OneKeyPerAuthority'
<1> USE DEF PinInv, TypeInv, TypeOK
<1> DEFINE p == IHost(c)
           mcc == ResponderMcc(c)
           found == iTrusted[c]
           offered == Head(toI[c]).offered
<1>l. ILooks(c)
  BY DEF SendBindConfirm, RefuseBindResponse, ILooks
<1>t. /\ p \in Processes /\ mcc \in Mccs /\ found \in Keys \cup {NoKey}
      /\ offered \in Keys \cup {NoKey}
  <2>1. toI[c] # << >>
    BY <1>l DEF Reading, ILooks, IHas
  <2>2. Head(toI[c]) \in Frames
    BY <2>1, ConsumedType
  <2>3. QED
    BY <2>2, EndTypes DEF Frames
<1>f. Finds(p, mcc.auth, found)
  BY <1>l DEF FoundIsHeld, IAuth
<1>s. /\ setup' = setup /\ disturbed' = disturbed /\ rTrusted' = rTrusted /\ rState' = rState
      /\ iState'[c] # "looking"
      /\ \A d \in Conns : d # c => iState'[d] = iState[d] /\ iTrusted'[d] = iTrusted[d]
  BY DEF SendBindConfirm, RefuseBindResponse
<1>p. /\ Pins(p, mcc, found)
      /\ IAccepted(c)' => (Steady(p, mcc.auth) => VerifyMcc(mcc, pins'[p][mcc.auth]))
  <2>1. CASE SendBindConfirm(c)
    <3>1. AcceptsPeer(p, mcc, found, offered) /\ Trust(p, mcc, found, offered)
      BY <2>1 DEF SendBindConfirm, ResponseAccepted, ResponderAccepted
    <3>2. QED
      BY <3>1, <1>t, <1>f, TrustPins
  <2>2. CASE RefuseBindResponse(c)
    <3>1. ~ IAccepted(c)'
      BY <2>2 DEF RefuseBindResponse, IAccepted
    <3>2. CASE ResponderAccepted(c)
      <4>1. AcceptsPeer(p, mcc, found, offered) /\ Trust(p, mcc, found, offered)
        BY <2>2, <3>2 DEF RefuseBindResponse, ResponderAccepted
      <4>2. QED
        BY <4>1, <3>1, <1>t, <1>f, TrustPins
    <3>3. CASE ~ ResponderAccepted(c)
      BY <2>2, <3>1, <3>3, NothingPinned DEF RefuseBindResponse
    <3>4. QED
      BY <3>2, <3>3
  <2>3. QED
    BY <2>1, <2>2
<1>q. \A d \in Conns : /\ ILooks(d)' <=> d # c /\ ILooks(d)
                       /\ RLooks(d)' <=> RLooks(d)
                       /\ d # c => IAccepted(d)' = IAccepted(d)
                       /\ RAccepted(d)' = RAccepted(d)
  BY <1>s DEF ILooks, RLooks, IAccepted, RAccepted
<1>e. \A d \in Conns : /\ IHost(d)' = IHost(d) /\ RHost(d)' = RHost(d)
                       /\ InitiatorMcc(d)' = InitiatorMcc(d)
                       /\ ResponderMcc(d)' = ResponderMcc(d)
                       /\ IAuth(d)' = IAuth(d) /\ RAuth(d)' = RAuth(d)
                       /\ IHost(d) \in Processes /\ RHost(d) \in Processes
                       /\ InitiatorMcc(d) \in Mccs /\ ResponderMcc(d) \in Mccs
                       /\ IAuth(d) \in Authorities /\ RAuth(d) \in Authorities
                       /\ IAuth(d) = ResponderMcc(d).auth /\ RAuth(d) = InitiatorMcc(d).auth
  BY EndsStay, EndTypes, MccTypes DEF IAuth, RAuth
<1>g. p = IHost(c) /\ mcc = ResponderMcc(c)
  OBVIOUS
<1> HIDE DEF p, mcc, found, offered
<1>1. OneAtATime'
  BY <1>q, <1>e DEF OneAtATime
<1>2. OverlapsNoted'
  BY <1>q, <1>e, <1>s DEF OverlapsNoted
<1>3. FoundIsHeld'
  <2>1. ASSUME NEW d \in Conns, ILooks(d)'  PROVE Finds(IHost(d), IAuth(d), iTrusted[d])'
    <3>1. d # c /\ ILooks(d) /\ Finds(IHost(d), IAuth(d), iTrusted[d])
      BY <2>1, <1>q DEF FoundIsHeld
    <3>2. IHost(d) # p
      BY <3>1, <1>l, <1>g DEF OneAtATime
    <3>3. /\ IAuth(d) \notin disturbed[IHost(d)] => iTrusted[d] = pins'[IHost(d)][IAuth(d)]
          /\ setup.mode[IHost(d)] = "strict" =>
                iTrusted[d] \in {NoKey, pins'[IHost(d)][IAuth(d)]}
      BY <3>1, <3>2, <1>t, <1>p, <1>e, FindingsStay
    <3>4. QED
      BY <3>1, <3>3, <1>s, <1>e DEF Finds
  <2>2. ASSUME NEW d \in Conns, RLooks(d)'  PROVE Finds(RHost(d), RAuth(d), rTrusted[d])'
    <3>1. RLooks(d) /\ Finds(RHost(d), RAuth(d), rTrusted[d])
      BY <2>2, <1>q DEF FoundIsHeld
    <3>2. RHost(d) = p /\ RAuth(d) = mcc.auth => RAuth(d) \in disturbed[RHost(d)]
      BY <3>1, <1>l, <1>g, <1>e DEF OverlapsNoted
    <3>3. /\ RAuth(d) \notin disturbed[RHost(d)] => rTrusted[d] = pins'[RHost(d)][RAuth(d)]
          /\ setup.mode[RHost(d)] = "strict" =>
                rTrusted[d] \in {NoKey, pins'[RHost(d)][RAuth(d)]}
      BY <3>1, <3>2, <1>t, <1>p, <1>e, FindingsStay
    <3>4. QED
      BY <3>1, <3>3, <1>s, <1>e DEF Finds
  <2>3. QED
    BY <2>1, <2>2 DEF FoundIsHeld
<1>4. ExpiriesNoted'
  BY <1>s, <1>p DEF ExpiriesNoted, Pins
<1>5. OneKeyPerAuthority'
  <2> DEFINE Good(x, other) ==
        Steady(x, other.auth) => VerifyMcc(other, pins[x][other.auth])
             Stays(x, other) ==
        Steady(x, other.auth) => VerifyMcc(other, pins'[x][other.auth])
  <2>1. ASSUME NEW x \in Processes, NEW other \in Mccs, Good(x, other)  PROVE Stays(x, other)
    BY <2>1, <1>t, <1>f, <1>p, EntriesStay
  <2>2. \A d \in Conns : RAccepted(d)' => Stays(RHost(d), InitiatorMcc(d))
    BY <2>1, <1>q, <1>e DEF OneKeyPerAuthority
  <2>3. \A d \in Conns : IAccepted(d)' => Stays(IHost(d), ResponderMcc(d))
    <3>1. IAccepted(c)' => Stays(IHost(c), ResponderMcc(c))
      BY <1>p, <1>g
    <3>2. \A d \in Conns : d # c /\ IAccepted(d)' => Stays(IHost(d), ResponderMcc(d))
      BY <2>1, <1>q, <1>e DEF OneKeyPerAuthority
    <3>3. QED
      BY <3>1, <3>2
  <2>4. ASSUME NEW d \in Conns
        PROVE  /\ (IAccepted(d) /\ Steady(IHost(d), ResponderMcc(d).auth))' =>
                     VerifyMcc(ResponderMcc(d), pins[IHost(d)][ResponderMcc(d).auth])'
               /\ (RAccepted(d) /\ Steady(RHost(d), InitiatorMcc(d).auth))' =>
                     VerifyMcc(InitiatorMcc(d), pins[RHost(d)][InitiatorMcc(d).auth])'
    <3>1. /\ Steady(IHost(d), ResponderMcc(d).auth)' <=> Steady(IHost(d), ResponderMcc(d).auth)
          /\ Steady(RHost(d), InitiatorMcc(d).auth)' <=> Steady(RHost(d), InitiatorMcc(d).auth)
      BY <1>e, <1>s DEF Steady
    <3>2. /\ VerifyMcc(ResponderMcc(d), pins[IHost(d)][ResponderMcc(d).auth])'
                <=> VerifyMcc(ResponderMcc(d), pins'[IHost(d)][ResponderMcc(d).auth])
          /\ VerifyMcc(InitiatorMcc(d), pins[RHost(d)][InitiatorMcc(d).auth])'
                <=> VerifyMcc(InitiatorMcc(d), pins'[RHost(d)][InitiatorMcc(d).auth])
      BY <1>e DEF VerifyMcc
    <3>3. QED
      BY <3>1, <3>2, <2>2, <2>3
  <2>5. QED
    BY <2>4 DEF OneKeyPerAuthority
<1>6. QED
  BY <1>1, <1>2, <1>3, <1>4, <1>5

\* A responder that has looked its peer's authority up accepts the peer or refuses it.
LEMMA ResponderDecides ==
    ASSUME PinInv, [Next]_vars, NEW c \in Conns, AcceptBindRequest(c) \/ RefuseBindRequest(c)
    PROVE  OneAtATime' /\ OverlapsNoted' /\ FoundIsHeld' /\ ExpiriesNoted' /\ OneKeyPerAuthority'
<1> USE DEF PinInv, TypeInv, TypeOK
<1> DEFINE p == RHost(c)
           mcc == InitiatorMcc(c)
           found == rTrusted[c]
           offered == Head(toR[c]).offered
<1>l. RLooks(c)
  BY DEF AcceptBindRequest, RefuseBindRequest, RLooks
<1>t. /\ p \in Processes /\ mcc \in Mccs /\ found \in Keys \cup {NoKey}
      /\ offered \in Keys \cup {NoKey}
  <2>1. toR[c] # << >>
    BY <1>l DEF Reading, RLooks, RHas
  <2>2. Head(toR[c]) \in Frames
    BY <2>1, ConsumedType
  <2>3. QED
    BY <2>2, EndTypes DEF Frames
<1>f. Finds(p, mcc.auth, found)
  BY <1>l DEF FoundIsHeld, RAuth
<1>s. /\ setup' = setup /\ disturbed' = disturbed /\ iTrusted' = iTrusted /\ iState' = iState
      /\ rState'[c] # "looking"
      /\ \A d \in Conns : d # c => rState'[d] = rState[d] /\ rTrusted'[d] = rTrusted[d]
  BY DEF AcceptBindRequest, RefuseBindRequest
<1>p. /\ Pins(p, mcc, found)
      /\ RAccepted(c)' => (Steady(p, mcc.auth) => VerifyMcc(mcc, pins'[p][mcc.auth]))
  <2>1. CASE AcceptBindRequest(c)
    <3>1. AcceptsPeer(p, mcc, found, offered) /\ Trust(p, mcc, found, offered)
      BY <2>1 DEF AcceptBindRequest, InitiatorAccepted
    <3>2. QED
      BY <3>1, <1>t, <1>f, TrustPins
  <2>2. CASE RefuseBindRequest(c)
    <3>1. ~ RAccepted(c)'
      BY <2>2 DEF RefuseBindRequest, RAccepted
    <3>2. CASE InitiatorAccepted(c)
      <4>1. AcceptsPeer(p, mcc, found, offered) /\ Trust(p, mcc, found, offered)
        BY <2>2, <3>2 DEF RefuseBindRequest, InitiatorAccepted
      <4>2. QED
        BY <4>1, <3>1, <1>t, <1>f, TrustPins
    <3>3. CASE ~ InitiatorAccepted(c)
      BY <2>2, <3>1, <3>3, NothingPinned DEF RefuseBindRequest
    <3>4. QED
      BY <3>2, <3>3
  <2>3. QED
    BY <2>1, <2>2
<1>q. \A d \in Conns : /\ RLooks(d)' <=> d # c /\ RLooks(d)
                       /\ ILooks(d)' <=> ILooks(d)
                       /\ d # c => RAccepted(d)' = RAccepted(d)
                       /\ IAccepted(d)' = IAccepted(d)
  BY <1>s DEF RLooks, ILooks, RAccepted, IAccepted
<1>e. \A d \in Conns : /\ RHost(d)' = RHost(d) /\ IHost(d)' = IHost(d)
                       /\ ResponderMcc(d)' = ResponderMcc(d)
                       /\ InitiatorMcc(d)' = InitiatorMcc(d)
                       /\ RAuth(d)' = RAuth(d) /\ IAuth(d)' = IAuth(d)
                       /\ RHost(d) \in Processes /\ IHost(d) \in Processes
                       /\ ResponderMcc(d) \in Mccs /\ InitiatorMcc(d) \in Mccs
                       /\ RAuth(d) \in Authorities /\ IAuth(d) \in Authorities
                       /\ RAuth(d) = InitiatorMcc(d).auth /\ IAuth(d) = ResponderMcc(d).auth
  BY EndsStay, EndTypes, MccTypes DEF RAuth, IAuth
<1>g. p = RHost(c) /\ mcc = InitiatorMcc(c)
  OBVIOUS
<1> HIDE DEF p, mcc, found, offered
<1>1. OneAtATime'
  BY <1>q, <1>e DEF OneAtATime
<1>2. OverlapsNoted'
  BY <1>q, <1>e, <1>s DEF OverlapsNoted
<1>3. FoundIsHeld'
  <2>1. ASSUME NEW d \in Conns, RLooks(d)'  PROVE Finds(RHost(d), RAuth(d), rTrusted[d])'
    <3>1. d # c /\ RLooks(d) /\ Finds(RHost(d), RAuth(d), rTrusted[d])
      BY <2>1, <1>q DEF FoundIsHeld
    <3>2. RHost(d) # p
      BY <3>1, <1>l, <1>g DEF OneAtATime
    <3>3. /\ RAuth(d) \notin disturbed[RHost(d)] => rTrusted[d] = pins'[RHost(d)][RAuth(d)]
          /\ setup.mode[RHost(d)] = "strict" =>
                rTrusted[d] \in {NoKey, pins'[RHost(d)][RAuth(d)]}
      BY <3>1, <3>2, <1>t, <1>p, <1>e, FindingsStay
    <3>4. QED
      BY <3>1, <3>3, <1>s, <1>e DEF Finds
  <2>2. ASSUME NEW d \in Conns, ILooks(d)'  PROVE Finds(IHost(d), IAuth(d), iTrusted[d])'
    <3>1. ILooks(d) /\ Finds(IHost(d), IAuth(d), iTrusted[d])
      BY <2>2, <1>q DEF FoundIsHeld
    <3>2. IHost(d) = p /\ IAuth(d) = mcc.auth => IAuth(d) \in disturbed[IHost(d)]
      BY <3>1, <1>l, <1>g, <1>e DEF OverlapsNoted
    <3>3. /\ IAuth(d) \notin disturbed[IHost(d)] => iTrusted[d] = pins'[IHost(d)][IAuth(d)]
          /\ setup.mode[IHost(d)] = "strict" =>
                iTrusted[d] \in {NoKey, pins'[IHost(d)][IAuth(d)]}
      BY <3>1, <3>2, <1>t, <1>p, <1>e, FindingsStay
    <3>4. QED
      BY <3>1, <3>3, <1>s, <1>e DEF Finds
  <2>3. QED
    BY <2>1, <2>2 DEF FoundIsHeld
<1>4. ExpiriesNoted'
  BY <1>s, <1>p DEF ExpiriesNoted, Pins
<1>5. OneKeyPerAuthority'
  <2> DEFINE Good(x, other) ==
        Steady(x, other.auth) => VerifyMcc(other, pins[x][other.auth])
             Stays(x, other) ==
        Steady(x, other.auth) => VerifyMcc(other, pins'[x][other.auth])
  <2>1. ASSUME NEW x \in Processes, NEW other \in Mccs, Good(x, other)  PROVE Stays(x, other)
    BY <2>1, <1>t, <1>f, <1>p, EntriesStay
  <2>2. \A d \in Conns : IAccepted(d)' => Stays(IHost(d), ResponderMcc(d))
    BY <2>1, <1>q, <1>e DEF OneKeyPerAuthority
  <2>3. \A d \in Conns : RAccepted(d)' => Stays(RHost(d), InitiatorMcc(d))
    <3>1. RAccepted(c)' => Stays(RHost(c), InitiatorMcc(c))
      BY <1>p, <1>g
    <3>2. \A d \in Conns : d # c /\ RAccepted(d)' => Stays(RHost(d), InitiatorMcc(d))
      BY <2>1, <1>q, <1>e DEF OneKeyPerAuthority
    <3>3. QED
      BY <3>1, <3>2
  <2>4. ASSUME NEW d \in Conns
        PROVE  /\ (RAccepted(d) /\ Steady(RHost(d), InitiatorMcc(d).auth))' =>
                     VerifyMcc(InitiatorMcc(d), pins[RHost(d)][InitiatorMcc(d).auth])'
               /\ (IAccepted(d) /\ Steady(IHost(d), ResponderMcc(d).auth))' =>
                     VerifyMcc(ResponderMcc(d), pins[IHost(d)][ResponderMcc(d).auth])'
    <3>1. /\ Steady(RHost(d), InitiatorMcc(d).auth)' <=> Steady(RHost(d), InitiatorMcc(d).auth)
          /\ Steady(IHost(d), ResponderMcc(d).auth)' <=> Steady(IHost(d), ResponderMcc(d).auth)
      BY <1>e, <1>s DEF Steady
    <3>2. /\ VerifyMcc(InitiatorMcc(d), pins[RHost(d)][InitiatorMcc(d).auth])'
                <=> VerifyMcc(InitiatorMcc(d), pins'[RHost(d)][InitiatorMcc(d).auth])
          /\ VerifyMcc(ResponderMcc(d), pins[IHost(d)][ResponderMcc(d).auth])'
                <=> VerifyMcc(ResponderMcc(d), pins'[IHost(d)][ResponderMcc(d).auth])
      BY <1>e DEF VerifyMcc
    <3>3. QED
      BY <3>1, <3>2, <2>2, <2>3
  <2>5. QED
    BY <2>4 DEF OneKeyPerAuthority
<1>6. QED
  BY <1>1, <1>2, <1>3, <1>4, <1>5

\* An entry that expires is disturbed, and still there.
LEMMA ExpiryStep ==
    ASSUME PinInv, [Next]_vars, NEW p \in Processes, NEW a \in Authorities, Expire(p, a)
    PROVE  OneAtATime' /\ OverlapsNoted' /\ FoundIsHeld' /\ ExpiriesNoted' /\ OneKeyPerAuthority'
<1> USE DEF PinInv, TypeInv, TypeOK
<1>s. /\ setup' = setup /\ pins' = pins /\ iState' = iState /\ rState' = rState
      /\ iTrusted' = iTrusted /\ rTrusted' = rTrusted
      /\ expired' = [expired EXCEPT ![p] = @ \cup {a}]
      /\ disturbed' = [disturbed EXCEPT ![p] = @ \cup {a}]
  BY DEF Expire
<1>m. \A x \in Processes : disturbed[x] \subseteq disturbed'[x]
  BY <1>s
<1>q. \A d \in Conns : /\ ILooks(d)' = ILooks(d) /\ RLooks(d)' = RLooks(d)
                       /\ IAccepted(d)' = IAccepted(d) /\ RAccepted(d)' = RAccepted(d)
  BY <1>s DEF ILooks, RLooks, IAccepted, RAccepted
<1>e. \A d \in Conns : /\ IHost(d)' = IHost(d) /\ RHost(d)' = RHost(d)
                       /\ InitiatorMcc(d)' = InitiatorMcc(d)
                       /\ ResponderMcc(d)' = ResponderMcc(d)
                       /\ IAuth(d)' = IAuth(d) /\ RAuth(d)' = RAuth(d)
                       /\ IHost(d) \in Processes /\ RHost(d) \in Processes
  BY EndsStay, EndTypes
<1>1. OneAtATime'
  BY <1>q, <1>e DEF OneAtATime
<1>2. OverlapsNoted'
  BY <1>q, <1>e, <1>m DEF OverlapsNoted
<1>3. FoundIsHeld'
  BY <1>s, <1>q, <1>e, <1>m DEF FoundIsHeld, Finds
<1>4. ExpiriesNoted'
  BY <1>s DEF ExpiriesNoted
<1>5. OneKeyPerAuthority'
  BY <1>s, <1>q, <1>e, <1>m DEF OneKeyPerAuthority, Steady, VerifyMcc
<1>6. QED
  BY <1>1, <1>2, <1>3, <1>4, <1>5

\* No root store is disturbed, or has anything expired, and no peer is accepted at first.
LEMMA InitPinInv == Init => PinInv
<1> SUFFICES ASSUME Init  PROVE PinInv
  OBVIOUS
<1>1. TypeInv
  BY InitTypeOK
<1>2. /\ \A c \in Conns : ~ ILooks(c) /\ ~ RLooks(c) /\ ~ IAccepted(c) /\ ~ RAccepted(c)
      /\ \A p \in Processes : expired[p] = {}
  BY DEF Init, ILooks, RLooks, IAccepted, RAccepted
<1>3. QED
  BY <1>1, <1>2 DEF PinInv, OneAtATime, OverlapsNoted, FoundIsHeld, ExpiriesNoted,
                    OneKeyPerAuthority

\* Every step preserves the invariant.
LEMMA NextPinInv == PinInv /\ [Next]_vars => PinInv'
<1> SUFFICES ASSUME PinInv, [Next]_vars  PROVE PinInv'
  OBVIOUS
<1>t. TypeInv'
  BY NextTypeInv DEF PinInv
<1>1. CASE Quiet
  BY <1>1, <1>t, QuietStep DEF PinInv
<1>2. ASSUME NEW c \in Conns, LookUpResponder(c) /\ IThreadFree(IHost(c))  PROVE PinInv'
  BY <1>2, <1>t, LookUpResponderStep DEF PinInv
<1>3. ASSUME NEW c \in Conns, SendBindConfirm(c) \/ RefuseBindResponse(c)  PROVE PinInv'
  BY <1>3, <1>t, InitiatorDecides DEF PinInv
<1>4. ASSUME NEW c \in Conns, LookUpInitiator(c) /\ RThreadFree(RHost(c))  PROVE PinInv'
  BY <1>4, <1>t, LookUpInitiatorStep DEF PinInv
<1>5. ASSUME NEW c \in Conns, AcceptBindRequest(c) \/ RefuseBindRequest(c)  PROVE PinInv'
  BY <1>5, <1>t, ResponderDecides DEF PinInv
<1>6. ASSUME NEW p \in Processes, NEW a \in Authorities, Expire(p, a)  PROVE PinInv'
  BY <1>6, <1>t, ExpiryStep DEF PinInv
<1>7. QED
  BY <1>1, <1>2, <1>3, <1>4, <1>5, <1>6, StepKinds DEF PinInv, TypeInv

\* Whatever the interleaving of the threads and connections of a process, the peers it
\* has accepted of an authority were all signed by the key its root store holds for it,
\* unless the entry expired or two threads looked it up at once.
THEOREM PeersShareAKey == Spec => []OneKeyPerAuthority
<1>1. Init => PinInv
  BY InitPinInv
<1>2. PinInv /\ [Next]_vars => PinInv'
  BY NextPinInv
<1>3. PinInv => OneKeyPerAuthority
  BY DEF PinInv
<1>4. QED
  BY <1>1, <1>2, <1>3, PTL DEF Spec

-----------------------------------------------------------------------------
(***************************************************************************)
(* Key agreement.  A side holds as the peer's key what a frame in flight     *)
(* brought it, so the invariant says what the frames in flight carry: every   *)
(* bind request the initiator's key, every bind response the responder's.     *)
(***************************************************************************)
RequestFrames(c) == {f \in Frames : f.type = "request" => f.eph = InitiatorEph(c)}
ResponseFrames == {f \in Frames : f.type = "response" => f.eph = "r"}

EphsToR == \A c \in Conns : toR[c] \in Seq(RequestFrames(c))
EphsToI == \A c \in Conns : toI[c] \in Seq(ResponseFrames)

EphsHeld ==
    \A c \in Conns :
        /\ RAccepted(c) => rPeerEph[c] = InitiatorEph(c)
        /\ IAccepted(c) => iPeerEph[c] = "r"

KeyInv == TypeInv /\ EphsToR /\ EphsToI /\ EphsHeld

\* A queue of good frames stays one when a good frame is sent or the head read.
LEMMA SentGood ==
    ASSUME NEW queue \in [Conns -> Seq(Frames)], NEW c \in Conns, NEW Good,
           NEW f \in Good, NEW d \in Conns, queue[d] \in Seq(Good)
    PROVE  (d = c => Sent(queue, c, f)[d] \in Seq(Good))
  BY DEF Sent

\* What is read of a queue of good frames is one.
LEMMA ConsumedGood ==
    ASSUME NEW queue \in [Conns -> Seq(Frames)], NEW c \in Conns, queue[c] # << >>,
           NEW Good, NEW d \in Conns, queue[d] \in Seq(Good)
    PROVE  /\ [queue EXCEPT ![c] = Tail(@)][d] \in Seq(Good)
           /\ d = c => Head(queue[c]) \in Good
<1>1. CASE d = c
  <2>1. queue[c] \in Seq(Good) /\ queue[c] # << >>
    BY <1>1
  <2>2. Tail(queue[c]) \in Seq(Good) /\ Head(queue[c]) \in Good
    BY <2>1
  <2>3. QED
    BY <1>1, <2>2
<1>2. CASE d # c
  BY <1>2
<1>3. QED
  BY <1>1, <1>2

\* Nothing is left of a queue that is closed.
LEMMA EmptiedGood ==
    ASSUME NEW queue \in [Conns -> Seq(Frames)], NEW c \in Conns,
           NEW Good, NEW d \in Conns, queue[d] \in Seq(Good)
    PROVE  [queue EXCEPT ![c] = << >>][d] \in Seq(Good)
<1>1. << >> \in Seq(Good)
  OBVIOUS
<1>2. QED
  BY <1>1

\* Of a queue that is destroyed, a good frame may remain.
LEMMA DroppedGood ==
    ASSUME TypeInv, NEW c \in Conns, NEW Good, NEW d \in Conns
    PROVE  /\ toI[d] \in Seq(Good) => IDropped(c)[d] \in Seq(Good)
           /\ toR[d] \in Seq(Good) => RDropped(c)[d] \in Seq(Good)
<1> USE DEF TypeInv, TypeOK
<1>1. << >> \in Seq(Good)
  OBVIOUS
<1>2. toI[c] \in Seq(Good) /\ iState[c] = "looking" => <<Head(toI[c])>> \in Seq(Good)
  BY ConsumedGood DEF Reading, IHas
<1>3. toR[c] \in Seq(Good) /\ rState[c] = "looking" => <<Head(toR[c])>> \in Seq(Good)
  BY ConsumedGood DEF Reading, RHas
<1>4. QED
  BY <1>1, <1>2, <1>3 DEF IDropped, RDropped

\* Requests in flight carry the initiator's key.
LEMMA EphsToRStep ==
    ASSUME KeyInv, [Next]_vars
    PROVE  EphsToR'
<1> USE DEF KeyInv, TypeInv, TypeOK
<1> DEFINE Good == \A e \in Conns : toR'[e] \in Seq(RequestFrames(e))
<1>g. Good => EphsToR'
  <2>1. setup' = setup
    BY SetupStays
  <2>2. QED
    BY <2>1 DEF EphsToR, RequestFrames, InitiatorEph
<1>f. \A t \in FrameTypes : Frame(t) \in Frames /\ Frame(t).type = t
  BY FrameType DEF Frame
<1>s. ASSUME NEW d \in Conns, NEW f \in RequestFrames(d), toR' = Sent(toR, d, f)
      PROVE  Good
  <2>1. \A e \in Conns : e # d => toR'[e] = toR[e]
    BY <1>s DEF Sent
  <2>2. toR'[d] \in Seq(RequestFrames(d))
    BY <1>s, SentGood DEF EphsToR
  <2>3. QED
    BY <2>1, <2>2 DEF EphsToR
<1>c. ASSUME NEW d \in Conns, toR[d] # << >>, toR' = RConsumed(d)
      PROVE  Good
  BY <1>c, ConsumedGood DEF RConsumed, EphsToR
<1>e. ASSUME NEW d \in Conns, toR' = [toR EXCEPT ![d] = << >>]
      PROVE  Good
  BY <1>e, EmptiedGood DEF EphsToR
<1>d. ASSUME NEW d \in Conns, toR' = RDropped(d)
      PROVE  Good
  BY <1>d, DroppedGood DEF EphsToR
<1>u. ASSUME UNCHANGED toR  PROVE Good
  BY <1>u DEF EphsToR
<1>x. ASSUME NEW d \in Conns, NEW t \in FrameTypes \ {"request"},
             toR' = Sent(toR, d, Frame(t))
      PROVE  Good
  <2>1. Frame(t) \in RequestFrames(d)
    BY <1>f DEF RequestFrames
  <2>2. QED
    BY <1>s, <1>x, <2>1, Zenon
<1> HIDE DEF Good
<1>t. {"propose", "caps", "error", "confirm"} \subseteq FrameTypes \ {"request"}
  BY DEF FrameTypes
<1>1. ASSUME NEW d \in Conns, Initiator(d)  PROVE Good
  <2>1. CASE SendPropose(d)
    BY <2>1, <1>x, <1>t DEF SendPropose
  <2>2. CASE SendBindRequest(d)
    <3> DEFINE f == [Frame("request") EXCEPT !.offered = OfferedKey(IHost(d), InitiatorMcc(d)),
                                            !.eph = InitiatorEph(d)]
    <3>o. OfferedKey(IHost(d), InitiatorMcc(d)) \in Keys \cup {NoKey}
      BY EndTypes, OfferedType
    <3>1. f \in Frames /\ f.eph = InitiatorEph(d)
      BY <3>o
      DEF Frame, Frames, FrameTypes, Signatures, NoSignature, Ephs, InitiatorEph
    <3>2. toR' = Sent(toR, d, f)
      BY <2>2 DEF SendBindRequest
    <3> HIDE DEF f
    <3>3. f \in RequestFrames(d)
      BY <3>1 DEF RequestFrames
    <3>4. QED
      BY <3>2, <3>3, <1>s
  <2>3. CASE SendBindConfirm(d)
    <3> DEFINE f == [Frame("confirm") EXCEPT !.sig = [nonce |-> "r", eph |-> ConfirmEph(d)]]
    <3>1. f \in Frames /\ f.type = "confirm"
      BY KeysAssumption
      DEF Frame, Frames, FrameTypes, Signatures, NoSignature, Ephs, ConfirmEph
    <3>2. toR' = Sent(toR, d, f)
      BY <2>3 DEF SendBindConfirm
    <3> HIDE DEF f
    <3>3. f \in RequestFrames(d)
      BY <3>1 DEF RequestFrames
    <3>4. QED
      BY <3>2, <3>3, <1>s
  <2>4. CASE RefuseBindResponse(d)
    BY <2>4, <1>x, <1>t DEF RefuseBindResponse
  <2>5. CASE SendCapabilities(d)
    BY <2>5, <1>x, <1>t DEF SendCapabilities
  <2>6. CASE FinishInitiator(d)
    BY <2>6, <1>u DEF FinishInitiator
  <2>7. CASE InitiatorMisreads(d)
    BY <2>7, <1>x, <1>t DEF InitiatorMisreads, IFail
  <2>8. CASE CloseInitiator(d)
    BY <2>8, <1>u, <1>d DEF CloseInitiator
  <2>9. CASE LookUpResponder(d)
    BY <2>9, <1>u DEF LookUpResponder
  <2>10. QED
    BY <1>1, <2>1, <2>2, <2>3, <2>4, <2>5, <2>6, <2>7, <2>8, <2>9 DEF Initiator
<1>2. ASSUME NEW d \in Conns, Responder(d)  PROVE Good
  <2>1. CASE SendVersionAck(d) \/ AcceptConfirm(d)
    BY <2>1, <1>c DEF SendVersionAck, AcceptConfirm, RHas
  <2>6. CASE AcceptBindRequest(d) \/ RefuseBindRequest(d)
    <3>1. toR[d] # << >>
      BY <2>6 DEF AcceptBindRequest, RefuseBindRequest, Reading, RHas
    <3>2. QED
      BY <2>6, <3>1, <1>c DEF AcceptBindRequest, RefuseBindRequest
  <2>7. CASE LookUpInitiator(d) \/ SendBindResponse(d)
    BY <2>7, <1>u DEF LookUpInitiator, SendBindResponse
  <2>2. CASE RefuseConfirm(d) \/ ResponderMisreads(d)
    BY <2>2, <1>c, <1>u DEF RefuseConfirm, ResponderMisreads, RFail, RHas
  <2>3. CASE FinishResponder(d)
    BY <2>3, <1>c, <1>u DEF FinishResponder
  <2>4. CASE CloseResponder(d)
    BY <2>4, <1>e DEF CloseResponder
  <2>5. QED
    BY <1>2, <2>1, <2>2, <2>3, <2>4, <2>6, <2>7 DEF Responder
<1>3. ASSUME NEW d \in Conns,
             \/ InitiatorAborts(d) \/ InitiatorCancelled(d)
             \/ ResponderAborts(d) \/ LoseConnection(d)
      PROVE  Good
  <2>1. CASE InitiatorAborts(d)
    BY <2>1, <1>x, <1>t DEF InitiatorAborts, IFail
  <2>2. CASE InitiatorCancelled(d) \/ ResponderAborts(d)
    BY <2>2, <1>u DEF InitiatorCancelled, ResponderAborts, RFail
  <2>3. CASE LoseConnection(d)
    BY <2>3, <1>d DEF LoseConnection
  <2>4. QED
    BY <1>3, <2>1, <2>2, <2>3
<1>4. ASSUME NEW p \in Processes, NEW a \in Authorities, Expire(p, a)  PROVE Good
  BY <1>4, <1>u DEF Expire
<1>5. QED
  BY <1>1, <1>2, <1>3, <1>4, <1>u, <1>g DEF Next, Settled, vars

\* Responses in flight carry the responder's key.
LEMMA EphsToIStep ==
    ASSUME KeyInv, [Next]_vars
    PROVE  EphsToI'
<1> USE DEF KeyInv, TypeInv, TypeOK
<1> DEFINE Good == \A e \in Conns : toI'[e] \in Seq(ResponseFrames)
<1>g. Good => EphsToI'
  BY DEF EphsToI, ResponseFrames
<1>f. \A t \in FrameTypes : Frame(t) \in Frames /\ Frame(t).type = t
  BY FrameType DEF Frame
<1>s. ASSUME NEW d \in Conns, NEW f \in ResponseFrames, toI' = Sent(toI, d, f)
      PROVE  Good
  <2>1. \A e \in Conns : e # d => toI'[e] = toI[e]
    BY <1>s DEF Sent
  <2>2. toI'[d] \in Seq(ResponseFrames)
    BY <1>s, SentGood DEF EphsToI
  <2>3. QED
    BY <2>1, <2>2 DEF EphsToI
<1>c. ASSUME NEW d \in Conns, toI[d] # << >>, toI' = IConsumed(d)
      PROVE  Good
  BY <1>c, ConsumedGood DEF IConsumed, EphsToI
<1>e. ASSUME NEW d \in Conns, toI' = [toI EXCEPT ![d] = << >>]
      PROVE  Good
  BY <1>e, EmptiedGood DEF EphsToI
<1>d. ASSUME NEW d \in Conns, toI' = IDropped(d)
      PROVE  Good
  BY <1>d, DroppedGood DEF EphsToI
<1>u. ASSUME UNCHANGED toI  PROVE Good
  BY <1>u DEF EphsToI
<1>x. ASSUME NEW d \in Conns, NEW t \in FrameTypes \ {"response"},
             toI' = Sent(toI, d, Frame(t))
      PROVE  Good
  <2>1. Frame(t) \in ResponseFrames
    BY <1>f DEF ResponseFrames
  <2>2. QED
    BY <1>s, <1>x, <2>1, Zenon
<1> HIDE DEF Good
<1>t. {"ack", "caps", "error"} \subseteq FrameTypes \ {"response"}
  BY DEF FrameTypes
<1>1. ASSUME NEW d \in Conns, Responder(d)  PROVE Good
  <2>1. CASE SendVersionAck(d)
    BY <2>1, <1>x, <1>t DEF SendVersionAck
  <2>2. CASE SendBindResponse(d)
    <3> DEFINE f == [Frame("response") EXCEPT !.offered = OfferedKey(RHost(d), ResponderMcc(d)),
                                             !.eph = "r",
                                             !.sig = [nonce |-> "i", eph |-> "r"]]
    <3>1. OfferedKey(RHost(d), ResponderMcc(d)) \in Keys \cup {NoKey}
      BY EndTypes, OfferedType
    <3>2. f \in Frames /\ f.eph = "r"
      BY <3>1
      DEF Frame, Frames, FrameTypes, Signatures, NoSignature, Ephs
    <3>3. toI' = Sent(toI, d, f)
      BY <2>2 DEF SendBindResponse
    <3> HIDE DEF f
    <3>4. f \in ResponseFrames
      BY <3>2 DEF ResponseFrames
    <3>5. QED
      BY <3>3, <3>4, <1>s
  <2>3. CASE RefuseBindRequest(d)
    BY <2>3, <1>x, <1>t DEF RefuseBindRequest
  <2>4. CASE LookUpInitiator(d) \/ AcceptBindRequest(d) \/ AcceptConfirm(d)
    BY <2>4, <1>u DEF LookUpInitiator, AcceptBindRequest, AcceptConfirm
  <2>5. CASE RefuseConfirm(d) \/ ResponderMisreads(d)
    BY <2>5, <1>x, <1>t DEF RefuseConfirm, ResponderMisreads, RFail
  <2>6. CASE FinishResponder(d)
    <3>1. UNCHANGED toI \/ toI' = Sent(toI, d, Frame("caps"))
      BY <2>6 DEF FinishResponder
    <3>2. QED
      BY <3>1, <1>u, <1>x, <1>t
  <2>7. CASE CloseResponder(d)
    BY <2>7, <1>u, <1>d DEF CloseResponder
  <2>8. QED
    BY <1>1, <2>1, <2>2, <2>3, <2>4, <2>5, <2>6, <2>7 DEF Responder
<1>2. ASSUME NEW d \in Conns, Initiator(d)  PROVE Good
  <2>1. CASE SendPropose(d) \/ LookUpResponder(d) \/ SendCapabilities(d)
    BY <2>1, <1>u DEF SendPropose, LookUpResponder, SendCapabilities
  <2>2. CASE SendBindRequest(d)
    BY <2>2, <1>c DEF SendBindRequest, IHas
  <2>7. CASE SendBindConfirm(d) \/ RefuseBindResponse(d)
    <3>1. toI[d] # << >>
      BY <2>7 DEF SendBindConfirm, RefuseBindResponse, Reading, IHas
    <3>2. QED
      BY <2>7, <3>1, <1>c DEF SendBindConfirm, RefuseBindResponse
  <2>3. CASE FinishInitiator(d)
    BY <2>3, <1>c, <1>u DEF FinishInitiator
  <2>4. CASE InitiatorMisreads(d)
    BY <2>4, <1>c, <1>u DEF InitiatorMisreads, IFail, IHas
  <2>5. CASE CloseInitiator(d)
    BY <2>5, <1>e DEF CloseInitiator
  <2>6. QED
    BY <1>2, <2>1, <2>2, <2>3, <2>4, <2>5, <2>7 DEF Initiator
<1>3. ASSUME NEW d \in Conns,
             \/ InitiatorAborts(d) \/ InitiatorCancelled(d)
             \/ ResponderAborts(d) \/ LoseConnection(d)
      PROVE  Good
  <2>1. CASE InitiatorAborts(d) \/ InitiatorCancelled(d)
    BY <2>1, <1>u DEF InitiatorAborts, InitiatorCancelled, IFail
  <2>2. CASE ResponderAborts(d)
    BY <2>2, <1>x, <1>t DEF ResponderAborts, RFail
  <2>3. CASE LoseConnection(d)
    BY <2>3, <1>d DEF LoseConnection
  <2>4. QED
    BY <1>3, <2>1, <2>2, <2>3
<1>4. ASSUME NEW p \in Processes, NEW a \in Authorities, Expire(p, a)  PROVE Good
  BY <1>4, <1>u DEF Expire
<1>5. QED
  BY <1>1, <1>2, <1>3, <1>4, <1>u, <1>g DEF Next, Settled, vars

\* A side holds the peer's key from the frame it accepted, and keeps it.
LEMMA EphsHeldStep ==
    ASSUME KeyInv, [Next]_vars
    PROVE  EphsHeld'
<1> USE DEF KeyInv, TypeInv, TypeOK
<1>h. /\ \A d \in Conns : toI[d] # << >> => Head(toI[d]) \in ResponseFrames
      /\ \A d \in Conns : toR[d] # << >> => Head(toR[d]) \in RequestFrames(d)
  BY ConsumedGood DEF EphsToI, EphsToR
<1>k. \A d \in Conns : InitiatorEph(d)' = InitiatorEph(d)
  BY SetupStays DEF InitiatorEph
<1> DEFINE Held == \A c \in Conns :
        /\ rState'[c] \in {"answering", "confirm", "caps", "bound"} =>
              rPeerEph'[c] = InitiatorEph(c)
        /\ iState'[c] \in {"announce", "caps", "bound"} => iPeerEph'[c] = "r"
<1>g. Held => EphsHeld'
  BY <1>k DEF EphsHeld, IAccepted, RAccepted
<1>b. \A c \in Conns :
        /\ rState[c] \in {"answering", "confirm", "caps", "bound"} =>
              rPeerEph[c] = InitiatorEph(c)
        /\ iState[c] \in {"announce", "caps", "bound"} => iPeerEph[c] = "r"
  BY DEF EphsHeld, IAccepted, RAccepted
<1>1. ASSUME NEW d \in Conns, Initiator(d)  PROVE Held
  <2>1. CASE SendBindConfirm(d)
    <3>1. Head(toI[d]).eph = "r"
      BY <1>h, <2>1 DEF SendBindConfirm, Reading, IHas, ResponseFrames
    <3>2. QED
      BY <2>1, <3>1, <1>b DEF SendBindConfirm
  <2>2. CASE RefuseBindResponse(d)
    BY <2>2, <1>b DEF RefuseBindResponse
  <2>3. CASE SendPropose(d) \/ SendBindRequest(d) \/ LookUpResponder(d)
    BY <2>3, <1>b DEF SendPropose, SendBindRequest, LookUpResponder, ephs
  <2>4. CASE SendCapabilities(d) \/ FinishInitiator(d)
    BY <2>4, <1>b DEF SendCapabilities, FinishInitiator, ephs
  <2>5. CASE InitiatorMisreads(d) \/ CloseInitiator(d)
    BY <2>5, <1>b DEF InitiatorMisreads, CloseInitiator, IFail, ephs
  <2>6. QED
    BY <1>1, <2>1, <2>2, <2>3, <2>4, <2>5 DEF Initiator
<1>2. ASSUME NEW d \in Conns, Responder(d)  PROVE Held
  <2>1. CASE AcceptBindRequest(d)
    <3>1. Head(toR[d]).eph = InitiatorEph(d)
      BY <1>h, <2>1 DEF AcceptBindRequest, Reading, RHas, RequestFrames
    <3>2. /\ rPeerEph' = [rPeerEph EXCEPT ![d] = InitiatorEph(d)]
          /\ rState' = [rState EXCEPT ![d] = "answering"]
          /\ iState' = iState /\ iPeerEph' = iPeerEph
      BY <2>1, <3>1 DEF AcceptBindRequest
    <3>3. QED
      BY <3>2, <1>b
  <2>2. CASE SendVersionAck(d) \/ LookUpInitiator(d) \/ RefuseBindRequest(d)
    BY <2>2, <1>b DEF SendVersionAck, LookUpInitiator, RefuseBindRequest, ephs
  <2>3. CASE SendBindResponse(d) \/ AcceptConfirm(d) \/ FinishResponder(d)
    BY <2>3, <1>b DEF SendBindResponse, AcceptConfirm, FinishResponder, ephs
  <2>4. CASE RefuseConfirm(d) \/ ResponderMisreads(d) \/ CloseResponder(d)
    BY <2>4, <1>b DEF RefuseConfirm, ResponderMisreads, CloseResponder, RFail, ephs
  <2>5. QED
    BY <1>2, <2>1, <2>2, <2>3, <2>4 DEF Responder
<1>3. ASSUME NEW d \in Conns,
             \/ InitiatorAborts(d) \/ InitiatorCancelled(d)
             \/ ResponderAborts(d) \/ LoseConnection(d)
      PROVE  Held
  BY <1>3, <1>b DEF InitiatorAborts, InitiatorCancelled, ResponderAborts, LoseConnection,
                    IFail, RFail, ephs
<1>4. ASSUME NEW p \in Processes, NEW a \in Authorities, Expire(p, a)  PROVE Held
  BY <1>4, <1>b DEF Expire, ephs
<1>5. CASE UNCHANGED vars
  <2>1. iState' = iState /\ rState' = rState /\ iPeerEph' = iPeerEph /\ rPeerEph' = rPeerEph
    BY <1>5 DEF vars
  <2>2. QED
    BY <2>1, <1>b, <1>g
<1> HIDE DEF Held
<1>6. QED
  BY <1>1, <1>2, <1>3, <1>4, <1>5, <1>g DEF Next, Settled

\* Two bound sides hold the same session key, however many handshakes run, are
\* cut short or lose their connection meanwhile.
THEOREM KeysAgree == Spec => []KeyAgreement
<1>1. Init => KeyInv
  <2>1. Init => EphsToR /\ EphsToI /\ EphsHeld
    BY DEF Init, EphsToR, EphsToI, EphsHeld, IAccepted, RAccepted
  <2>2. QED
    BY <2>1, InitTypeOK DEF KeyInv
<1>2. KeyInv /\ [Next]_vars => KeyInv'
  BY NextTypeInv, EphsToRStep, EphsToIStep, EphsHeldStep DEF KeyInv
<1>3. KeyInv => KeyAgreement
  BY DEF KeyInv, EphsHeld, KeyAgreement, SessionKey, IAccepted, RAccepted
<1>4. QED
  BY <1>1, <1>2, <1>3, PTL DEF Spec

-----------------------------------------------------------------------------
(***************************************************************************)
(* NoMutualWait is not inductive: that a frame is on its way when both sides   *)
(* wait depends on how far each of them is.  While neither side has finished,  *)
(* the handshake takes turns: for each pair of places the two sides can be at, *)
(* the frames in flight are counted.                                           *)
(***************************************************************************)
TurnIs(i, r, m, n) ==
    \/ i = "start"    /\ r = "propose" /\ m = 0 /\ n = 0
    \/ i = "ack"      /\ r = "propose" /\ m = 0 /\ n = 1
    \/ i = "ack"      /\ r = "request" /\ m = 1 /\ n = 0
    \/ i = "response" /\ r = "request" /\ m = 0 /\ n = 1
    \/ i = "response" /\ r = "looking" /\ m = 0 /\ n = 1
    \/ i = "response" /\ r = "answering" /\ m = 0 /\ n = 0
    \/ i = "response" /\ r = "confirm" /\ m = 1 /\ n = 0
    \/ i = "looking"  /\ r = "confirm" /\ m = 1 /\ n = 0
    \/ i = "announce" /\ r = "confirm" /\ m = 0 /\ n = 1
    \/ i = "announce" /\ r = "caps"    /\ m = 0 /\ n = 0
    \/ i = "caps"     /\ r = "confirm" /\ m = 0 /\ n = 2
    \/ i = "caps"     /\ r = "caps"    /\ m = 0 /\ n = 1

Turn(c) == TurnIs(iState[c], rState[c], Len(toI[c]), Len(toR[c]))

Underway(c) ==
    /\ c \notin lost
    /\ iState[c] \in IWaiting \cup {"start", "looking", "announce"}
    /\ rState[c] \in RWaiting \cup {"looking", "answering"}

InTurn == \A c \in Conns : Underway(c) => Turn(c)

\* A frame sent on a connection that is not lost is one more in its queue.
LEMMA SentLength ==
    ASSUME NEW queue \in [Conns -> Seq(Frames)], NEW c \in Conns \ lost, NEW f
    PROVE  Len(Sent(queue, c, f)[c]) = Len(queue[c]) + 1
  BY DEF Sent

\* A frame that is read is one less in its queue.
LEMMA ConsumedLength ==
    ASSUME NEW queue \in [Conns -> Seq(Frames)], NEW c \in Conns, queue[c] # << >>
    PROVE  Len([queue EXCEPT ![c] = Tail(@)][c]) = Len(queue[c]) - 1
  OBVIOUS

\* Every step of a handshake that leaves both sides under way moves it to its
\* next turn.
LEMMA InTurnStep ==
    ASSUME TypeInv, InTurn, [Next]_vars
    PROVE  InTurn'
<1> USE DEF TypeInv, TypeOK
<1> SUFFICES ASSUME NEW d \in Conns, Underway(d)'
             PROVE  Turn(d)'
  BY DEF InTurn
<1>l. d \notin lost
  <2>1. ASSUME NEW c \in Conns, Initiator(c)  PROVE lost' = lost
    BY <2>1 DEF Initiator, SendPropose, SendBindRequest, LookUpResponder, SendBindConfirm,
                RefuseBindResponse, SendCapabilities, FinishInitiator, InitiatorMisreads,
                CloseInitiator, IFail
  <2>2. ASSUME NEW c \in Conns, Responder(c)  PROVE lost' = lost
    BY <2>2 DEF Responder, SendVersionAck, LookUpInitiator, AcceptBindRequest,
                SendBindResponse, RefuseBindRequest, AcceptConfirm, RefuseConfirm, FinishResponder, ResponderMisreads,
                CloseResponder, RFail
  <2>3. ASSUME NEW c \in Conns,
               \/ InitiatorAborts(c) \/ InitiatorCancelled(c)
               \/ ResponderAborts(c) \/ LoseConnection(c)
        PROVE  lost \subseteq lost'
    BY <2>3 DEF InitiatorAborts, InitiatorCancelled, ResponderAborts, LoseConnection,
                IFail, RFail
  <2>4. lost \subseteq lost'
    BY <2>1, <2>2, <2>3 DEF Next, Expire, Settled, vars
  <2>5. QED
    BY <2>4 DEF Underway
<1>u. Underway(d) => Turn(d)
  BY DEF InTurn
<1>n. \A f : /\ Len(Sent(toI, d, f)[d]) = Len(toI[d]) + 1
             /\ Len(Sent(toR, d, f)[d]) = Len(toR[d]) + 1
  BY <1>l, SentLength
<1>c. /\ toI[d] # << >> => Len(IConsumed(d)[d]) = Len(toI[d]) - 1
      /\ toR[d] # << >> => Len(RConsumed(d)[d]) = Len(toR[d]) - 1
  BY ConsumedLength DEF IConsumed, RConsumed
<1>t. Len(toI[d]) \in Nat /\ Len(toR[d]) \in Nat
  OBVIOUS
<1>1. CASE Initiator(d)
  <2>1. CASE SendPropose(d)
    <3>1. /\ iState[d] = "start" /\ iState'[d] = "ack" /\ rState'[d] = rState[d]
          /\ Len(toI'[d]) = Len(toI[d]) /\ Len(toR'[d]) = Len(toR[d]) + 1
      BY <2>1, <1>n, <1>c DEF SendPropose
    <3>2. Underway(d)
      BY <3>1, <1>l DEF Underway, IWaiting
    <3>3. QED
      BY <3>1, <3>2, <1>u, <1>t DEF Turn, TurnIs
  <2>2. CASE SendBindRequest(d)
    <3>1. /\ iState[d] = "ack" /\ iState'[d] = "response" /\ rState'[d] = rState[d]
          /\ Len(toI'[d]) = Len(toI[d]) - 1 /\ Len(toR'[d]) = Len(toR[d]) + 1
      BY <2>2, <1>n, <1>c DEF SendBindRequest, IHas
    <3>2. Underway(d)
      BY <3>1, <1>l DEF Underway, IWaiting
    <3>3. QED
      BY <3>1, <3>2, <1>u, <1>t DEF Turn, TurnIs
  <2>3. CASE SendBindConfirm(d)
    <3>1. /\ iState[d] = "looking" /\ iState'[d] = "announce" /\ rState'[d] = rState[d]
          /\ Len(toI'[d]) = Len(toI[d]) - 1 /\ Len(toR'[d]) = Len(toR[d]) + 1
      BY <2>3, <1>n, <1>c DEF SendBindConfirm, Reading, IHas
    <3>2. Underway(d)
      BY <3>1, <1>l DEF Underway, IWaiting
    <3>3. QED
      BY <3>1, <3>2, <1>u, <1>t DEF Turn, TurnIs
  <2>4. CASE SendCapabilities(d)
    <3>1. /\ iState[d] = "announce" /\ iState'[d] = "caps" /\ rState'[d] = rState[d]
          /\ Len(toI'[d]) = Len(toI[d]) /\ Len(toR'[d]) = Len(toR[d]) + 1
      BY <2>4, <1>n, <1>c DEF SendCapabilities
    <3>2. Underway(d)
      BY <3>1, <1>l DEF Underway, IWaiting
    <3>3. CASE rState[d] = "confirm"
      <4>1. Len(toI[d]) = 0 /\ Len(toR[d]) = 1
        BY <3>1, <3>2, <3>3, <1>u DEF Turn, TurnIs
      <4>2. Len(toI'[d]) = 0 /\ Len(toR'[d]) = 2
        BY <3>1, <4>1
      <4>3. QED
        BY <3>1, <3>3, <4>2 DEF Turn, TurnIs
    <3>4. CASE rState[d] = "caps"
      BY <3>1, <3>2, <3>4, <1>u, <1>t DEF Turn, TurnIs
    <3>5. QED
      BY <3>1, <3>2, <3>3, <3>4, <1>u DEF Turn, TurnIs
  <2>5. CASE RefuseBindResponse(d) \/ FinishInitiator(d) \/ InitiatorMisreads(d)
             \/ CloseInitiator(d)
    BY <2>5 DEF RefuseBindResponse, FinishInitiator, InitiatorMisreads, IFail,
                CloseInitiator, Underway, IWaiting
  <2>6. CASE LookUpResponder(d)
    <3>1. /\ iState[d] = "response" /\ iState'[d] = "looking" /\ rState'[d] = rState[d]
          /\ toI' = toI /\ toR' = toR /\ Len(toI[d]) # 0
      BY <2>6 DEF LookUpResponder, IHas
    <3>2. Underway(d)
      BY <3>1, <1>l DEF Underway, IWaiting
    <3>3. QED
      BY <3>1, <3>2, <1>u, <1>t DEF Turn, TurnIs
  <2>7. QED
    BY <1>1, <2>1, <2>2, <2>3, <2>4, <2>5, <2>6 DEF Initiator
<1>2. CASE Responder(d)
  <2>1. CASE SendVersionAck(d)
    <3>1. /\ rState[d] = "propose" /\ rState'[d] = "request" /\ iState'[d] = iState[d]
          /\ Len(toI'[d]) = Len(toI[d]) + 1 /\ Len(toR'[d]) = Len(toR[d]) - 1
          /\ Len(toR[d]) # 0
      BY <2>1, <1>n, <1>c DEF SendVersionAck, RHas
    <3>2. Underway(d)
      BY <3>1, <1>l DEF Underway, RWaiting
    <3>3. iState[d] = "ack" /\ Len(toI[d]) = 0 /\ Len(toR[d]) = 1
      BY <3>1, <3>2, <1>u DEF Turn, TurnIs
    <3>4. Len(toI'[d]) = 1 /\ Len(toR'[d]) = 0
      BY <3>1, <3>3
    <3>5. QED
      BY <3>1, <3>3, <3>4 DEF Turn, TurnIs
  <2>2. CASE SendBindResponse(d)
    <3>1. /\ rState[d] = "answering" /\ rState'[d] = "confirm" /\ iState'[d] = iState[d]
          /\ Len(toI'[d]) = Len(toI[d]) + 1 /\ Len(toR'[d]) = Len(toR[d])
      BY <2>2, <1>n, <1>c DEF SendBindResponse
    <3>2. Underway(d)
      BY <3>1, <1>l DEF Underway, RWaiting
    <3>3. iState[d] = "response" /\ Len(toI[d]) = 0 /\ Len(toR[d]) = 0
      BY <3>1, <3>2, <1>u DEF Turn, TurnIs
    <3>4. Len(toI'[d]) = 1 /\ Len(toR'[d]) = 0
      BY <3>1, <3>3
    <3>5. QED
      BY <3>1, <3>3, <3>4 DEF Turn, TurnIs
  <2>3. CASE AcceptConfirm(d)
    <3>1. /\ rState[d] = "confirm" /\ rState'[d] = "caps" /\ iState'[d] = iState[d]
          /\ Len(toI'[d]) = Len(toI[d]) /\ Len(toR'[d]) = Len(toR[d]) - 1
      BY <2>3, <1>n, <1>c DEF AcceptConfirm, RHas
    <3>2. Underway(d)
      BY <3>1, <1>l DEF Underway, RWaiting
    <3>3. QED
      BY <3>1, <3>2, <1>u, <1>t DEF Turn, TurnIs
  <2>4. CASE RefuseBindRequest(d) \/ RefuseConfirm(d) \/ FinishResponder(d)
             \/ ResponderMisreads(d) \/ CloseResponder(d)
    BY <2>4 DEF RefuseBindRequest, RefuseConfirm, FinishResponder, ResponderMisreads,
                RFail, CloseResponder, Underway, RWaiting
  <2>5. CASE LookUpInitiator(d)
    <3>1. /\ rState[d] = "request" /\ rState'[d] = "looking" /\ iState'[d] = iState[d]
          /\ toI' = toI /\ toR' = toR /\ Len(toR[d]) # 0
      BY <2>5 DEF LookUpInitiator, RHas
    <3>2. Underway(d)
      BY <3>1, <1>l DEF Underway, RWaiting
    <3>3. QED
      BY <3>1, <3>2, <1>u, <1>t DEF Turn, TurnIs
  <2>6. CASE AcceptBindRequest(d)
    <3>1. /\ rState[d] = "looking" /\ rState'[d] = "answering" /\ iState'[d] = iState[d]
          /\ Len(toI'[d]) = Len(toI[d]) /\ Len(toR'[d]) = Len(toR[d]) - 1
      BY <2>6, <1>n, <1>c DEF AcceptBindRequest, Reading, RHas
    <3>2. Underway(d)
      BY <3>1, <1>l DEF Underway, RWaiting
    <3>3. iState[d] = "response" /\ Len(toI[d]) = 0 /\ Len(toR[d]) = 1
      BY <3>1, <3>2, <1>u DEF Turn, TurnIs
    <3>4. Len(toI'[d]) = 0 /\ Len(toR'[d]) = 0
      BY <3>1, <3>3
    <3>5. QED
      BY <3>1, <3>3, <3>4 DEF Turn, TurnIs
  <2>7. QED
    BY <1>2, <2>1, <2>2, <2>3, <2>4, <2>5, <2>6 DEF Responder
<1>3. CASE \/ InitiatorAborts(d) \/ InitiatorCancelled(d)
           \/ ResponderAborts(d) \/ LoseConnection(d)
  BY <1>3 DEF InitiatorAborts, InitiatorCancelled, ResponderAborts, LoseConnection,
              IFail, RFail, Underway, IWaiting, RWaiting
<1>4. ASSUME NEW c \in Conns, c # d,
             \/ Initiator(c) \/ Responder(c)
             \/ InitiatorAborts(c) \/ InitiatorCancelled(c)
             \/ ResponderAborts(c) \/ LoseConnection(c)
      PROVE  Turn(d)'
  BY <1>4, <1>l, <1>u, StepsAreLocal DEF Turn, Underway
<1>5. CASE UNCHANGED vars
  BY <1>5, <1>l, <1>u DEF vars, Turn, Underway
<1>6. ASSUME NEW p \in Processes, NEW a \in Authorities, Expire(p, a)  PROVE Turn(d)'
  BY <1>6, <1>l, <1>u DEF Expire, Turn, Underway
<1>7. QED
  BY <1>1, <1>2, <1>3, <1>4, <1>5, <1>6 DEF Next, Settled

\* A handshake needs no timer to get out of a mutual wait: for every number of
\* connections, whenever both sides wait, a frame is on its way to one of them.
THEOREM NobodyWaitsForever == Spec => []NoMutualWait
<1>1. Init => InTurn
  BY DEF Init, InTurn, Turn, TurnIs
<1>2. TypeInv /\ InTurn /\ [Next]_vars => InTurn'
  BY InTurnStep
<1>3. InTurn => NoMutualWait
  <2> SUFFICES ASSUME InTurn, NEW c \in Conns, c \notin lost,
                      iState[c] \in IWaiting, rState[c] \in RWaiting,
                      toI[c] = << >>, toR[c] = << >>
               PROVE  FALSE
    BY DEF NoMutualWait
  <2>1. Turn(c) /\ Len(toI[c]) = 0 /\ Len(toR[c]) = 0
    BY DEF InTurn, Underway
  <2>2. QED
    BY <2>1 DEF Turn, TurnIs, IWaiting, RWaiting
<1>4. QED
  BY <1>1, <1>2, <1>3, TypeInvariant, PTL DEF Spec
=============================================================================
