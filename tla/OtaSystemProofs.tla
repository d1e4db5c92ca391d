---------------------------- MODULE OtaSystemProofs ---------------------------
(***************************************************************************)
(* Type correctness of the router and a node of libota.c composed over    *)
(* the lossy network (module OtaSystem), for every value of the constants. *)
(* The lemmas of the node's and the router's proofs are used through      *)
(* instances, with the node's state renamed as in OtaSystem.               *)
(***************************************************************************)
EXTENDS OtaSystem, TLAPS

\* the proofs about the node and the router (OtaRouterProofs extends
\* OtaNodeProofs), of OtaSystem's variables
RP == INSTANCE OtaRouterProofs WITH state <- nState

\* the constants' assumptions, instantiated: they are OtaSystem's own, so the
\* lemmas of the instance hold here
LEMMA RPAssumptions ==
    /\ RP!SessionAssumption /\ RP!FragAssumption /\ RP!SizeAssumption
    /\ RP!DisciplinedAssumption
BY SessionAssumption, FragAssumption, SizeAssumption, DisciplinedAssumption
DEF RP!SessionAssumption, RP!FragAssumption, RP!SizeAssumption, RP!DisciplinedAssumption

\* the sets of OtaCommon are the same seen from the proofs, from the node
\* and from the router
LEMMA CommonSame ==
    /\ RP!Msgs = Msgs /\ Node!Msgs = Msgs
    /\ RP!Positions = Positions /\ Node!Positions = Positions
    /\ RP!States = States /\ Node!States = States
    /\ RP!DevTypes = DevTypes /\ Node!DevTypes = DevTypes
    /\ \A fc : RP!SegCountOf(fc) = SegCountOf(fc) /\ Node!SegCountOf(fc) = SegCountOf(fc)
BY DEF RP!Msgs, Node!Msgs, Msgs, RP!Positions, Node!Positions, Positions,
       RP!PositionsOf, Node!PositionsOf, PositionsOf, RP!SegCountOf, Node!SegCountOf,
       SegCountOf, RP!SegSize, Node!SegSize, SegSize, RP!States, Node!States, States,
       RP!DevTypes, Node!DevTypes, DevTypes

\* the node's type invariant is the one OtaSystem names
LEMMA NodeTypeSame == RP!TypeOK <=> Node!TypeOK
BY CommonSame DEF RP!TypeOK, Node!TypeOK, RP!Callbacks, Node!Callbacks,
   RP!OwnType, Node!OwnType, RP!ParsType, Node!ParsType, RP!Timers, Node!Timers

\* the router's type invariant is OtaRouter's
LEMMA RouterTypeSame == RP!RTypeOK <=> RTypeOK
BY CommonSame DEF RP!RTypeOK, RTypeOK, RP!RouterStates, RouterStates,
   RP!RouterTimers, RouterTimers

\* the router's initial condition and the router actions of SysNext, seen
\* from the router's proofs, are OtaRouter's own: the instance renames only
\* the node's variables, which the router does not read
LEMMA RouterSame ==
    /\ RInit <=> RP!RInit
    /\ \A s, h : Lwm2mFirmware(s, h) <=> RP!Lwm2mFirmware(s, h)
    /\ \A p : FirmwarePulled(p) <=> RP!FirmwarePulled(p)
    /\ RFire <=> RP!RFire
    /\ \A m : RReceive(m) <=> RP!RReceive(m)
<1>. USE DEF
    RP!CloudMaySend, CloudMaySend, RP!DevTypes, DevTypes, RP!Least, Least, RP!Lesser, Lesser, RP!Msgs,
    Msgs, RP!NextMissingForRequester, NextMissingForRequester,
    RP!Positions, Positions, RP!PositionsOf, PositionsOf,
    RP!RequesterMissing, RequesterMissing, RP!SegCountOf, SegCountOf,
    RP!SegOf, SegOf, RP!SegPositions, SegPositions, RP!SegSize, SegSize,
    RP!SliceFrags, SliceFrags, RP!States, States, RP!Deleted, Deleted,
    RP!FirmwarePulled, FirmwarePulled, RP!Lwm2mActivate, Lwm2mActivate,
    RP!Lwm2mFirmware, Lwm2mFirmware, RP!Lwm2mMalformed, Lwm2mMalformed,
    RP!Lwm2mManifest, Lwm2mManifest, RP!NewProcess, NewProcess,
    RP!RChecksumMatch, RChecksumMatch, RP!RChecksumStep, RChecksumStep,
    RP!RDeleteSession, RDeleteSession, RP!RFire, RFire, RP!RFireChecksum,
    RFireChecksum, RP!RFireDelivering, RFireDelivering,
    RP!RFireEndFragments, RFireEndFragments, RP!RFireMessageSent,
    RFireMessageSent, RP!RFireService, RFireService, RP!RHashSlice,
    RHashSlice, RP!RInit, RInit, RP!RReceive, RReceive,
    RP!RReceiveFragmentsRequest, RReceiveFragmentsRequest,
    RP!RReceiveServedFragment, RReceiveServedFragment, RP!RSliceLen,
    RSliceLen, RP!RTotal, RTotal, RP!RTypeOK, RTypeOK, RP!Relay, Relay,
    RP!RouterStates, RouterStates, RP!RouterTimers, RouterTimers,
    RP!SendStart, SendStart, RP!Verified, Verified, RP!rHashVars,
    rHashVars, RP!rOtaVars, rOtaVars, RP!rServeVars, rServeVars, RP!rVars,
    rVars
<1>1. RInit <=> RP!RInit
  OBVIOUS
<1>2. \A s, h : Lwm2mFirmware(s, h) <=> RP!Lwm2mFirmware(s, h)
  OBVIOUS
<1>3. \A p : FirmwarePulled(p) <=> RP!FirmwarePulled(p)
  OBVIOUS
<1>4. RFire <=> RP!RFire
  OBVIOUS
<1>5. \A m : RReceive(m) <=> RP!RReceive(m)
  OBVIOUS
<1>. QED
  BY <1>1, <1>2, <1>3, <1>4, <1>5

\* the node's initial condition and actions, seen from the node's proofs,
\* are those OtaSystem instantiates
LEMMA NodeSame ==
    /\ Node!Init <=> RP!Init
    /\ Node!Fire <=> RP!Fire
    /\ \A m : Node!Receive(m) <=> RP!Receive(m)
<1>. USE DEF
    RP!DevTypes, Node!DevTypes, RP!Least, Node!Least, RP!Lesser,
    Node!Lesser, RP!Msgs, Node!Msgs, RP!NextMissingForRequester,
    Node!NextMissingForRequester, RP!Positions, Node!Positions,
    RP!PositionsOf, Node!PositionsOf, RP!RequesterMissing,
    Node!RequesterMissing, RP!SegCountOf, Node!SegCountOf, RP!SegOf,
    Node!SegOf, RP!SegPositions, Node!SegPositions, RP!SegSize,
    Node!SegSize, RP!SliceFrags, Node!SliceFrags, RP!States, Node!States,
    RP!Callbacks, Node!Callbacks, RP!Counted, Node!Counted,
    RP!DeleteProcess, Node!DeleteProcess, RP!DeleteSession,
    Node!DeleteSession, RP!EmptyPars, Node!EmptyPars, RP!Fire, Node!Fire,
    RP!FireActivate, Node!FireActivate, RP!FireChecksum, Node!FireChecksum,
    RP!FireEndFragments, Node!FireEndFragments, RP!FireFallback,
    Node!FireFallback, RP!FireFirmwareReady, Node!FireFirmwareReady,
    RP!FireRequesting, Node!FireRequesting, RP!FireService,
    Node!FireService, RP!FirstMissingSegment, Node!FirstMissingSegment,
    RP!HashSlice, Node!HashSlice, RP!Init, Node!Init, RP!InitBitmask,
    Node!InitBitmask, RP!Missing, Node!Missing, RP!MissingNow,
    Node!MissingNow, RP!MissingSegments, Node!MissingSegments,
    RP!NoteServedFragment, Node!NoteServedFragment, RP!OwnType,
    Node!OwnType, RP!ParsRec, Node!ParsRec, RP!ParsType, Node!ParsType,
    RP!Receive, Node!Receive, RP!ReceiveAbort, Node!ReceiveAbort,
    RP!ReceiveActivate, Node!ReceiveActivate, RP!ReceiveEndFragments,
    Node!ReceiveEndFragments, RP!ReceiveFragment, Node!ReceiveFragment,
    RP!ReceiveFragmentsRequest, Node!ReceiveFragmentsRequest,
    RP!ReceiveManifest, Node!ReceiveManifest, RP!ReceiveStart,
    Node!ReceiveStart, RP!Restart, Node!Restart, RP!SliceLen,
    Node!SliceLen, RP!StartChecksum, Node!StartChecksum,
    RP!StoreNewFragment, Node!StoreNewFragment, RP!StoreParameters,
    Node!StoreParameters, RP!Timers, Node!Timers, RP!TypeOK, Node!TypeOK,
    RP!WriteFragment, Node!WriteFragment, RP!hashVars, Node!hashVars,
    RP!otaVars, Node!otaVars, RP!serveVars, Node!serveVars, RP!vars,
    Node!vars, RP!ChecksumMatch, Node!ChecksumMatch
<1>1. Node!Init <=> RP!Init
  OBVIOUS
<1>2. Node!Fire <=> RP!Fire
  OBVIOUS
<1>3. \A m : Node!Receive(m) <=> RP!Receive(m)
  OBVIOUS
<1>. QED
  BY <1>1, <1>2, <1>3

\* both type invariants are the same in the next state too
LEMMA TypeSamePrimed ==
    /\ RP!TypeOK' <=> Node!TypeOK'
    /\ RP!RTypeOK' <=> RTypeOK'
BY CommonSame DEF RP!TypeOK, Node!TypeOK, RP!Callbacks, Node!Callbacks,
   RP!OwnType, Node!OwnType, RP!ParsType, Node!ParsType, RP!Timers, Node!Timers,
   RP!RTypeOK, RTypeOK, RP!RouterStates, RouterStates, RP!RouterTimers, RouterTimers

\* a step that leaves the router's variables alone is a stutter of the router
LEMMA RouterStutter == UNCHANGED rVars => UNCHANGED RP!rVars
BY DEF rVars, RP!rVars, rOtaVars, RP!rOtaVars, rHashVars, RP!rHashVars,
   rServeVars, RP!rServeVars

\* a step that leaves the node's variables alone is a stutter of the node
LEMMA NodeStutter == UNCHANGED nodeVars => UNCHANGED RP!vars
BY DEF nodeVars, RP!vars, RP!otaVars, RP!hashVars, RP!serveVars

-----------------------------------------------------------------------------
(* The composed type invariant.  A router step (the cloud's FIRMWARE, a   *)
(* pull that completes, a timer or a datagram from the node) keeps the    *)
(* router typed by the router's lemmas and is a stutter of the node; a    *)
(* node step (a timer or a datagram from the router) keeps the node typed *)
(* by the node's lemmas, which take any datagram of Msgs, and is a        *)
(* stutter of the router.  What a step puts in flight is what its sender  *)
(* sent, which the sender's type invariant keeps in Msgs.                 *)

\* SysTypeOK, in the terms of the node's and the router's proofs
LEMMA SysTypeSplit ==
    /\ SysTypeOK <=> RP!RTypeOK /\ RP!TypeOK /\ toNode \subseteq Msgs /\ toRouter \subseteq Msgs
    /\ SysTypeOK' <=> RP!RTypeOK' /\ RP!TypeOK' /\ toNode' \subseteq Msgs /\ toRouter' \subseteq Msgs
BY RouterTypeSame, NodeTypeSame, TypeSamePrimed DEF SysTypeOK

\* a step of the router that keeps it typed, sends into toNode at most what
\* the router sent, and removes at most from toRouter, keeps SysTypeOK
LEMMA RouterStepTyped ==
    ASSUME SysTypeOK, RP!RTypeOK', UNCHANGED nodeVars,
           toNode' \subseteq toNode \cup rSent', toRouter' \subseteq toRouter
    PROVE  SysTypeOK'
<1>1. RP!RTypeOK /\ RP!TypeOK /\ toNode \subseteq Msgs /\ toRouter \subseteq Msgs
  BY SysTypeSplit
<1>2. RP!TypeOK'
  BY <1>1, NodeStutter, RP!StepTyped, RPAssumptions
<1>3. rSent' \subseteq Msgs
  BY TypeSamePrimed DEF RTypeOK
<1>. QED
  BY <1>1, <1>2, <1>3, SysTypeSplit

\* a step of the node that keeps it typed, sends into toRouter at most what
\* the node sent, and removes at most from toNode, keeps SysTypeOK
LEMMA NodeStepTyped ==
    ASSUME SysTypeOK, RP!TypeOK', UNCHANGED rVars,
           toRouter' \subseteq toRouter \cup sent', toNode' \subseteq toNode
    PROVE  SysTypeOK'
<1>1. RP!RTypeOK /\ RP!TypeOK /\ toNode \subseteq Msgs /\ toRouter \subseteq Msgs
  BY SysTypeSplit
<1>2. RP!RTypeOK'
  BY <1>1, RouterStutter, RP!RTypeStep, RPAssumptions
<1>3. sent' \subseteq Msgs
  <2>1. sent' \subseteq RP!Msgs
    BY DEF RP!TypeOK
  <2>. QED
    BY <2>1, CommonSame
<1>. QED
  BY <1>1, <1>2, <1>3, SysTypeSplit

\* every step of SysNext, or a stutter, keeps SysTypeOK
LEMMA SysTypeStep ==
    ASSUME SysTypeOK, [SysNext]_sysVars
    PROVE  SysTypeOK'
<1>1. RP!RTypeOK /\ RP!TypeOK /\ toNode \subseteq Msgs /\ toRouter \subseteq Msgs
  BY SysTypeSplit
<1>2. CASE Cloud
  <2>1. PICK s \in Session : RouterStep(Lwm2mFirmware(s, TRUE))
    BY <1>2 DEF Cloud
  <2>2. RP!RNext
    BY <2>1, RouterSame DEF RouterStep, RP!RNext
  <2>3. RP!RTypeOK'
    BY <1>1, <2>2, RP!RTypeStep, RPAssumptions
  <2>. QED
    BY <2>1, <2>3, RouterStepTyped DEF RouterStep
<1>3. CASE \E p \in Session : RouterStep(FirmwarePulled(p))
  <2>1. PICK p \in Session : RouterStep(FirmwarePulled(p))
    BY <1>3
  <2>2. RP!RNext
    BY <2>1, RouterSame DEF RouterStep, RP!RNext
  <2>3. RP!RTypeOK'
    BY <1>1, <2>2, RP!RTypeStep, RPAssumptions
  <2>. QED
    BY <2>1, <2>3, RouterStepTyped DEF RouterStep
<1>4. CASE RouterStep(RFire)
  <2>1. RP!RNext
    BY <1>4, RouterSame DEF RouterStep, RP!RNext
  <2>2. RP!RTypeOK'
    BY <1>1, <2>1, RP!RTypeStep, RPAssumptions
  <2>. QED
    BY <1>4, <2>2, RouterStepTyped DEF RouterStep
<1>5. CASE \E m \in toRouter : ToRouter(m)
  <2>1. PICK m \in toRouter : ToRouter(m)
    BY <1>5
  <2>2. m \in RP!Msgs /\ RP!RReceive(m)
    BY <1>1, <2>1, CommonSame, RouterSame DEF ToRouter
  <2>3. RP!RTypeOK'
    BY <1>1, <2>2, RP!ReceiveTyped, RPAssumptions
  <2>. QED
    BY <2>1, <2>3, RouterStepTyped DEF ToRouter
<1>6. CASE NodeStep(Node!Fire)
  <2>1. RP!Next
    BY <1>6, NodeSame DEF NodeStep, RP!Next
  <2>2. RP!TypeOK'
    BY <1>1, <2>1, RP!StepTyped, RPAssumptions
  <2>. QED
    BY <1>6, <2>2, NodeStepTyped DEF NodeStep
<1>7. CASE \E m \in toNode : ToNode(m)
  <2>1. PICK m \in toNode : ToNode(m)
    BY <1>7
  <2>2. m \in RP!Msgs /\ RP!Receive(m)
    BY <1>1, <2>1, CommonSame, NodeSame DEF ToNode
  <2>3. RP!TypeOK'
    BY <1>1, <2>2, RP!StepTyped, RPAssumptions
  <2>. QED
    BY <2>1, <2>3, NodeStepTyped DEF ToNode
<1>8. CASE \E m \in toNode \cup toRouter : Lose(m)
  <2>1. UNCHANGED RP!vars
    BY <1>8, NodeStutter DEF Lose
  <2>2. RP!TypeOK'
    BY <1>1, <2>1, RP!StepTyped, RPAssumptions
  <2>. QED
    BY <1>8, <2>2, NodeStepTyped DEF Lose
<1>9. CASE UNCHANGED sysVars
  <2>1. UNCHANGED RP!vars
    BY <1>9, NodeStutter DEF sysVars
  <2>2. RP!TypeOK'
    BY <1>1, <2>1, RP!StepTyped, RPAssumptions
  <2>. QED
    BY <1>9, <2>2, NodeStepTyped DEF sysVars
<1>. QED
  BY <1>2, <1>3, <1>4, <1>5, <1>6, <1>7, <1>8, <1>9 DEF SysNext

\* SysTypeOK: every variable of the router, of the node and of the network
\* keeps the type the code gives it, in every behaviour of the router and a
\* node over the lossy network, whatever datagrams are lost and in whatever
\* order the node and the router take theirs
THEOREM SysTypeCorrect == SysSpec => []SysTypeOK
<1>1. SysInit => SysTypeOK
  <2>. SUFFICES ASSUME SysInit PROVE SysTypeOK
    OBVIOUS
  <2>1. RP!RTypeOK
    BY RouterSame, RP!RInitTyped, RPAssumptions DEF SysInit
  <2>2. RP!TypeOK
    BY NodeSame, RP!InitTyped, RPAssumptions DEF SysInit
  <2>. QED
    BY <2>1, <2>2, SysTypeSplit DEF SysInit
<1>. QED
  BY <1>1, SysTypeStep, PTL DEF SysSpec

=============================================================================
