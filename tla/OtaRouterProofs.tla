--------------------------- MODULE OtaRouterProofs ---------------------------
(***************************************************************************)
(* Proofs about the border-router role of libota.c (module OtaRouter), for *)
(* every value of the constants that satisfies the assumptions of          *)
(* OtaCommon and OtaRouter.  The lemmas about the operators OtaCommon      *)
(* defines are those of OtaNodeProofs.                                     *)
(***************************************************************************)
EXTENDS OtaRouter, OtaNodeProofs, TLAPS

-----------------------------------------------------------------------------
(* The checksum pass.                                                      *)

\* The variables a step of the checksum routine assigns keep their types.
ChecksumTyped ==
    /\ rState' \in RouterStates
    /\ rTimers' \subseteq RouterTimers
    /\ delivering' \in BOOLEAN
    /\ current' \in 1 .. (FragCount + 1)
    /\ rCtx' \in BOOLEAN
    /\ rCursor' \in 0 .. TotalBytes
    /\ rHashSid' \in Session \cup {NoSession}
    /\ rSent' \subseteq Msgs
    /\ deliverSid' \in Session \cup {NoSession}

\* A START the checksum routine multicasts follows a match over the pulled
\* image of the router's session.
ChecksumStarts(P) ==
    \A m \in rSent' : m.cmd = "START" =>
        /\ m.sid = rSession
        /\ m.hashOk
        /\ rState' = "PROCESS_COMPLETED"
        /\ rChecksumOk
        /\ rHashSid' = rSession
        /\ rSession \in P

\* The image length is 0 or TotalBytes, and a slice ends within it.
LEMMA RSliceLenBound ==
    ASSUME rFragCount \in {0, FragCount}, NEW c \in 0 .. RTotal
    PROVE  /\ RTotal \in 0 .. TotalBytes
           /\ RSliceLen(c) \in 0 .. (RTotal - c)
BY ConstantFacts, SizeAssumption DEF RSliceLen, Lesser, RTotal

\* The START record SendStart builds is a command of the wire format.
LEMMA StartMsg ==
    ASSUME rSession \in Session, rChecksumOk \in BOOLEAN
    PROVE  [cmd |-> "START", sid |-> rSession, type |-> "node", hashOk |-> rChecksumOk] \in Msgs
BY DEF Msgs, DevTypes

\* Hashing one slice keeps the types and multicasts START only on a match.
LEMMA HashSliceStep ==
    ASSUME RTypeOK, NEW T \in SUBSET RouterTimers, NEW P \in SUBSET Session,
           rCursor <= RTotal, NEW read \in 0 .. RSliceLen(rCursor),
           RHashSlice(T, P, read)
    PROVE  ChecksumTyped /\ ChecksumStarts(P)
<1>. DEFINE pushed == RSliceLen(rCursor)
            ok == rHashSid = rSession /\ rSession \in P /\ read = pushed
            match == RChecksumMatch(ok, rCursor + read)
            fin == rCursor + read = RTotal \/ read # pushed
<1>1. rCursor' \in 0 .. TotalBytes
  <2>1. RTotal \in 0 .. TotalBytes /\ pushed \in 0 .. (RTotal - rCursor)
    BY RSliceLenBound DEF RTypeOK
  <2>2. rCursor' = rCursor + read
    BY DEF RHashSlice
  <2>3. rCursor \in Nat /\ read \in Nat /\ TotalBytes \in Nat
    BY ConstantFacts DEF RTypeOK
  <2>. QED
    BY <2>1, <2>2, <2>3
<1>2. rHashSid' \in Session \cup {NoSession}
  BY DEF RHashSlice, RTypeOK
<1>3. CASE fin /\ match
  <2>1. rSession \in Session /\ rChecksumOk
    BY <1>3 DEF RChecksumMatch
  <2>2. SendStart(T) /\ rCtx' = FALSE /\ rState' = "PROCESS_COMPLETED"
        /\ rHashSid' = rSession
    BY <1>3 DEF RHashSlice, RChecksumMatch
  <2>3. [cmd |-> "START", sid |-> rSession, type |-> "node", hashOk |-> rChecksumOk] \in Msgs
    BY <2>1, StartMsg DEF RTypeOK
  <2>4. rChecksumOk /\ rSession \in P /\ rHashSid = rSession
    BY <1>3 DEF RChecksumMatch
  <2>5. rState' \in RouterStates /\ rCtx' \in BOOLEAN /\ rHashSid' = rSession
    BY <2>2 DEF RouterStates
  <2>6. CASE rSent' = {} /\ rTimers' = T /\ UNCHANGED <<delivering, current, deliverSid>>
    BY <1>1, <2>1, <2>5, <2>6 DEF ChecksumTyped, ChecksumStarts, RTypeOK
  <2>7. CASE /\ rSent' = {[cmd |-> "START", sid |-> rSession, type |-> "node",
                            hashOk |-> rChecksumOk]}
             /\ rTimers' = T \cup {"FRAGMENTS_DELIVERING"}
             /\ delivering' = TRUE /\ current' = 1 /\ deliverSid' = rSession
    <3>1. ChecksumTyped
      BY <1>1, <2>1, <2>3, <2>5, <2>7, ConstantFacts DEF ChecksumTyped, RouterTimers
    <3>2. ChecksumStarts(P)
      BY <2>2, <2>4, <2>7 DEF ChecksumStarts
    <3>. QED
      BY <3>1, <3>2
  <2>. QED
    BY <2>2, <2>6, <2>7 DEF SendStart
<1>4. CASE fin /\ ~match
  <2>1. rTimers' = T /\ rSent' = {} /\ rCtx' = FALSE
        /\ rState' \in RouterStates
        /\ UNCHANGED <<delivering, current, deliverSid>>
    BY <1>4 DEF RHashSlice, RouterStates
  <2>. QED
    BY <1>1, <1>2, <2>1 DEF ChecksumTyped, ChecksumStarts, RTypeOK
<1>5. CASE ~fin
  <2>1. rTimers' = T \cup {"CHECKSUM_CALCULATING"} /\ rSent' = {}
        /\ rState' = "CHECKSUM_CALCULATING"
        /\ UNCHANGED <<rCtx, delivering, current, deliverSid>>
    BY <1>5 DEF RHashSlice
  <2>. QED
    BY <1>1, <1>2, <2>1 DEF ChecksumTyped, ChecksumStarts, RTypeOK, RouterStates,
       RouterTimers
<1>. QED
  BY <1>3, <1>4, <1>5

\* A step of ota_manage_whole_fw_checksum_calculating keeps the types and
\* multicasts START only on a match.
LEMMA ChecksumStep ==
    ASSUME RTypeOK, NEW T \in SUBSET RouterTimers, NEW P \in SUBSET Session,
           RChecksumStep(T, P)
    PROVE  ChecksumTyped /\ ChecksumStarts(P)
<1>1. CASE ~rCtx /\ rCtx' \in BOOLEAN /\ rCursor' = 0 /\ rHashSid' = rSession
           /\ rTimers' = T \cup {"CHECKSUM_CALCULATING"} /\ rSent' = {}
           /\ rState' = "CHECKSUM_CALCULATING"
           /\ UNCHANGED <<delivering, current, deliverSid>>
  BY <1>1, ConstantFacts DEF ChecksumTyped, ChecksumStarts, RTypeOK, RouterStates,
     RouterTimers
<1>2. CASE rCtx /\ rTimers' = T \cup {"CHECKSUM_CALCULATING"} /\ rSent' = {}
           /\ rState' = "CHECKSUM_CALCULATING"
           /\ UNCHANGED <<rHashVars, delivering, current, deliverSid>>
  BY <1>2 DEF ChecksumTyped, ChecksumStarts, RTypeOK, RouterStates, RouterTimers,
     rHashVars
<1>3. CASE rCtx /\ rCursor <= RTotal /\ \E read \in 0 .. RSliceLen(rCursor) : RHashSlice(T, P, read)
  BY <1>3, HashSliceStep
<1>. QED
  BY <1>1, <1>2, <1>3 DEF RChecksumStep
-----------------------------------------------------------------------------
(* Type correctness, one lemma per action.                                 *)

\* The initial state is typed.
LEMMA RInitTyped == RInit => RTypeOK
<1>. SUFFICES ASSUME RInit PROVE RTypeOK
  OBVIOUS
<1>1. FragCount \in Nat /\ TotalBytes \in Nat /\ SegCountOf(FragCount) \in Nat
  BY ConstantFacts
<1>2. current \in 1 .. (FragCount + 1) /\ rCursor \in 0 .. TotalBytes
      /\ rServiceSeg \in 0 .. SegCountOf(FragCount)
  BY <1>1 DEF RInit
<1>. QED
  BY <1>2 DEF RInit, RTypeOK, RouterStates

\* ota_delete_process keeps the types of what it assigns.
LEMMA DeletedTyped ==
    ASSUME RTypeOK, NEW D, Deleted(D)
    PROVE  /\ rState' \in RouterStates /\ rSession' \in Session \cup {NoSession}
           /\ rService' \in BOOLEAN /\ delivering' \in BOOLEAN /\ rCtx' \in BOOLEAN
           /\ rTimers' \subseteq RouterTimers /\ ready' \in BOOLEAN
           /\ pulls' \subseteq Session
BY DEF Deleted, RTypeOK, RouterStates

\* a malformed LwM2M command keeps the types
LEMMA MalformedTyped ==
    ASSUME RTypeOK, Lwm2mMalformed
    PROVE  RTypeOK'
BY DeletedTyped DEF Lwm2mMalformed, RTypeOK

\* FIRMWARE keeps the types, on each of its three outcomes
LEMMA FirmwareTyped ==
    ASSUME RTypeOK, NEW s \in Session, NEW h \in BOOLEAN, Lwm2mFirmware(s, h)
    PROVE  RTypeOK'
<1>1. CASE Deleted({rSession}) /\ UNCHANGED <<rFragCount, rChecksumOk>>
  BY <1>1, DeletedTyped DEF Lwm2mFirmware, RTypeOK
<1>2. CASE rFragCount' = FragCount /\ rChecksumOk' = h /\ Deleted({s})
  BY <1>2, DeletedTyped DEF Lwm2mFirmware, RTypeOK
<1>3. CASE /\ rState' = "STARTED" /\ rSession' = s /\ rFragCount' = FragCount
           /\ rChecksumOk' = h /\ ready' = FALSE /\ pulls' = pulls \cup {s}
           /\ UNCHANGED <<rTimers, delivering, rCtx, rService>>
  BY <1>3 DEF Lwm2mFirmware, RTypeOK, RouterStates
<1>. QED
  BY <1>1, <1>2, <1>3 DEF Lwm2mFirmware

\* MANIFEST and ACTIVATE keep the types, on each of their outcomes
LEMMA RelayTyped ==
    ASSUME RTypeOK, NEW s \in Session, NEW msg \in Msgs, NEW del \in BOOLEAN,
           Relay(s, msg, del)
    PROVE  RTypeOK'
<1>1. CASE Deleted({rSession}) /\ UNCHANGED <<rFragCount, rChecksumOk>> /\ rSent' = {}
  BY <1>1, DeletedTyped DEF Relay, RTypeOK
<1>2. CASE /\ Deleted(IF del THEN {rSession, s} ELSE {s})
           /\ rFragCount' = 0 /\ rChecksumOk' = FALSE /\ rSent' = {}
  BY <1>2, DeletedTyped DEF Relay, RTypeOK
<1>3. CASE /\ NewProcess(s) /\ rSent' = {msg}
           /\ rTimers' = (IF del THEN {} ELSE rTimers) \cup {"MULTICAST_MESSAGE_SENT"}
           /\ delivering' = (delivering /\ ~del) /\ rCtx' = (rCtx /\ ~del)
           /\ rService' = (rService /\ ~del)
           /\ pulls' = IF del THEN pulls \ {rSession} ELSE pulls
  BY <1>3 DEF Relay, NewProcess, RTypeOK, RouterStates, RouterTimers
<1>. QED
  BY <1>1, <1>2, <1>3 DEF Relay

\* the MANIFEST and ACTIVATE commands keep the types
LEMMA ManifestActivateTyped ==
    ASSUME RTypeOK, NEW s \in Session, Lwm2mManifest(s) \/ Lwm2mActivate(s)
    PROVE  RTypeOK'
<1>1. [cmd |-> "MANIFEST", sid |-> s] \in Msgs
  BY DEF Msgs
<1>2. [cmd |-> "ACTIVATE", sid |-> s, type |-> "node"] \in Msgs
  BY DEF Msgs, DevTypes
<1>. QED
  BY <1>1, <1>2, RelayTyped DEF Lwm2mManifest, Lwm2mActivate

\* ota_firmware_pulled keeps the types
LEMMA PulledTyped ==
    ASSUME RTypeOK, NEW p \in Session, FirmwarePulled(p)
    PROVE  RTypeOK'
<1>1. pulled' \in SUBSET Session /\ pulls' \subseteq Session
  BY DEF FirmwarePulled, RTypeOK
<1>2. ChecksumTyped
  BY <1>1, ChecksumStep DEF FirmwarePulled, RTypeOK
<1>. QED
  BY <1>1, <1>2 DEF FirmwarePulled, ChecksumTyped, RTypeOK, rServeVars

\* ota_delete_session keeps the types
LEMMA DeleteSessionTyped ==
    ASSUME RTypeOK, NEW s \in Session, RDeleteSession(s)
    PROVE  RTypeOK'
BY DeletedTyped DEF RDeleteSession, RTypeOK

\* Every command a node sends the router is one of the wire format.
LEMMA RouterInputsAreMsgs == RouterInputs \subseteq Msgs
<1>1. ASSUME NEW s \in 1 .. SegCountOf(FragCount)
      PROVE  SegPositions(s) \subseteq Positions /\ s \in 0 .. SegCountOf(FragCount)
  BY SegmentWindowInBitmask
<1>. QED
  BY <1>1 DEF RouterInputs, Msgs

\* a datagram of the wire format, whoever sent it, keeps the types
LEMMA ReceiveTyped ==
    ASSUME RTypeOK, NEW m \in Msgs, RReceive(m)
    PROVE  RTypeOK'
<1>1. CASE RReceiveFragmentsRequest(m)
  <2>1. m.seg \in 0 .. SegCountOf(FragCount) /\ m.mask \subseteq Positions
    BY <1>1, MsgFields DEF RReceiveFragmentsRequest
  <2>2. rServiceSeg' \in 0 .. SegCountOf(FragCount) /\ rServiceMask' \subseteq Positions
    BY <1>1, <2>1 DEF RReceiveFragmentsRequest
  <2>. QED
    BY <1>1, <2>2 DEF RReceiveFragmentsRequest, RTypeOK, RouterTimers, rOtaVars,
       rHashVars
<1>2. CASE RReceiveServedFragment(m)
  <2>1. m.frag \in Positions
    BY <1>2, MsgFields, FragmentsHaveBits DEF RReceiveServedFragment
  <2>2. rServiceMask' \subseteq Positions
    BY <1>2, <2>1 DEF RReceiveServedFragment, RTypeOK
  <2>. QED
    BY <1>2, <2>2 DEF RReceiveServedFragment, RTypeOK, RouterTimers, rOtaVars,
       rHashVars
<1>. QED
  BY <1>1, <1>2 DEF RReceive

\* the CHECKSUM_CALCULATING expiry keeps the types
LEMMA FireChecksumTyped ==
    ASSUME RTypeOK, RFireChecksum
    PROVE  RTypeOK'
<1>. DEFINE T == rTimers \ {"CHECKSUM_CALCULATING"}
<1>1. CASE rState # "CHECKSUM_CALCULATING" /\ rTimers' = T /\ rSent' = {}
           /\ UNCHANGED <<rState, rHashVars, delivering, current, deliverSid>>
  BY <1>1 DEF RFireChecksum, RTypeOK, rHashVars, rServeVars
<1>2. CASE rState = "CHECKSUM_CALCULATING" /\ RChecksumStep(T, pulled)
  <2>1. ChecksumTyped
    BY <1>2, ChecksumStep DEF RTypeOK, RouterTimers
  <2>. QED
    BY <2>1 DEF RFireChecksum, ChecksumTyped, RTypeOK, rServeVars
<1>. QED
  BY <1>1, <1>2 DEF RFireChecksum

\* the FRAGMENTS_DELIVERING expiry keeps the types: the cursor stops at fragment count + 1
LEMMA FireDeliveringTyped ==
    ASSUME RTypeOK, RFireDelivering
    PROVE  RTypeOK'
<1>. DEFINE frag == [cmd |-> "FRAGMENT", sid |-> rSession, frag |-> current, crcOk |-> TRUE]
<1>0. UNCHANGED <<rOtaVars, rHashVars, rServeVars, ready, pulls, pulled, deliverSid>>
  BY DEF RFireDelivering
<1>1. CASE /\ ~delivering
           /\ rTimers' = rTimers \ {"FRAGMENTS_DELIVERING"}
           /\ rSent' = {}
           /\ UNCHANGED <<delivering, current>>
  BY <1>0, <1>1 DEF RTypeOK, rOtaVars, rHashVars, rServeVars
<1>2. CASE /\ delivering
           /\ current <= rFragCount
           /\ UNCHANGED <<rTimers, delivering>>
           /\ \/ rSent' = {} /\ UNCHANGED current
              \/ rSent' \in {{frag}, {}} /\ current' = current + 1
  <2>1. current \in 1 .. FragCount /\ current + 1 \in 1 .. (FragCount + 1)
    BY <1>2, ConstantFacts DEF RTypeOK
  <2>2. frag \in Msgs
    BY <2>1 DEF RTypeOK, Msgs
  <2>3. rSent' \subseteq Msgs /\ current' \in 1 .. (FragCount + 1)
    BY <1>2, <2>1, <2>2 DEF RTypeOK
  <2>. QED
    BY <1>0, <1>2, <2>3 DEF RTypeOK, rOtaVars, rHashVars, rServeVars
<1>3. CASE /\ delivering
           /\ current > rFragCount
           /\ rTimers' = (rTimers \ {"FRAGMENTS_DELIVERING"}) \cup {"END_FRAGMENTS"}
           /\ delivering' = FALSE
           /\ rSent' = {}
           /\ UNCHANGED current
  BY <1>0, <1>3 DEF RTypeOK, RouterTimers, rOtaVars, rHashVars, rServeVars
<1>. QED
  BY <1>1, <1>2, <1>3 DEF RFireDelivering

\* the END_FRAGMENTS expiry keeps the types
LEMMA FireEndFragmentsTyped ==
    ASSUME RTypeOK, RFireEndFragments
    PROVE  RTypeOK'
<1>1. [cmd |-> "END_FRAGMENTS", sid |-> rSession] \in Msgs
  BY DEF RTypeOK, Msgs
<1>. QED
  BY <1>1 DEF RFireEndFragments, RTypeOK, rOtaVars, rHashVars, rServeVars

\* the MULTICAST_MESSAGE_SENT expiry keeps the types
LEMMA FireMessageSentTyped ==
    ASSUME RTypeOK, RFireMessageSent
    PROVE  RTypeOK'
BY DeletedTyped DEF RFireMessageSent, RTypeOK

\* the FRAGMENTS_REQUEST_SERVICE expiry keeps the types: the fragment served is one of the image
LEMMA FireServiceTyped ==
    ASSUME RTypeOK, RFireService
    PROVE  RTypeOK'
<1>. DEFINE T == rTimers \ {"FRAGMENTS_REQUEST_SERVICE"}
            f == NextMissingForRequester(rServiceSeg, rServiceMask, rFragCount)
            mask == IF f = 0 THEN rServiceMask ELSE rServiceMask \cup {f}
            frag == [cmd |-> "FRAGMENT", sid |-> rSession, frag |-> f, crcOk |-> TRUE]
<1>1. f \in 0 .. FragCount
  <2>1. rServiceSeg \in Nat /\ rFragCount \in Nat
    BY ConstantFacts DEF RTypeOK
  <2>2. f \in 0 .. rFragCount
    BY <2>1, NextMissingType
  <2>3. rFragCount <= FragCount
    BY ConstantFacts DEF RTypeOK
  <2>. QED
    BY <2>1, <2>2, <2>3, ConstantFacts
<1>2. f # 0 => f \in Positions /\ frag \in Msgs
  BY <1>1, FragmentsHaveBits DEF RTypeOK, Msgs
<1>3. mask \subseteq Positions
  BY <1>2 DEF RTypeOK
<1>0. UNCHANGED <<rOtaVars, delivering, current, rHashVars, rServiceSeg, ready,
                  pulls, pulled, deliverSid>>
  BY DEF RFireService
<1>4. CASE rService
  <2>5. rServiceMask' = mask
    BY <1>4 DEF RFireService
  <2>6. \E more \in BOOLEAN :
           /\ rService' = more
           /\ rTimers' = IF more THEN T \cup {"FRAGMENTS_REQUEST_SERVICE"} ELSE T
    <3>. DEFINE more == NextMissingForRequester(rServiceSeg, mask, rFragCount) > 0
    <3>1. more \in BOOLEAN
      OBVIOUS
    <3>2. rService' = more
          /\ rTimers' = IF more THEN T \cup {"FRAGMENTS_REQUEST_SERVICE"} ELSE T
      BY <1>4 DEF RFireService
    <3>. QED
      BY <3>1, <3>2
  <2>7. rTimers' \subseteq RouterTimers /\ rService' \in BOOLEAN
    BY <2>6 DEF RTypeOK, RouterTimers
  <2>2. rServiceMask' = mask /\ rTimers' \subseteq RouterTimers /\ rService' \in BOOLEAN
    BY <2>5, <2>7
  <2>3. rSent' \in (IF f = 0 THEN {{}} ELSE {{frag}, {}})
    BY <1>4 DEF RFireService
  <2>4. rSent' \subseteq Msgs
    <3>1. CASE f = 0
      BY <2>3, <3>1
    <3>2. CASE f # 0
      BY <1>2, <2>3, <3>2
    <3>. QED
      BY <3>1, <3>2
  <2>1. rServiceMask' = mask /\ rSent' \subseteq Msgs /\ rTimers' \subseteq RouterTimers
        /\ rService' \in BOOLEAN
    BY <2>2, <2>4
  <2>. QED
    BY <1>0, <1>3, <2>1 DEF RTypeOK, rOtaVars, rHashVars
<1>5. CASE ~rService
  BY <1>0, <1>5 DEF RFireService, RTypeOK, RouterTimers, rOtaVars, rHashVars
<1>. QED
  BY <1>4, <1>5
-----------------------------------------------------------------------------
\* Every step of the router keeps the types.
LEMMA RTypeStep == RTypeOK /\ [RNext]_rVars => RTypeOK'
<1>. SUFFICES ASSUME RTypeOK, [RNext]_rVars PROVE RTypeOK'
  OBVIOUS
<1>1. CASE Lwm2mMalformed
  BY <1>1, MalformedTyped
<1>2. CASE \E s \in Session, h \in BOOLEAN : Lwm2mFirmware(s, h)
  BY <1>2, FirmwareTyped
<1>3. CASE \E s \in Session : Lwm2mManifest(s) \/ Lwm2mActivate(s)
  BY <1>3, ManifestActivateTyped
<1>4. CASE \E p \in Session : FirmwarePulled(p)
  BY <1>4, PulledTyped
<1>5. CASE \E s \in Session : RDeleteSession(s)
  BY <1>5, DeleteSessionTyped
<1>6. CASE \E m \in RouterInputs : RReceive(m)
  BY <1>6, ReceiveTyped, RouterInputsAreMsgs
<1>7. CASE RFire
  BY <1>7, FireChecksumTyped, FireDeliveringTyped, FireEndFragmentsTyped,
     FireMessageSentTyped, FireServiceTyped DEF RFire
<1>8. CASE UNCHANGED rVars
  BY <1>8 DEF rVars, rOtaVars, rHashVars, rServeVars, RTypeOK
<1>. QED
  BY <1>1, <1>2, <1>3, <1>4, <1>5, <1>6, <1>7, <1>8 DEF RNext

\* Every reachable state of the router model is well typed: in particular
\* the checksum cursor never passes fw_total_byte_count, the delivery
\* cursor never passes fragment count + 1, and every command multicast is
\* one of the wire format.
THEOREM RouterTypeCorrect == RSpec => []RTypeOK
BY RInitTyped, RTypeStep, PTL DEF RSpec
=============================================================================
