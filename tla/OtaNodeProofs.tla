---------------------------- MODULE OtaNodeProofs ----------------------------
(***************************************************************************)
(* Proofs about the node role of libota.c (module OtaNode), for every      *)
(* value of the constants that satisfies the assumptions of OtaNode.       *)
(***************************************************************************)
EXTENDS OtaNode, WellFoundedInduction, TLAPS

-----------------------------------------------------------------------------
(* Lemmas about the arithmetic and the set operators of OtaNode.           *)

\* A non-empty set of naturals has the least element Least picks.
LEMMA LeastIsLeast ==
    ASSUME NEW S \in SUBSET Nat, S # {}
    PROVE  /\ Least(S) \in S
           /\ \A y \in S : Least(S) <= y
<1>1. \E x \in S : \A y \in S : ~(<<y, x>> \in OpToRel(<, Nat))
  BY NatLessThanWellFounded, WFMin
<1>2. \E x \in S : \A y \in S : x <= y
  <2>1. PICK x \in S : \A y \in S : ~(<<y, x>> \in OpToRel(<, Nat))
    BY <1>1
  <2>2. ASSUME NEW y \in S PROVE ~(y < x)
    <3>1. <<y, x>> \in Nat \X Nat
      OBVIOUS
    <3>. QED
      BY <2>1, <3>1, Zenon DEF OpToRel
  <2>. QED
    BY <2>2
<1>. QED
  BY <1>2 DEF Least

\* The segment size is a positive natural.
LEMMA SegSizePositive == SegSize \in Nat \ {0}
BY SizeAssumption DEF SegSize

\* Rounding n up to whole segments covers n: the bitmask ota_manage_start_command
\* allocates (fw_segment_count segments) has a bit for every fragment.
LEMMA SegmentsCover ==
    ASSUME NEW n \in Nat
    PROVE  /\ SegCountOf(n) \in Nat
           /\ n <= SegCountOf(n) * SegSize
<1>. DEFINE k == SegSize
<1>1. k \in Nat \ {0}
  BY SegSizePositive
<1>. HIDE DEF k
<1>2. (n + k - 1) \div k \in Nat /\ n <= ((n + k - 1) \div k) * k
  BY <1>1
<1>. QED
  BY <1>2 DEF SegCountOf, k

\* An empty image has no segments.
LEMMA NoSegments == SegCountOf(0) = 0
<1>. DEFINE k == SegSize
<1>1. k \in Nat \ {0}
  BY SegSizePositive
<1>. HIDE DEF k
<1>2. (0 + k - 1) \div k = 0
  BY <1>1
<1>. QED
  BY <1>2 DEF SegCountOf, k

\* Every fragment id has a bit in the bitmask.
LEMMA FragmentsHaveBits == 1 .. FragCount \subseteq Positions
<1>1. /\ SegCountOf(FragCount) \in Nat /\ SegSize \in Nat
      /\ FragCount <= SegCountOf(FragCount) * SegSize
  BY FragAssumption, SegmentsCover, SegSizePositive
<1>. QED
  BY <1>1, FragAssumption DEF Positions, PositionsOf

\* The bitmask window of each segment lies inside the bitmask.
LEMMA SegmentWindowInBitmask ==
    ASSUME NEW s \in 1 .. SegCountOf(FragCount)
    PROVE  SegPositions(s) \subseteq Positions
<1>1. SegSize \in Nat \ {0} /\ SegCountOf(FragCount) \in Nat
  BY SegSizePositive, SegmentsCover, FragAssumption
<1>2. s * SegSize <= SegCountOf(FragCount) * SegSize
  BY <1>1
<1>3. (s - 1) * SegSize \in Nat
  BY <1>1
<1>. QED
  BY <1>1, <1>2, <1>3 DEF SegPositions, Positions, PositionsOf

\* ota_get_and_log_first_missing_segment returns 0 or a segment id.
LEMMA FirstMissingSegmentType ==
    ASSUME NEW bm, NEW fc \in {0, FragCount}
    PROVE  FirstMissingSegment(bm, fc) \in 0 .. SegCountOf(FragCount)
<1>1. /\ SegCountOf(fc) \in Nat /\ SegCountOf(FragCount) \in Nat
      /\ SegCountOf(fc) <= SegCountOf(FragCount)
  BY FragAssumption, NoSegments, SegmentsCover
<1>2. CASE MissingSegments(bm, fc) # {}
  <2>. DEFINE segs == MissingSegments(bm, fc)
  <2>1. segs \subseteq 1 .. SegCountOf(fc) /\ segs \in SUBSET Nat /\ segs # {}
    BY <1>1, <1>2 DEF MissingSegments
  <2>. HIDE DEF segs
  <2>2. Least(segs) \in segs
    BY <2>1, LeastIsLeast
  <2>3. Least(segs) \in 1 .. SegCountOf(fc)
    BY <2>1, <2>2, Zenon
  <2>4. Least(segs) \in 0 .. SegCountOf(FragCount)
    BY <1>1, <2>3
  <2>. QED
    BY <1>2, <2>4 DEF FirstMissingSegment, segs
<1>. QED
  BY <1>1, <1>2 DEF FirstMissingSegment

\* ota_get_next_missing_fragment_id_for_requester returns 0 or a fragment id.
LEMMA NextMissingType ==
    ASSUME NEW seg \in Nat, NEW mask, NEW fc \in Nat
    PROVE  NextMissingForRequester(seg, mask, fc) \in 0 .. fc
<1>1. CASE seg # 0 /\ RequesterMissing(seg, mask, fc) # {}
  <2>1. RequesterMissing(seg, mask, fc) \subseteq 1 .. fc
    <3>1. SegSize \in Nat \ {0}
      BY SegSizePositive
    <3>2. (seg - 1) * SegSize \in Nat
      BY <1>1, <3>1
    <3>. QED
      BY <3>2 DEF RequesterMissing, SegPositions
  <2>. DEFINE ids == RequesterMissing(seg, mask, fc)
  <2>2. ids \subseteq 1 .. fc /\ ids \in SUBSET Nat /\ ids # {}
    BY <1>1, <2>1
  <2>. HIDE DEF ids
  <2>3. Least(ids) \in ids
    BY <2>2, LeastIsLeast
  <2>4. Least(ids) \in 1 .. fc
    BY <2>2, <2>3, Zenon
  <2>. QED
    BY <1>1, <2>4 DEF NextMissingForRequester, ids
<1>. QED
  BY <1>1 DEF NextMissingForRequester

\* The stored copy ota_delete_process leaves is typed.
LEMMA EmptyParsType == EmptyPars \in ParsType
BY DEF EmptyPars, ParsRec, ParsType, States, DevTypes

\* The fields of a command the environment delivers have their types.
LEMMA InputFields ==
    ASSUME NEW m \in Inputs
    PROVE  /\ m.sid \in Session
           /\ m.cmd = "START" => m.type \in DevTypes /\ m.hashOk \in BOOLEAN
           /\ m.cmd = "FRAGMENT" => m.frag \in 1 .. FragCount /\ m.crcOk \in BOOLEAN
           /\ m.cmd = "ACTIVATE" => m.type \in DevTypes
           /\ m.cmd = "FRAGMENTS_REQUEST" =>
                 /\ m.seg \in 1 .. SegCountOf(FragCount)
                 /\ m.mask \subseteq SegPositions(m.seg)
BY DEF Inputs

\* The fields of any command of the wire format, as the network carries it.
LEMMA MsgFields ==
    ASSUME NEW m \in Msgs
    PROVE  /\ m.sid \in Session \cup {NoSession}
           /\ m.cmd = "START" => m.sid \in Session /\ m.type \in DevTypes /\ m.hashOk \in BOOLEAN
           /\ m.cmd = "FRAGMENT" => m.frag \in 1 .. FragCount /\ m.crcOk \in BOOLEAN
           /\ m.cmd = "ACTIVATE" => m.sid \in Session /\ m.type \in DevTypes
           /\ m.cmd = "FRAGMENTS_REQUEST" =>
                 /\ m.seg \in 0 .. SegCountOf(FragCount)
                 /\ m.mask \subseteq Positions
BY DEF Msgs

\* Every command a node may receive is one of the wire format.
LEMMA InputsAreMsgs == Inputs \subseteq Msgs
<1>1. ASSUME NEW s \in 1 .. SegCountOf(FragCount)
      PROVE  SegPositions(s) \subseteq Positions /\ s \in 0 .. SegCountOf(FragCount)
  BY SegmentWindowInBitmask
<1>. QED
  BY <1>1 DEF Inputs, Msgs

\* A checksum slice never reads past the end of the image.
LEMMA SliceLenBound ==
    ASSUME NEW c \in 0 .. TotalBytes
    PROVE  SliceLen(c) \in 0 .. (TotalBytes - c)
BY FragAssumption, SizeAssumption DEF SliceLen, Lesser
-----------------------------------------------------------------------------
(* Type correctness.                                                       *)

\* The linear facts about the constants that the type proof needs.
LEMMA ConstantFacts ==
    /\ NoSession \notin Session
    /\ FragCount \in Nat \ {0}
    /\ TotalBytes \in Nat \ {0}
    /\ SliceBytes \in Nat \ {0}
    /\ MaxRestarts \in Nat
    /\ SegCountOf(FragCount) \in Nat
<1>1. TotalBytes \in Nat \ {0}
  <2>1. (FragCount - 1) * FragBytes \in Nat
    BY FragAssumption
  <2>. QED
    BY <2>1, FragAssumption
<1>. QED
  BY <1>1, SessionAssumption, FragAssumption, SizeAssumption, SegmentsCover

\* A parameter record built from typed fields is typed.
LEMMA ParsRecType ==
    ASSUME NEW st \in States, NEW ses \in Session \cup {NoSession},
           NEW dt \in DevTypes \cup {"none"}, NEW fc \in {0, FragCount},
           NEW bm \in SUBSET Positions, NEW ck \in BOOLEAN
    PROVE  ParsRec(st, ses, dt, fc, bm, ck) \in ParsType
BY DEF ParsRec, ParsType

\* The Boolean-valued part of TypeOK (Zenon proves it) and the rest (SMT).
TypeFlags ==
    /\ checksumOk \in BOOLEAN
    /\ ctx \in BOOLEAN
    /\ hashedOk \in BOOLEAN
    /\ service \in BOOLEAN
    /\ fwUpdateReceived \in BOOLEAN
    /\ gaveUp \in BOOLEAN

TypeData ==
    /\ state \in States
    /\ session \in Session \cup {NoSession}
    /\ devType \in DevTypes \cup {"none"}
    /\ fragmentCount \in {0, FragCount}
    /\ bitmask \subseteq Positions
    /\ pars \in ParsType
    /\ stored \subseteq 1 .. FragCount
    /\ timers \subseteq Timers
    /\ cursor \in 0 .. TotalBytes
    /\ serviceSeg \in 0 .. SegCountOf(FragCount)
    /\ serviceMask \subseteq Positions
    /\ activateSid \in Session \cup {NoSession}
    /\ restarts \in 0 .. MaxRestarts
    /\ sent \subseteq Msgs
    /\ cb \subseteq Callbacks

\* A step of the node, or its receipt of any command of the wire format
\* (not only those Next offers, as in the composed system where the
\* network delivers what the router sent), keeps every variable in its type.
LEMMA StepTyped ==
    ASSUME TypeOK, \/ [Next]_vars
                   \/ \E m \in Msgs : Receive(m)
    PROVE  TypeOK'
<1>. USE ConstantFacts, EmptyParsType
<1>. USE DEF States, Timers, Callbacks, DevTypes, OwnType, otaVars, hashVars, serveVars
<1>. SUFFICES TypeFlags' /\ TypeData'
  BY DEF TypeOK, TypeFlags, TypeData
<1>0. TypeFlags /\ TypeData
  BY DEF TypeOK, TypeFlags, TypeData
<1>. HIDE DEF TypeOK
<1>1. CASE DeleteSession
  <2>1. TypeFlags'
    BY <1>0, <1>1, Zenon DEF DeleteSession, DeleteProcess, TypeFlags
  <2>2. TypeData'
    BY <1>0, <1>1 DEF DeleteSession, DeleteProcess, TypeData
  <2>. QED
    BY <2>1, <2>2
<1>2. ASSUME NEW m \in Msgs, ReceiveStart(m) PROVE TypeFlags' /\ TypeData'
  <2>1. m.cmd = "START" /\ m.sid \in Session /\ m.type \in DevTypes /\ m.hashOk \in BOOLEAN
    BY <1>2, MsgFields DEF ReceiveStart
  <2>2. InitBitmask(FragCount) \subseteq Positions
    BY DEF InitBitmask, Positions
  <2>3. ParsRec("STARTED", m.sid, m.type, FragCount, InitBitmask(FragCount), m.hashOk) \in ParsType
    BY <2>1, <2>2 DEF ParsRec, ParsType
  <2>4. TypeFlags'
    BY <1>0, <1>2, <2>1, Zenon DEF ReceiveStart, DeleteProcess, TypeFlags
  <2>5. TypeData'
    BY <1>0, <1>2, <2>1, <2>2, <2>3 DEF ReceiveStart, DeleteProcess, TypeData
  <2>. QED
    BY <2>4, <2>5
<1>3. ASSUME NEW m \in Msgs, ReceiveFragment(m) PROVE TypeFlags' /\ TypeData'
  <2>1. m.frag \in 1 .. FragCount /\ m.frag \in Positions /\ m.crcOk \in BOOLEAN
    BY <1>3, MsgFields, FragmentsHaveBits DEF ReceiveFragment
  <2>2. \A st \in States, bm \in SUBSET Positions :
          ParsRec(st, session, devType, fragmentCount, bm, checksumOk) \in ParsType
    BY <1>0, ParsRecType DEF TypeFlags, TypeData
  <2>. DEFINE served == m.sid = session /\ (state \in {"STARTED", "MISSING_FRAGMENTS_REQUESTING"} \/ service)
              valid == m.crcOk /\ m.frag \in 1 .. fragmentCount
  <2>3. CASE ~served
    <3>1. TypeFlags'
      BY <1>0, <1>3, <2>3, Zenon DEF ReceiveFragment, TypeFlags
    <3>2. TypeData'
      BY <1>0, <1>3, <2>3 DEF ReceiveFragment, TypeData
    <3>. QED
      BY <3>1, <3>2
  <2>4. CASE served /\ valid /\ ~service /\ m.frag \notin bitmask
    <3>1. StoreNewFragment(m.frag) /\ UNCHANGED serveVars /\ sent' = {} /\ cb' = {}
          /\ UNCHANGED <<session, devType, fragmentCount, checksumOk,
                         fwUpdateReceived, activateSid, gaveUp, restarts>>
      BY <1>3, <2>4 DEF ReceiveFragment
    <3>2. TypeFlags'
      BY <1>0, <3>1, Zenon DEF StoreNewFragment, WriteFragment, StartChecksum, TypeFlags
    <3>. DEFINE bm == bitmask \cup {m.frag}
    <3>3. bm \subseteq Positions /\ stored \cup {m.frag} \subseteq 1 .. FragCount
      BY <1>0, <2>1 DEF TypeData
    <3>. HIDE DEF bm
    <3>7. TypeData'
      <4>4. CASE UNCHANGED <<state, bitmask, pars, stored, hashVars>>
                 /\ timers' = IF state = "MISSING_FRAGMENTS_REQUESTING" /\ MissingNow # {}
                              THEN timers \cup {"MISSING_FRAGMENTS_REQUESTING"} ELSE timers
        BY <1>0, <3>1, <4>4 DEF TypeData
      <4>1. /\ ParsRec(state, session, devType, fragmentCount, bm, checksumOk) \in ParsType
            /\ ParsRec("CHECKSUM_CALCULATING", session, devType, fragmentCount, bm,
                       checksumOk) \in ParsType
        BY <1>0, <3>3, ParsRecType DEF TypeFlags, TypeData
      <4>5. CASE WriteFragment(m.frag) /\ Missing(bm, fragmentCount) = {}
        <5>1. /\ stored' = stored \cup {m.frag} /\ bitmask' = bm
              /\ state' = "CHECKSUM_CALCULATING"
              /\ pars' \in ParsType
              /\ cursor' = 0
              /\ timers' = timers \cup {"CHECKSUM_CALCULATING"}
          BY <4>1, <1>0, <4>5 DEF WriteFragment, bm, StartChecksum, StoreParameters, TypeData
        <5>. QED
          BY <1>0, <3>1, <3>3, <5>1 DEF TypeData
      <4>6. CASE WriteFragment(m.frag) /\ Missing(bm, fragmentCount) # {}
        BY <4>1, <1>0, <2>2, <3>1, <3>3, <4>6 DEF WriteFragment, bm, StoreParameters, TypeData
      <4>. QED
        BY <3>1, <4>4, <4>5, <4>6 DEF StoreNewFragment
    <3>. QED
      BY <3>2, <3>7
  <2>5. CASE served /\ valid /\ service
    <3>1. NoteServedFragment(m.frag)
          /\ UNCHANGED <<state, bitmask, pars, stored, hashVars, serviceSeg>>
          /\ sent' = {} /\ cb' = {}
          /\ UNCHANGED <<session, devType, fragmentCount, checksumOk,
                         fwUpdateReceived, activateSid, gaveUp, restarts>>
      BY <1>3, <2>5 DEF ReceiveFragment
    <3>2. service' \in BOOLEAN
      BY <3>1 DEF NoteServedFragment
    <3>3. TypeFlags'
      BY <1>0, <3>1, <3>2, Zenon DEF TypeFlags
    <3>4. TypeData'
      BY <1>0, <2>1, <3>1 DEF NoteServedFragment, TypeData
    <3>. QED
      BY <3>3, <3>4
  <2>6. CASE served /\ ~(valid /\ ~service /\ m.frag \notin bitmask) /\ ~(valid /\ service)
    <3>1. TypeFlags'
      BY <1>0, <1>3, <2>6, Zenon DEF ReceiveFragment, TypeFlags
    <3>2. TypeData'
      BY <1>0, <1>3, <2>6 DEF ReceiveFragment, TypeData
    <3>. QED
      BY <3>1, <3>2
  <2>. QED
    BY <2>3, <2>4, <2>5, <2>6
<1>4. ASSUME NEW m \in Msgs, ReceiveAbort(m) PROVE TypeFlags' /\ TypeData'
  <2>1. ParsRec("ABORTED", session, devType, fragmentCount, bitmask, checksumOk) \in ParsType
    BY <1>0, ParsRecType DEF TypeFlags, TypeData
  <2>2. TypeFlags'
    BY <1>0, <1>4, Zenon DEF ReceiveAbort, TypeFlags
  <2>3. TypeData'
    BY <1>0, <1>4, <2>1 DEF ReceiveAbort, StoreParameters, TypeData
  <2>. QED
    BY <2>2, <2>3
<1>5. ASSUME NEW m \in Msgs, ReceiveEndFragments(m) PROVE TypeFlags' /\ TypeData'
  <2>1. ParsRec("MISSING_FRAGMENTS_REQUESTING", session, devType, fragmentCount,
                bitmask, checksumOk) \in ParsType
    BY <1>0, ParsRecType DEF TypeFlags, TypeData
  <2>2. TypeFlags'
    BY <1>0, <1>5, Zenon DEF ReceiveEndFragments, TypeFlags
  <2>3. TypeData'
    BY <1>0, <1>5, <2>1 DEF ReceiveEndFragments, StoreParameters, TypeData
  <2>. QED
    BY <2>2, <2>3
<1>6. ASSUME NEW m \in Msgs, ReceiveManifest(m) PROVE TypeFlags' /\ TypeData'
  <2>1. TypeFlags'
    BY <1>0, <1>6, Zenon DEF ReceiveManifest, DeleteProcess, TypeFlags
  <2>2. TypeData'
    BY <1>0, <1>6 DEF ReceiveManifest, DeleteProcess, TypeData
  <2>. QED
    BY <2>1, <2>2
<1>7. ASSUME NEW m \in Msgs, ReceiveActivate(m) PROVE TypeFlags' /\ TypeData'
  <2>1. m.sid \in Session
    BY <1>7, MsgFields DEF ReceiveActivate
  <2>2. ParsRec("UPDATE_FW", session, devType, fragmentCount, bitmask, checksumOk) \in ParsType
    BY <1>0, ParsRecType DEF TypeFlags, TypeData
  <2>3. TypeFlags'
    BY <1>0, <1>7, Zenon DEF ReceiveActivate, TypeFlags
  <2>4. TypeData'
    BY <1>0, <1>7, <2>1, <2>2 DEF ReceiveActivate, StoreParameters, TypeData
  <2>. QED
    BY <2>3, <2>4
<1>8. ASSUME NEW m \in Msgs, ReceiveFragmentsRequest(m) PROVE TypeFlags' /\ TypeData'
  <2>1. m.cmd = "FRAGMENTS_REQUEST" => m.seg \in 0 .. SegCountOf(FragCount) /\ m.mask \subseteq Positions
    BY MsgFields
  <2>2. TypeFlags'
    BY <1>0, <1>8, Zenon DEF ReceiveFragmentsRequest, TypeFlags
  <2>0. m.cmd = "FRAGMENTS_REQUEST" => NextMissingForRequester(m.seg, m.mask, fragmentCount) \in Nat
    BY <1>0, <2>1, NextMissingType DEF TypeData
  <2>3. CASE m.sid = session /\ state \in {"PROCESS_COMPLETED", "UPDATE_FW"} /\ ~service
    <3>1. /\ m.cmd = "FRAGMENTS_REQUEST"
          /\ serviceSeg' = m.seg /\ serviceMask' = m.mask
          /\ \/ service' = TRUE /\ timers' = timers \cup {"FRAGMENTS_REQUEST_SERVICE"}
             \/ UNCHANGED <<service, timers>>
          /\ sent' = {} /\ cb' = {}
          /\ UNCHANGED <<otaVars, pars, stored, hashVars, fwUpdateReceived,
                         activateSid, gaveUp, restarts>>
      BY <1>8, <2>3 DEF ReceiveFragmentsRequest
    <3>a. serviceSeg' \in 0 .. SegCountOf(FragCount)
      BY <1>0, <2>1, <3>1
    <3>b. serviceMask' \subseteq Positions
      BY <1>0, <2>1, <3>1
    <3>c. timers' \subseteq Timers
      BY <1>0, <3>1 DEF TypeData
    <3>2. TypeData'
      BY <1>0, <3>1, <3>a, <3>b, <3>c DEF TypeData
    <3>. QED
      BY <2>2, <3>2
  <2>4. CASE ~(m.sid = session /\ state \in {"PROCESS_COMPLETED", "UPDATE_FW"} /\ ~service)
    <3>1. /\ timers' \subseteq Timers
          /\ sent' = {} /\ cb' = {}
          /\ UNCHANGED <<otaVars, pars, stored, hashVars, serveVars, fwUpdateReceived,
                         activateSid, gaveUp, restarts>>
      BY <1>0, <1>8, <2>4 DEF ReceiveFragmentsRequest, TypeData
    <3>2. TypeData'
      BY <1>0, <3>1 DEF TypeData
    <3>. QED
      BY <2>2, <3>2
  <2>. QED
    BY <2>2, <2>3, <2>4
<1>9. CASE FireChecksum
  <2>. DEFINE T == timers \ {"CHECKSUM_CALCULATING"}
  <2>1. SliceLen(cursor) \in 0 .. (TotalBytes - cursor)
    BY <1>0, SliceLenBound DEF TypeData
  <2>2. \A st \in {"PROCESS_COMPLETED", "CHECKSUM_FAILED"} :
          ParsRec(st, session, devType, fragmentCount, bitmask, checksumOk) \in ParsType
    BY <1>0, ParsRecType DEF TypeFlags, TypeData
  <2>3. /\ sent' = {} /\ cb' = {}
        /\ UNCHANGED <<session, devType, fragmentCount, bitmask, checksumOk, stored,
                       serveVars, fwUpdateReceived, activateSid, gaveUp, restarts>>
    BY <1>9 DEF FireChecksum
  <2>4. CASE \E read \in 0 .. SliceLen(cursor) : HashSlice(T, read)
    <3>1. PICK read \in 0 .. SliceLen(cursor) : HashSlice(T, read)
      BY <2>4
    <3>2. cursor + read \in 0 .. TotalBytes
      BY <1>0, <2>1 DEF TypeData
    <3>3. TypeFlags'
      BY <1>0, <2>3, <3>1, Zenon DEF HashSlice, TypeFlags
    <3>4. /\ cursor' = cursor + read
          /\ state' \in {state, "PROCESS_COMPLETED", "CHECKSUM_FAILED"}
          /\ pars' \in ParsType
          /\ timers' \subseteq Timers
      BY <1>0, <2>2, <3>1 DEF HashSlice, StoreParameters, TypeData
    <3>5. TypeData'
      BY <1>0, <2>3, <3>2, <3>4 DEF TypeData
    <3>. QED
      BY <3>3, <3>5
  <2>5. CASE state # "CHECKSUM_CALCULATING"
    <3>1. timers' = T /\ UNCHANGED <<state, pars, hashVars>>
      BY <1>9, <2>5 DEF FireChecksum
    <3>2. TypeFlags'
      BY <1>0, <2>3, <3>1, Zenon DEF TypeFlags
    <3>3. TypeData'
      BY <1>0, <2>3, <3>1 DEF TypeData
    <3>. QED
      BY <3>2, <3>3
  <2>6. CASE state = "CHECKSUM_CALCULATING" /\ ~ctx
    <3>1. StartChecksum(T) /\ UNCHANGED <<state, pars>>
      BY <1>9, <2>6 DEF FireChecksum
    <3>2. TypeFlags'
      BY <1>0, <2>3, <3>1, Zenon DEF StartChecksum, TypeFlags
    <3>3. TypeData'
      BY <1>0, <2>3, <3>1 DEF StartChecksum, TypeData
    <3>. QED
      BY <3>2, <3>3
  <2>7. CASE state = "CHECKSUM_CALCULATING" /\ ctx
        /\ timers' = T \cup {"CHECKSUM_CALCULATING"} /\ UNCHANGED <<state, pars, hashVars>>
    <3>1. TypeFlags'
      BY <1>0, <2>3, <2>7, Zenon DEF TypeFlags
    <3>2. TypeData'
      BY <1>0, <2>3, <2>7 DEF TypeData
    <3>. QED
      BY <3>1, <3>2
  <2>. QED
    BY <1>9, <2>4, <2>5, <2>6, <2>7 DEF FireChecksum
<1>10. CASE FireRequesting
  <2>. DEFINE seg == FirstMissingSegment(bitmask, fragmentCount)
  <2>1. seg \in 0 .. SegCountOf(FragCount)
    BY <1>0, FirstMissingSegmentType DEF TypeData
  <2>2. seg # 0 => bitmask \cap SegPositions(seg) \subseteq Positions
    BY <1>0 DEF TypeData
  <2>3. [cmd |-> "FRAGMENTS_REQUEST", sid |-> session, seg |-> seg,
         mask |-> IF seg = 0 THEN {} ELSE bitmask \cap SegPositions(seg)] \in Msgs
    BY <1>0, <2>1, <2>2 DEF Msgs, TypeData
  <2>. HIDE DEF seg
  <2>4. TypeFlags'
    BY <1>0, <1>10, Zenon DEF FireRequesting, TypeFlags
  <2>5. sent' \subseteq Msgs /\ timers' \subseteq Timers
    BY <1>0, <1>10, <2>3 DEF FireRequesting, TypeData, seg
  <2>6. cb' = {} /\ UNCHANGED <<otaVars, pars, stored, hashVars, serveVars,
                                fwUpdateReceived, activateSid, gaveUp, restarts>>
    BY <1>10 DEF FireRequesting
  <2>7. TypeData'
    BY <1>0, <2>5, <2>6 DEF TypeData
  <2>. QED
    BY <2>4, <2>7
<1>11. CASE FireService
  <2>. DEFINE f == NextMissingForRequester(serviceSeg, serviceMask, fragmentCount)
  <2>1. f \in 0 .. FragCount
    BY <1>0, NextMissingType DEF TypeData
  <2>2. f # 0 => f \in Positions /\ [cmd |-> "FRAGMENT", sid |-> session, frag |-> f,
                                     crcOk |-> TRUE] \in Msgs
    BY <1>0, <2>1, FragmentsHaveBits DEF Msgs, TypeData
  <2>. HIDE DEF f
  <2>3. service' \in BOOLEAN
    <3>1. NextMissingForRequester(serviceSeg, IF f = 0 THEN serviceMask ELSE serviceMask \cup {f},
                                  fragmentCount) \in Nat
      BY <1>0, NextMissingType DEF TypeData
    <3>2. service' = service \/ \E x \in Nat : service' = (x > 0)
      BY <1>11, <3>1 DEF FireService, f
    <3>3. \A x \in Nat : (x > 0) \in BOOLEAN
      OBVIOUS
    <3>. QED
      BY <1>0, <3>2, <3>3, Zenon DEF TypeFlags
  <2>4. TypeFlags'
    BY <1>0, <1>11, <2>3, Zenon DEF FireService, TypeFlags
  <2>5. sent' \subseteq Msgs /\ timers' \subseteq Timers /\ serviceMask' \subseteq Positions
    BY <1>0, <1>11, <2>2 DEF FireService, TypeData, f
  <2>6. cb' = {} /\ UNCHANGED <<otaVars, pars, stored, hashVars, serviceSeg,
                                fwUpdateReceived, activateSid, gaveUp, restarts>>
    BY <1>11 DEF FireService
  <2>7. TypeData'
    BY <1>0, <2>5, <2>6 DEF TypeData
  <2>. QED
    BY <2>4, <2>7
<1>12. CASE FireFallback
  <2>1. ParsRec("MISSING_FRAGMENTS_REQUESTING", session, devType, fragmentCount,
                bitmask, checksumOk) \in ParsType
    BY <1>0, ParsRecType DEF TypeFlags, TypeData
  <2>2. TypeFlags'
    BY <1>0, <1>12, Zenon DEF FireFallback, TypeFlags
  <2>3. TypeData'
    BY <1>0, <1>12, <2>1 DEF FireFallback, StoreParameters, TypeData
  <2>. QED
    BY <2>2, <2>3
<1>13. CASE FireActivate \/ FireFirmwareReady
  <2>1. TypeFlags'
    BY <1>0, <1>13, Zenon DEF FireActivate, FireFirmwareReady, TypeFlags
  <2>2. TypeData'
    BY <1>0, <1>13 DEF FireActivate, FireFirmwareReady, TypeData
  <2>. QED
    BY <2>1, <2>2
<1>14. CASE FireEndFragments
  <2>1. TypeFlags'
    BY <1>0, <1>14, Zenon DEF FireEndFragments, TypeFlags
  <2>2. TypeData'
    BY <1>0, <1>14 DEF FireEndFragments, Msgs, TypeData
  <2>. QED
    BY <2>1, <2>2
<1>15. CASE Restart
  <2>1. /\ pars.state \in States /\ pars.session \in Session \cup {NoSession}
        /\ pars.devType \in DevTypes \cup {"none"} /\ pars.fragmentCount \in {0, FragCount}
        /\ pars.bitmask \subseteq Positions /\ pars.checksumOk \in BOOLEAN
    BY <1>0 DEF TypeData, ParsType
  <2>2. TypeFlags'
    BY <1>0, <1>15, <2>1, Zenon DEF Restart, StartChecksum, TypeFlags
  <2>3. TypeData'
    BY <1>0, <1>15, <2>1 DEF Restart, StartChecksum, TypeData
  <2>. QED
    BY <2>2, <2>3
<1>16. CASE UNCHANGED vars
  <2>1. TypeFlags'
    BY <1>0, <1>16, Zenon DEF vars, TypeFlags
  <2>2. TypeData'
    BY <1>0, <1>16 DEF vars, TypeData
  <2>. QED
    BY <2>1, <2>2
<1>17. CASE \E m \in Msgs : Receive(m)
  BY <1>2, <1>3, <1>4, <1>5, <1>6, <1>7, <1>8, <1>17 DEF Receive
<1>. QED
  BY <1>1, <1>2, <1>3, <1>4, <1>5, <1>6, <1>7, <1>8, <1>9, <1>10, <1>11, <1>12,
     <1>13, <1>14, <1>15, <1>16, <1>17, InputsAreMsgs DEF Next, Receive, Fire

\* Every step of the node keeps every variable in its type: in particular
\* the checksum cursor never passes fw_total_byte_count, the serve loop
\* only ever names fragments of the image, and every command the node
\* sends is well formed.
LEMMA TypeStep ==
    ASSUME TypeOK, [Next]_vars
    PROVE  TypeOK'
BY StepTyped

\* The node starts typed: ota_lib_configure on an empty store leaves
\* ota_parameters zeroed and no timer running.
LEMMA InitTyped == Init => TypeOK
<1>. SUFFICES ASSUME Init PROVE TypeFlags /\ TypeData
  BY DEF TypeOK, TypeFlags, TypeData
<1>1. TypeFlags
  BY Zenon DEF Init, TypeFlags
<1>2. TypeData
  BY ConstantFacts, EmptyParsType DEF Init, TypeData, States, DevTypes
<1>. QED
  BY <1>1, <1>2

\* Type correctness of the node role of libota.c for every instance of the
\* constants: every reachable state of the handlers, the timer callbacks
\* and a restart from the stored parameters satisfies TypeOK.
THEOREM TypeCorrect == Spec => []TypeOK
<1>1. Init => TypeOK
  BY InitTyped
<1>2. TypeOK /\ [Next]_vars => TypeOK'
  BY TypeStep
<1>. QED
  BY <1>1, <1>2, PTL DEF Spec
=============================================================================
