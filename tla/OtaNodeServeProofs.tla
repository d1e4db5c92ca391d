------------------------- MODULE OtaNodeServeProofs --------------------------
(***************************************************************************)
(* The serve loop and the timers of the node, for every value of the      *)
(* constants: a node only ever serves fragments it has written, and a     *)
(* node that is checksumming, or has started a download that nothing has  *)
(* cancelled, always has a timer pending that moves it on.                *)
(***************************************************************************)
EXTENDS OtaNodeIntegrityProofs

\* A node without a process has no session id, no timer pending and no
\* serve loop: ota_delete_process clears them all, and the stored copy of
\* an idle node is the zeroed one.
IdleQuiet ==
    /\ state = "IDLE" => session = NoSession /\ timers = {} /\ ~service
    /\ pars.state = "IDLE" => pars = EmptyPars

\* A process, live or stored, is one of the node's own device type: only a
\* START for OTA_DEVICE_TYPE_NODE creates one, and a restart reloads it.
OwnTypeActive ==
    /\ state # "IDLE" => devType = OwnType
    /\ pars.state # "IDLE" => pars.devType = OwnType

\* A running serve loop belongs to a complete image of the node's own type,
\* which a START (for another device type only) cannot replace.
ServeHoldsImage ==
    service => 1 .. fragmentCount \subseteq stored /\ devType = OwnType

\* A STARTED node still lacks a fragment: the write of the last one moves
\* it to CHECKSUM_CALCULATING, and so does a restart with none missing.
StartedMissing == state = "STARTED" => MissingNow # {}

Live == IdleQuiet /\ OwnTypeActive /\ ServeHoldsImage /\ StartedMissing
        /\ ProgressArmed

\* The inductive invariant behind ServeOnlyStored and ProgressArmed.
PInv == IInv /\ Live /\ ServeOnlyStored

-----------------------------------------------------------------------------
(* Lemmas.                                                                 *)

\* The bitmask ota_init_fragments_bit_mask builds leaves fragment 1 missing.
LEMMA FirstFragmentMissing == 1 \in Missing(InitBitmask(FragCount), FragCount)
<1>1. FragCount \in Nat \ {0} /\ ByteBits \in Nat \ {0}
  BY ConstantFacts, SizeAssumption
<1>2. (FragCount + ByteBits - 1) \div ByteBits \in Nat \ {0}
  BY <1>1
<1>3. 1 <= ((FragCount + ByteBits - 1) \div ByteBits) * ByteBits
  BY <1>1, <1>2
<1>. QED
  BY <1>1, <1>3 DEF Missing, Counted, InitBitmask

\* The zeroed parameters of an idle node have no fragment missing.
LEMMA NothingMissingEmpty == Missing({}, 0) = {}
<1>1. ByteBits \in Nat \ {0}
  BY SizeAssumption
<1>2. (0 + ByteBits - 1) \div ByteBits = 0
  BY <1>1
<1>3. Counted(0) = 1 .. 0
  BY <1>1, <1>2 DEF Counted
<1>. QED
  BY <1>3 DEF Missing

\* A step that leaves the process, the stored copy, the written fragments,
\* and the give-up flag alone, starts no serve loop, arms no timer on an
\* idle node and cancels no timer that ProgressArmed speaks of, keeps Live.
LEMMA LiveUnchanged ==
    ASSUME Live,
           UNCHANGED <<otaVars, pars, stored, gaveUp>>, service' => service,
           state = "IDLE" => UNCHANGED timers,
           timers \cap {"CHECKSUM_CALCULATING", "FALLBACK"} \subseteq timers'
    PROVE  Live'
BY DEF Live, IdleQuiet, OwnTypeActive, ServeHoldsImage, StartedMissing,
       ProgressArmed, MissingNow, otaVars

\* ota_delete_process leaves an idle node with no serve loop.
LEMMA DeleteKeepsLive ==
    ASSUME DeleteProcess
    PROVE  /\ IdleQuiet' /\ OwnTypeActive' /\ ServeHoldsImage'
           /\ StartedMissing' /\ ProgressArmed'
BY DEF DeleteProcess, IdleQuiet, OwnTypeActive, ServeHoldsImage, StartedMissing,
       ProgressArmed, EmptyPars, ParsRec

\* Live holds initially.
LEMMA InitLive == Init => Live /\ ServeOnlyStored
BY DEF Init, Live, IdleQuiet, OwnTypeActive, ServeHoldsImage, StartedMissing,
       ProgressArmed, ServeOnlyStored, EmptyPars, ParsRec

-----------------------------------------------------------------------------
(* One lemma per handler: it keeps Live.                                   *)

\* ota_delete_session
LEMMA DeleteSessionLive ==
    ASSUME DeleteSession PROVE Live'
BY DeleteKeepsLive DEF DeleteSession, Live

\* START
LEMMA StartLive ==
    ASSUME IInv, Live, NEW m \in Inputs, ReceiveStart(m)
    PROVE  Live'
<1>1. m.sid \in Session /\ m.type \in DevTypes
  <2>1. m.cmd = "START"
    BY DEF ReceiveStart
  <2>. QED
    BY <2>1, InputFields
<1>2. CASE UNCHANGED <<otaVars, pars, stored, timers, hashVars, serveVars,
                       fwUpdateReceived, gaveUp>>
  BY <1>2, LiveUnchanged DEF serveVars
<1>3. CASE /\ devType # m.type /\ m.type = OwnType
           /\ devType' = m.type /\ fragmentCount' = FragCount /\ stored' = {}
           /\ gaveUp' = FALSE
           /\ state' = "STARTED" /\ session' = m.sid
           /\ bitmask' = InitBitmask(FragCount)
           /\ pars' = ParsRec("STARTED", m.sid, m.type, FragCount,
                              InitBitmask(FragCount), m.hashOk)
           /\ timers' = timers \cup {"FALLBACK"}
           /\ UNCHANGED serveVars
  <2>1. ~service
    BY <1>3 DEF Live, ServeHoldsImage
  <2>2. MissingNow' # {}
    BY <1>3, FirstFragmentMissing DEF MissingNow
  <2>3. m.sid # NoSession
    BY <1>1, ConstantFacts
  <2>. QED
    BY <1>3, <2>1, <2>2, <2>3 DEF Live, IdleQuiet, OwnTypeActive, ServeHoldsImage,
       StartedMissing, ProgressArmed, ParsRec, serveVars
<1>4. CASE DeleteProcess /\ devType' = m.type
  BY <1>4, DeleteKeepsLive DEF Live
<1>. QED
  BY <1>2, <1>3, <1>4 DEF ReceiveStart
\* FRAGMENT
LEMMA FragmentLive ==
    ASSUME IInv, Live, NEW m \in Inputs, ReceiveFragment(m)
    PROVE  Live'
<1>. DEFINE served == m.sid = session /\ (state \in {"STARTED", "MISSING_FRAGMENTS_REQUESTING"} \/ service)
            valid == m.crcOk /\ m.frag \in 1 .. fragmentCount
            bm == bitmask \cup {m.frag}
<1>0. UNCHANGED <<session, devType, fragmentCount, checksumOk, gaveUp>>
  BY DEF ReceiveFragment
<1>1. CASE served /\ valid /\ ~service /\ m.frag \notin bitmask /\ WriteFragment(m.frag)
  <2>1. state \in {"STARTED", "MISSING_FRAGMENTS_REQUESTING"} /\ devType = OwnType
        /\ session # NoSession
    <3>1. state \in {"STARTED", "MISSING_FRAGMENTS_REQUESTING"}
      BY <1>1
    <3>2. session # NoSession
      BY <1>1, InputFields, ConstantFacts
    <3>. QED
      BY <3>1, <3>2 DEF Live, OwnTypeActive
  <2>2. UNCHANGED service
    BY <1>1 DEF ReceiveFragment, serveVars
  <2>3. CASE Missing(bm, fragmentCount) = {}
    <3>1. /\ state' = "CHECKSUM_CALCULATING"
          /\ "CHECKSUM_CALCULATING" \in timers'
          /\ pars' \in {ParsRec(state, session, devType, fragmentCount, bm, checksumOk),
                        ParsRec("CHECKSUM_CALCULATING", session, devType,
                                fragmentCount, bm, checksumOk), pars}
      BY <1>1, <2>3 DEF WriteFragment, StoreParameters, StartChecksum
    <3>2. IdleQuiet' /\ OwnTypeActive'
      <4>1. \/ pars' = pars
            \/ pars'.state # "IDLE" /\ pars'.session = session /\ pars'.devType = devType
        BY <2>1, <3>1 DEF ParsRec
      <4>2. devType' = OwnType /\ state' # "IDLE"
        BY <1>0, <2>1, <3>1
      <4>3. pars.state # "IDLE" => pars.devType = OwnType
        BY DEF Live, OwnTypeActive
      <4>4. pars.state = "IDLE" => pars = EmptyPars
        BY DEF Live, IdleQuiet
      <4>. QED
        BY <2>1, <4>1, <4>2, <4>3, <4>4 DEF IdleQuiet, OwnTypeActive
    <3>3. ServeHoldsImage' /\ StartedMissing' /\ ProgressArmed'
      BY <1>1, <2>2, <3>1 DEF Live, ServeHoldsImage, StartedMissing, ProgressArmed
    <3>. QED
      BY <3>2, <3>3 DEF Live
  <2>4. CASE Missing(bm, fragmentCount) # {}
    <3>1. /\ UNCHANGED state /\ bitmask' = bm /\ stored' = stored \cup {m.frag}
          /\ "FALLBACK" \in timers' /\ timers \subseteq timers'
          /\ pars' \in {ParsRec(state, session, devType, fragmentCount, bm, checksumOk), pars}
      BY <1>1, <2>4 DEF WriteFragment, StoreParameters
    <3>. QED
      BY <1>0, <2>1, <2>2, <2>4, <3>1 DEF Live, IdleQuiet, OwnTypeActive, ServeHoldsImage,
         StartedMissing, ProgressArmed, ParsRec, MissingNow
  <2>. QED
    BY <2>3, <2>4
<1>2. CASE ~(served /\ valid /\ ~service /\ m.frag \notin bitmask /\ WriteFragment(m.frag))
  <2>1. /\ UNCHANGED <<state, bitmask, pars, stored>>
        /\ service' => service
        /\ timers \cap {"CHECKSUM_CALCULATING", "FALLBACK"} \subseteq timers'
    BY <1>2 DEF ReceiveFragment, StoreNewFragment, NoteServedFragment, serveVars
  <2>2. state = "IDLE" => UNCHANGED timers
    <3>1. m.sid # NoSession
      BY InputFields, ConstantFacts
    <3>. QED
      BY <3>1 DEF Live, IdleQuiet, ReceiveFragment
  <2>. QED
    BY <1>0, <2>1, <2>2, LiveUnchanged DEF otaVars
<1>. QED
  BY <1>1, <1>2
\* ABORT
LEMMA AbortLive ==
    ASSUME Live, NEW m \in Inputs, ReceiveAbort(m)
    PROVE  Live'
<1>0. UNCHANGED <<session, devType, fragmentCount, bitmask, checksumOk, stored,
                  timers, gaveUp>>
  BY DEF ReceiveAbort
<1>1. CASE m.sid # session
  <2>1. UNCHANGED <<state, pars, service>>
    BY <1>1 DEF ReceiveAbort
  <2>. QED
    BY <1>0, <2>1, LiveUnchanged DEF otaVars
<1>2. CASE m.sid = session
  <2>1. session # NoSession
    BY <1>2, InputFields, ConstantFacts DEF ReceiveAbort
  <2>2. state # "IDLE" /\ devType = OwnType
    BY <2>1 DEF Live, IdleQuiet, OwnTypeActive
  <2>3. /\ service' = FALSE
        /\ state' \in {state, "ABORTED"}
        /\ \/ pars' = pars
           \/ pars' = ParsRec("ABORTED", session, devType, fragmentCount, bitmask, checksumOk)
    BY <1>2 DEF ReceiveAbort, StoreParameters
  <2>4. IdleQuiet' /\ OwnTypeActive'
    BY <1>0, <2>1, <2>2, <2>3 DEF Live, IdleQuiet, OwnTypeActive, ParsRec
  <2>5. ServeHoldsImage' /\ StartedMissing' /\ ProgressArmed'
    BY <1>0, <2>3 DEF Live, ServeHoldsImage, StartedMissing, ProgressArmed, MissingNow
  <2>. QED
    BY <2>4, <2>5 DEF Live
<1>. QED
  BY <1>1, <1>2

\* END_FRAGMENTS
LEMMA EndFragmentsLive ==
    ASSUME Live, NEW m \in Inputs, ReceiveEndFragments(m)
    PROVE  Live'
<1>0. UNCHANGED <<session, devType, fragmentCount, bitmask, checksumOk, stored,
                  service, gaveUp>>
  BY DEF ReceiveEndFragments, serveVars
<1>1. CASE m.sid = session /\ state = "STARTED" /\ MissingNow # {}
  <2>1. /\ state' = "MISSING_FRAGMENTS_REQUESTING"
        /\ timers \subseteq timers'
        /\ \/ pars' = pars
           \/ pars' = ParsRec("MISSING_FRAGMENTS_REQUESTING", session, devType,
                              fragmentCount, bitmask, checksumOk)
    BY <1>1 DEF ReceiveEndFragments, StoreParameters
  <2>2. devType = OwnType /\ session # NoSession
    BY <1>1, InputFields, ConstantFacts DEF Live, OwnTypeActive
  <2>. QED
    BY <1>0, <2>1, <2>2 DEF Live, IdleQuiet, OwnTypeActive, ServeHoldsImage,
       StartedMissing, ProgressArmed, ParsRec
<1>2. CASE ~(m.sid = session /\ state = "STARTED" /\ MissingNow # {})
  BY <1>0, <1>2, LiveUnchanged DEF ReceiveEndFragments, otaVars
<1>. QED
  BY <1>1, <1>2

\* MANIFEST
LEMMA ManifestLive ==
    ASSUME NEW m \in Inputs, ReceiveManifest(m)
    PROVE  Live'
BY DeleteKeepsLive DEF ReceiveManifest, Live

\* ACTIVATE
LEMMA ActivateLive ==
    ASSUME Live, NEW m \in Inputs, ReceiveActivate(m)
    PROVE  Live'
<1>0. UNCHANGED <<session, devType, fragmentCount, bitmask, checksumOk, stored, service>>
      /\ gaveUp' = TRUE
  BY DEF ReceiveActivate, serveVars
<1>1. CASE state \in {"PROCESS_COMPLETED", "UPDATE_FW"} /\ m.type = OwnType
  <2>1. /\ state' = "UPDATE_FW"
        /\ \/ pars' = pars
           \/ pars' = ParsRec("UPDATE_FW", session, devType, fragmentCount, bitmask, checksumOk)
    BY <1>1 DEF ReceiveActivate, StoreParameters
  <2>2. devType = OwnType
    BY <1>1 DEF Live, OwnTypeActive
  <2>. QED
    BY <1>0, <2>1, <2>2 DEF Live, IdleQuiet, OwnTypeActive, ServeHoldsImage,
       StartedMissing, ProgressArmed, ParsRec
<1>2. CASE ~(state \in {"PROCESS_COMPLETED", "UPDATE_FW"} /\ m.type = OwnType)
  <2>1. UNCHANGED <<state, pars>>
        /\ timers' = timers \ {"MISSING_FRAGMENTS_REQUESTING", "FALLBACK"}
    BY <1>2 DEF ReceiveActivate
  <2>. QED
    BY <1>0, <2>1 DEF Live, IdleQuiet, OwnTypeActive, ServeHoldsImage,
       StartedMissing, ProgressArmed, MissingNow
<1>. QED
  BY <1>1, <1>2

\* FRAGMENTS_REQUEST: a serve loop starts only on a complete image.
LEMMA FragmentsRequestLive ==
    ASSUME IInv, Live, NEW m \in Inputs, ReceiveFragmentsRequest(m)
    PROVE  Live'
<1>0. /\ UNCHANGED <<otaVars, pars, stored, gaveUp>>
      /\ timers \subseteq timers'
  BY DEF ReceiveFragmentsRequest
<1>1. CASE m.sid = session /\ state \in {"PROCESS_COMPLETED", "UPDATE_FW"} /\ ~service
  <2>1. 1 .. fragmentCount \subseteq stored
    BY <1>1 DEF IInv, Safe, CompletedImageIntact
  <2>2. devType = OwnType
    BY <1>1 DEF Live, OwnTypeActive
  <2>3. IdleQuiet' /\ OwnTypeActive'
    BY <1>0, <1>1 DEF Live, IdleQuiet, OwnTypeActive, otaVars
  <2>4. ServeHoldsImage' /\ StartedMissing' /\ ProgressArmed'
    BY <1>0, <2>1, <2>2 DEF Live, ServeHoldsImage, StartedMissing, ProgressArmed,
       MissingNow, otaVars
  <2>. QED
    BY <2>3, <2>4 DEF Live
<1>2. CASE ~(m.sid = session /\ state \in {"PROCESS_COMPLETED", "UPDATE_FW"} /\ ~service)
  <2>1. UNCHANGED service
    BY <1>2 DEF ReceiveFragmentsRequest, serveVars
  <2>2. state = "IDLE" => UNCHANGED timers
    <3>1. m.sid # NoSession
      BY InputFields, ConstantFacts
    <3>. QED
      BY <1>2, <3>1 DEF Live, IdleQuiet, ReceiveFragmentsRequest
  <2>. QED
    BY <1>0, <2>1, <2>2, LiveUnchanged
<1>. QED
  BY <1>1, <1>2
\* CHECKSUM_CALCULATING: the timer is rearmed while the state stays
\* CHECKSUM_CALCULATING, and a finished hash leaves the state.
LEMMA FireChecksumLive ==
    ASSUME Live, FireChecksum
    PROVE  Live'
<1>. DEFINE T == timers \ {"CHECKSUM_CALCULATING"}
<1>0. /\ UNCHANGED <<session, devType, fragmentCount, bitmask, checksumOk, stored,
                     service, gaveUp>>
      /\ "CHECKSUM_CALCULATING" \in timers
  BY DEF FireChecksum, serveVars
<1>1. CASE state # "CHECKSUM_CALCULATING" /\ timers' = T /\ UNCHANGED <<state, pars>>
  BY <1>0, <1>1 DEF Live, IdleQuiet, OwnTypeActive, ServeHoldsImage,
     StartedMissing, ProgressArmed, MissingNow
<1>2. CASE state = "CHECKSUM_CALCULATING"
  <2>1. devType = OwnType
    BY <1>2 DEF Live, OwnTypeActive
  <2>2. /\ state' \in {"CHECKSUM_CALCULATING", "PROCESS_COMPLETED", "CHECKSUM_FAILED"}
        /\ state' = "CHECKSUM_CALCULATING" => "CHECKSUM_CALCULATING" \in timers'
        /\ T \subseteq timers'
        /\ \/ pars' = pars
           \/ pars'.state # "IDLE" /\ pars'.devType = devType
    BY <1>2 DEF FireChecksum, StartChecksum, HashSlice, StoreParameters, ParsRec
  <2>. QED
    BY <1>0, <2>1, <2>2 DEF Live, IdleQuiet, OwnTypeActive, ServeHoldsImage,
       StartedMissing, ProgressArmed
<1>. QED
  BY <1>1, <1>2 DEF FireChecksum

\* The expiries that change neither the process nor its timers of progress
LEMMA FireOtherLive ==
    ASSUME Live,
           FireRequesting \/ FireService \/ FireActivate \/ FireEndFragments
           \/ FireFirmwareReady
    PROVE  Live'
<1>1. /\ UNCHANGED <<otaVars, pars, stored, gaveUp>>
      /\ service' => service
      /\ timers \cap {"CHECKSUM_CALCULATING", "FALLBACK"} \subseteq timers'
  <2>1. CASE FireRequesting
    BY <2>1 DEF FireRequesting, serveVars
  <2>2. CASE FireService
    BY <2>2 DEF FireService
  <2>3. CASE FireActivate \/ FireEndFragments \/ FireFirmwareReady
    BY <2>3 DEF FireActivate, FireEndFragments, FireFirmwareReady, serveVars
  <2>. QED
    BY <2>1, <2>2, <2>3
<1>2. timers # {}
  BY DEF FireRequesting, FireService, FireActivate, FireEndFragments, FireFirmwareReady
<1>3. state = "IDLE" => UNCHANGED timers
  BY <1>2 DEF Live, IdleQuiet
<1>. QED
  BY <1>1, <1>3, LiveUnchanged

\* FALLBACK: a STARTED node always lacks a fragment, so the expiry moves it
\* to requesting instead of dropping its last timer.
LEMMA FireFallbackLive ==
    ASSUME Live, FireFallback
    PROVE  Live'
<1>0. /\ UNCHANGED <<session, devType, fragmentCount, bitmask, checksumOk, stored,
                     service, gaveUp>>
      /\ "FALLBACK" \in timers
  BY DEF FireFallback, serveVars
<1>1. state # "IDLE" /\ devType = OwnType
  BY <1>0 DEF Live, IdleQuiet, OwnTypeActive
<1>2. CASE state # "ABORTED" /\ MissingNow # {}
  <2>1. /\ state' = "MISSING_FRAGMENTS_REQUESTING"
        /\ timers \subseteq timers'
        /\ \/ pars' = pars
           \/ pars'.state # "IDLE" /\ pars'.devType = devType
    BY <1>2 DEF FireFallback, StoreParameters, ParsRec
  <2>. QED
    BY <1>0, <1>1, <2>1 DEF Live, IdleQuiet, OwnTypeActive, ServeHoldsImage,
       StartedMissing, ProgressArmed
<1>3. CASE ~(state # "ABORTED" /\ MissingNow # {})
  <2>1. state # "STARTED"
    BY <1>3 DEF Live, StartedMissing
  <2>2. /\ UNCHANGED <<state, pars>>
        /\ timers' = timers \ {"FALLBACK"}
    BY <1>3 DEF FireFallback
  <2>. QED
    BY <1>0, <1>1, <2>1, <2>2 DEF Live, IdleQuiet, OwnTypeActive, ServeHoldsImage,
       StartedMissing, ProgressArmed, MissingNow
<1>. QED
  BY <1>2, <1>3
\* Restart: ota_lib_configure reloads the stored copy, whose state decides
\* the timers armed again.
LEMMA RestartLive ==
    ASSUME Live, Restart
    PROVE  Live'
<1>. DEFINE p == pars
            miss == Missing(p.bitmask, p.fragmentCount)
            st == IF miss = {} /\ p.state \notin {"ABORTED", "CHECKSUM_FAILED",
                         "PROCESS_COMPLETED", "UPDATE_FW", "IDLE"}
                  THEN "CHECKSUM_CALCULATING" ELSE p.state
            T == IF miss = {} THEN {}
                 ELSE IF p.state = "MISSING_FRAGMENTS_REQUESTING"
                 THEN {"MISSING_FRAGMENTS_REQUESTING"}
                 ELSE IF p.state # "ABORTED" THEN {"FALLBACK"} ELSE {}
<1>1. /\ state' = st /\ session' = p.session /\ devType' = p.devType
      /\ fragmentCount' = p.fragmentCount /\ bitmask' = p.bitmask
      /\ service' = FALSE /\ UNCHANGED pars
      /\ st = "CHECKSUM_CALCULATING" => "CHECKSUM_CALCULATING" \in timers'
      /\ st # "CHECKSUM_CALCULATING" => timers' = T
  BY DEF Restart, StartChecksum
<1>2. CASE p.state = "IDLE"
  <2>1. p = EmptyPars
    BY <1>2 DEF Live, IdleQuiet
  <2>2. miss = {} /\ st = "IDLE" /\ T = {}
    BY <2>1, NothingMissingEmpty DEF EmptyPars, ParsRec
  <2>3. session' = NoSession
    BY <1>1, <2>1 DEF EmptyPars, ParsRec
  <2>. QED
    BY <1>1, <2>2, <2>3 DEF Live, IdleQuiet, OwnTypeActive, ServeHoldsImage,
       StartedMissing, ProgressArmed
<1>3. CASE p.state # "IDLE"
  <2>1. p.devType = OwnType /\ st # "IDLE"
    BY <1>3 DEF Live, OwnTypeActive
  <2>2. st = "STARTED" => miss # {} /\ T = {"FALLBACK"}
    OBVIOUS
  <2>3. IdleQuiet' /\ OwnTypeActive' /\ ServeHoldsImage'
    BY <1>1, <1>3, <2>1 DEF Live, IdleQuiet, OwnTypeActive, ServeHoldsImage
  <2>4. StartedMissing' /\ ProgressArmed'
    BY <1>1, <2>2 DEF StartedMissing, ProgressArmed, MissingNow
  <2>. QED
    BY <2>3, <2>4 DEF Live
<1>. QED
  BY <1>2, <1>3
-----------------------------------------------------------------------------
(* The invariant is inductive.                                             *)

\* Every step keeps Live.
LEMMA LiveStep ==
    ASSUME IInv, Live, [Next]_vars
    PROVE  Live'
<1>1. CASE \E m \in Inputs : Receive(m)
  BY <1>1, StartLive, FragmentLive, AbortLive, EndFragmentsLive, ManifestLive,
     ActivateLive, FragmentsRequestLive DEF Receive
<1>2. CASE Fire
  BY <1>2, FireChecksumLive, FireOtherLive, FireFallbackLive DEF Fire
<1>3. CASE UNCHANGED vars
  BY <1>3 DEF vars, otaVars, serveVars, Live, IdleQuiet, OwnTypeActive,
     ServeHoldsImage, StartedMissing, ProgressArmed, MissingNow
<1>. QED
  BY <1>1, <1>2, <1>3, DeleteSessionLive, RestartLive DEF Next

\* The serve loop sends a fragment below the fragment count, all of which
\* are written while it runs; no other step sends a FRAGMENT.
LEMMA SentStep ==
    ASSUME IInv, Live, ServeOnlyStored, [Next]_vars
    PROVE  ServeOnlyStored'
<1>1. CASE FireService
  <2>. DEFINE f == NextMissingForRequester(serviceSeg, serviceMask, fragmentCount)
              frag == [cmd |-> "FRAGMENT", sid |-> session, frag |-> f, crcOk |-> TRUE]
  <2>1. CASE service
    <3>1. f \in 0 .. fragmentCount
      <4>1. serviceSeg \in Nat /\ fragmentCount \in Nat
        BY ConstantFacts DEF IInv, TypeOK
      <4>. QED
        BY <4>1, NextMissingType
    <3>2. 1 .. fragmentCount \subseteq stored
      BY <2>1 DEF Live, ServeHoldsImage
    <3>3. sent' \in (IF f = 0 THEN {{}} ELSE {{frag}, {}}) /\ UNCHANGED stored
      BY <1>1, <2>1 DEF FireService
    <3>. QED
      BY <3>1, <3>2, <3>3 DEF ServeOnlyStored
  <2>2. CASE ~service
    BY <1>1, <2>2 DEF FireService, ServeOnlyStored
  <2>. QED
    BY <2>1, <2>2
<1>2. CASE FireRequesting
  BY <1>2 DEF FireRequesting, ServeOnlyStored
<1>3. CASE FireEndFragments
  BY <1>3 DEF FireEndFragments, ServeOnlyStored
<1>4. CASE FireChecksum \/ FireFallback \/ FireActivate \/ FireFirmwareReady
  BY <1>4 DEF FireChecksum, FireFallback, FireActivate, FireFirmwareReady, ServeOnlyStored
<1>5. CASE \E m \in Inputs : Receive(m)
  BY <1>5 DEF Receive, ReceiveStart, ReceiveFragment, ReceiveAbort, ReceiveEndFragments,
     ReceiveManifest, ReceiveActivate, ReceiveFragmentsRequest, ServeOnlyStored
<1>6. CASE DeleteSession \/ Restart
  BY <1>6 DEF DeleteSession, Restart, ServeOnlyStored
<1>7. CASE UNCHANGED vars
  BY <1>7 DEF vars, ServeOnlyStored
<1>. QED
  BY <1>1, <1>2, <1>3, <1>4, <1>5, <1>6, <1>7 DEF Next, Fire

\* PInv holds initially and is kept by every step.
LEMMA PInvInductive ==
    /\ Init => PInv
    /\ PInv /\ [Next]_vars => PInv'
<1>1. Init => PInv
  BY InitIInv, InitLive DEF PInv
<1>2. PInv /\ [Next]_vars => PInv'
  BY IInvStep, LiveStep, SentStep DEF PInv
<1>. QED
  BY <1>1, <1>2

-----------------------------------------------------------------------------
(* The theorems.                                                           *)

\* A FRAGMENT that ota_serve_fragments_request_by_sending_one_fragment
\* sends is always one the node has written: the serve loop starts only on
\* a complete image (ota_manage_fragments_request_command) and is stopped
\* by every handler that could replace or drop that image (ABORT, MANIFEST,
\* ota_delete_process, a restart), while a START cannot reach a node whose
\* device type it already has.
THEOREM ServeStored == Spec => []ServeOnlyStored
<1>1. PInv => ServeOnlyStored
  BY DEF PInv
<1>. QED
  BY <1>1, PInvInductive, PTL DEF Spec

\* A node calculating the checksum has CHECKSUM_CALCULATING pending, and a
\* STARTED node that no ACTIVATE has cancelled has FALLBACK pending: a
\* failed context or buffer allocation rearms the timer, a FALLBACK expiry
\* never finds a STARTED node with nothing missing, and a restart rearms
\* what the stored state calls for.
THEOREM TimersArmed == Spec => []ProgressArmed
<1>1. PInv => ProgressArmed
  BY DEF PInv, Live
<1>. QED
  BY <1>1, PInvInductive, PTL DEF Spec
=============================================================================
