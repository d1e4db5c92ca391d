------------------------------- MODULE OtaNode -------------------------------
(***************************************************************************)
(* The node role of the multicast OTA library                              *)
(* (src/update-client-hub/modules/multicast/libota.c).                     *)
(*                                                                         *)
(* One device of type OTA_DEVICE_TYPE_NODE.  Its environment may deliver   *)
(* any OTA command on the UDP socket (ota_socket_receive_data), fire any   *)
(* pending timer (ota_timer_expired), call ota_delete_session, or restart  *)
(* the device (power loss followed by ota_lib_configure).                  *)
(*                                                                         *)
(* Data abstraction.  Session ids are model values; firmware bytes are not *)
(* represented, only which fragments of the current image are durably      *)
(* written ("stored"); the whole-image SHA-256 is represented by whether   *)
(* the declared checksum is the image's (checksumOk) and whether every     *)
(* byte fed to the hash context so far was the image's (hashedOk).  Bytes  *)
(* have ByteBits bits (8 in the code) and a recovery segment has SegBytes  *)
(* bitmask bytes (OTA_FRAGMENTS_REQ_BITMASK_LENGTH, 16 in the code).  The  *)
(* bitmask is the set of fragment positions whose bit is 1; the reversed   *)
(* byte layout of the wire format is a representation detail.              *)
(***************************************************************************)

EXTENDS OtaCommon

OwnType == "node"
\* the timers a node arms (FRAGMENTS_DELIVERING and MULTICAST_MESSAGE_SENT
\* are armed by the border router only)
Timers == {"ACTIVATE", "END_FRAGMENTS", "MISSING_FRAGMENTS_REQUESTING",
           "FRAGMENTS_REQUEST_SERVICE", "FALLBACK", "CHECKSUM_CALCULATING",
           "FIRMWARE_READY"}

\* fault variant: the bit of the last fragment is left set
InitBitmaskOffByOne(fc) == PositionsOf(fc) \ (1 .. (fc - 1))

\* The bitmask after ota_init_fragments_bit_mask(0x00): all bits set, then
\* the bits of fragments 1..fc cleared.
InitBitmask(fc) == PositionsOf(fc) \ (1 .. fc)

\* The positions ota_get_missing_fragment_total_count inspects: it walks
\* whole bytes until the fragment counter passes fc.
Counted(fc) == 1 .. (((fc + ByteBits - 1) \div ByteBits) * ByteBits)
Missing(bm, fc) == Counted(fc) \ bm

\* ota_get_and_log_first_missing_segment: the lowest segment whose window
\* has a zero bit, 0 when there is none.
MissingSegments(bm, fc) == {s \in 1 .. SegCountOf(fc) : ~(SegPositions(s) \subseteq bm)}
FirstMissingSegment(bm, fc) ==
    IF MissingSegments(bm, fc) = {} THEN 0 ELSE Least(MissingSegments(bm, fc))

\* the commands the environment of one node may deliver
Inputs ==
         [cmd : {"START"}, sid : Session, type : DevTypes, hashOk : BOOLEAN]
    \cup [cmd : {"FRAGMENT"}, sid : Session, frag : 1 .. FragCount, crcOk : BOOLEAN]
    \cup [cmd : {"END_FRAGMENTS", "ABORT", "MANIFEST"}, sid : Session]
    \cup [cmd : {"ACTIVATE"}, sid : Session, type : DevTypes]
    \cup UNION {[cmd : {"FRAGMENTS_REQUEST"}, sid : Session, seg : {s},
                 mask : SUBSET SegPositions(s)] : s \in 1 .. SegCountOf(FragCount)}

\* application callbacks of ota_config_func_pointers_t
Callbacks == {"start_received", "manifest_received", "firmware_ready",
              "update_fw_cmd_received"}

\* the persisted copy of ota_parameters_t (store_parameters_fptr)
ParsRec(st, ses, dt, fc, bm, ck) ==
    [state |-> st, session |-> ses, devType |-> dt, fragmentCount |-> fc,
     bitmask |-> bm, checksumOk |-> ck]
EmptyPars == ParsRec("IDLE", NoSession, "none", 0, {}, FALSE)

VARIABLES
    state, session, devType, fragmentCount, bitmask, checksumOk, \* ota_parameters
    pars,        \* the copy of ota_parameters last stored by the application
    stored,      \* fragments of the current image durably written
    timers,      \* pending timers
    ctx,         \* ota_checksum_calculating_ptr.ota_sha256_context_ptr # NULL
    cursor,      \* ota_checksum_calculating_ptr.current_byte_id
    hashedOk,    \* the context holds the hash of image bytes 0..cursor-1
    service,     \* ota_fragments_request_service
    serviceSeg,  \* ota_fragments_request_service_segment_id
    serviceMask, \* ota_fragments_request_service_bitmask_tbl
    fwUpdateReceived, \* ota_fw_update_received
    activateSid, \* session id of the ACTIVATE that armed the activation
    gaveUp,      \* an ACTIVATE cancelled the requesting and fallback timers
    restarts,    \* restarts so far
    sent,        \* commands sent by the last step
    cb           \* application callbacks made by the last step

otaVars == <<state, session, devType, fragmentCount, bitmask, checksumOk>>
hashVars == <<ctx, cursor, hashedOk>>
serveVars == <<service, serviceSeg, serviceMask>>
vars == <<otaVars, pars, stored, timers, hashVars, serveVars,
          fwUpdateReceived, activateSid, gaveUp, restarts, sent, cb>>

\* store_parameters_fptr may fail; the stored copy is then the old one
StoreParameters(snaps) == pars' \in snaps \cup {pars}

MissingNow == Missing(bitmask, fragmentCount)
-----------------------------------------------------------------------------
\* fault variant: ota_fragments_request_service is not cleared
DeleteProcessKeepsService ==
    /\ state' = "IDLE"
    /\ session' = NoSession
    /\ bitmask' = {}
    /\ pars' = EmptyPars
    /\ timers' = {}
    /\ ctx' = FALSE
    /\ service' = service
    /\ fwUpdateReceived' = FALSE

(* ota_delete_process(session_id) for the current session: the state,     *)
(* session id, bitmask, hash context, serve loop and every timer are       *)
(* dropped; device_type, fw_fragment_count and the checksum are left as    *)
(* they were.  remove_stored_ota_process_fptr drops the stored copy.       *)
DeleteProcess ==
    /\ state' = "IDLE"
    /\ session' = NoSession
    /\ bitmask' = {}
    /\ pars' = EmptyPars
    /\ timers' = {}
    /\ ctx' = FALSE
    /\ service' = FALSE
    /\ fwUpdateReceived' = FALSE

\* fault variant: the timer is only armed when the context was allocated
StartChecksumNoRetry(T) ==
    /\ ctx' \in BOOLEAN
    /\ cursor' = 0
    /\ hashedOk' = TRUE
    /\ timers' = IF ctx' THEN T \cup {"CHECKSUM_CALCULATING"} ELSE T

\* First call of ota_manage_whole_fw_checksum_calculating in state
\* CHECKSUM_CALCULATING: the context is allocated (the allocation may fail)
\* and the CHECKSUM timer armed in either case.
StartChecksum(T) ==
    /\ ctx' \in BOOLEAN
    /\ cursor' = 0
    /\ hashedOk' = TRUE
    /\ timers' = T \cup {"CHECKSUM_CALCULATING"}
-----------------------------------------------------------------------------
Init ==
    /\ state = "IDLE"
    /\ session = NoSession
    /\ devType = "none"
    /\ fragmentCount = 0
    /\ bitmask = {}
    /\ checksumOk = FALSE
    /\ pars = EmptyPars
    /\ stored = {}
    /\ timers = {}
    /\ ctx = FALSE
    /\ cursor = 0
    /\ hashedOk = TRUE
    /\ service = FALSE
    /\ serviceSeg = 0
    /\ serviceMask = {}
    /\ fwUpdateReceived = FALSE
    /\ activateSid = NoSession
    /\ gaveUp = FALSE
    /\ restarts = 0
    /\ sent = {}
    /\ cb = {}

\* START (ota_manage_start_command)
ReceiveStart(m) ==
    /\ m.cmd = "START"
    /\ \/ \* ignored: an "OTA process already created" with this device type,
          \* not its own device type, or store_new_ota_process_fptr fails in
          \* ota_add_new_process
          /\ UNCHANGED <<otaVars, pars, stored, timers, hashVars, serveVars,
                         fwUpdateReceived, gaveUp>>
          /\ cb' = {}
       \/ /\ devType # m.type
          /\ m.type = OwnType
          \* ota_add_new_process succeeds, ota_parse_start_command_parameters
          /\ devType' = m.type
          /\ fragmentCount' = FragCount
          /\ checksumOk' = m.hashOk
          /\ stored' = {}
          /\ gaveUp' = FALSE
          /\ UNCHANGED <<cursor, hashedOk>>
          /\ \/ \* the bitmask is allocated and the parameters are stored
                /\ state' = "STARTED"
                /\ session' = m.sid
                /\ bitmask' = InitBitmask(FragCount)
                /\ pars' = ParsRec("STARTED", m.sid, m.type, FragCount,
                                   InitBitmask(FragCount), m.hashOk)
                /\ timers' = timers \cup {"FALLBACK"}
                /\ cb' = {"start_received"}
                /\ UNCHANGED <<ctx, serveVars, fwUpdateReceived>>
             \/ \* the allocation or store_parameters_fptr fails
                /\ DeleteProcess
                /\ cb' = {}
                /\ UNCHANGED <<serviceSeg, serviceMask>>
    /\ sent' = {}
    /\ UNCHANGED <<activateSid, restarts>>

\* A complete write of fragment f: the bit is set, the parameters stored,
\* and either checksumming starts or the fallback timer is rearmed.
WriteFragment(f) ==
    LET bm == bitmask \cup {f}
    IN  /\ stored' = stored \cup {f}
        /\ bitmask' = bm
        /\ IF Missing(bm, fragmentCount) = {}
           THEN /\ state' = "CHECKSUM_CALCULATING"
                /\ StoreParameters({ParsRec(state, session, devType, fragmentCount, bm, checksumOk),
                                    ParsRec("CHECKSUM_CALCULATING", session, devType,
                                            fragmentCount, bm, checksumOk)})
                /\ StartChecksum(timers)
           ELSE /\ StoreParameters({ParsRec(state, session, devType, fragmentCount, bm, checksumOk)})
                /\ timers' = timers \cup {"FALLBACK"}
                             \cup (IF state = "MISSING_FRAGMENTS_REQUESTING"
                                   THEN {"MISSING_FRAGMENTS_REQUESTING"} ELSE {})
                /\ UNCHANGED <<state, hashVars>>

\* FRAGMENT (ota_manage_fragment_command), for a valid fragment not yet
\* received: the bytes are written, completely or not.
StoreNewFragment(f) ==
    \/ \* write_fw_bytes_fptr returns a short count: nothing is marked
       /\ UNCHANGED <<state, bitmask, pars, stored, hashVars>>
       /\ timers' = IF state = "MISSING_FRAGMENTS_REQUESTING" /\ MissingNow # {}
                    THEN timers \cup {"MISSING_FRAGMENTS_REQUESTING"} ELSE timers
    \/ WriteFragment(f)

\* FRAGMENT received while serving a request: a fragment of the served
\* segment sent by another node is marked as already served.
NoteServedFragment(f) ==
    LET mask == IF SegOf(f) = serviceSeg THEN serviceMask \cup {f} ELSE serviceMask
        more == NextMissingForRequester(serviceSeg, mask, fragmentCount) > 0
        T    == IF more THEN timers \cup {"FRAGMENTS_REQUEST_SERVICE"}
                ELSE timers \ {"FRAGMENTS_REQUEST_SERVICE"}
    IN  /\ serviceMask' = mask
        /\ service' = more
        /\ timers' = IF state = "MISSING_FRAGMENTS_REQUESTING" /\ MissingNow # {}
                     THEN T \cup {"MISSING_FRAGMENTS_REQUESTING"} ELSE T

ReceiveFragment(m) ==
    /\ m.cmd = "FRAGMENT"
    /\ IF /\ m.sid = session
          /\ (state \in {"STARTED", "MISSING_FRAGMENTS_REQUESTING"} \/ service)
       THEN LET valid == m.crcOk /\ m.frag \in 1 .. fragmentCount
            IN  IF valid /\ ~service /\ m.frag \notin bitmask
                THEN /\ StoreNewFragment(m.frag)
                     /\ UNCHANGED serveVars
                ELSE IF valid /\ service
                THEN /\ NoteServedFragment(m.frag)
                     /\ UNCHANGED <<state, bitmask, pars, stored, hashVars, serviceSeg>>
                ELSE \* invalid, or already received: only the trailing rearm
                     /\ timers' = IF state = "MISSING_FRAGMENTS_REQUESTING" /\ MissingNow # {}
                                  THEN timers \cup {"MISSING_FRAGMENTS_REQUESTING"}
                                  ELSE timers
                     /\ UNCHANGED <<state, bitmask, pars, stored, hashVars, serveVars>>
       ELSE UNCHANGED <<state, bitmask, pars, stored, timers, hashVars, serveVars>>
    /\ sent' = {}
    /\ cb' = {}
    /\ UNCHANGED <<session, devType, fragmentCount, checksumOk,
                   fwUpdateReceived, activateSid, gaveUp, restarts>>

\* ABORT (ota_manage_abort_command): the serve loop stops, a running
\* checksum calculation is dropped, and every state but UPDATE_FW becomes
\* ABORTED.  No timer is cancelled.
ReceiveAbort(m) ==
    /\ m.cmd = "ABORT"
    /\ IF m.sid = session
       THEN /\ service' = FALSE
            /\ IF state = "CHECKSUM_CALCULATING"
               THEN ctx' = FALSE /\ cursor' = 0
               ELSE UNCHANGED <<ctx, cursor>>
            /\ IF state \notin {"ABORTED", "UPDATE_FW"}
               THEN /\ state' = "ABORTED"
                    /\ StoreParameters({ParsRec("ABORTED", session, devType,
                                                fragmentCount, bitmask, checksumOk)})
               ELSE UNCHANGED <<state, pars>>
       ELSE UNCHANGED <<state, pars, ctx, cursor, service>>
    /\ sent' = {}
    /\ cb' = {}
    /\ UNCHANGED <<session, devType, fragmentCount, bitmask, checksumOk, stored,
                   timers, hashedOk, serviceSeg, serviceMask, fwUpdateReceived,
                   activateSid, gaveUp, restarts>>

\* END_FRAGMENTS (ota_manage_end_fragments_command)
ReceiveEndFragments(m) ==
    /\ m.cmd = "END_FRAGMENTS"
    /\ IF m.sid = session /\ state = "STARTED" /\ MissingNow # {}
       THEN /\ state' = "MISSING_FRAGMENTS_REQUESTING"
            /\ StoreParameters({ParsRec("MISSING_FRAGMENTS_REQUESTING", session, devType,
                                        fragmentCount, bitmask, checksumOk)})
            /\ timers' = timers \cup {"MISSING_FRAGMENTS_REQUESTING"}
       ELSE UNCHANGED <<state, pars, timers>>
    /\ sent' = {}
    /\ cb' = {}
    /\ UNCHANGED <<session, devType, fragmentCount, bitmask, checksumOk, stored,
                   hashVars, serveVars, fwUpdateReceived, activateSid, gaveUp, restarts>>

\* MANIFEST (ota_manage_manifest_command): the current session is deleted
\* whatever session the manifest names; a process is added for the
\* manifest's session (ota_add_new_process zeroes ota_parameters), the
\* manifest is handed to the application, and that process is deleted again.
ReceiveManifest(m) ==
    /\ m.cmd = "MANIFEST"
    /\ DeleteProcess
    /\ \E added, accepted \in BOOLEAN :
         /\ IF added
            THEN /\ devType' = "none"
                 /\ fragmentCount' = 0
                 /\ checksumOk' = FALSE
            ELSE UNCHANGED <<devType, fragmentCount, checksumOk>>
         /\ cb' = IF added /\ accepted THEN {"manifest_received"} ELSE {}
    /\ sent' = {}
    /\ UNCHANGED <<stored, cursor, hashedOk, serviceSeg, serviceMask,
                   activateSid, gaveUp, restarts>>

\* ACTIVATE (ota_manage_update_fw_command).  The requesting and fallback
\* timers are cancelled before any check; the session id is not checked.
ReceiveActivate(m) ==
    /\ m.cmd = "ACTIVATE"
    /\ gaveUp' = TRUE
    /\ LET T == timers \ {"MISSING_FRAGMENTS_REQUESTING", "FALLBACK"}
       IN  IF state \in {"PROCESS_COMPLETED", "UPDATE_FW"} /\ m.type = OwnType
           THEN /\ IF ~fwUpdateReceived
                   THEN /\ timers' = T \cup {"ACTIVATE"}
                        /\ fwUpdateReceived' = TRUE
                        /\ activateSid' = m.sid
                   ELSE /\ timers' = T
                        /\ UNCHANGED <<fwUpdateReceived, activateSid>>
                /\ state' = "UPDATE_FW"
                /\ IF state # "UPDATE_FW"
                   THEN StoreParameters({ParsRec("UPDATE_FW", session, devType,
                                                 fragmentCount, bitmask, checksumOk)})
                   ELSE UNCHANGED pars
           ELSE /\ timers' = T
                /\ UNCHANGED <<state, pars, fwUpdateReceived, activateSid>>
    /\ sent' = {}
    /\ cb' = {}
    /\ UNCHANGED <<session, devType, fragmentCount, bitmask, checksumOk, stored,
                   hashVars, serveVars, restarts>>

\* FRAGMENTS_REQUEST (ota_manage_fragments_request_command): a node that
\* holds the whole image starts a serve loop unless one is running; a node
\* that is requesting itself backs off its own request.
ReceiveFragmentsRequest(m) ==
    /\ m.cmd = "FRAGMENTS_REQUEST"
    /\ IF m.sid = session /\ state \in {"PROCESS_COMPLETED", "UPDATE_FW"} /\ ~service
       THEN /\ serviceSeg' = m.seg
            /\ serviceMask' = m.mask
            /\ IF NextMissingForRequester(m.seg, m.mask, fragmentCount) > 0
               THEN /\ service' = TRUE
                    /\ timers' = timers \cup {"FRAGMENTS_REQUEST_SERVICE"}
               ELSE UNCHANGED <<service, timers>>
       ELSE /\ timers' = IF m.sid = session /\ state = "MISSING_FRAGMENTS_REQUESTING"
                         THEN timers \cup {"MISSING_FRAGMENTS_REQUESTING"} ELSE timers
            /\ UNCHANGED serveVars
    /\ sent' = {}
    /\ cb' = {}
    /\ UNCHANGED <<otaVars, pars, stored, hashVars, fwUpdateReceived,
                   activateSid, gaveUp, restarts>>

\* ota_socket_receive_data: dispatch on the command id
Receive(m) ==
    \/ ReceiveStart(m)
    \/ ReceiveFragment(m)
    \/ ReceiveAbort(m)
    \/ ReceiveEndFragments(m)
    \/ ReceiveManifest(m)
    \/ ReceiveActivate(m)
    \/ ReceiveFragmentsRequest(m)

\* ota_delete_session, called by the application for the current session
DeleteSession ==
    /\ session # NoSession
    /\ DeleteProcess
    /\ sent' = {}
    /\ cb' = {}
    /\ UNCHANGED <<devType, fragmentCount, checksumOk, stored, cursor, hashedOk,
                   serviceSeg, serviceMask, activateSid, gaveUp, restarts>>
-----------------------------------------------------------------------------
(* Timer expiry (ota_timer_expired).  The expired timer is cancelled       *)
(* first; a handler may arm it again.                                      *)

\* fault variant: the slice is not clipped at the end of the image
SliceLenUnclipped(c) == SliceBytes

\* fault variant: the digest comparison is skipped
ChecksumMatchIgnoresDigest(ok, cur) == ok /\ cur = TotalBytes

\* the bytes one checksum slice reads from byte offset c: the slice length,
\* clipped at the end of the image
SliceLen(c) == Lesser(SliceBytes, TotalBytes - c)

\* the computed SHA-256 equals whole_fw_checksum_tbl: the declared checksum
\* is the image's, every byte hashed was the image's, and all were hashed
ChecksumMatch(ok, cur) == checksumOk /\ ok /\ cur = TotalBytes

\* One slice of ota_manage_whole_fw_checksum_calculating whose read returned
\* read bytes: a short read, or the last slice, ends the calculation and
\* the digest is compared; otherwise the timer is rearmed for the next one.
HashSlice(T, read) ==
    LET pushed == SliceLen(cursor)
        ok     == hashedOk /\ read = pushed /\ SliceFrags(cursor, pushed) \subseteq stored
        match  == ChecksumMatch(ok, cursor + read)
        st     == IF match THEN "PROCESS_COMPLETED" ELSE "CHECKSUM_FAILED"
    IN  /\ cursor' = cursor + read
        /\ hashedOk' = ok
        /\ IF cursor + read = TotalBytes \/ read # pushed
           THEN /\ ctx' = FALSE
                /\ state' = st
                /\ StoreParameters({ParsRec(st, session, devType,
                                             fragmentCount, bitmask, checksumOk)})
                /\ timers' = IF match THEN T \cup {"END_FRAGMENTS", "FIRMWARE_READY"} ELSE T
           ELSE /\ timers' = T \cup {"CHECKSUM_CALCULATING"}
                /\ UNCHANGED <<state, pars, ctx>>

\* CHECKSUM_CALCULATING: ota_manage_whole_fw_checksum_calculating
FireChecksum ==
    LET T == timers \ {"CHECKSUM_CALCULATING"}
    IN
    /\ "CHECKSUM_CALCULATING" \in timers
    /\ \/ /\ state # "CHECKSUM_CALCULATING"
          /\ timers' = T
          /\ UNCHANGED <<state, pars, hashVars>>
       \/ /\ state = "CHECKSUM_CALCULATING"
          /\ ~ctx
          /\ StartChecksum(T)
          /\ UNCHANGED <<state, pars>>
       \/ \* the slice buffer cannot be allocated: retry later
          /\ state = "CHECKSUM_CALCULATING"
          /\ ctx
          /\ timers' = T \cup {"CHECKSUM_CALCULATING"}
          /\ UNCHANGED <<state, pars, hashVars>>
       \/ /\ state = "CHECKSUM_CALCULATING"
          /\ ctx
          /\ \E read \in 0 .. SliceLen(cursor) : HashSlice(T, read)
    /\ sent' = {}
    /\ cb' = {}
    /\ UNCHANGED <<session, devType, fragmentCount, bitmask, checksumOk, stored,
                   serveVars, fwUpdateReceived, activateSid, gaveUp, restarts>>

\* MISSING_FRAGMENTS_REQUESTING: ota_request_missing_fragments sends the
\* first missing segment and its bitmask window to the parent and rearms
\* the timer, unless the payload cannot be allocated.
FireRequesting ==
    LET T == timers \ {"MISSING_FRAGMENTS_REQUESTING"}
        seg == FirstMissingSegment(bitmask, fragmentCount)
        req == [cmd |-> "FRAGMENTS_REQUEST", sid |-> session, seg |-> seg,
                mask |-> IF seg = 0 THEN {} ELSE bitmask \cap SegPositions(seg)]
    IN
    /\ "MISSING_FRAGMENTS_REQUESTING" \in timers
    /\ IF state = "MISSING_FRAGMENTS_REQUESTING" /\ MissingNow # {}
       THEN \/ /\ sent' = {req}
               /\ timers' = T \cup {"MISSING_FRAGMENTS_REQUESTING"}
            \/ /\ sent' = {}
               /\ timers' = T
       ELSE /\ sent' = {}
            /\ timers' = T
    /\ cb' = {}
    /\ UNCHANGED <<otaVars, pars, stored, hashVars, serveVars,
                   fwUpdateReceived, activateSid, gaveUp, restarts>>

\* FRAGMENTS_REQUEST_SERVICE: ota_serve_fragments_request_by_sending_one_fragment
\* marks the next fragment the requester lacks as served and sends it (the
\* payload allocation or the storage read may fail, and then nothing is
\* sent); the loop goes on while the requester lacks fragments.
FireService ==
    LET T == timers \ {"FRAGMENTS_REQUEST_SERVICE"}
        f == NextMissingForRequester(serviceSeg, serviceMask, fragmentCount)
        mask == IF f = 0 THEN serviceMask ELSE serviceMask \cup {f}
        more == NextMissingForRequester(serviceSeg, mask, fragmentCount) > 0
        frag == [cmd |-> "FRAGMENT", sid |-> session, frag |-> f, crcOk |-> TRUE]
    IN
    /\ "FRAGMENTS_REQUEST_SERVICE" \in timers
    /\ IF service
       THEN /\ serviceMask' = mask
            /\ sent' \in (IF f = 0 THEN {{}} ELSE {{frag}, {}})
            /\ timers' = IF more THEN T \cup {"FRAGMENTS_REQUEST_SERVICE"} ELSE T
            /\ service' = more
       ELSE /\ timers' = T
            /\ sent' = {}
            /\ UNCHANGED <<service, serviceMask>>
    /\ cb' = {}
    /\ UNCHANGED <<otaVars, pars, stored, hashVars, serviceSeg,
                   fwUpdateReceived, activateSid, gaveUp, restarts>>

\* FALLBACK: with fragments still missing the node starts requesting
FireFallback ==
    /\ "FALLBACK" \in timers
    /\ IF state # "ABORTED" /\ MissingNow # {}
       THEN /\ state' = "MISSING_FRAGMENTS_REQUESTING"
            /\ StoreParameters({ParsRec("MISSING_FRAGMENTS_REQUESTING", session, devType,
                                        fragmentCount, bitmask, checksumOk)})
            /\ timers' = timers \cup {"MISSING_FRAGMENTS_REQUESTING"}
       ELSE /\ timers' = timers \ {"FALLBACK"}
            /\ UNCHANGED <<state, pars>>
    /\ sent' = {}
    /\ cb' = {}
    /\ UNCHANGED <<session, devType, fragmentCount, bitmask, checksumOk, stored,
                   hashVars, serveVars, fwUpdateReceived, activateSid, gaveUp, restarts>>

\* ACTIVATE: the application is told to activate after the received delay
FireActivate ==
    /\ "ACTIVATE" \in timers
    /\ timers' = timers \ {"ACTIVATE"}
    /\ cb' = IF state \in {"PROCESS_COMPLETED", "UPDATE_FW"}
             THEN {"update_fw_cmd_received"} ELSE {}
    /\ sent' = {}
    /\ UNCHANGED <<otaVars, pars, stored, hashVars, serveVars,
                   fwUpdateReceived, activateSid, gaveUp, restarts>>

\* END_FRAGMENTS: the node announces END_FRAGMENTS on link-local multicast
FireEndFragments ==
    /\ "END_FRAGMENTS" \in timers
    /\ timers' = timers \ {"END_FRAGMENTS"}
    /\ sent' = {[cmd |-> "END_FRAGMENTS", sid |-> session]}
    /\ cb' = {}
    /\ UNCHANGED <<otaVars, pars, stored, hashVars, serveVars,
                   fwUpdateReceived, activateSid, gaveUp, restarts>>

\* FIRMWARE_READY: firmware_ready_fptr, whatever the state
FireFirmwareReady ==
    /\ "FIRMWARE_READY" \in timers
    /\ timers' = timers \ {"FIRMWARE_READY"}
    /\ cb' = {"firmware_ready"}
    /\ sent' = {}
    /\ UNCHANGED <<otaVars, pars, stored, hashVars, serveVars,
                   fwUpdateReceived, activateSid, gaveUp, restarts>>
-----------------------------------------------------------------------------
(* Restart: power is lost (timers, the hash context and the serve loop are *)
(* volatile) and ota_lib_configure reloads the stored parameters.          *)
Restart ==
    LET p == pars
        miss == Missing(p.bitmask, p.fragmentCount)
        st == IF miss = {} /\ p.state \notin {"ABORTED", "CHECKSUM_FAILED",
                     "PROCESS_COMPLETED", "UPDATE_FW", "IDLE"}
              THEN "CHECKSUM_CALCULATING" ELSE p.state
        T == IF miss = {} THEN {}
             ELSE IF p.state = "MISSING_FRAGMENTS_REQUESTING"
             THEN {"MISSING_FRAGMENTS_REQUESTING"}
             ELSE IF p.state # "ABORTED" THEN {"FALLBACK"} ELSE {}
    IN
    /\ restarts < MaxRestarts
    /\ restarts' = restarts + 1
    /\ state' = st
    /\ session' = p.session
    /\ devType' = p.devType
    /\ fragmentCount' = p.fragmentCount
    /\ bitmask' = p.bitmask
    /\ checksumOk' = p.checksumOk
    /\ IF st = "CHECKSUM_CALCULATING"
       THEN StartChecksum(T)
       ELSE /\ timers' = T
            /\ ctx' = FALSE
            /\ cursor' = 0
            /\ hashedOk' = TRUE
    /\ service' = FALSE
    /\ serviceSeg' = 0
    /\ serviceMask' = {}
    /\ fwUpdateReceived' = FALSE
    /\ sent' = {}
    /\ cb' = {}
    /\ gaveUp' = FALSE
    /\ UNCHANGED <<pars, stored, activateSid>>

Fire ==
    \/ FireChecksum
    \/ FireRequesting
    \/ FireService
    \/ FireFallback
    \/ FireActivate
    \/ FireEndFragments
    \/ FireFirmwareReady

Next ==
    \/ DeleteSession
    \/ \E m \in Inputs : Receive(m)
    \/ Fire
    \/ Restart

Spec == Init /\ [][Next]_vars
-----------------------------------------------------------------------------
ParsType ==
    [state : States, session : Session \cup {NoSession}, devType : DevTypes \cup {"none"},
     fragmentCount : {0, FragCount}, bitmask : SUBSET Positions, checksumOk : BOOLEAN]

TypeOK ==
    /\ state \in States
    /\ session \in Session \cup {NoSession}
    /\ devType \in DevTypes \cup {"none"}
    /\ fragmentCount \in {0, FragCount}
    /\ bitmask \subseteq Positions
    /\ checksumOk \in BOOLEAN
    /\ pars \in ParsType
    /\ stored \subseteq 1 .. FragCount
    /\ timers \subseteq Timers
    /\ ctx \in BOOLEAN
    /\ cursor \in 0 .. TotalBytes
    /\ hashedOk \in BOOLEAN
    /\ service \in BOOLEAN
    /\ serviceSeg \in 0 .. SegCountOf(FragCount)
    /\ serviceMask \subseteq Positions
    /\ fwUpdateReceived \in BOOLEAN
    /\ activateSid \in Session \cup {NoSession}
    /\ gaveUp \in BOOLEAN
    /\ restarts \in 0 .. MaxRestarts
    /\ sent \subseteq Msgs
    /\ cb \subseteq Callbacks
-----------------------------------------------------------------------------
(* Safety.                                                                 *)

\* Every fragment whose bit is set, in the live bitmask and in the stored
\* copy ota_lib_configure reloads, has been written to storage for the
\* current image: ota_init_fragments_bit_mask, the write in
\* ota_manage_fragment_command and a restart never mark an unwritten one.
BitmaskSound ==
    /\ bitmask \cap (1 .. fragmentCount) \subseteq stored
    /\ pars.bitmask \cap (1 .. pars.fragmentCount) \subseteq stored

\* A node in PROCESS_COMPLETED or UPDATE_FW, or a stored copy in one of
\* them, holds the whole image and its declared checksum is the image's:
\* ota_manage_whole_fw_checksum_calculating only completes on a full,
\* matching hash, and no later command or restart loses that.
CompletedImageIntact ==
    /\ state \in {"PROCESS_COMPLETED", "UPDATE_FW"}
         => 1 .. fragmentCount \subseteq stored /\ checksumOk
    /\ pars.state \in {"PROCESS_COMPLETED", "UPDATE_FW"}
         => 1 .. pars.fragmentCount \subseteq stored /\ pars.checksumOk

\* A FRAGMENT a node sends while serving a FRAGMENTS_REQUEST carries a
\* fragment of the current image that it has written: the serve loop
\* (ota_fragments_request_service) never outlives the session it serves.
ServeOnlyStored ==
    \A msg \in sent : msg.cmd = "FRAGMENT" => msg.frag \in stored

\* A node that is calculating the checksum has the CHECKSUM_CALCULATING
\* timer pending, and a STARTED node has its FALLBACK timer pending unless
\* an ACTIVATE cancelled it: every allocation failure in the checksum
\* pipeline is retried, so neither state can be left without a way out.
ProgressArmed ==
    /\ state = "CHECKSUM_CALCULATING" => "CHECKSUM_CALCULATING" \in timers
    /\ state = "STARTED" /\ ~gaveUp => "FALLBACK" \in timers

\* A node requesting missing fragments has the requesting or the fallback
\* timer pending unless an ACTIVATE cancelled them, so that it asks again:
\* the spec's recovery loop after END_FRAGMENTS, a restart
\* (ota_lib_configure) or a failed request (ota_request_missing_fragments).
RequestingArmed ==
    state = "MISSING_FRAGMENTS_REQUESTING" /\ ~gaveUp
        => timers \cap {"MISSING_FRAGMENTS_REQUESTING", "FALLBACK"} # {}

\* A node enters UPDATE_FW, and arms the activation, only on an ACTIVATE of
\* its own session: the spec drops commands whose session id mismatches,
\* ota_manage_update_fw_command does not check it.
ActivateOwnSession ==
    state = "UPDATE_FW" => activateSid = session

\* A node with no session accepts the next START of its own device type
\* (the spec: IDLE + START -> STARTED); ota_delete_process keeps
\* ota_parameters.device_type, which ota_manage_start_command compares.
IdleAcceptsStart ==
    state = "IDLE" => devType # OwnType

\* firmware_ready is only signalled while the image is complete and
\* verified: the spec has ABORT cancel every timer,
\* ota_manage_abort_command leaves FIRMWARE_READY pending.
FirmwareReadyOnlyWhenComplete ==
    "firmware_ready" \in cb => state \in {"PROCESS_COMPLETED", "UPDATE_FW"}

=============================================================================
