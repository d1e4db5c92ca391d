------------------------------ MODULE OtaRouter ------------------------------
(***************************************************************************)
(* The border-router role of the multicast OTA library                     *)
(* (src/update-client-hub/modules/multicast/libota.c).                     *)
(*                                                                         *)
(* One device of type OTA_DEVICE_TYPE_BORDER_ROUTER.  The cloud writes     *)
(* FIRMWARE, MANIFEST and ACTIVATE commands to its COMMAND resource        *)
(* (ota_lwm2m_command); the application pulls the image named by FIRMWARE  *)
(* and reports it with ota_firmware_pulled; the router hashes the pulled   *)
(* image, multicasts START and then one FRAGMENT per FRAGMENTS_DELIVERING  *)
(* expiry, and serves the FRAGMENTS_REQUESTs of nodes like a node does.    *)
(*                                                                         *)
(* Data abstraction as in OtaNode.  The router keeps no fragment bitmask   *)
(* (fragments_bitmask_ptr stays NULL); what it reads back from storage is  *)
(* the image of its session exactly when that image has been pulled.       *)
(* The application's pull of a session ends with ota_firmware_pulled, or   *)
(* is abandoned when the library removes that session through              *)
(* remove_stored_ota_process_fptr.                                         *)
(***************************************************************************)
EXTENDS OtaCommon

CONSTANT Disciplined   \* the cloud writes a command only while READY is "1"

ASSUME DisciplinedAssumption == Disciplined \in BOOLEAN

RouterStates == {"IDLE", "STARTED", "CHECKSUM_CALCULATING", "CHECKSUM_FAILED",
                 "PROCESS_COMPLETED"}

\* the timers a border router arms
RouterTimers == {"FRAGMENTS_DELIVERING", "END_FRAGMENTS", "MULTICAST_MESSAGE_SENT",
                 "CHECKSUM_CALCULATING", "FRAGMENTS_REQUEST_SERVICE"}

\* the FRAGMENT and FRAGMENTS_REQUEST commands nodes send to the router
RouterInputs ==
         [cmd : {"FRAGMENT"}, sid : Session, frag : 1 .. FragCount, crcOk : BOOLEAN]
    \cup UNION {[cmd : {"FRAGMENTS_REQUEST"}, sid : Session, seg : {s},
                 mask : SUBSET SegPositions(s)] : s \in 1 .. SegCountOf(FragCount)}

VARIABLES
    rState, rSession, rFragCount, rChecksumOk, \* ota_parameters of the router
    rTimers,      \* pending timers
    delivering,   \* ota_fw_delivering
    current,      \* ota_fw_deliver_current_fragment_id
    rCtx,         \* ota_checksum_calculating_ptr.ota_sha256_context_ptr # NULL
    rCursor,      \* ota_checksum_calculating_ptr.current_byte_id
    rHashSid,     \* the session whose image bytes 0..rCursor-1 the context
                  \* holds, NoSession when they are not one image's
    rService, rServiceSeg, rServiceMask, \* the request serve loop
    ready,        \* the MULTICAST_READY resource is "1"
    pulls,        \* sessions whose image the application is pulling
    pulled,       \* sessions whose image is completely in storage
    rSent,        \* commands the router sent in the last step
    deliverSid    \* session of the START that began the current delivery

rOtaVars == <<rState, rSession, rFragCount, rChecksumOk>>
rHashVars == <<rCtx, rCursor, rHashSid>>
rServeVars == <<rService, rServiceSeg, rServiceMask>>
rVars == <<rOtaVars, rTimers, delivering, current, rHashVars, rServeVars,
           ready, pulls, pulled, rSent, deliverSid>>

\* fw_total_byte_count: zeroed with ota_parameters by ota_add_new_process
RTotal == IF rFragCount = 0 THEN 0 ELSE TotalBytes

CloudMaySend == ~Disciplined \/ ready
-----------------------------------------------------------------------------
(* ota_delete_process for the current session on the router: the serve     *)
(* loop, the delivery, the state, the session id, the hash context and     *)
(* every timer are dropped and READY is raised; fw_fragment_count and the  *)
(* checksum are left as they were.  The application abandons the pull of   *)
(* every session in D that remove_stored_ota_process_fptr removed.         *)
Deleted(D) ==
    /\ rState' = "IDLE"
    /\ rSession' = NoSession
    /\ rService' = FALSE
    /\ delivering' = FALSE
    /\ rCtx' = FALSE
    /\ rTimers' = {}
    /\ ready' = TRUE
    /\ pulls' = pulls \ D

\* ota_add_new_process(s): the guard on ota_process_count never holds,
\* since the count it increments is zeroed by the memset of ota_parameters
\* that follows (the zeroed state is OTA_STATE_IDLE, the first of the
\* enumeration); the session id is copied in and READY cleared.
NewProcess(s) ==
    /\ rState' = "IDLE"
    /\ rSession' = s
    /\ rFragCount' = 0
    /\ rChecksumOk' = FALSE
    /\ ready' = FALSE

RInit ==
    /\ rState = "IDLE"
    /\ rSession = NoSession
    /\ rFragCount = 0
    /\ rChecksumOk = FALSE
    /\ rTimers = {}
    /\ delivering = FALSE
    /\ current = 1
    /\ rCtx = FALSE
    /\ rCursor = 0
    /\ rHashSid = NoSession
    /\ rService = FALSE
    /\ rServiceSeg = 0
    /\ rServiceMask = {}
    /\ ready = TRUE
    /\ pulls = {}
    /\ pulled = {}
    /\ rSent = {}
    /\ deliverSid = NoSession

\* ota_build_and_send_multicast_command(OTA_CMD_FIRMWARE) after the
\* router's checksum matched: START is multicast and, unless the socket
\* send fails (the error is ignored), the delivery begins at fragment 1.
SendStart(T) ==
    \/ /\ rSent' = {}
       /\ rTimers' = T
       /\ UNCHANGED <<delivering, current, deliverSid>>
    \/ /\ rSent' = {[cmd |-> "START", sid |-> rSession, type |-> "node",
                     hashOk |-> rChecksumOk]}
       /\ rTimers' = T \cup {"FRAGMENTS_DELIVERING"}
       /\ delivering' = TRUE
       /\ current' = 1
       /\ deliverSid' = rSession

\* fault variant: the last slice is not clipped
RSliceLenUnclipped(c) == SliceBytes

\* the checksum slice: clipped at fw_total_byte_count
RSliceLen(c) == Lesser(SliceBytes, RTotal - c)

\* memcmp of the digest with whole_fw_checksum_tbl
RChecksumMatch(ok, cur) == rChecksumOk /\ ok /\ cur = RTotal

\* fault variant: START is multicast whether or not the digest matched
RHashSliceStartsAnyway(T, P, read) ==
    LET pushed == RSliceLen(rCursor)
        ok     == rHashSid = rSession /\ rSession \in P /\ read = pushed
        match  == RChecksumMatch(ok, rCursor + read)
    IN  /\ rCursor' = rCursor + read
        /\ rHashSid' = IF ok THEN rSession ELSE NoSession
        /\ IF rCursor + read = RTotal \/ read # pushed
           THEN /\ rCtx' = FALSE
                /\ rState' = IF match THEN "PROCESS_COMPLETED" ELSE "CHECKSUM_FAILED"
                /\ SendStart(T)
           ELSE /\ rTimers' = T \cup {"CHECKSUM_CALCULATING"}
                /\ rSent' = {}
                /\ rState' = "CHECKSUM_CALCULATING"
                /\ UNCHANGED <<rCtx, delivering, current, deliverSid>>

\* one slice read back through read_fw_bytes_fptr(session, cursor, ...);
\* the digest is finished at the end of the image or on a short read
RHashSlice(T, P, read) ==
    LET pushed == RSliceLen(rCursor)
        ok     == rHashSid = rSession /\ rSession \in P /\ read = pushed
        match  == RChecksumMatch(ok, rCursor + read)
    IN  /\ rCursor' = rCursor + read
        /\ rHashSid' = IF ok THEN rSession ELSE NoSession
        /\ IF rCursor + read = RTotal \/ read # pushed
           THEN /\ rCtx' = FALSE
                /\ rState' = IF match THEN "PROCESS_COMPLETED" ELSE "CHECKSUM_FAILED"
                /\ IF match THEN SendStart(T)
                   ELSE /\ rTimers' = T
                        /\ rSent' = {}
                        /\ UNCHANGED <<delivering, current, deliverSid>>
           ELSE /\ rTimers' = T \cup {"CHECKSUM_CALCULATING"}
                /\ rSent' = {}
                /\ rState' = "CHECKSUM_CALCULATING"
                /\ UNCHANGED <<rCtx, delivering, current, deliverSid>>

(* ota_manage_whole_fw_checksum_calculating in CHECKSUM_CALCULATING, with  *)
(* T the pending timers and P the sessions whose image is in storage: the *)
(* state is CHECKSUM_CALCULATING; the first call allocates the context (which may   *)
(* fail) and re-arms the timer; later calls hash a slice.  A cursor left   *)
(* past fw_total_byte_count makes the clipped length wrap around, and the  *)
(* slice buffer of that size can never be allocated.                       *)
RChecksumStep(T, P) ==
    \/ /\ ~rCtx
       /\ rCtx' \in BOOLEAN
       /\ rCursor' = 0
       /\ rHashSid' = rSession
       /\ rTimers' = T \cup {"CHECKSUM_CALCULATING"}
       /\ rSent' = {}
       /\ rState' = "CHECKSUM_CALCULATING"
       /\ UNCHANGED <<delivering, current, deliverSid>>
    \/ \* the slice buffer cannot be allocated: retry later
       /\ rCtx
       /\ rTimers' = T \cup {"CHECKSUM_CALCULATING"}
       /\ rSent' = {}
       /\ rState' = "CHECKSUM_CALCULATING"
       /\ UNCHANGED <<rHashVars, delivering, current, deliverSid>>
    \/ /\ rCtx
       /\ rCursor <= RTotal
       /\ \E read \in 0 .. RSliceLen(rCursor) : RHashSlice(T, P, read)
-----------------------------------------------------------------------------
(* ota_lwm2m_command: a payload shorter than MULTICAST_CMD_FW_SIZE_INDEX,   *)
(* an unknown command id or a multicast version other than 1 is answered   *)
(* BAD_REQUEST, and the current session is deleted.                        *)
Lwm2mMalformed ==
    /\ CloudMaySend
    /\ Deleted({rSession})
    /\ rSent' = {}
    /\ UNCHANGED <<rFragCount, rChecksumOk, current, rCursor, rHashSid,
                   rServiceSeg, rServiceMask, pulled, deliverSid>>

(* FIRMWARE(s) with an image whose digest is (h) or is not (~h) the one   *)
(* announced: ota_border_router_manage_command adds the process, sets the  *)
(* image geometry and checksum, copies the pull url and moves to STARTED;  *)
(* start_received_fptr makes the application start pulling.  Nothing is   *)
(* multicast yet.  A failure of store_new_ota_process_fptr deletes the     *)
(* current session; a failed url allocation, start_received_fptr or        *)
(* store_parameters_fptr deletes the new one.                              *)
Lwm2mFirmware(s, h) ==
    /\ CloudMaySend
    /\ \/ /\ Deleted({rSession})
          /\ UNCHANGED <<rFragCount, rChecksumOk>>
       \/ /\ rFragCount' = FragCount
          /\ rChecksumOk' = h
          /\ Deleted({s})
       \/ /\ rState' = "STARTED"
          /\ rSession' = s
          /\ rFragCount' = FragCount
          /\ rChecksumOk' = h
          /\ ready' = FALSE
          /\ pulls' = pulls \cup {s}
          /\ UNCHANGED <<rTimers, delivering, rCtx, rService>>
    /\ rSent' = {}
    /\ UNCHANGED <<current, rCursor, rHashSid, rServiceSeg, rServiceMask,
                   pulled, deliverSid>>

(* MANIFEST and ACTIVATE once ota_lwm2m_command has run delete_process     *)
(* (del) or not: the process is added and the command multicast, and      *)
(* MULTICAST_MESSAGE_SENT is armed for both (the test                      *)
(* `else if (OTA_CMD_MANIFEST)` is always true).  A failed                 *)
(* store_new_ota_process_fptr or socket send deletes the session.          *)
Relay(s, msg, del) ==
    /\ CloudMaySend
    /\ \/ /\ Deleted({rSession})
          /\ UNCHANGED <<rFragCount, rChecksumOk>>
          /\ rSent' = {}
       \/ /\ Deleted(IF del THEN {rSession, s} ELSE {s})
          /\ rFragCount' = 0
          /\ rChecksumOk' = FALSE
          /\ rSent' = {}
       \/ /\ NewProcess(s)
          /\ rSent' = {msg}
          /\ rTimers' = (IF del THEN {} ELSE rTimers) \cup {"MULTICAST_MESSAGE_SENT"}
          /\ delivering' = (delivering /\ ~del)
          /\ rCtx' = (rCtx /\ ~del)
          /\ rService' = (rService /\ ~del)
          /\ pulls' = IF del THEN pulls \ {rSession} ELSE pulls
    /\ UNCHANGED <<current, rCursor, rHashSid, rServiceSeg, rServiceMask,
                   pulled, deliverSid>>

Lwm2mManifest(s) == Relay(s, [cmd |-> "MANIFEST", sid |-> s], FALSE)

Lwm2mActivate(s) == Relay(s, [cmd |-> "ACTIVATE", sid |-> s, type |-> "node"], TRUE)

(* ota_firmware_pulled: the application has the image of session p in     *)
(* storage.  The bitmask memset (of a NULL pointer, length 0) does         *)
(* nothing; the state becomes CHECKSUM_CALCULATING whatever it was, and    *)
(* the checksum routine runs at once.                                      *)
FirmwarePulled(p) ==
    /\ p \in pulls
    /\ pulls' = pulls \ {p}
    /\ pulled' = pulled \cup {p}
    /\ RChecksumStep(rTimers, pulled')
    /\ UNCHANGED <<rSession, rFragCount, rChecksumOk, rServeVars, ready>>
-----------------------------------------------------------------------------
\* the application calls ota_delete_session(s)
RDeleteSession(s) ==
    /\ s = rSession
    /\ Deleted({s})
    /\ rSent' = {}
    /\ UNCHANGED <<rFragCount, rChecksumOk, current, rCursor, rHashSid,
                   rServiceSeg, rServiceMask, pulled, deliverSid>>

\* fault variant: the request's bitmask is read with the wrong polarity
RReceiveFragmentsRequestInverted(m) ==
    /\ m.cmd = "FRAGMENTS_REQUEST"
    /\ m.sid = rSession
    /\ rState = "PROCESS_COMPLETED"
    /\ ~rService
    /\ ~delivering
    /\ rServiceSeg' = m.seg
    /\ rServiceMask' = SegPositions(m.seg) \ m.mask
    /\ IF NextMissingForRequester(m.seg, SegPositions(m.seg) \ m.mask, rFragCount) > 0
       THEN /\ rService' = TRUE
            /\ rTimers' = rTimers \cup {"FRAGMENTS_REQUEST_SERVICE"}
       ELSE UNCHANGED <<rService, rTimers>>
    /\ rSent' = {}
    /\ UNCHANGED <<rOtaVars, delivering, current, rHashVars, ready, pulls,
                   pulled, deliverSid>>

(* FRAGMENTS_REQUEST from a node for the router's session: served as by a  *)
(* node in PROCESS_COMPLETED, unless a serve loop or the delivery is       *)
(* running.  In every other state of the router the command has no effect. *)
RReceiveFragmentsRequest(m) ==
    /\ m.cmd = "FRAGMENTS_REQUEST"
    /\ m.sid = rSession
    /\ rState = "PROCESS_COMPLETED"
    /\ ~rService
    /\ ~delivering
    /\ rServiceSeg' = m.seg
    /\ rServiceMask' = m.mask
    /\ IF NextMissingForRequester(m.seg, m.mask, rFragCount) > 0
       THEN /\ rService' = TRUE
            /\ rTimers' = rTimers \cup {"FRAGMENTS_REQUEST_SERVICE"}
       ELSE UNCHANGED <<rService, rTimers>>
    /\ rSent' = {}
    /\ UNCHANGED <<rOtaVars, delivering, current, rHashVars, ready, pulls,
                   pulled, deliverSid>>

(* A FRAGMENT another node served for the router's session while the      *)
(* router's own serve loop runs: ota_manage_fragment_command marks it in   *)
(* the requester's mask and ends the loop when nothing is left to send.    *)
(* Without a serve loop a FRAGMENT has no effect on a router outside       *)
(* STARTED; in STARTED it would consult the NULL fragment bitmask, and the *)
(* model delivers no such FRAGMENT (see README).                           *)
RReceiveServedFragment(m) ==
    LET mask == IF SegOf(m.frag) = rServiceSeg THEN rServiceMask \cup {m.frag}
                ELSE rServiceMask
    IN
    /\ m.cmd = "FRAGMENT"
    /\ m.sid = rSession
    /\ rService
    /\ m.crcOk
    /\ m.frag <= rFragCount
    /\ rServiceMask' = mask
    /\ IF NextMissingForRequester(rServiceSeg, mask, rFragCount) > 0
       THEN /\ rTimers' = rTimers \cup {"FRAGMENTS_REQUEST_SERVICE"}
            /\ UNCHANGED rService
       ELSE /\ rTimers' = rTimers \ {"FRAGMENTS_REQUEST_SERVICE"}
            /\ rService' = FALSE
    /\ rSent' = {}
    /\ UNCHANGED <<rOtaVars, delivering, current, rHashVars, rServiceSeg,
                   ready, pulls, pulled, deliverSid>>

\* ota_socket_receive_data on the router
RReceive(m) == RReceiveFragmentsRequest(m) \/ RReceiveServedFragment(m)
-----------------------------------------------------------------------------
\* CHECKSUM_CALCULATING expiry
RFireChecksum ==
    LET T == rTimers \ {"CHECKSUM_CALCULATING"}
    IN
    /\ "CHECKSUM_CALCULATING" \in rTimers
    /\ \/ /\ rState # "CHECKSUM_CALCULATING"
          /\ rTimers' = T
          /\ rSent' = {}
          /\ UNCHANGED <<rState, rHashVars, delivering, current, deliverSid>>
       \/ /\ rState = "CHECKSUM_CALCULATING"
          /\ RChecksumStep(T, pulled)
    /\ UNCHANGED <<rSession, rFragCount, rChecksumOk, rServeVars, ready, pulls, pulled>>

(* FRAGMENTS_DELIVERING expiry: while fragments are left,                  *)
(* ota_deliver_one_fragment multicasts the next one and the timer is       *)
(* re-armed.  When its payload cannot be allocated nothing happens and     *)
(* the same fragment is tried next time; when the storage read or the     *)
(* command allocation fails the fragment is skipped.  After the last one   *)
(* END_FRAGMENTS is armed and the delivery ends.                           *)
RFireDelivering ==
    LET frag == [cmd |-> "FRAGMENT", sid |-> rSession, frag |-> current, crcOk |-> TRUE]
    IN
    /\ "FRAGMENTS_DELIVERING" \in rTimers
    /\ \/ /\ ~delivering
          /\ rTimers' = rTimers \ {"FRAGMENTS_DELIVERING"}
          /\ rSent' = {}
          /\ UNCHANGED <<delivering, current>>
       \/ /\ delivering
          /\ current <= rFragCount
          /\ UNCHANGED <<rTimers, delivering>>
          /\ \/ /\ rSent' = {}
                /\ UNCHANGED current
             \/ /\ rSent' \in {{frag}, {}}
                /\ current' = current + 1
       \/ /\ delivering
          /\ current > rFragCount
          /\ rTimers' = (rTimers \ {"FRAGMENTS_DELIVERING"}) \cup {"END_FRAGMENTS"}
          /\ delivering' = FALSE
          /\ rSent' = {}
          /\ UNCHANGED current
    /\ UNCHANGED <<rOtaVars, rHashVars, rServeVars, ready, pulls, pulled, deliverSid>>

\* END_FRAGMENTS expiry: END_FRAGMENTS is multicast link-local (unless its
\* buffer cannot be allocated) and READY is raised
RFireEndFragments ==
    /\ "END_FRAGMENTS" \in rTimers
    /\ rTimers' = rTimers \ {"END_FRAGMENTS"}
    /\ rSent' \in {{[cmd |-> "END_FRAGMENTS", sid |-> rSession]}, {}}
    /\ ready' = TRUE
    /\ UNCHANGED <<rOtaVars, delivering, current, rHashVars, rServeVars, pulls,
                   pulled, deliverSid>>

\* MULTICAST_MESSAGE_SENT expiry: ota_delete_process of the current session
RFireMessageSent ==
    /\ "MULTICAST_MESSAGE_SENT" \in rTimers
    /\ Deleted({rSession})
    /\ rSent' = {}
    /\ UNCHANGED <<rFragCount, rChecksumOk, current, rCursor, rHashSid,
                   rServiceSeg, rServiceMask, pulled, deliverSid>>

\* FRAGMENTS_REQUEST_SERVICE expiry: as on a node
RFireService ==
    LET T == rTimers \ {"FRAGMENTS_REQUEST_SERVICE"}
        f == NextMissingForRequester(rServiceSeg, rServiceMask, rFragCount)
        mask == IF f = 0 THEN rServiceMask ELSE rServiceMask \cup {f}
        more == NextMissingForRequester(rServiceSeg, mask, rFragCount) > 0
        frag == [cmd |-> "FRAGMENT", sid |-> rSession, frag |-> f, crcOk |-> TRUE]
    IN
    /\ "FRAGMENTS_REQUEST_SERVICE" \in rTimers
    /\ IF rService
       THEN /\ rServiceMask' = mask
            /\ rSent' \in (IF f = 0 THEN {{}} ELSE {{frag}, {}})
            /\ rTimers' = IF more THEN T \cup {"FRAGMENTS_REQUEST_SERVICE"} ELSE T
            /\ rService' = more
       ELSE /\ rTimers' = T
            /\ rSent' = {}
            /\ UNCHANGED <<rService, rServiceMask>>
    /\ UNCHANGED <<rOtaVars, delivering, current, rHashVars, rServiceSeg, ready,
                   pulls, pulled, deliverSid>>

\* ota_timer_expired on the router
RFire ==
    \/ RFireChecksum
    \/ RFireDelivering
    \/ RFireEndFragments
    \/ RFireMessageSent
    \/ RFireService

RNext ==
    \/ Lwm2mMalformed
    \/ \E s \in Session, h \in BOOLEAN : Lwm2mFirmware(s, h)
    \/ \E s \in Session : Lwm2mManifest(s) \/ Lwm2mActivate(s)
    \/ \E p \in Session : FirmwarePulled(p)
    \/ \E s \in Session : RDeleteSession(s)
    \/ \E m \in RouterInputs : RReceive(m)
    \/ RFire

RSpec == RInit /\ [][RNext]_rVars
-----------------------------------------------------------------------------
RTypeOK ==
    /\ rState \in RouterStates
    /\ rSession \in Session \cup {NoSession}
    /\ rFragCount \in {0, FragCount}
    /\ rChecksumOk \in BOOLEAN
    /\ rTimers \subseteq RouterTimers
    /\ delivering \in BOOLEAN
    /\ current \in 1 .. (FragCount + 1)
    /\ rCtx \in BOOLEAN
    /\ rCursor \in 0 .. TotalBytes
    /\ rHashSid \in Session \cup {NoSession}
    /\ rService \in BOOLEAN
    /\ rServiceSeg \in 0 .. SegCountOf(FragCount)
    /\ rServiceMask \subseteq Positions
    /\ ready \in BOOLEAN
    /\ pulls \subseteq Session
    /\ pulled \subseteq Session
    /\ rSent \subseteq Msgs
    /\ deliverSid \in Session \cup {NoSession}

\* the router holds the verified image of its session: the checksum pass
\* over the pulled image of that session matched the announced digest
Verified ==
    /\ rState = "PROCESS_COMPLETED"
    /\ rChecksumOk
    /\ rHashSid = rSession
    /\ rSession \in pulled

\* While ota_fw_delivering holds, the router's session is the one whose
\* START began the delivery and it still holds that session's verified
\* image: every FRAGMENT the FRAGMENTS_DELIVERING timer multicasts belongs
\* to the image START announced.
DeliveringKeepsSession ==
    delivering => rSession = deliverSid /\ Verified

\* Every FRAGMENT the router multicasts, delivered or served, is read from
\* the verified image of the session it names.
FragmentsOfVerifiedImage ==
    \A m \in rSent : m.cmd = "FRAGMENT" => m.sid = rSession /\ Verified
=============================================================================
