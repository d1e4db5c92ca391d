--------------------------- MODULE OtaDeliveryProofs --------------------------
(***************************************************************************)
(* The FRAGMENTS_DELIVERING loop of the border router (libota.c) keeps to  *)
(* the session and the verified image of the START that began it: proved  *)
(* for the router (module OtaRouter), for every value of the constants,   *)
(* under Disciplined.                                                      *)
(***************************************************************************)
EXTENDS OtaRouter, TLAPS

(* The delivery.  Under Disciplined (the cloud sends a command only while  *)
(* READY is raised) the router's session cannot change under a delivery.  *)
(* DeliveringKeepsSession is not inductive by itself: a FIRMWARE,          *)
(* ota_firmware_pulled or END_FRAGMENTS expiry could break it from states *)
(* no run reaches.  The conjuncts below say which: pulls are of the       *)
(* current session, READY is raised only with no pull pending, and while  *)
(* the checksum runs, a delivery runs or END_FRAGMENTS is pending, there   *)
(* is no pull and READY is down.                                           *)

\* nothing can start a new checksum pass or let the cloud in
Quiet == pulls = {} /\ ~ready /\ "END_FRAGMENTS" \notin rTimers

\* the application pulls only the image of the router's session
PullsOfSession == pulls \subseteq {rSession}

\* READY is raised only when no pull is pending
ReadyIdle == ready => pulls = {}

\* ota_manage_whole_fw_checksum_calculating runs undisturbed
CheckingQuiet == rState = "CHECKSUM_CALCULATING" => Quiet

\* the delivery runs undisturbed
DeliveringQuiet == delivering => Quiet

\* END_FRAGMENTS is pending only after the delivery, with READY down
EndQuiet == "END_FRAGMENTS" \in rTimers => pulls = {} /\ ~ready /\ ~delivering

\* the inductive invariant behind DeliveringKeepsSession
DInv ==
    /\ PullsOfSession /\ ReadyIdle /\ CheckingQuiet /\ DeliveringQuiet
    /\ EndQuiet /\ DeliveringKeepsSession

\* What a step of the checksum routine does to the state, the timers and the
\* delivery: a delivery it begins is of the router's session, whose pulled
\* image matched.
ChecksumMoves(T, P) ==
    /\ rState' \in {"CHECKSUM_CALCULATING", "PROCESS_COMPLETED", "CHECKSUM_FAILED"}
    /\ rTimers' \subseteq T \cup {"CHECKSUM_CALCULATING", "FRAGMENTS_DELIVERING"}
    /\ delivering' # delivering =>
          /\ deliverSid' = rSession /\ rState' = "PROCESS_COMPLETED"
          /\ rChecksumOk /\ rHashSid' = rSession /\ rSession \in P

\* Hashing a slice moves as ChecksumMoves says.
LEMMA HashSliceMoves ==
    ASSUME NEW T, NEW P, NEW read, RHashSlice(T, P, read)
    PROVE  ChecksumMoves(T, P)
<1>. DEFINE pushed == RSliceLen(rCursor)
            ok == rHashSid = rSession /\ rSession \in P /\ read = pushed
            match == RChecksumMatch(ok, rCursor + read)
            fin == rCursor + read = RTotal \/ read # pushed
<1>1. CASE fin /\ match
  <2>1. rState' = "PROCESS_COMPLETED" /\ rHashSid' = rSession /\ SendStart(T)
    BY <1>1 DEF RHashSlice, RChecksumMatch
  <2>2. rChecksumOk /\ rSession \in P
    BY <1>1 DEF RChecksumMatch
  <2>. QED
    BY <2>1, <2>2 DEF SendStart, ChecksumMoves
<1>2. CASE fin /\ ~match
  BY <1>2 DEF RHashSlice, ChecksumMoves
<1>3. CASE ~fin
  BY <1>3 DEF RHashSlice, ChecksumMoves
<1>. QED
  BY <1>1, <1>2, <1>3

\* A step of the checksum routine moves as ChecksumMoves says.
LEMMA ChecksumStepMoves ==
    ASSUME NEW T, NEW P, RChecksumStep(T, P)
    PROVE  ChecksumMoves(T, P)
<1>1. CASE \E read \in 0 .. RSliceLen(rCursor) : RHashSlice(T, P, read)
  BY <1>1, HashSliceMoves
<1>. QED
  BY <1>1 DEF RChecksumStep, ChecksumMoves

\* A step that keeps what DInv reads, and whether END_FRAGMENTS is
\* pending, keeps DInv.
LEMMA DInvFrame ==
    ASSUME DInv,
           UNCHANGED <<rState, rSession, rChecksumOk, delivering, rHashSid, ready,
                       pulls, pulled, deliverSid>>,
           ("END_FRAGMENTS" \in rTimers') = ("END_FRAGMENTS" \in rTimers)
    PROVE  DInv'
BY DEF DInv, PullsOfSession, ReadyIdle, CheckingQuiet, DeliveringQuiet, Quiet,
   EndQuiet, DeliveringKeepsSession, Verified

\* ota_delete_process, once no pull is left, establishes DInv.
LEMMA DeletedDInv ==
    ASSUME NEW D, Deleted(D), pulls' = {}
    PROVE  DInv'
BY DEF Deleted, DInv, PullsOfSession, ReadyIdle, CheckingQuiet, DeliveringQuiet,
   EndQuiet, DeliveringKeepsSession

\* the cloud's commands find no pull, no delivery and no END_FRAGMENTS
LEMMA CloudQuiet ==
    ASSUME Disciplined, DInv, CloudMaySend
    PROVE  pulls = {} /\ ~delivering /\ "END_FRAGMENTS" \notin rTimers
BY DEF CloudMaySend, DInv, ReadyIdle, DeliveringQuiet, Quiet, EndQuiet

\* A malformed LwM2M command, allowed only under READY, deletes the session
\* with no pull pending.
LEMMA MalformedDInv ==
    ASSUME Disciplined, DInv, Lwm2mMalformed
    PROVE  DInv'
<1>1. pulls = {}
  BY CloudQuiet DEF Lwm2mMalformed
<1>2. pulls' = {}
  BY <1>1 DEF Lwm2mMalformed, Deleted
<1>. QED
  BY <1>2, DeletedDInv DEF Lwm2mMalformed

\* FIRMWARE, allowed only under READY, either deletes a session with no
\* pull pending or starts the pull of the new session with READY down.
LEMMA FirmwareDInv ==
    ASSUME Disciplined, DInv, NEW s \in Session, NEW h \in BOOLEAN,
           Lwm2mFirmware(s, h)
    PROVE  DInv'
<1>1. pulls = {} /\ ~delivering /\ "END_FRAGMENTS" \notin rTimers
  BY CloudQuiet DEF Lwm2mFirmware
<1>2. CASE \E D : Deleted(D)
  <2>1. PICK D : Deleted(D)
    BY <1>2
  <2>2. pulls' = {}
    BY <1>1, <2>1 DEF Deleted
  <2>. QED
    BY <2>1, <2>2, DeletedDInv
<1>3. CASE /\ rState' = "STARTED" /\ rSession' = s /\ ready' = FALSE
           /\ pulls' = pulls \cup {s}
           /\ UNCHANGED <<rTimers, delivering>>
  BY <1>1, <1>3 DEF DInv, PullsOfSession, ReadyIdle, CheckingQuiet,
     DeliveringQuiet, EndQuiet, DeliveringKeepsSession
<1>. QED
  BY <1>2, <1>3 DEF Lwm2mFirmware

\* MANIFEST and ACTIVATE, allowed only under READY, delete a session or add
\* a process with READY down; neither finds a pull or a delivery.
LEMMA RelayDInv ==
    ASSUME Disciplined, DInv, NEW s \in Session, NEW msg, NEW del \in BOOLEAN,
           Relay(s, msg, del)
    PROVE  DInv'
<1>1. pulls = {} /\ ~delivering /\ "END_FRAGMENTS" \notin rTimers
  BY CloudQuiet DEF Relay
<1>2. CASE \E D : Deleted(D)
  <2>1. PICK D : Deleted(D)
    BY <1>2
  <2>2. pulls' = {}
    BY <1>1, <2>1 DEF Deleted
  <2>. QED
    BY <2>1, <2>2, DeletedDInv
<1>3. CASE /\ NewProcess(s)
           /\ rTimers' = (IF del THEN {} ELSE rTimers) \cup {"MULTICAST_MESSAGE_SENT"}
           /\ delivering' = (delivering /\ ~del)
           /\ pulls' = IF del THEN pulls \ {rSession} ELSE pulls
  <2>1. pulls' = {} /\ ~delivering' /\ ~ready' /\ rState' = "IDLE"
    BY <1>1, <1>3 DEF NewProcess
  <2>2. "END_FRAGMENTS" \notin rTimers'
    BY <1>1, <1>3
  <2>. QED
    BY <2>1, <2>2 DEF DInv, PullsOfSession, ReadyIdle, CheckingQuiet,
       DeliveringQuiet, EndQuiet, DeliveringKeepsSession
<1>. QED
  BY <1>2, <1>3 DEF Relay

\* ota_firmware_pulled ends the only pull, of the router's session, which
\* found READY down, no delivery and no END_FRAGMENTS; a delivery the
\* checksum routine begins is of that session's verified image.
LEMMA PulledDInv ==
    ASSUME DInv, NEW p \in Session, FirmwarePulled(p)
    PROVE  DInv'
<1>1. p = rSession /\ pulls' = {}
  BY DEF FirmwarePulled, DInv, PullsOfSession
<1>2. ~ready /\ ~delivering /\ "END_FRAGMENTS" \notin rTimers
  BY DEF FirmwarePulled, DInv, ReadyIdle, DeliveringQuiet, Quiet, EndQuiet
<1>3. ChecksumMoves(rTimers, pulled')
  BY ChecksumStepMoves DEF FirmwarePulled
<1>4. UNCHANGED <<rSession, rChecksumOk, ready>>
  BY DEF FirmwarePulled
<1>5. "END_FRAGMENTS" \notin rTimers' /\ rState' # "IDLE"
  BY <1>2, <1>3 DEF ChecksumMoves
<1>6. delivering' => rSession' = deliverSid' /\ Verified'
  BY <1>2, <1>3, <1>4 DEF ChecksumMoves, Verified
<1>. QED
  BY <1>1, <1>2, <1>4, <1>5, <1>6 DEF DInv, PullsOfSession, ReadyIdle,
     CheckingQuiet, DeliveringQuiet, Quiet, EndQuiet, DeliveringKeepsSession

\* ota_delete_session of the router's session abandons its pull.
LEMMA DeleteSessionDInv ==
    ASSUME DInv, NEW s \in Session, RDeleteSession(s)
    PROVE  DInv'
<1>1. pulls' = {}
  BY DEF RDeleteSession, Deleted, DInv, PullsOfSession
<1>. QED
  BY <1>1, DeletedDInv DEF RDeleteSession

\* a FRAGMENTS_REQUEST or a served FRAGMENT touches the serve loop only
LEMMA ReceiveDInv ==
    ASSUME DInv, NEW m, RReceive(m)
    PROVE  DInv'
<1>1. CASE RReceiveFragmentsRequest(m)
  BY <1>1, DInvFrame DEF RReceiveFragmentsRequest, rOtaVars, rHashVars
<1>2. CASE RReceiveServedFragment(m)
  <2>1. UNCHANGED <<rState, rSession, rChecksumOk, delivering, rHashSid, ready,
                    pulls, pulled, deliverSid>>
    BY <1>2 DEF RReceiveServedFragment, rOtaVars, rHashVars
  <2>2. \/ rTimers' = rTimers \cup {"FRAGMENTS_REQUEST_SERVICE"}
        \/ rTimers' = rTimers \ {"FRAGMENTS_REQUEST_SERVICE"}
    BY <1>2 DEF RReceiveServedFragment
  <2>3. ("END_FRAGMENTS" \in rTimers') = ("END_FRAGMENTS" \in rTimers)
    BY <2>2
  <2>. QED
    BY <2>1, <2>3, DInvFrame
<1>. QED
  BY <1>1, <1>2 DEF RReceive

\* CHECKSUM_CALCULATING expiry: outside CHECKSUM_CALCULATING only the timer
\* goes; in it, no delivery runs (Verified needs PROCESS_COMPLETED) and a
\* delivery the routine begins is of the verified image.
LEMMA FireChecksumDInv ==
    ASSUME DInv, RFireChecksum
    PROVE  DInv'
<1>. DEFINE T == rTimers \ {"CHECKSUM_CALCULATING"}
<1>1. UNCHANGED <<rSession, rChecksumOk, ready, pulls, pulled>>
  BY DEF RFireChecksum
<1>2. CASE rState # "CHECKSUM_CALCULATING" /\ rTimers' = T
           /\ UNCHANGED <<rState, rHashVars, delivering, deliverSid>>
  BY <1>1, <1>2, DInvFrame DEF rHashVars
<1>3. CASE rState = "CHECKSUM_CALCULATING" /\ RChecksumStep(T, pulled)
  <2>1. pulls = {} /\ ~ready /\ "END_FRAGMENTS" \notin rTimers /\ ~delivering
    BY <1>3 DEF DInv, CheckingQuiet, Quiet, DeliveringKeepsSession, Verified
  <2>2. ChecksumMoves(T, pulled)
    BY <1>3, ChecksumStepMoves
  <2>3. "END_FRAGMENTS" \notin rTimers'
    BY <2>1, <2>2 DEF ChecksumMoves
  <2>4. delivering' => rSession' = deliverSid' /\ Verified'
    BY <1>1, <2>1, <2>2 DEF ChecksumMoves, Verified
  <2>. QED
    BY <1>1, <2>1, <2>3, <2>4 DEF DInv, PullsOfSession, ReadyIdle,
       CheckingQuiet, DeliveringQuiet, Quiet, EndQuiet, DeliveringKeepsSession
<1>. QED
  BY <1>2, <1>3 DEF RFireChecksum

\* FRAGMENTS_DELIVERING expiry: a fragment keeps everything DInv reads; the
\* end of the delivery arms END_FRAGMENTS with no pull and READY down.
LEMMA FireDeliveringDInv ==
    ASSUME DInv, RFireDelivering
    PROVE  DInv'
<1>1. UNCHANGED <<rState, rSession, rChecksumOk, rHashSid, ready, pulls, pulled,
                  deliverSid>>
  BY DEF RFireDelivering, rOtaVars, rHashVars
<1>2. CASE ~delivering /\ rTimers' = rTimers \ {"FRAGMENTS_DELIVERING"}
           /\ UNCHANGED delivering
  BY <1>1, <1>2, DInvFrame
<1>3. CASE UNCHANGED <<rTimers, delivering>>
  BY <1>1, <1>3, DInvFrame
<1>4. CASE /\ delivering
           /\ rTimers' = (rTimers \ {"FRAGMENTS_DELIVERING"}) \cup {"END_FRAGMENTS"}
           /\ delivering' = FALSE
  <2>1. pulls = {} /\ ~ready /\ rState = "PROCESS_COMPLETED"
    BY <1>4 DEF DInv, DeliveringQuiet, Quiet, DeliveringKeepsSession, Verified
  <2>. QED
    BY <1>1, <1>4, <2>1 DEF DInv, PullsOfSession, ReadyIdle, CheckingQuiet,
       DeliveringQuiet, EndQuiet, DeliveringKeepsSession
<1>. QED
  BY <1>2, <1>3, <1>4 DEF RFireDelivering

\* END_FRAGMENTS expiry raises READY with no pull pending, outside
\* CHECKSUM_CALCULATING and with no delivery.
LEMMA FireEndFragmentsDInv ==
    ASSUME DInv, RFireEndFragments
    PROVE  DInv'
<1>1. pulls = {} /\ ~delivering /\ rState # "CHECKSUM_CALCULATING"
  BY DEF RFireEndFragments, DInv, EndQuiet, CheckingQuiet, Quiet
<1>. QED
  BY <1>1 DEF RFireEndFragments, rOtaVars, DInv, PullsOfSession, ReadyIdle,
     CheckingQuiet, DeliveringQuiet, EndQuiet, DeliveringKeepsSession

\* MULTICAST_MESSAGE_SENT expiry deletes the router's session and its pull.
LEMMA FireMessageSentDInv ==
    ASSUME DInv, RFireMessageSent
    PROVE  DInv'
<1>1. pulls' = {}
  BY DEF RFireMessageSent, Deleted, DInv, PullsOfSession
<1>. QED
  BY <1>1, DeletedDInv DEF RFireMessageSent

\* FRAGMENTS_REQUEST_SERVICE expiry touches the serve loop only.
LEMMA FireServiceDInv ==
    ASSUME DInv, RFireService
    PROVE  DInv'
BY DInvFrame DEF RFireService, rOtaVars, rHashVars

\* Under Disciplined every step keeps DInv.
LEMMA DInvStep ==
    ASSUME Disciplined, DInv, [RNext]_rVars
    PROVE  DInv'
<1>1. CASE Lwm2mMalformed
  BY <1>1, MalformedDInv
<1>2. CASE \E s \in Session, h \in BOOLEAN : Lwm2mFirmware(s, h)
  BY <1>2, FirmwareDInv
<1>3. CASE \E s \in Session : Lwm2mManifest(s) \/ Lwm2mActivate(s)
  BY <1>3, RelayDInv DEF Lwm2mManifest, Lwm2mActivate
<1>4. CASE \E p \in Session : FirmwarePulled(p)
  BY <1>4, PulledDInv
<1>5. CASE \E s \in Session : RDeleteSession(s)
  BY <1>5, DeleteSessionDInv
<1>6. CASE \E m \in RouterInputs : RReceive(m)
  BY <1>6, ReceiveDInv
<1>7. CASE RFire
  BY <1>7, FireChecksumDInv, FireDeliveringDInv, FireEndFragmentsDInv,
     FireMessageSentDInv, FireServiceDInv DEF RFire
<1>8. CASE UNCHANGED rVars
  BY <1>8 DEF rVars, rOtaVars, rHashVars, DInv, PullsOfSession, ReadyIdle,
     CheckingQuiet, DeliveringQuiet, Quiet, EndQuiet, DeliveringKeepsSession,
     Verified
<1>. QED
  BY <1>1, <1>2, <1>3, <1>4, <1>5, <1>6, <1>7, <1>8 DEF RNext

\* When the cloud sends its commands only while the router has raised READY
\* (Disciplined), the FRAGMENTS_DELIVERING loop never multicasts a fragment
\* of another session: while ota_fw_delivering holds, the router's session
\* is the one whose START began the delivery and its image is the verified
\* one, whatever the order of ota_firmware_pulled, ota_delete_session,
\* FRAGMENTS_REQUEST and the timer expiries.
THEOREM DeliveringVerified ==
    ASSUME Disciplined
    PROVE  RSpec => []DeliveringKeepsSession
<1>1. RInit => DInv
  BY DEF RInit, DInv, PullsOfSession, ReadyIdle, CheckingQuiet, DeliveringQuiet,
     EndQuiet, DeliveringKeepsSession
<1>2. DInv /\ [RNext]_rVars => DInv'
  BY DInvStep
<1>3. DInv => DeliveringKeepsSession
  BY DEF DInv
<1>. QED
  BY <1>1, <1>2, <1>3, PTL DEF RSpec
=============================================================================
