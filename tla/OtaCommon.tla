------------------------------ MODULE OtaCommon ------------------------------
(***************************************************************************)
(* What the node and the border-router roles of the multicast OTA library  *)
(* (src/update-client-hub/modules/multicast/libota.c) share: the image     *)
(* and bitmask geometry, the protocol states, the wire commands and the    *)
(* helpers of the recovery protocol that both roles run.                   *)
(***************************************************************************)
EXTENDS Naturals, FiniteSets

CONSTANTS
    Session,      \* session ids a command may carry
    NoSession,    \* the all-zero session id of ota_parameters after memset
    FragCount,    \* fw_fragment_count announced by START
    FragBytes,    \* fw_fragment_byte_count announced by START
    TotalBytes,   \* fw_total_byte_count announced by START
    SliceBytes,   \* OTA_CHECKSUM_CALCULATING_BYTE_COUNT
    ByteBits,     \* bits per bitmask byte
    SegBytes,     \* OTA_FRAGMENTS_REQ_BITMASK_LENGTH
    MaxRestarts   \* bound on device restarts in one behaviour

ASSUME SessionAssumption == NoSession \notin Session
ASSUME FragAssumption ==
    /\ FragCount \in Nat \ {0}
    /\ FragBytes \in Nat \ {0}
    /\ TotalBytes \in ((FragCount - 1) * FragBytes + 1) .. (FragCount * FragBytes)
ASSUME SizeAssumption ==
    /\ SliceBytes \in Nat \ {0}
    /\ ByteBits \in Nat \ {0}
    /\ SegBytes \in Nat \ {0}
    /\ MaxRestarts \in Nat

DevTypes == {"node", "router"}

\* ota_ota_states_e (OTA_STATE_INVALID is never assigned by the library)
States == {"IDLE", "STARTED", "MANIFEST_RECEIVED", "MISSING_FRAGMENTS_REQUESTING",
           "CHECKSUM_CALCULATING", "CHECKSUM_FAILED", "PROCESS_COMPLETED",
           "UPDATE_FW", "ABORTED"}

SegSize == SegBytes * ByteBits                     \* OTA_SEGMENT_SIZE
SegCountOf(fc) == (fc + SegSize - 1) \div SegSize  \* fw_segment_count
PositionsOf(fc) == 1 .. (SegCountOf(fc) * SegSize) \* bits of the bitmask
Positions == PositionsOf(FragCount)
SegPositions(s) == ((s - 1) * SegSize + 1) .. (s * SegSize)
SegOf(f) == (f - 1) \div SegSize + 1
Lesser(a, b) == IF a < b THEN a ELSE b
Least(S) == CHOOSE x \in S : \A y \in S : x <= y

\* ota_get_next_missing_fragment_id_for_requester: the lowest fragment of
\* the requested segment that the requester lacks, 0 when there is none.
RequesterMissing(seg, mask, fc) == {f \in SegPositions(seg) : f <= fc /\ f \notin mask}
NextMissingForRequester(seg, mask, fc) ==
    IF seg = 0 \/ RequesterMissing(seg, mask, fc) = {} THEN 0
    ELSE Least(RequesterMissing(seg, mask, fc))

\* fragments covered by the checksum slice of n bytes at byte offset c
SliceFrags(c, n) == {b \div FragBytes + 1 : b \in c .. (c + n - 1)}

\* commands on the wire (frame: cmd_id || session_id || payload)
Msgs ==
         [cmd : {"START"}, sid : Session, type : DevTypes, hashOk : BOOLEAN]
    \cup [cmd : {"FRAGMENT"}, sid : Session \cup {NoSession},
          frag : 1 .. FragCount, crcOk : BOOLEAN]
    \cup [cmd : {"END_FRAGMENTS", "ABORT", "MANIFEST"}, sid : Session \cup {NoSession}]
    \cup [cmd : {"ACTIVATE"}, sid : Session, type : DevTypes]
    \cup [cmd : {"FRAGMENTS_REQUEST"}, sid : Session \cup {NoSession},
          seg : 0 .. SegCountOf(FragCount), mask : SUBSET Positions]
=============================================================================
