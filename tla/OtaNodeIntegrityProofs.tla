----------------------- MODULE OtaNodeIntegrityProofs ------------------------
(***************************************************************************)
(* The integrity of the node's image for every value of the constants:    *)
(* a set bit, in the live bitmask or in the stored parameters, names a     *)
(* fragment that was written, and a node only reaches PROCESS_COMPLETED    *)
(* or UPDATE_FW with every fragment written and a matching checksum.       *)
(***************************************************************************)
EXTENDS OtaNodeProofs

\* The bytes a running SHA-256 calculation has already consumed, from byte 0
\* up to ota_checksum_calculating_ptr.current_byte_id, belong to fragments
\* that were written, as long as every slice read back intact.
HashedBytesStored ==
    state = "CHECKSUM_CALCULATING" /\ ctx /\ hashedOk
        => SliceFrags(0, cursor) \subseteq stored

\* The inductive invariant behind both theorems.
Safe == BitmaskSound /\ CompletedImageIntact /\ HashedBytesStored
IInv == TypeOK /\ Safe

-----------------------------------------------------------------------------
(* Lemmas about the byte ranges of the checksum calculation.               *)

\* Nothing has been hashed at byte offset 0.
LEMMA NothingHashed == SliceFrags(0, 0) = {}
BY DEF SliceFrags

\* The bytes before c + n are those before c and the n bytes from c.
LEMMA SliceFragsExtend ==
    ASSUME NEW c \in Nat, NEW n \in Nat
    PROVE  SliceFrags(0, c + n) \subseteq SliceFrags(0, c) \cup SliceFrags(c, n)
<1>. SUFFICES ASSUME NEW x \in SliceFrags(0, c + n)
              PROVE  x \in SliceFrags(0, c) \cup SliceFrags(c, n)
  OBVIOUS
<1>1. PICK b \in 0 .. (c + n - 1) : x = b \div FragBytes + 1
  BY DEF SliceFrags
<1>2. CASE b < c
  BY <1>1, <1>2 DEF SliceFrags
<1>3. CASE b >= c
  BY <1>1, <1>3 DEF SliceFrags
<1>. QED
  BY <1>2, <1>3

\* A hash over the whole image, fw_total_byte_count bytes, covers every
\* fragment: the last fragment starts before the last byte.
LEMMA AllFragmentsHashed == 1 .. FragCount \subseteq SliceFrags(0, TotalBytes)
<1>. SUFFICES ASSUME NEW f \in 1 .. FragCount
              PROVE  f \in SliceFrags(0, TotalBytes)
  OBVIOUS
<1>1. FragBytes \in Nat \ {0} /\ FragCount \in Nat \ {0}
      /\ TotalBytes > (FragCount - 1) * FragBytes
  BY FragAssumption
<1>. DEFINE b == (f - 1) * FragBytes
<1>2. b \in Nat /\ b <= (FragCount - 1) * FragBytes
  BY <1>1
<1>3. b \div FragBytes = f - 1
  BY <1>1
<1>. HIDE DEF b
<1>4. b \in 0 .. (0 + TotalBytes - 1)
  BY <1>1, <1>2, ConstantFacts
<1>. QED
  BY <1>3, <1>4 DEF SliceFrags
-----------------------------------------------------------------------------
(* The invariant is inductive.                                             *)

\* A step that leaves the image state, the stored parameters, the written
\* fragments and the hash context alone keeps Safe.
LEMMA CoreUnchanged ==
    ASSUME Safe,
           UNCHANGED <<state, bitmask, fragmentCount, checksumOk, pars, stored,
                       ctx, hashedOk, cursor>>
    PROVE  Safe'
BY DEF Safe, BitmaskSound, CompletedImageIntact, HashedBytesStored

\* ota_delete_process leaves nothing that Safe speaks of, whatever else
\* the step does, as long as it writes no fragment.
LEMMA DeleteKeepsSafe ==
    ASSUME DeleteProcess, UNCHANGED stored
    PROVE  Safe'
BY DEF DeleteProcess, Safe, BitmaskSound, CompletedImageIntact, HashedBytesStored,
       EmptyPars, ParsRec

\* The stored copy a handler writes with the node's current fields keeps
\* the parts of Safe about pars, given the live parts.
LEMMA SnapshotSafe ==
    ASSUME NEW st, NEW bm, NEW S,
           stored \subseteq S,
           bm \cap (1 .. fragmentCount) \subseteq S,
           st \in {"PROCESS_COMPLETED", "UPDATE_FW"}
               => 1 .. fragmentCount \subseteq stored /\ checksumOk
    PROVE  LET p == ParsRec(st, session, devType, fragmentCount, bm, checksumOk)
           IN  /\ p.bitmask \cap (1 .. p.fragmentCount) \subseteq S
               /\ p.state \in {"PROCESS_COMPLETED", "UPDATE_FW"}
                    => 1 .. p.fragmentCount \subseteq S /\ p.checksumOk
BY DEF ParsRec

\* Every step of the node keeps IInv.
LEMMA IInvStep ==
    ASSUME IInv, [Next]_vars
    PROVE  IInv'
<1>. USE DEF otaVars, hashVars, serveVars
<1>1. TypeOK'
  BY TypeStep DEF IInv
<1>. SUFFICES Safe'
  BY <1>1 DEF IInv
<1>0. /\ Safe
      /\ fragmentCount \in {0, FragCount}
      /\ stored \subseteq 1 .. FragCount
      /\ pars \in ParsType
      /\ cursor \in 0 .. TotalBytes
  BY DEF IInv, TypeOK
<1>2. CASE DeleteSession
  BY <1>2, DeleteKeepsSafe DEF DeleteSession
<1>3. ASSUME NEW m \in Inputs, ReceiveStart(m) PROVE Safe'
  <2>1. CASE UNCHANGED <<otaVars, pars, stored, timers, hashVars, serveVars,
                         fwUpdateReceived, gaveUp>>
    BY <1>0, <2>1, CoreUnchanged
  <2>2. CASE /\ state' = "STARTED" /\ bitmask' = InitBitmask(FragCount)
             /\ fragmentCount' = FragCount /\ stored' = {}
             /\ pars' = ParsRec("STARTED", m.sid, m.type, FragCount,
                                InitBitmask(FragCount), m.hashOk)
    <3>1. InitBitmask(FragCount) \cap (1 .. FragCount) = {}
      BY DEF InitBitmask
    <3>. QED
      BY <2>2, <3>1 DEF Safe, BitmaskSound, CompletedImageIntact, HashedBytesStored, ParsRec
  <2>3. CASE DeleteProcess /\ stored' = {}
    BY <2>3 DEF DeleteProcess, Safe, BitmaskSound, CompletedImageIntact, HashedBytesStored,
                  EmptyPars, ParsRec
  <2>. QED
    BY <1>3, <2>1, <2>2, <2>3 DEF ReceiveStart
<1>4. ASSUME NEW m \in Inputs, ReceiveFragment(m) PROVE Safe'
  <2>. DEFINE served == m.sid = session /\ (state \in {"STARTED", "MISSING_FRAGMENTS_REQUESTING"} \/ service)
              valid == m.crcOk /\ m.frag \in 1 .. fragmentCount
              bm == bitmask \cup {m.frag}
  <2>1. UNCHANGED <<fragmentCount, checksumOk>>
    BY <1>4 DEF ReceiveFragment
  <2>2. CASE served /\ valid /\ ~service /\ m.frag \notin bitmask /\ WriteFragment(m.frag)
    <3>1. stored' = stored \cup {m.frag} /\ bitmask' = bm
      BY <2>2 DEF WriteFragment
    <3>2. /\ bm \cap (1 .. fragmentCount) \subseteq stored'
          /\ pars.bitmask \cap (1 .. pars.fragmentCount) \subseteq stored'
          /\ pars.state \in {"PROCESS_COMPLETED", "UPDATE_FW"}
               => 1 .. pars.fragmentCount \subseteq stored' /\ pars.checksumOk
      BY <1>0, <3>1 DEF Safe, BitmaskSound, CompletedImageIntact
    <3>3. state \in {"PROCESS_COMPLETED", "UPDATE_FW"}
            => 1 .. fragmentCount \subseteq stored /\ checksumOk
      BY <1>0 DEF Safe, CompletedImageIntact
    <3>. HIDE DEF bm
    <3>4. \A st \in {state, "CHECKSUM_CALCULATING"} :
            LET p == ParsRec(st, session, devType, fragmentCount, bm, checksumOk)
            IN  /\ p.bitmask \cap (1 .. p.fragmentCount) \subseteq stored'
                /\ p.state \in {"PROCESS_COMPLETED", "UPDATE_FW"}
                     => 1 .. p.fragmentCount \subseteq stored' /\ p.checksumOk
      BY <3>1, <3>2, <3>3, SnapshotSafe
    <3>5. CASE Missing(bm, fragmentCount) = {}
      <4>1. /\ state' = "CHECKSUM_CALCULATING" /\ cursor' = 0
            /\ pars' \in {ParsRec(state, session, devType, fragmentCount, bm, checksumOk),
                           ParsRec("CHECKSUM_CALCULATING", session, devType,
                                   fragmentCount, bm, checksumOk), pars}
        BY <2>2, <3>5 DEF WriteFragment, StoreParameters, StartChecksum, bm
      <4>. QED
        BY <2>1, <3>1, <3>2, <3>4, <4>1, NothingHashed
           DEF Safe, BitmaskSound, CompletedImageIntact, HashedBytesStored
    <3>6. CASE Missing(bm, fragmentCount) # {}
      <4>1. /\ UNCHANGED <<state, ctx, hashedOk, cursor>>
            /\ pars' \in {ParsRec(state, session, devType, fragmentCount, bm, checksumOk), pars}
        BY <2>2, <3>6 DEF WriteFragment, StoreParameters, bm
      <4>. QED
        BY <1>0, <2>1, <3>1, <3>2, <3>3, <3>4, <4>1
           DEF Safe, BitmaskSound, CompletedImageIntact, HashedBytesStored
    <3>. QED
      BY <3>5, <3>6
  <2>3. CASE ~(served /\ valid /\ ~service /\ m.frag \notin bitmask /\ WriteFragment(m.frag))
    <3>1. UNCHANGED <<state, bitmask, pars, stored, hashVars>>
      BY <1>4, <2>3 DEF ReceiveFragment, StoreNewFragment, NoteServedFragment
    <3>. QED
      BY <1>0, <2>1, <3>1, CoreUnchanged
  <2>. QED
    BY <2>2, <2>3
<1>5. ASSUME NEW m \in Inputs, ReceiveAbort(m) PROVE Safe'
  <2>1. CASE m.sid # session
    BY <1>0, <1>5, <2>1, CoreUnchanged DEF ReceiveAbort
  <2>2. CASE m.sid = session
    <3>1. /\ UNCHANGED <<bitmask, fragmentCount, checksumOk, stored, hashedOk>>
          /\ state' \in {state, "ABORTED"}
          /\ state' = state => state \in {"ABORTED", "UPDATE_FW"}
          /\ pars' \in {pars, ParsRec("ABORTED", session, devType, fragmentCount,
                                       bitmask, checksumOk)}
      BY <1>5, <2>2 DEF ReceiveAbort, StoreParameters
    <3>. QED
      BY <1>0, <3>1 DEF Safe, BitmaskSound, CompletedImageIntact, HashedBytesStored, ParsRec
  <2>. QED
    BY <2>1, <2>2
<1>6. ASSUME NEW m \in Inputs, ReceiveEndFragments(m) PROVE Safe'
  <2>1. /\ UNCHANGED <<bitmask, fragmentCount, checksumOk, stored, ctx, hashedOk, cursor>>
        /\ \/ UNCHANGED <<state, pars>>
           \/ /\ state' = "MISSING_FRAGMENTS_REQUESTING"
              /\ pars' \in {pars, ParsRec("MISSING_FRAGMENTS_REQUESTING", session, devType,
                                           fragmentCount, bitmask, checksumOk)}
    BY <1>6 DEF ReceiveEndFragments, StoreParameters
  <2>. QED
    BY <1>0, <2>1 DEF Safe, BitmaskSound, CompletedImageIntact, HashedBytesStored, ParsRec
<1>7. ASSUME NEW m \in Inputs, ReceiveManifest(m) PROVE Safe'
  BY <1>7, DeleteKeepsSafe DEF ReceiveManifest
<1>8. ASSUME NEW m \in Inputs, ReceiveActivate(m) PROVE Safe'
  <2>1. /\ UNCHANGED <<bitmask, fragmentCount, checksumOk, stored, ctx, hashedOk, cursor>>
        /\ \/ UNCHANGED <<state, pars>>
           \/ /\ state \in {"PROCESS_COMPLETED", "UPDATE_FW"}
              /\ state' = "UPDATE_FW"
              /\ pars' \in {pars, ParsRec("UPDATE_FW", session, devType,
                                           fragmentCount, bitmask, checksumOk)}
    BY <1>8 DEF ReceiveActivate, StoreParameters
  <2>. QED
    BY <1>0, <2>1 DEF Safe, BitmaskSound, CompletedImageIntact, HashedBytesStored, ParsRec
<1>9. ASSUME NEW m \in Inputs, ReceiveFragmentsRequest(m) PROVE Safe'
  BY <1>0, <1>9, CoreUnchanged DEF ReceiveFragmentsRequest
<1>10. CASE FireChecksum
  <2>. DEFINE T == timers \ {"CHECKSUM_CALCULATING"}
  <2>1. UNCHANGED <<bitmask, fragmentCount, checksumOk, stored>>
    BY <1>10 DEF FireChecksum
  <2>2. CASE state = "CHECKSUM_CALCULATING" /\ ctx
             /\ \E read \in 0 .. SliceLen(cursor) : HashSlice(T, read)
    <3>1. PICK read \in 0 .. SliceLen(cursor) : HashSlice(T, read)
      BY <2>2
    <3>. DEFINE pushed == SliceLen(cursor)
                ok == hashedOk /\ read = pushed /\ SliceFrags(cursor, pushed) \subseteq stored
                match == ChecksumMatch(ok, cursor + read)
                st == IF match THEN "PROCESS_COMPLETED" ELSE "CHECKSUM_FAILED"
    <3>2. cursor \in Nat /\ read \in Nat
      BY <1>0, <3>1, SliceLenBound
    <3>3. ok => SliceFrags(0, cursor + read) \subseteq stored
      BY <1>0, <2>2, <3>2, SliceFragsExtend DEF Safe, HashedBytesStored
    <3>4. match => 1 .. fragmentCount \subseteq stored /\ checksumOk
      BY <1>0, <3>3, AllFragmentsHashed DEF ChecksumMatch
    <3>5. /\ cursor' = cursor + read
          /\ hashedOk' = ok
          /\ \/ /\ UNCHANGED <<state, pars, ctx>>
             \/ /\ state' = st
                /\ ctx' = FALSE
                /\ pars' \in {pars, ParsRec(st, session, devType, fragmentCount,
                                             bitmask, checksumOk)}
      BY <3>1 DEF HashSlice, StoreParameters
    <3>. HIDE DEF ok, match
    <3>6. st \in {"PROCESS_COMPLETED", "UPDATE_FW"} => 1 .. fragmentCount \subseteq stored /\ checksumOk
      BY <3>4
    <3>7. st \in {"PROCESS_COMPLETED", "CHECKSUM_FAILED"}
      OBVIOUS
    <3>. HIDE DEF st
    <3>8. BitmaskSound'
      BY <1>0, <2>1, <3>5 DEF Safe, BitmaskSound, ParsRec
    <3>9. CompletedImageIntact'
      BY <1>0, <2>1, <3>5, <3>6 DEF Safe, CompletedImageIntact, ParsRec
    <3>10. HashedBytesStored'
      BY <2>1, <2>2, <3>3, <3>5, <3>7 DEF HashedBytesStored
    <3>. QED
      BY <3>8, <3>9, <3>10 DEF Safe
  <2>3. CASE state = "CHECKSUM_CALCULATING" /\ ~ctx
    <3>1. UNCHANGED <<state, pars>> /\ cursor' = 0
      BY <1>10, <2>3 DEF FireChecksum, StartChecksum
    <3>. QED
      BY <1>0, <2>1, <3>1, NothingHashed
         DEF Safe, BitmaskSound, CompletedImageIntact, HashedBytesStored
  <2>4. CASE ~(state = "CHECKSUM_CALCULATING" /\ ~ctx)
             /\ ~(state = "CHECKSUM_CALCULATING" /\ ctx
                   /\ \E read \in 0 .. SliceLen(cursor) : HashSlice(T, read))
    BY <1>0, <1>10, <2>1, <2>4, CoreUnchanged DEF FireChecksum
  <2>. QED
    BY <2>2, <2>3, <2>4
<1>11. CASE FireRequesting \/ FireService \/ FireActivate \/ FireEndFragments
            \/ FireFirmwareReady
  BY <1>0, <1>11, CoreUnchanged
     DEF FireRequesting, FireService, FireActivate, FireEndFragments, FireFirmwareReady
<1>12. CASE FireFallback
  <2>1. /\ UNCHANGED <<bitmask, fragmentCount, checksumOk, stored, ctx, hashedOk, cursor>>
        /\ \/ UNCHANGED <<state, pars>>
           \/ /\ state' = "MISSING_FRAGMENTS_REQUESTING"
              /\ pars' \in {pars, ParsRec("MISSING_FRAGMENTS_REQUESTING", session, devType,
                                           fragmentCount, bitmask, checksumOk)}
    BY <1>12 DEF FireFallback, StoreParameters
  <2>. QED
    BY <1>0, <2>1 DEF Safe, BitmaskSound, CompletedImageIntact, HashedBytesStored, ParsRec
<1>13. CASE Restart
  <2>1. /\ bitmask' = pars.bitmask /\ fragmentCount' = pars.fragmentCount
        /\ checksumOk' = pars.checksumOk /\ UNCHANGED <<pars, stored>>
        /\ state' \in {"PROCESS_COMPLETED", "UPDATE_FW"} => state' = pars.state
        /\ state' = "CHECKSUM_CALCULATING" => cursor' = 0
        /\ state' # "CHECKSUM_CALCULATING" => ctx' = FALSE
    BY <1>13 DEF Restart, StartChecksum
  <2>. QED
    BY <1>0, <2>1, NothingHashed
       DEF Safe, BitmaskSound, CompletedImageIntact, HashedBytesStored
<1>14. CASE UNCHANGED vars
  BY <1>0, <1>14, CoreUnchanged DEF vars
<1>. QED
  BY <1>2, <1>3, <1>4, <1>5, <1>6, <1>7, <1>8, <1>9, <1>10, <1>11, <1>12, <1>13, <1>14
     DEF Next, Receive, Fire

-----------------------------------------------------------------------------
(* The theorems.                                                           *)

\* IInv holds initially: nothing is set, stored or being hashed.
LEMMA InitIInv == Init => IInv
<1>. SUFFICES ASSUME Init PROVE Safe
  BY InitTyped DEF IInv
<1>. QED
  BY DEF Init, Safe, BitmaskSound, CompletedImageIntact, HashedBytesStored,
         EmptyPars, ParsRec

\* The bitmask ota_manage_fragment_command keeps, and the copy
\* ota_lib_configure reloads after a restart, only mark fragments that
\* were written, for every size of image and segment.
THEOREM BitmaskSoundness == Spec => []BitmaskSound
<1>1. Init => IInv
  BY InitIInv
<1>2. IInv /\ [Next]_vars => IInv'
  BY IInvStep
<1>3. IInv => BitmaskSound
  BY DEF IInv, Safe
<1>. QED
  BY <1>1, <1>2, <1>3, PTL DEF Spec

\* A node reports PROCESS_COMPLETED or UPDATE_FW, live or in its stored
\* parameters, only with every fragment written and a matching checksum:
\* ota_manage_whole_fw_checksum_calculating hashes the whole image before
\* it completes, and no restart or later command loses that.
THEOREM ImageIntegrity == Spec => []CompletedImageIntact
<1>1. Init => IInv
  BY InitIInv
<1>2. IInv /\ [Next]_vars => IInv'
  BY IInvStep
<1>3. IInv => CompletedImageIntact
  BY DEF IInv, Safe
<1>. QED
  BY <1>1, <1>2, <1>3, PTL DEF Spec
=============================================================================
