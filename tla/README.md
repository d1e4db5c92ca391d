# Verification of the multicast OTA library

This directory holds a TLA+ model of the multicast over-the-air update library
`src/update-client-hub/modules/multicast/libota.c` (1788 lines), in both its
node and its border-router role and in a composition of the two. A second,
smaller part models the callback storage of the client
(`src/mbed-client/source/m2mcallbackstorage.cpp`). It also holds
TLC configurations that check the model on small instances and TLAPS proofs of
its main safety properties for every value of the constants. `PROJECT.json`
lists the components, the runs, the mutants and the definition-to-source map.
It also lists the findings, the hazards and the theorems.

## The system

`libota.c` runs on two kinds of device in a mesh network.

* **The border router** receives LwM2M commands from the cloud
  (`ota_lwm2m_command`). It multicasts START, the FRAGMENTs of the image,
  END_FRAGMENTS, MANIFEST, ACTIVATE and ABORT. It uses timers for this:
  FRAGMENTS_DELIVERING and MULTICAST_MESSAGE_SENT.
* **A node** receives those commands on a UDP socket
  (`ota_socket_receive_data`). It writes each fragment through
  `write_fw_bytes_fptr` and records it in a bitmask of received fragments.
  It persists its parameters through `store_parameters_fptr`.
  * After END_FRAGMENTS, or when the FALLBACK timer expires, it requests
    missing fragments segment by segment (FRAGMENTS_REQUEST).
  * It serves other nodes' requests from its own stored fragments
    (`ota_fragments_request_service`).
  * When the bitmask is complete, it hashes the whole image with SHA-256 in
    slices of `OTA_CHECKSUM_CALCULATING_BYTE_COUNT` bytes. Each slice runs in
    one expiry of the CHECKSUM_CALCULATING timer. It then compares the result
    with the checksum announced by START.
  * On a match it reaches PROCESS_COMPLETED and reports the image ready
    (FIRMWARE_READY timer, then `firmware_ready_fptr`). ACTIVATE then moves it
    to UPDATE_FW.
  * After a power loss, `ota_lib_configure` reloads the stored parameters. It
    re-arms the timer of the stored phase and, when every fragment is
    present, resumes checksumming.

The application supplies everything else through function pointers: memory,
storage, timers, sockets and callbacks. The model treats each such call as an
environment step that may fail whenever the code checks its result.

## The modules

| module | role |
|---|---|
| `OtaCommon.tla` | Constants, assumptions and helpers both roles use: sessions, sizes, bitmask positions and segments, the message set. |
| `OtaNode.tla` | The node role. One action per handler, with every state change the handler makes. |
| `MC_OtaNode.tla` | Instantiates `OtaNode` for TLC: two session ids as model values, and symmetry over them. |
| `OtaNodeProofs.tla` | Lemmas about the bitmask and segment operators, and the proof of `TypeCorrect`. |
| `OtaNodeIntegrityProofs.tla` | The inductive invariant `IInv`, and the proofs of `BitmaskSoundness` and `ImageIntegrity`. |
| `OtaRouter.tla` | The border-router role: one action per LwM2M command, timer expiry and received command of a router. |
| `MC_OtaRouter.tla` | Instantiates `OtaRouter` for TLC with two sessions and symmetry. |
| `OtaNodeServeProofs.tla` | The strengthening `PInv` of `IInv`, and the proofs of `ServeStored` and `TimersArmed`. |
| `OtaRouterProofs.tla` | Proof of `RouterTypeCorrect` for the router. |
| `OtaDeliveryProofs.tla` | The inductive invariant `DInv` of the delivery, and the proof of `DeliveringVerified` for the router. |
| `OtaSystemProofs.tla` | The proof of `SysTypeCorrect` for the composed system, through an instance of the node's and the router's proof modules. |
| `OtaSystem.tla` | The router and one node (an `INSTANCE` of `OtaNode`) over a lossy network, with fairness. |
| `MC_OtaSystem.tla` | Instantiates `OtaSystem` with one session. |
| `CallbackStorage.tla` | `M2MCallbackStorage`: the Vector of associations and every call on it. |
| `CallbackRegistry.tla` | The abstract registry the storage promises: one callback per object and type. |
| `MC_CallbackStorage.tla` | Instantiates `CallbackStorage` for TLC. |
| `CallbackStorageProofs.tla` | Proofs of type correctness, `RemoveNullSound`, `RemoveClears` and the refinement. |

### State of `OtaNode`

| variable | code |
|---|---|
| `state`, `session`, `devType`, `fragmentCount`, `bitmask`, `checksumOk` | The fields of `ota_parameters` that control the protocol. `checksumOk` abstracts "the announced `whole_fw_checksum` is the digest of the image". |
| `pars` | The copy last handed to `store_parameters_fptr`, which `ota_lib_configure` reloads after a restart. |
| `stored` | The fragments whose bytes were completely written by `write_fw_bytes_fptr` for the current image. |
| `timers` | The pending timers (`request_timer_fptr` / `cancel_timer_fptr`). |
| `ctx`, `cursor`, `hashedOk` | `ota_checksum_calculating_ptr`. `ctx` records whether the SHA context is allocated and `cursor` is `current_byte_id`. `hashedOk` records whether every byte fed to the hash so far was the image's. |
| `service`, `serviceSeg`, `serviceMask` | `ota_fragments_request_service` and the requested segment with its bitmask. |
| `fwUpdateReceived` | `ota_fw_update_received`. |
| `sent`, `cb` | Observations only: the commands the node sent and the application callbacks it made. |
| `activateSid`, `gaveUp` | Observations only: the session of the ACTIVATE that moved the node to UPDATE_FW, and whether an ACTIVATE cancelled the recovery timers. |
| `restarts` | Counts the modelled power losses, up to `MaxRestarts`. |

### Actions of `OtaNode`

* **Commands (`Receive`).** There is one action per command handler:
  `ReceiveStart`, `ReceiveFragment`, `ReceiveAbort`, `ReceiveEndFragments`,
  `ReceiveManifest`, `ReceiveActivate` and `ReceiveFragmentsRequest`. Their
  input comes from `Inputs`, which includes fragments with a bad CRC, foreign
  sessions and foreign device types.
  * `ReceiveFragment` stores a new fragment through `StoreNewFragment`. A
    short write marks nothing. A complete write is `WriteFragment`: it sets the
    bit, stores the parameters, and either starts checksumming or re-arms
    FALLBACK. When a request service is running, `NoteServedFragment` records
    the fragment in the requester's mask instead.
* **Timer expiries (`Fire`).** There is one action per timer:
  `FireChecksum`, `FireRequesting`, `FireService`, `FireFallback`,
  `FireActivate`, `FireEndFragments` and `FireFirmwareReady`.
  * `FireChecksum` allocates the context (`StartChecksum`), or hashes one
    slice (`HashSlice`, with a short read as an alternative), or finishes the
    pass (`ChecksumMatch`).
* **Other actions.** `DeleteSession` models `ota_delete_session`, which calls
  `ota_delete_process`. `Restart` is a power loss followed by
  `ota_lib_configure`.
* **Trailing calls are part of the action.** A handler's trailing
  `ota_store_parameters_fptr` is modelled by `StoreParameters`. The stored copy
  becomes one of the snapshots the handler writes, or stays unchanged when
  storing fails. The re-arming of a timer is also part of its action.

The data abstraction:
* Firmware bytes are not represented. Only which fragments were written is
  kept, plus the booleans for the digest.
* The bitmask is the set of positions whose bit is 1. The bitmask is laid out
  in segments of `SegBytes` bytes of `ByteBits` bits, so the padding bits past
  `fw_fragment_count` exist as in the code.
* CRC checks of received fragments are an input flag.
* Status-resource strings and logging are omitted.

## The border router (`OtaRouter`)

A router in `libota.c` shares `ota_parameters` with the node code, but most of
its fields stay zero: `ota_border_router_manage_command` fills only the session,
the sizes and the checksum, and the router never allocates a fragment bitmask.

| variable | code |
|---|---|
| `rState`, `rSession`, `rFragCount`, `rChecksumOk` | The router's `ota_parameters`. `rChecksumOk` abstracts "the checksum in the FIRMWARE command is the digest of the image at the pull URL". |
| `rTimers` | The pending router timers. |
| `delivering`, `current` | `ota_fw_delivering` and `ota_fw_deliver_current_fragment_id`. |
| `rCtx`, `rCursor` | The SHA context and `current_byte_id` of `ota_checksum_calculating_ptr`. |
| `rService`, `rServiceSeg`, `rServiceMask` | The serve loop for a node's FRAGMENTS_REQUEST. |
| `ready` | The MULTICAST_READY resource. |
| `pulls`, `pulled` | The sessions whose image the application was asked to pull and has pulled (`ota_firmware_pulled`). |
| `rHashSid`, `deliverSid`, `rSent` | Observations: the session whose image the hash context holds, the session the delivery started for, and what the last step multicast. |

The actions:
* `Lwm2mFirmware`, `Lwm2mManifest`, `Lwm2mActivate` and `Lwm2mMalformed`
  are `ota_lwm2m_command` with `ota_border_router_manage_command`. Each has
  the outcomes of its failing calls (`store_new_ota_process_fptr`, the URL
  allocation, `start_received_fptr`, the socket send). `NewProcess` is
  `ota_add_new_process` and `Deleted` is `ota_delete_process`.
* `FirmwarePulled` is `ota_firmware_pulled`, which starts the checksum pass.
  `RChecksumStep` and `RHashSlice` are the router half of
  `ota_manage_whole_fw_checksum_calculating`. On a match `SendStart`
  multicasts START and arms the delivery.
* `RFireDelivering`, `RFireEndFragments`, `RFireMessageSent`, `RFireService`
  and `RFireChecksum` are the router branches of `ota_timer_expired`.
* `RReceiveFragmentsRequest` and `RReceiveServedFragment` are the commands a
  router acts on when they come from the mesh.

The cloud is the environment. `Disciplined` chooses between a cloud that sends
any command at any time and one that starts a session only while READY is 1,
which is what READY is for (spec, line 207). A pull is abandoned when its
session is deleted, because the application's pull is tied to the session.

## The composition (`OtaSystem`)

`OtaSystem` extends `OtaRouter` and instantiates `OtaNode` with the node's
variables (`nState` stands for the node's `state`). Every router step puts
what it multicast into `toNode`. Every node step puts what it sent into
`toRouter`. `ToNode` and `ToRouter` receive a datagram in flight, and `Lose`
drops one, so datagrams may be delayed, reordered and lost. The cloud sends
FIRMWARE while the router has no session. The application pulls the image
and never deletes the session. The node never restarts (`MaxRestarts = 0`).

`SysView` leaves out `rSent`, `sent` and `cb`, which every step assigns and no
step reads, and `pars`, which only `Restart` reads. States that differ only in
these have the same futures, so the view loses no behaviour, and it makes the
liveness run small.

## Runs

All runs use `FragCount = 3`, `FragBytes = 2`, `TotalBytes = 5`,
`SliceBytes = 3`, `ByteBits = 2`, `SegBytes = 1` and `MaxRestarts = 1`, with two
sessions. Each bound makes an edge case reachable:
* The last fragment is short (5 bytes in fragments of 2).
* A slice of 3 bytes crosses fragment boundaries, and the last slice is
  clipped.
* Segments of 2 fragments give two segments and one padding bit. This
  exercises `ota_init_fragments_bit_mask` and the whole-byte walk of
  `ota_get_missing_fragment_total_count`.
* One restart may fall between any two handler steps.
* Two sessions allow a foreign command.

Only one restart is allowed, to keep the runs within a few minutes. No property
here needs two restarts to be violated, because every handler's effect on the
stored copy is already reached with one.

| run | expect | what it shows |
|---|---|---|
| `node_safety` | pass (1.16 M distinct states) | `TypeOK`; `BitmaskSound`, a set bit, live or stored, means the fragment was completely written; `CompletedImageIntact`, PROCESS_COMPLETED / UPDATE_FW (live or stored) imply the whole image is stored and verified; `ServeOnlyStored`, the request service sends only stored fragments; `ProgressArmed`, CHECKSUM_CALCULATING and STARTED always have their timer pending |
| `node_requesting_stall` | violation | `RequestingArmed` fails. A restart in MISSING_FRAGMENTS_REQUESTING arms only the requesting timer. If `ota_request_missing_fragments` then fails its allocation, it returns without re-arming, and the node waits forever. |
| `node_foreign_activate` | violation | `ActivateOwnSession` fails. `ota_manage_update_fw_command` never compares the session id. |
| `node_idle_rejects_start` | violation | `IdleAcceptsStart` fails. After a START whose storing fails, `ota_delete_process` leaves `device_type` set, and every later START is ignored. |
| `node_ready_after_abort` | violation | `FirmwareReadyOnlyWhenComplete` fails. ABORT cancels no timer, so `firmware_ready_fptr` is called for an aborted image. |

For each property of `node_safety`, `PROJECT.json` names a mutant: a plausible
bug in the mapped definition, which TLC then catches. The mutants are:
* an unclipped last slice;
* an off-by-one in the initial bitmask;
* a digest comparison that is ignored;
* a request service not cleared on delete;
* an allocation failure not retried;
* a requester bitmask whose bits are not tested.

The four violation runs are findings against the code, described in
`PROJECT.json`.

The router and system runs use `FragCount = 2`, `FragBytes = 2`,
`TotalBytes = 3`, `ByteBits = 2`, `SegBytes = 1` and `MaxRestarts = 0`. The
router runs use `SliceBytes = 2`, so the checksum pass takes a clipped second
slice. The system run uses one slice. Two fragments are the fewest for which a
push can lose one fragment and deliver the other, and for which the serve loop
sends more than one fragment.

| run | expect | what it shows |
|---|---|---|
| `router_safety` | pass (4,392 distinct states) | `RTypeOK` and `DeliveringKeepsSession` with a disciplined cloud, which sends any command at any time READY is 1: the delivery loop only runs for the session whose image it verified. |
| `router_new_session_mid_delivery` | violation | `DeliveringKeepsSession` with an undisciplined cloud. The guard in `ota_add_new_process` is dead because of the `memset` after `process_count++`. A FIRMWARE accepted mid-delivery replaces the session, and the delivery goes on. |
| `router_serve_after_ready` | violation | `FragmentsOfVerifiedImage` fails even with a disciplined cloud. READY is raised while a serve loop runs, and the loop survives `ota_add_new_process`. It multicasts fragments of an unverified new session. |
| `system_liveness` | pass (11 k distinct states in the view) | `NodeDownloadTerminates`: a node that received START reaches PROCESS_COMPLETED or CHECKSUM_FAILED, whatever datagrams are lost. |

Each router mutant is caught by its property. The mutants are an unclipped
slice, a digest compared whatever was hashed, START multicast after a failed digest, a delivery
loop one fragment too long, and a request bitmask read with the
wrong polarity.

## The callback storage (`CallbackStorage`)

`M2MCallbackStorage` is a lazily created singleton that holds a Vector of
associations (object, callback, type). `CallbackStorage` has one action per
call:
* `AddCallback` appends an association unless the identical triple is there.
* `RemoveCallback` starts `do_remove_callback`'s loop. `RemoveIter` is one
  iteration, which erases a match and then increments the index, and
  `RemoveDone` ends the loop.
* `GetCallback`, `GetAssociationItem` and `DoesCallbackExist` create the
  instance if needed and look up the first match.
* `DeleteInstance` drops everything.

The loop is modelled one iteration per step because its index arithmetic is
the point of interest. Calls come from one event thread and do not interleave.
`OnePerType` says whether callers register at most one callback per object and
type, which is how the client uses the storage.

| run | expect | what it shows |
|---|---|---|
| `callback_safety` | pass | Callers here are free to register anything. `TypeOK`. `RemoveNullMeansNone`: when `remove_callback` returns NULL, no association of its object and type is left. The erase loop can miss an element only after it has erased one, so a NULL result is always truthful. A loop that starts late or stops early breaks it. |
| `callback_refinement` | pass | With `OnePerType`, `RemoveClearsType` holds: `remove_callback` leaves no association of its key. The storage also implements `CallbackRegistry` (a `PROPERTY`) under the mapping `reg[k] = FirstMatch(cbs, k)`. |
| `callback_remove_skips` | violation | Without `OnePerType`, two adjacent associations of one key are stored. The erase-then-increment loop (m2mcallbackstorage.cpp:131) removes the first and steps over the second. |

Proved in `CallbackStorageProofs`, for all sets of objects, callbacks and types:
* `TypeCorrect`.
* `RemoveNullSound`, `Spec => []RemoveNullMeansNone`, with no discipline on
  callers. Its inductive invariant `NInv` adds two conjuncts to the property:
  * `CleanBehind`: while the loop has erased nothing, no match lies before
    the index;
  * `NoInstanceEmpty`: without an instance, the storage is empty. This is
    the early NULL return of `remove_callback`.
  TLC checked `NInv` on the `callback_safety` instance before it was proved.
* `RemoveClears` and `Refinement`, under `OnePerType`. Both rest on the
  inductive invariant `RInv == TypeOK /\ OneMatch /\ LoopAhead /\
  NoInstanceEmpty /\ RemoveClearsType`. It says:
  * at most one association matches a key;
  * while the loop runs, the elements before the index do not match the
    target;
  * an absent instance has no associations.

  The refinement proof shows that every step keeps `reg` or is a `Register`,
  an `Unregister` or a `Clear` of the registry.

## Fairness and liveness

`OtaNode` and `OtaRouter` have no fairness. Their runs check safety only.

`OtaSystem` states `Fairness`, and each conjunct is justified by the platform:
* **Timers.** A pending timer eventually expires. This is weak fairness of
  the router's delivery and serve expiries and of the node's FALLBACK,
  requesting and checksum expiries.
* **Transient failures.** The code retries an allocation, a send or a
  storage write on the next expiry. Strong fairness says that if a successful
  outcome is possible infinitely often, it eventually happens (`NodeRequests`,
  `NodeHashes`, `RouterServes`, `RouterDelivers`, `NodeStores`).
* **The network.** A datagram the receiver can take infinitely often is
  eventually received (`RouterReceives`, `NodeStores`). A fair-lossy link is
  the weakest assumption under which any retransmission protocol terminates.

A short storage read during the node's checksum is not retried. It ends in
CHECKSUM_FAILED, which is why the property allows that outcome. A START that is
lost leaves the node in IDLE, and the property is about nodes that received
START.

## Proofs

All OTA theorems hold for every value of the constants that satisfies the
assumptions `SessionAssumption`, `FragAssumption` and `SizeAssumption` in
`OtaCommon`.

* **`TypeCorrect`** (`OtaNodeProofs`): `Spec => []TypeOK`.
  * The lemma `TypeStep` proves that every action preserves `TypeOK`. It
    splits `TypeOK` into `TypeFlags`, the booleans and the enumerations, and
    `TypeData`, the sets and numbers.
  * Lemmas about the helpers carry the arithmetic. For example, the segment
    windows lie inside the bitmask positions, `FirstMissingSegment` and
    `NextMissingForRequester` return a segment or a fragment, or 0, and a
    clipped slice length stays within the image.
* **`BitmaskSoundness`** and **`ImageIntegrity`** (`OtaNodeIntegrityProofs`):
  `Spec => []BitmaskSound` and `Spec => []CompletedImageIntact`.
  * Neither is inductive on its own. A hashing step can complete the image
    only if every byte hashed so far came from stored fragments, and the
    invariants alone do not say that.
  * The strengthening adds `HashedBytesStored`: while checksumming with a
    context and `hashedOk`, every fragment covered by the bytes
    `0 .. cursor-1` is stored. `IInv == TypeOK /\ BitmaskSound /\
    CompletedImageIntact /\ HashedBytesStored`.
  * TLC checked `IInv` as an invariant before it was proved. The proof shows
    `Init => IInv` and `IInv /\ [Next]_vars => IInv'`, one step per action.
  * The hashing step rests on `SliceFragsExtend`: the fragments of
    `0 .. c+n-1` are those of `0 .. c-1` together with those of the new slice.
  * The completion step rests on `AllFragmentsHashed`: hashing `TotalBytes`
    bytes covers every fragment.

* **`RouterTypeCorrect`** (`OtaRouterProofs`): `RSpec => []RTypeOK`, with the
  router's `DisciplinedAssumption` as well.
  * `RTypeStep` has one lemma per action. The delivery cursor stays within
    `1 .. FragCount + 1` because the FRAGMENTS_DELIVERING expiry advances it
    only while `current <= rFragCount`. The fragment the serve loop sends is
    one of the image, by `NextMissingType`.
  * `ChecksumStep` covers the checksum routine, which both
    `ota_firmware_pulled` and the CHECKSUM_CALCULATING expiry call. The
    cursor stays within the image because a slice is clipped at
    `fw_total_byte_count` (`RSliceLenBound`).
* **`ServeStored`** and **`TimersArmed`** (`OtaNodeServeProofs`):
  `Spec => []ServeOnlyStored` and `Spec => []ProgressArmed`.
  * Neither is inductive with `IInv`. A START could replace a served image,
    a FALLBACK expiry could find a STARTED node with nothing missing, and a
    restart could reload a state whose timer is not rearmed. The strengthening
    `PInv == IInv /\ Live /\ ServeOnlyStored` rules these states out. `Live`
    has five conjuncts:
    * `IdleQuiet`: an idle node has no session, no timer and no serve loop,
      and an idle stored copy is the zeroed one. Without it a timer expiry
      or a restart in IDLE could reach STARTED with nothing armed.
    * `OwnTypeActive`: a live or stored process is of the node's own device
      type, so the duplicate-process check in `ota_manage_start_command`
      rejects every START while a process exists.
    * `ServeHoldsImage`: a running serve loop has the complete image of the
      node's own type. It gives `ServeOnlyStored` for the fragment each
      FRAGMENTS_REQUEST_SERVICE expiry sends.
    * `StartedMissing`: a STARTED node still lacks a fragment, so FALLBACK
      always moves it on and never drops its own timer.
    * `ProgressArmed` itself.
  * TLC checked `PInv` as an invariant on the `node_safety` instance
    (1.16 M distinct states) before it was proved. The proof has one lemma
    per action (`LiveStep`, `SentStep`).
* **`DeliveringVerified`** (`OtaDeliveryProofs`): under the hypothesis
  `Disciplined`, `RSpec => []DeliveringKeepsSession`, the property the run
  `router_safety` checks.
  * `Disciplined` is a hypothesis of the theorem, not an assumption on the
    constant. The run `router_new_session_mid_delivery` shows that the
    property fails without it.
  * The property is not inductive on its own. A FIRMWARE,
    `ota_firmware_pulled` or END_FRAGMENTS expiry could break it from states
    that no run reaches. `DInv` adds five conjuncts:
    * `PullsOfSession`: every pending pull is of the router's session.
    * `ReadyIdle`: READY is raised only with no pull pending.
    * `CheckingQuiet` and `DeliveringQuiet`: while the checksum runs, or a
      delivery runs, there is no pull, READY is down and no END_FRAGMENTS
      is pending.
    * `EndQuiet`: a pending END_FRAGMENTS comes after the delivery, with no
      pull and READY down.
  * Together these show:
    * each cloud command finds no pull, no delivery and no END_FRAGMENTS
      (`CloudQuiet`);
    * `ota_firmware_pulled` ends the only pull;
    * a delivery the checksum routine begins is of the verified image
      (`ChecksumMoves`).
  * TLC checked `DInv` with `Disciplined = TRUE` on the two-session router
    instance (4,392 distinct states) before it was proved.

* **`SysTypeCorrect`** (`OtaSystemProofs`): `SysSpec => []SysTypeOK`, with
  no hypothesis on `Disciplined`.
  * The node's step lemma `StepTyped` and the router's `ReceiveTyped` take
    any datagram of `Msgs`, not only those of the input sets `Inputs` and
    `RouterInputs`. That is what the network can deliver.
  * `RP == INSTANCE OtaRouterProofs WITH state <- nState` brings both
    components' lemmas into the system's variables. `OtaRouterProofs`
    extends `OtaNodeProofs`.
  * An instantiated lemma holds only under the instantiated assumptions on
    the constants. `RPAssumptions` proves them from `OtaSystem`'s own.
  * The prover does not identify `RP!Fire` with `Node!Fire`, or `RP!RFire`
    with `RFire`, on its own. The lemmas `RouterSame`, `NodeSame`,
    `CommonSame`, `NodeTypeSame`, `RouterTypeSame` and `TypeSamePrimed`
    prove each identification by expanding both sides.
  * No run checks `SysTypeOK`; the theorem covers it for every constant.
  * `SysTypeOK` is inductive as it stands:
    * a router step keeps the router typed, is a stutter of the node, and
      adds only `rSent` to `toNode`;
    * a node step is symmetric to a router step;
    * a loss removes a datagram.

What is only model-checked:
* `NodeDownloadTerminates` and every other liveness question;
* the findings (the violation runs).

TLAPS cannot reason about liveness or ENABLED, or do induction over data
through an operator parameter. It also loses its SMT backend in modules that
reach a RECURSIVE operator. For that reason no module here uses one: recursion
is avoided, and minima are written with CHOOSE.

## Not modelled

* **Two parts of the border-router role:**
  * a restart of the router from stored parameters;
  * a FRAGMENT that reaches a router in STARTED. It passes the state check
    and writes through the router's NULL fragment bitmask (libota.c:646),
    which is a wild write, not a protocol state. It is listed as a hazard.
* **A composition with several nodes.** Nodes serving each other is checked
  in `OtaNode` against arbitrary inputs. Composing several full nodes is
  beyond a 5-minute liveness run.
* **Fragment CRC computation and byte layout:** data, not control. They are
  represented by the `crcOk` input.
* **`ota_update_status_resource` / `ota_get_state`:** output formatting.
* **The AmigaOS PAL files** (`pal_plat_rtos.c`, `pal_plat_network.c`):
  platform wrappers over OS primitives.
* **`nm_kcm_factory.h`:** declarations only.
