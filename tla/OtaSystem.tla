----------------------------- MODULE OtaSystem -----------------------------
(***************************************************************************)
(* The border router and one node of libota.c                             *)
(* (src/update-client-hub/modules/multicast/libota.c) composed over the   *)
(* mesh network.  The router's multicasts (START, FRAGMENT, END_FRAGMENTS) *)
(* reach the node, and the node's unicasts to its parent                   *)
(* (FRAGMENTS_REQUEST) reach the router.  The network is a set of          *)
(* datagrams in flight in each direction: a datagram may be delayed,       *)
(* reordered or lost, and a datagram sent while an equal one is in flight *)
(* merges with it.  The cloud sends one FIRMWARE command, retried while    *)
(* the router has no session; the application pulls the image when asked *)
(* and never deletes the session.                                          *)
(***************************************************************************)
EXTENDS OtaRouter

VARIABLES
    nState, session, devType, fragmentCount, bitmask, checksumOk,
    pars, stored, timers, ctx, cursor, hashedOk, service, serviceSeg,
    serviceMask, fwUpdateReceived, activateSid, gaveUp, restarts, sent, cb,
    toNode,    \* datagrams in flight from the router to the node
    toRouter   \* datagrams in flight from the node to the router

Node == INSTANCE OtaNode WITH
    state <- nState,
    session <- session,
    devType <- devType,
    fragmentCount <- fragmentCount,
    bitmask <- bitmask,
    checksumOk <- checksumOk,
    pars <- pars,
    stored <- stored,
    timers <- timers,
    ctx <- ctx,
    cursor <- cursor,
    hashedOk <- hashedOk,
    service <- service,
    serviceSeg <- serviceSeg,
    serviceMask <- serviceMask,
    fwUpdateReceived <- fwUpdateReceived,
    activateSid <- activateSid,
    gaveUp <- gaveUp,
    restarts <- restarts,
    sent <- sent,
    cb <- cb

nodeVars == <<nState, session, devType, fragmentCount, bitmask, checksumOk,
              pars, stored, timers, ctx, cursor, hashedOk, service, serviceSeg,
              serviceMask, fwUpdateReceived, activateSid, gaveUp, restarts, sent, cb>>
sysVars == <<rVars, nodeVars, toNode, toRouter>>

SysInit ==
    /\ RInit
    /\ Node!Init
    /\ toNode = {}
    /\ toRouter = {}

\* A router step: what it multicasts is put in flight to the node.
RouterStep(A) ==
    /\ A
    /\ toNode' = toNode \cup rSent'
    /\ UNCHANGED <<nodeVars, toRouter>>

\* A node step: what it sends is put in flight to the router.
NodeStep(A) ==
    /\ A
    /\ toRouter' = toRouter \cup sent'
    /\ UNCHANGED <<rVars, toNode>>

\* The cloud's FIRMWARE command (ota_lwm2m_command), sent while the router
\* has no session: at the start, and again after a failed attempt.
Cloud ==
    /\ rState = "IDLE"
    /\ \E s \in Session : RouterStep(Lwm2mFirmware(s, TRUE))

\* ota_socket_receive_data on the router for a datagram from the node
ToRouter(m) ==
    /\ m \in toRouter
    /\ RReceive(m)
    /\ toRouter' = toRouter \ {m}
    /\ toNode' = toNode \cup rSent'
    /\ UNCHANGED nodeVars

\* ota_socket_receive_data on the node for a datagram from the router
ToNode(m) ==
    /\ m \in toNode
    /\ Node!Receive(m)
    /\ toNode' = toNode \ {m}
    /\ toRouter' = toRouter \cup sent'
    /\ UNCHANGED rVars

\* the network drops a datagram in flight
Lose(m) ==
    /\ \/ /\ m \in toNode
          /\ toNode' = toNode \ {m}
          /\ UNCHANGED toRouter
       \/ /\ m \in toRouter
          /\ toRouter' = toRouter \ {m}
          /\ UNCHANGED toNode
    /\ UNCHANGED <<rVars, nodeVars>>

SysNext ==
    \/ Cloud
    \/ \E p \in Session : RouterStep(FirmwarePulled(p))
    \/ RouterStep(RFire)
    \/ \E m \in toRouter : ToRouter(m)
    \/ NodeStep(Node!Fire)
    \/ \E m \in toNode : ToNode(m)
    \/ \E m \in toNode \cup toRouter : Lose(m)
-----------------------------------------------------------------------------
(* Fairness.  A pending timer eventually expires (the platform's timer     *)
(* service), a requested pull eventually completes (the application), and *)
(* the failures the code retries are transient: an allocation, a storage  *)
(* write or a send that is retried infinitely often eventually succeeds,  *)
(* and a datagram sent infinitely often, to a receiver that can take it   *)
(* infinitely often, is eventually received.                            *)
NodeStores == \E m \in toNode : ToNode(m) /\ stored' # stored
RouterReceives == \E m \in toRouter : ToRouter(m)
NodeRequests == NodeStep(Node!FireRequesting) /\ sent' # {}
NodeHashes == NodeStep(Node!FireChecksum) /\ <<ctx, cursor, nState>>' # <<ctx, cursor, nState>>
RouterServes == RouterStep(RFireService) /\ rSent' # {}
RouterDelivers == RouterStep(RFireDelivering) /\ <<current, delivering>>' # <<current, delivering>>

Fairness ==
    /\ WF_sysVars(RouterStep(RFireDelivering))
    /\ WF_sysVars(RouterStep(RFireService))
    /\ WF_sysVars(NodeStep(Node!FireFallback))
    /\ WF_sysVars(NodeStep(Node!FireRequesting))
    /\ WF_sysVars(NodeStep(Node!FireChecksum))
    /\ SF_sysVars(NodeRequests)
    /\ SF_sysVars(NodeHashes)
    /\ SF_sysVars(RouterServes)
    /\ SF_sysVars(RouterDelivers)
    /\ SF_sysVars(RouterReceives)
    /\ SF_sysVars(NodeStores)

SysSpec == SysInit /\ [][SysNext]_sysVars /\ Fairness

(* The variables a step reads.  rSent, sent and cb are assigned by every   *)
(* step and never read, and pars is read only by Restart, which the runs   *)
(* of this module disable (MaxRestarts = 0): two states that differ only  *)
(* in these have the same futures.                                         *)
SysView ==
    <<rOtaVars, rTimers, delivering, current, rHashVars, rServeVars, ready,
      pulls, pulled, deliverSid,
      nState, session, devType, fragmentCount, bitmask, checksumOk, stored,
      timers, ctx, cursor, hashedOk, service, serviceSeg, serviceMask,
      fwUpdateReceived, activateSid, gaveUp, restarts, toNode, toRouter>>
-----------------------------------------------------------------------------
SysTypeOK ==
    /\ RTypeOK
    /\ Node!TypeOK
    /\ toNode \subseteq Msgs
    /\ toRouter \subseteq Msgs

(* A node that has received START obtains every fragment and finishes its *)
(* checksum, whatever datagrams the network loses: the END_FRAGMENTS or   *)
(* FALLBACK timer moves it to requesting, ota_request_missing_fragments   *)
(* asks the router segment by segment, and the router's serve loop        *)
(* (ota_serve_fragments_request_by_sending_one_fragment) resends what it  *)
(* lacks.  The checksum may fail only on a short storage read.            *)
NodeDownloadTerminates ==
    nState = "STARTED" ~> nState \in {"PROCESS_COMPLETED", "CHECKSUM_FAILED"}
=============================================================================
