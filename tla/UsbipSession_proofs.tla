------------------------ MODULE UsbipSession_proofs -------------------------
(***************************************************************************)
(* Proofs, for every set of URBs, every bound on the numbers and every     *)
(* choice of disturbances, that a port and a device connected by TCP keep  *)
(* their types, that the port behaves as VhciPort says whatever the device *)
(* does, that the replies on the way match what the client waits for, and  *)
(* that while nothing has gone wrong no request it waits for is lost.      *)
(* What each driver keeps alone is taken from the proofs of its module.    *)
(***************************************************************************)
EXTENDS UsbipSessionInv, FiniteSetTheorems, TLAPS

Port == INSTANCE VhciPort_proofs WITH
  MaxAttach <- 1, AttachRaces <- FALSE,
  status <- c_status, tcp_socket <- c_tcp_socket, seqnum <- c_seqnum,
  conn <- c_conn, udev <- c_udev, addressed <- c_addressed,
  rh_port <- c_rh_port, priv <- c_priv, unlink_tx <- c_unlink_tx,
  unlink_rx <- c_unlink_rx, owed <- c_owed, unlinked <- c_unlinked,
  call <- c_call, tcp_rx <- c_tcp_rx, tcp_tx <- c_tcp_tx, rx <- c_rx,
  tx <- c_tx, reaped <- c_reaped, attach <- c_attach, detach <- c_detach,
  unload <- c_unload, event <- c_event, eh <- c_eh

Stub == INSTANCE StubDevice_proofs WITH
  MaxCmd <- MaxSeqnum, MaxConn <- 1, SockfdRaces <- FALSE,
  status <- s_status, tcp_socket <- s_tcp_socket, conn <- s_conn,
  tcp_rx <- s_tcp_rx, tcp_tx <- s_tcp_tx, rx <- s_rx, tx <- s_tx,
  priv_init <- s_priv_init, priv_tx <- s_priv_tx, priv_free <- s_priv_free,
  unlink_tx <- s_unlink_tx, unlink_free <- s_unlink_free, sockfd <- s_sockfd,
  down <- s_down, unbind <- s_unbind, received <- s_received,
  answered <- s_answered, superseded <- s_superseded, event <- s_event,
  eh <- s_eh

\* What the two drivers keep alone.
ClientInv == Port!TypeInv /\ Port!ThreadInv
ServerInv == Stub!TypeOK /\ Stub!ThreadInv

-----------------------------------------------------------------------------
(* The drivers of the session are those of the two modules: Port and Stub  *)
(* define what Client and Server do, under other names.                    *)

\* The steps of the client are those the proofs of VhciPort are about.
LEMMA SamePort ==
  /\ Client!Next => Port!Next
  /\ Client!vars = Port!vars
  BY DEF Client!Admin, Port!Admin, Client!AttachClaim, Port!AttachClaim,
    Client!AttachConnect, Port!AttachConnect, Client!AttachRunRx,
    Port!AttachRunRx, Client!AttachRunTx, Port!AttachRunTx,
    Client!AttachSetRx, Port!AttachSetRx, Client!AttachSetTx,
    Port!AttachSetTx, Client!AttachStep, Port!AttachStep, Client!CallStep,
    Port!CallStep, Client!CanSendSubmit, Port!CanSendSubmit, Client!Conns,
    Port!Conns, Client!ControllerFree, Port!ControllerFree,
    Client!DequeueLocal, Port!DequeueLocal, Client!DequeueNoMemory,
    Port!DequeueNoMemory, Client!DequeueUnlink, Port!DequeueUnlink,
    Client!DetachCheck, Port!DetachCheck, Client!DetachEvent,
    Port!DetachEvent, Client!EhBye, Port!EhBye, Client!EhCleanup,
    Port!EhCleanup, Client!EhClears, Port!EhClears, Client!EhDisconnect,
    Port!EhDisconnect, Client!EhGiveBack, Port!EhGiveBack, Client!EhHandle,
    Port!EhHandle, Client!EhHead, Port!EhHead, Client!EhIdle, Port!EhIdle,
    Client!EhLoad, Port!EhLoad, Client!EhLoop, Port!EhLoop,
    Client!EhPutSocket, Port!EhPutSocket, Client!EhReset, Port!EhReset,
    Client!EhRound, Port!EhRound, Client!EhShutdown, Port!EhShutdown,
    Client!EhSkip, Port!EhSkip, Client!EhSkips, Port!EhSkips, Client!EhStep,
    Port!EhStep, Client!EhStopRx, Port!EhStopRx, Client!EhStopTx,
    Port!EhStopTx, Client!EhStore, Port!EhStore, Client!EhTo, Port!EhTo,
    Client!EhUnusable, Port!EhUnusable, Client!EhWake, Port!EhWake,
    Client!EnqueueGetDescriptor, Port!EnqueueGetDescriptor,
    Client!EnqueueGetVdev, Port!EnqueueGetVdev, Client!EnqueueNoMemory,
    Port!EnqueueNoMemory, Client!EnqueuePush, Port!EnqueuePush,
    Client!EnqueueSetAddress, Port!EnqueueSetAddress, Client!FirstPriv,
    Port!FirstPriv, Client!FirstUnlink, Port!FirstUnlink, Client!FreePriv,
    Port!FreePriv, Client!GiveBack, Port!GiveBack, Client!Idle, Port!Idle,
    Client!Next, Port!Next, Client!NoPriv, Port!NoPriv, Client!NoUnlink,
    Port!NoUnlink, Client!NotFound, Port!NotFound, Client!Older, Port!Older,
    Client!Picked, Port!Picked, Client!RxDown, Port!RxDown, Client!RxErrors,
    Port!RxErrors, Client!RxGiveBack, Port!RxGiveBack, Client!RxIdleTimeout,
    Port!RxIdleTimeout, Client!RxLoop, Port!RxLoop, Client!RxPayload,
    Port!RxPayload, Client!RxPayloadFails, Port!RxPayloadFails, Client!RxPdu,
    Port!RxPdu, Client!RxRetSubmit, Port!RxRetSubmit, Client!RxRetUnlink,
    Port!RxRetUnlink, Client!RxStep, Port!RxStep, Client!RxTo, Port!RxTo,
    Client!Seqnums, Port!Seqnums, Client!StopBegin, Port!StopBegin,
    Client!StopEvent, Port!StopEvent, Client!StopRequested,
    Port!StopRequested, Client!TxErrors, Port!TxErrors, Client!TxOops,
    Port!TxOops, Client!TxSend, Port!TxSend, Client!TxSendFails,
    Port!TxSendFails, Client!TxSendSubmit, Port!TxSendSubmit,
    Client!TxSendUnlink, Port!TxSendUnlink, Client!TxStep, Port!TxStep,
    Client!TxTakeSubmit, Port!TxTakeSubmit, Client!TxTakeUnlink,
    Port!TxTakeUnlink, Client!TxTo, Port!TxTo, Client!TxWait, Port!TxWait,
    Client!UrbCall, Port!UrbCall, Client!VDEV_EVENT_DOWN,
    Port!VDEV_EVENT_DOWN, Client!VDEV_EVENT_ERROR_MALLOC,
    Port!VDEV_EVENT_ERROR_MALLOC, Client!VDEV_EVENT_ERROR_TCP,
    Port!VDEV_EVENT_ERROR_TCP, Client!VDEV_EVENT_REMOVED,
    Port!VDEV_EVENT_REMOVED, Client!admVars, Port!admVars, Client!ehVars,
    Port!ehVars, Client!portVars, Port!portVars, Client!priv_rx, Port!priv_rx,
    Client!priv_tx, Port!priv_tx, Client!thrVars, Port!thrVars,
    Client!urbVars, Port!urbVars, Client!usbip_event_add,
    Port!usbip_event_add, Client!vars, Port!vars, Client!vhci_urb_dequeue,
    Port!vhci_urb_dequeue, Client!vhci_urb_enqueue, Port!vhci_urb_enqueue

\* So are its initial state and its types.
LEMMA SamePortInit ==
  /\ Client!Init => Port!Init
  /\ Client!TypeOK <=> Port!TypeOK
  BY DEF Client!Calls, Port!Calls, Client!Conns, Port!Conns, Client!EhInit,
    Port!EhInit, Client!EhLoopPcs, Port!EhLoopPcs, Client!EhPcs, Port!EhPcs,
    Client!EventBits, Port!EventBits, Client!Idle, Port!Idle, Client!Init,
    Port!Init, Client!NoPriv, Port!NoPriv, Client!NoUnlink, Port!NoUnlink,
    Client!Priv, Port!Priv, Client!RxThread, Port!RxThread, Client!Statuses,
    Port!Statuses, Client!TxThread, Port!TxThread, Client!TypeOK, Port!TypeOK,
    Client!Unlink, Port!Unlink

\* So are the steps of the server.
LEMMA SameStub ==
  /\ Server!Complete => Stub!Complete
  /\ Server!EhSendDisconnect => Stub!EhSendDisconnect
  /\ Server!EhStep => Stub!EhStep
  /\ Server!SockfdStep => Stub!SockfdStep
  /\ Server!Admin => Stub!Admin
  /\ Server!RxBad(1) => Stub!RxBad(1)
  /\ Server!RxStep(1) => Stub!RxStep(1)
  /\ Server!TxSend(1) => Stub!TxSend(1)
  /\ Server!TxStep(1) => Stub!TxStep(1)
  /\ \A n \in Numbers : Server!RxCmdSubmit(1, n) => Stub!RxCmdSubmit(1, n)
  /\ \A n \in Numbers, t \in Targets :
       Server!RxCmdUnlink(1, n, t) => Stub!RxCmdUnlink(1, n, t)
  /\ Server!vars = Stub!vars
  BY DEF Server!Admin, Stub!Admin, Server!Answer, Stub!Answer, Server!Cmds,
    Stub!Cmds, Server!Complete, Stub!Complete, Server!Conns, Stub!Conns,
    Server!DownCheck, Stub!DownCheck, Server!DownEvent, Stub!DownEvent,
    Server!EhBye, Stub!EhBye, Server!EhCleanup, Stub!EhCleanup,
    Server!EhClears, Stub!EhClears, Server!EhHandle, Stub!EhHandle,
    Server!EhHead, Stub!EhHead, Server!EhIdle, Stub!EhIdle, Server!EhLoad,
    Stub!EhLoad, Server!EhLoop, Stub!EhLoop, Server!EhPutSocket,
    Stub!EhPutSocket, Server!EhReset, Stub!EhReset, Server!EhRound,
    Stub!EhRound, Server!EhSendDisconnect, Stub!EhSendDisconnect,
    Server!EhShutdown, Stub!EhShutdown, Server!EhSkip, Stub!EhSkip,
    Server!EhSkips, Stub!EhSkips, Server!EhStep, Stub!EhStep, Server!EhStopRx,
    Stub!EhStopRx, Server!EhStopTx, Stub!EhStopTx, Server!EhStore,
    Stub!EhStore, Server!EhTo, Stub!EhTo, Server!EhUnusable, Stub!EhUnusable,
    Server!EhWake, Stub!EhWake, Server!InFlight, Stub!InFlight,
    Server!RxAlloc, Stub!RxAlloc, Server!RxBad, Stub!RxBad,
    Server!RxCmdSubmit, Stub!RxCmdSubmit, Server!RxCmdUnlink,
    Stub!RxCmdUnlink, Server!RxIsoNoMemory, Stub!RxIsoNoMemory, Server!RxLoop,
    Stub!RxLoop, Server!RxSetupFails, Stub!RxSetupFails, Server!RxStep,
    Stub!RxStep, Server!RxSubmitUrb, Stub!RxSubmitUrb, Server!RxTo, Stub!RxTo,
    Server!RxUnlinkUrb, Stub!RxUnlinkUrb, Server!SDEV_EVENT_DOWN,
    Stub!SDEV_EVENT_DOWN, Server!SDEV_EVENT_ERROR_MALLOC,
    Stub!SDEV_EVENT_ERROR_MALLOC, Server!SDEV_EVENT_ERROR_SUBMIT,
    Stub!SDEV_EVENT_ERROR_SUBMIT, Server!SDEV_EVENT_ERROR_TCP,
    Stub!SDEV_EVENT_ERROR_TCP, Server!SDEV_EVENT_REMOVED,
    Stub!SDEV_EVENT_REMOVED, Server!SetUrb, Stub!SetUrb, Server!SockfdClaim,
    Stub!SockfdClaim, Server!SockfdRunRx, Stub!SockfdRunRx,
    Server!SockfdRunTx, Stub!SockfdRunTx, Server!SockfdSetRx,
    Stub!SockfdSetRx, Server!SockfdSetTx, Stub!SockfdSetTx, Server!SockfdStep,
    Stub!SockfdStep, Server!StopRequested, Stub!StopRequested,
    Server!TxErrors, Stub!TxErrors, Server!TxSend, Stub!TxSend,
    Server!TxSendFails, Stub!TxSendFails, Server!TxSendSubmit,
    Stub!TxSendSubmit, Server!TxSendUnlink, Stub!TxSendUnlink, Server!TxStep,
    Stub!TxStep, Server!TxTakeSubmit, Stub!TxTakeSubmit, Server!TxTakeUnlink,
    Stub!TxTakeUnlink, Server!TxTo, Stub!TxTo, Server!TxTop, Stub!TxTop,
    Server!TxWait, Stub!TxWait, Server!UnbindBegin, Stub!UnbindBegin,
    Server!UnbindEvent, Stub!UnbindEvent, Server!VDEV_EVENT_ERROR_MALLOC,
    Stub!VDEV_EVENT_ERROR_MALLOC, Server!Valid, Stub!Valid, Server!WakeTx,
    Stub!WakeTx, Server!admVars, Stub!admVars, Server!devVars, Stub!devVars,
    Server!hisVars, Stub!hisVars, Server!privVars, Stub!privVars,
    Server!stub_complete, Stub!stub_complete, Server!stub_enqueue_ret_unlink,
    Stub!stub_enqueue_ret_unlink, Server!thrVars, Stub!thrVars,
    Server!unlVars, Stub!unlVars, Server!usbip_event_add,
    Stub!usbip_event_add, Server!vars, Stub!vars

\* So are its initial state and its types.
LEMMA SameStubInit ==
  /\ Server!Init => Stub!Init
  /\ Server!TypeOK <=> Stub!TypeOK
  BY DEF Server!Cmds, Stub!Cmds, Server!Conns, Stub!Conns, Server!EhInit,
    Stub!EhInit, Server!EhLoopPcs, Stub!EhLoopPcs, Server!EhPcs, Stub!EhPcs,
    Server!EventBits, Stub!EventBits, Server!Init, Stub!Init, Server!Privs,
    Stub!Privs, Server!RxThread, Stub!RxThread, Server!TxThread,
    Stub!TxThread, Server!TypeOK, Stub!TypeOK

-----------------------------------------------------------------------------
(* Every step of the session is a step of each driver, or leaves it alone. *)

\* The PDUs on the link; those to the client name no other request.
LinkTypes ==
  /\ c2s \in Seq(Pdus) /\ s2c \in Seq(Pdus)
  /\ \A i \in DOMAIN s2c : s2c[i].target = 0
  /\ cut \in BOOLEAN /\ disturbance \in Disturbances \cup {"none"}

\* The steps of the server in the session, by the handlers of StubDevice.
LEMMA ServerKinds ==
  ASSUME Next
  PROVE  \/ UNCHANGED serverVars
         \/ Server!Complete \/ Server!EhSendDisconnect \/ Server!EhStep
         \/ Server!SockfdStep \/ ServerAdmin
         \/ Server!RxBad(1) \/ Server!RxStep(1) \/ Server!TxSend(1) \/ Server!TxStep(1)
         \/ \E n \in Numbers : \/ Server!RxCmdSubmit(1, n)
                               \/ \E t \in Targets : Server!RxCmdUnlink(1, n, t)
<1>2. ServerTx => Server!TxStep(1)
  BY DEF ServerTx, Server!TxStep, Server!TxErrors
<1>3. ServerRx => Server!RxBad(1) \/ Server!RxStep(1)
  BY DEF ServerRx, Server!RxStep
<1>4. ServerSends => Server!TxSend(1)
  BY DEF ServerSends, Server!TxSend, Server!Cmds
<1>5. ServerReceives => \E n \in Numbers : \/ Server!RxCmdSubmit(1, n)
                                           \/ \E t \in Targets : Server!RxCmdUnlink(1, n, t)
  BY DEF ServerReceives, Numbers, Targets
<1>6. ServerSendsDisconnect => Server!EhSendDisconnect
  BY DEF ServerSendsDisconnect
<1>7. ServerCompletes => Server!Complete
  BY DEF ServerCompletes
<1>. QED
  BY <1>2, <1>3, <1>4, <1>5, <1>6, <1>7
     DEF Next, Cut, ClientAlone, ClientSends, ClientReceives, ServerAlone

\* Every step is one of a device with such a client, or leaves it alone.
LEMMA ServerSteps == Next => Stub!AnyStep \/ UNCHANGED Stub!vars
<1> SUFFICES ASSUME Next PROVE Stub!AnyStep \/ UNCHANGED Stub!vars
  OBVIOUS
<1>1. UNCHANGED serverVars => UNCHANGED Stub!vars
  BY DEF serverVars, Stub!vars, Stub!devVars, Stub!thrVars, Stub!privVars, Stub!unlVars,
         Stub!admVars, Stub!hisVars
<1>2. 1 \in Stub!Conns /\ Numbers \subseteq Stub!Cmds
  BY DEF Stub!Conns, Stub!Cmds, Numbers
<1>3. ASSUME NEW n \in Numbers, \/ Server!RxCmdSubmit(1, n)
                                \/ \E t \in Targets : Server!RxCmdUnlink(1, n, t)
      PROVE  Stub!AnyStep
  BY <1>2, <1>3, SameStub DEF Stub!AnyStep, Stub!AnyPdu, Targets
<1>4. ServerAdmin => Server!Admin
  BY DEF ServerAdmin, Server!Admin
<1>. QED  BY <1>1, <1>2, <1>3, <1>4, ServerKinds, SameStub DEF Stub!AnyStep, Stub!Next

\* The steps of the client in the session, by the handlers of VhciPort.
LEMMA ClientKinds ==
  ASSUME Next
  PROVE  \/ UNCHANGED clientVars
         \/ ClientCall \/ ClientCallStep \/ ClientAdmin \/ Client!AttachStep
         \/ Client!EhStep \/ ClientTx \/ ClientRx
         \/ \E n, t \in Targets : Client!TxSendSubmit(1, n) \/ Client!TxSendUnlink(1, n, t)
         \/ Client!RxDown(1)
         \/ \E n \in Numbers : /\ Head(s2c) \in {RetSubmit(n), RetUnlink(n)} /\ s2c # <<>>
                               /\ Client!RxRetSubmit(1, n) \/ Client!RxRetUnlink(1, n)
<1>1. ClientSends => \E n, t \in Targets : Client!TxSendSubmit(1, n) \/ Client!TxSendUnlink(1, n, t)
  BY DEF ClientSends, Targets
<1>2. ClientReceives =>
        \/ Client!RxDown(1)
        \/ \E n \in Numbers : /\ Head(s2c) \in {RetSubmit(n), RetUnlink(n)} /\ s2c # <<>>
                              /\ Client!RxRetSubmit(1, n) \/ Client!RxRetUnlink(1, n)
  BY DEF ClientReceives, Numbers
<1>. QED
  BY <1>1, <1>2
     DEF Next, Cut, ServerAlone, ServerSends, ServerSendsDisconnect, ServerReceives, ClientAlone

\* Every step is one of the port of VhciPort, or leaves the port alone: the
\* device answers only what the port has numbered.
LEMMA ClientSteps ==
  ASSUME c_seqnum \in 0 .. MaxSeqnum, LinkTypes, NumbersInv, Next
  PROVE  Client!Next \/ UNCHANGED Client!vars
<1>0. 1 \in Client!Conns
  BY DEF Client!Conns
<1>1. UNCHANGED clientVars => UNCHANGED Client!vars
  BY DEF clientVars, Client!vars, Client!portVars, Client!urbVars, Client!thrVars,
         Client!admVars, Client!ehVars
<1>2. ClientCall => Client!UrbCall
  BY <1>0 DEF ClientCall, Client!UrbCall
<1>3. ClientCallStep => Client!CallStep
  BY DEF ClientCallStep, Client!CallStep
<1>4. ClientAdmin => Client!Admin
  BY DEF ClientAdmin, Client!Admin
<1>5. ClientTx => Client!TxStep(1)
  BY DEF ClientTx, Client!TxStep, Client!TxErrors
<1>6. ClientRx => Client!RxStep(1)
  BY DEF ClientRx, Client!RxStep
<1>7. ASSUME NEW n \in Targets, NEW t \in Targets,
             Client!TxSendSubmit(1, n) \/ Client!TxSendUnlink(1, n, t)
      PROVE  Client!TxSend(1)
  BY <1>7 DEF Client!TxSend, Client!Seqnums, Targets
<1>8. ASSUME NEW n \in Numbers, Head(s2c) \in {RetSubmit(n), RetUnlink(n)}, s2c # <<>>,
             Client!RxRetSubmit(1, n) \/ Client!RxRetUnlink(1, n)
      PROVE  Client!RxPdu(1)
  <2>1. 1 \in DOMAIN s2c /\ s2c[1] = Head(s2c)
    BY <1>8 DEF LinkTypes
  <2>2. BackSubmit(n) \/ BackUnlink(n)
    BY <1>8, <2>1 DEF BackSubmit, BackUnlink, InTransit
  <2>3. n \in 1 .. c_seqnum
    BY <2>2 DEF NumbersInv, Numbers, Submitted, Cancelling
  <2>. QED  BY <1>8, <2>3 DEF Client!RxPdu
<1>9. Client!RxDown(1) => Client!RxStep(1)
  BY DEF Client!RxStep
<1>. QED
  BY <1>0, <1>1, <1>2, <1>3, <1>4, <1>5, <1>6, <1>7, <1>8, <1>9, ClientKinds DEF Client!Next

\* What the proofs of the two modules assume of the constants.
LEMMA Constants ==
  /\ NoUrb \notin Urbs /\ MaxSeqnum \in Nat /\ MaxSeqnum \in Nat \ {0}
  /\ 1 \in Nat \ {0} /\ FALSE \in BOOLEAN /\ ~ FALSE
  BY UsbipSessionAssumption

\* The port keeps its types, and the order of its shutdown.
LEMMA ClientInvStep ==
  ASSUME ClientInv, LinkTypes, NumbersInv, Next
  PROVE  ClientInv'
<1>1. c_seqnum \in 0 .. MaxSeqnum
  BY DEF ClientInv, Port!TypeInv, Port!TypeOK
<1>2. CASE Client!Next
  BY <1>2, Constants, SamePort, Port!TypeStep, Port!ThreadStep DEF ClientInv
<1>3. CASE UNCHANGED Client!vars
  <2>1. UNCHANGED Port!vars
    BY <1>3 DEF Client!vars, Client!portVars, Client!urbVars, Client!thrVars, Client!admVars,
         Client!ehVars, Port!vars, Port!portVars, Port!urbVars, Port!thrVars, Port!admVars,
         Port!ehVars
  <2>. QED  BY <2>1, Constants, Port!TypeStep, Port!ThreadStep DEF ClientInv
<1>. QED  BY <1>1, <1>2, <1>3, ClientSteps

\* So does the device.
LEMMA ServerInvStep ==
  ASSUME ServerInv, Next
  PROVE  ServerInv'
<1>1. Stub!AnyStep
  BY ServerSteps DEF Stub!AnyStep
<1>. QED  BY <1>1, Constants, Stub!TypeStep, Stub!ThreadStep DEF ServerInv

\* Both are so when the drivers are loaded.
LEMMA DriversInit == Init => ClientInv /\ ServerInv /\ LinkTypes
<1> SUFFICES ASSUME Init PROVE ClientInv /\ ServerInv /\ LinkTypes
  OBVIOUS
<1>1. ClientInv
  BY SamePortInit, Constants, Port!TypeInit, Port!ThreadInit DEF Init, ClientInv
<1>2. ServerInv
  BY SameStubInit, Constants, Stub!TypeInit, Stub!ThreadInit DEF Init, ServerInv
<1>3. LinkTypes
  <2>1. c2s = <<>> /\ s2c = <<>> /\ cut = FALSE
    BY DEF Init
  <2>2. disturbance \in Disturbances \cup {"none"}
    BY DEF Init
  <2>3. \A S : <<>> \in Seq(S)
    OBVIOUS
  <2>4. \A i \in DOMAIN s2c : s2c[i].target = 0
    BY <2>1
  <2>. QED  BY <2>1, <2>2, <2>3, <2>4 DEF LinkTypes
<1>. QED  BY <1>1, <1>2, <1>3

-----------------------------------------------------------------------------
(* Queues of PDUs.                                                         *)

\* What is appended to a queue is there behind what was.
LEMMA AppendIn ==
  ASSUME NEW S, NEW s \in Seq(S), NEW e \in S
  PROVE  /\ Append(s, e) \in Seq(S)
         /\ \A x : InTransit(x, Append(s, e)) <=> InTransit(x, s) \/ x = e
<1>1. Append(s, e) \in Seq(S)
  OBVIOUS
<1>2. ASSUME NEW x, InTransit(x, Append(s, e)) PROVE InTransit(x, s) \/ x = e
  <2>1. PICK i \in 1 .. Len(s) + 1 : Append(s, e)[i] = x
    BY <1>2 DEF InTransit
  <2>. QED  BY <2>1 DEF InTransit
<1>3. ASSUME NEW x, InTransit(x, s) PROVE InTransit(x, Append(s, e))
  <2>1. PICK i \in 1 .. Len(s) : s[i] = x
    BY <1>3 DEF InTransit
  <2>2. i \in DOMAIN Append(s, e) /\ Append(s, e)[i] = x
    BY <2>1
  <2>. QED  BY <2>2 DEF InTransit
<1>4. InTransit(e, Append(s, e))
  <2>1. Len(s) + 1 \in DOMAIN Append(s, e) /\ Append(s, e)[Len(s) + 1] = e
    OBVIOUS
  <2>. QED  BY <2>1 DEF InTransit
<1>. QED  BY <1>1, <1>2, <1>3, <1>4

\* When the first is taken the others stay.
LEMMA TailIn ==
  ASSUME NEW S, NEW s \in Seq(S), s # <<>>
  PROVE  /\ Tail(s) \in Seq(S) /\ Head(s) \in S
         /\ InTransit(Head(s), s)
         /\ \A x : InTransit(x, Tail(s)) => InTransit(x, s)
         /\ \A x : InTransit(x, s) => x = Head(s) \/ InTransit(x, Tail(s))
<1>1. Tail(s) \in Seq(S) /\ Head(s) \in S
  OBVIOUS
<1>2. InTransit(Head(s), s)
  <2>1. 1 \in DOMAIN s /\ s[1] = Head(s)
    OBVIOUS
  <2>. QED  BY <2>1 DEF InTransit
<1>3. ASSUME NEW x, InTransit(x, Tail(s)) PROVE InTransit(x, s)
  <2>1. PICK i \in 1 .. Len(s) - 1 : Tail(s)[i] = x
    BY <1>3 DEF InTransit
  <2>2. i + 1 \in DOMAIN s /\ s[i + 1] = x
    BY <2>1
  <2>. QED  BY <2>2 DEF InTransit
<1>4. ASSUME NEW x, InTransit(x, s), x # Head(s) PROVE InTransit(x, Tail(s))
  <2>1. PICK i \in 1 .. Len(s) : s[i] = x
    BY <1>4 DEF InTransit
  <2>2. i # 1
    BY <2>1, <1>4
  <2>3. i - 1 \in DOMAIN Tail(s) /\ Tail(s)[i - 1] = x
    BY <2>1, <2>2
  <2>. QED  BY <2>3 DEF InTransit
<1>. QED  BY <1>1, <1>2, <1>3, <1>4

\* The PDUs of a kind stay distinct when one with a new number is sent.
LEMMA AppendDistinct ==
  ASSUME NEW s \in Seq(Pdus), NEW e \in Pdus, NEW kind, Distinct(s, kind),
         e.pdu = kind => \A i \in DOMAIN s : ~ (s[i].pdu = kind /\ s[i].seqnum = e.seqnum)
  PROVE  Distinct(Append(s, e), kind)
<1>1. \A i \in DOMAIN Append(s, e) : \/ i \in DOMAIN s /\ Append(s, e)[i] = s[i]
                                     \/ i = Len(s) + 1 /\ Append(s, e)[i] = e
  OBVIOUS
<1>. QED  BY <1>1 DEF Distinct

\* They stay so when one is received, and none of those left is like it.
LEMMA TailDistinct ==
  ASSUME NEW s \in Seq(Pdus), s # <<>>, NEW kind, Distinct(s, kind)
  PROVE  /\ Distinct(Tail(s), kind)
         /\ \A i \in DOMAIN Tail(s) :
              ~ (Head(s).pdu = kind /\ Tail(s)[i].pdu = kind
                   /\ Tail(s)[i].seqnum = Head(s).seqnum)
<1>1. \A i \in DOMAIN Tail(s) : i \in Nat /\ i + 1 \in DOMAIN s /\ i + 1 # 1 /\ Tail(s)[i] = s[i + 1]
  OBVIOUS
<1>2. 1 \in DOMAIN s /\ Head(s) = s[1]
  OBVIOUS
<1>3. Distinct(Tail(s), kind)
  BY <1>1 DEF Distinct
<1>4. ASSUME NEW i \in DOMAIN Tail(s), Head(s).pdu = kind, Tail(s)[i].pdu = kind,
             Tail(s)[i].seqnum = Head(s).seqnum
      PROVE  FALSE
  BY <1>1, <1>2, <1>4 DEF Distinct
<1>. QED  BY <1>3, <1>4

\* A PDU of a kind is one of the five, with its fields.
LEMMA PduFields ==
  /\ \A n : /\ CmdSubmit(n).pdu = "CMD_SUBMIT" /\ CmdSubmit(n).seqnum = n
            /\ RetSubmit(n).pdu = "RET_SUBMIT" /\ RetSubmit(n).seqnum = n
            /\ RetUnlink(n).pdu = "RET_UNLINK" /\ RetUnlink(n).seqnum = n
  /\ \A n, t : /\ CmdUnlink(n, t).pdu = "CMD_UNLINK" /\ CmdUnlink(n, t).seqnum = n
               /\ CmdUnlink(n, t).target = t
  /\ Disconnect.pdu = "type 3"
  BY DEF CmdSubmit, CmdUnlink, RetSubmit, RetUnlink, Disconnect

\* The PDUs the drivers send are PDUs of the link.
LEMMA PduTypes ==
  ASSUME NEW n \in Targets, NEW t \in Targets
  PROVE  /\ CmdSubmit(n) \in Pdus /\ CmdUnlink(n, t) \in Pdus
         /\ RetSubmit(n) \in Pdus /\ RetUnlink(n) \in Pdus /\ Disconnect \in Pdus
<1>1. 0 \in 0 .. MaxSeqnum /\ n \in 0 .. MaxSeqnum /\ t \in 0 .. MaxSeqnum
  BY Constants DEF Targets
<1>. QED  BY <1>1 DEF CmdSubmit, CmdUnlink, RetSubmit, RetUnlink, Disconnect, Pdus

\* A CMD_UNLINK or a RET_UNLINK on its way has the number that names it.
LEMMA UnlinkPdu ==
  ASSUME LinkTypes
  PROVE  /\ \A i \in DOMAIN c2s : c2s[i].pdu = "CMD_UNLINK" =>
              \E t \in Targets : OutUnlink(c2s[i].seqnum, t)
         /\ \A i \in DOMAIN s2c : s2c[i].pdu = "RET_UNLINK" => BackUnlink(s2c[i].seqnum)
<1>1. ASSUME NEW p \in Pdus PROVE p.seqnum \in Targets /\ p.target \in Targets
                                 /\ (p.pdu = "CMD_UNLINK" => p = CmdUnlink(p.seqnum, p.target))
  BY <1>1 DEF Pdus, Targets, CmdUnlink
<1>2. ASSUME NEW i \in DOMAIN c2s, c2s[i].pdu = "CMD_UNLINK"
      PROVE  \E t \in Targets : OutUnlink(c2s[i].seqnum, t)
  <2>1. c2s[i] \in Pdus
    BY <1>2 DEF LinkTypes
  <2>2. OutUnlink(c2s[i].seqnum, c2s[i].target)
    BY <1>1, <1>2, <2>1 DEF OutUnlink, InTransit
  <2>. QED  BY <1>1, <2>1, <2>2
<1>3. ASSUME NEW i \in DOMAIN s2c, s2c[i].pdu = "RET_UNLINK"
      PROVE  BackUnlink(s2c[i].seqnum)
  <2>1. s2c[i] \in Pdus /\ s2c[i].target = 0
    BY <1>3 DEF LinkTypes
  <2>2. s2c[i] = RetUnlink(s2c[i].seqnum)
    BY <1>3, <2>1 DEF Pdus, RetUnlink
  <2>. QED  BY <2>2 DEF BackUnlink, InTransit
<1>. QED  BY <1>2, <1>3

\* A queue of different things stays one when another is appended.
LEMMA AppendDifferent ==
  ASSUME NEW S, NEW s \in Seq(S), NEW e \in S, Different(s), ~ InTransit(e, s)
  PROVE  Different(Append(s, e))
<1>1. \A i \in DOMAIN Append(s, e) : \/ i \in DOMAIN s /\ Append(s, e)[i] = s[i]
                                     \/ i = Len(s) + 1 /\ Append(s, e)[i] = e
  OBVIOUS
<1>. QED  BY <1>1 DEF Different, InTransit

\* It stays one when the first is taken, which is no longer there.
LEMMA TailDifferent ==
  ASSUME NEW S, NEW s \in Seq(S), s # <<>>, Different(s)
  PROVE  Different(Tail(s)) /\ ~ InTransit(Head(s), Tail(s))
<1>1. \A i \in DOMAIN Tail(s) : i \in Nat /\ i + 1 \in DOMAIN s /\ i + 1 # 1 /\ Tail(s)[i] = s[i + 1]
  OBVIOUS
<1>2. 1 \in DOMAIN s /\ Head(s) = s[1]
  OBVIOUS
<1>3. Different(Tail(s))
  BY <1>1 DEF Different
<1>4. ~ InTransit(Head(s), Tail(s))
  BY <1>1, <1>2 DEF Different, InTransit
<1>. QED  BY <1>3, <1>4

-----------------------------------------------------------------------------
(* What the steps of the server do to the replies it owes.                 *)

USE DEF Server!devVars, Server!thrVars, Server!privVars, Server!unlVars, Server!admVars,
        Server!hisVars

\* The types the lemmas below need.
LEMMA ServerShape ==
  ASSUME ServerInv
  PROVE  /\ s_priv_init \subseteq Server!Privs /\ s_priv_tx \in Seq(Server!Privs)
         /\ s_unlink_tx \in Seq(Numbers)
         /\ s_tx \in [{1} -> Server!TxThread] /\ s_rx \in [{1} -> Server!RxThread]
         /\ s_conn \in {0, 1}
  BY DEF ServerInv, Stub!TypeOK, Stub!Privs, Server!Privs, Stub!Cmds, Server!Cmds, Numbers,
         Stub!Conns, Stub!TxThread, Server!TxThread, Stub!RxThread, Server!RxThread

\* Nothing is lost and nothing made up.
ServerSame ==
  /\ \A n \in Numbers : (HeldSubmit(n)' <=> HeldSubmit(n)) /\ (HeldUnlink(n)' <=> HeldUnlink(n))
  /\ ServerOnce'

\* Nothing is made up; what is lost is lost to a failure.
ServerKeeps ==
  /\ \A n \in Numbers : (HeldSubmit(n)' => HeldSubmit(n)) /\ (HeldUnlink(n)' => HeldUnlink(n))
  /\ ServerOnce'
  /\ Fine' => ServerSame

\* The server is not sending.
Silent(t) == t[1].pc \notin {"send_submit", "send_unlink"}

\* A step that moves no request.
LEMMA ServerUnmoved ==
  ASSUME ServerOnce, UNCHANGED <<s_priv_init, s_priv_tx, s_unlink_tx>>,
         s_tx'[1] = s_tx[1] \/ (Silent(s_tx) /\ Silent(s_tx'))
  PROVE  ServerSame
<1>1. \A n : /\ SendingSubmit(n)' <=> SendingSubmit(n)
             /\ SendingUnlink(n)' <=> SendingUnlink(n)
  BY DEF Silent, SendingSubmit, SendingUnlink
<1>. QED
  BY <1>1 DEF ServerSame, ServerOnce, HeldSubmit, HeldUnlink, InitSubmit, InitUnlink,
       QueuedSubmit, QueuedUnlink

\* A step that sets the state of a URB: its stub_priv keeps its number.
LEMMA ServerSetUrb ==
  ASSUME ServerInv, ServerOnce, NEW c, NEW urb, Server!SetUrb(c, urb),
         UNCHANGED <<s_priv_tx, s_unlink_tx, s_tx>>
  PROVE  ServerSame
<1> DEFINE f == [p \in s_priv_init |-> IF p.cmd = c THEN [p EXCEPT !.urb = urb] ELSE p]
<1>1. s_priv_init' = {f[p] : p \in s_priv_init}
  BY DEF Server!SetUrb
<1>2. \A p \in s_priv_init : f[p].seqnum = p.seqnum /\ f[p].unlinking = p.unlinking
  BY ServerShape DEF Server!Privs
<1>3. \A n : (InitSubmit(n)' <=> InitSubmit(n)) /\ (InitUnlink(n)' <=> InitUnlink(n))
  <2>1. \A q : q \in s_priv_init' <=> \E p \in s_priv_init : q = f[p]
    BY <1>1
  <2>2. \A p \in s_priv_init : f[p] \in s_priv_init'
    BY <1>1
  <2>. HIDE DEF f
  <2>. QED  BY <1>2, <2>1, <2>2 DEF InitSubmit, InitUnlink
<1>4. ASSUME NEW p \in s_priv_init', NEW q \in s_priv_init', p.unlinking, q.unlinking,
             p.seqnum = q.seqnum
      PROVE  p = q
  <2>1. PICK x \in s_priv_init : p = f[x]
    BY <1>1, <1>4
  <2>2. PICK y \in s_priv_init : q = f[y]
    BY <1>1, <1>4
  <2>3. x = y
    BY <1>2, <1>4, <2>1, <2>2 DEF ServerOnce
  <2>. QED  BY <2>1, <2>2, <2>3
<1>5. IsFiniteSet(s_priv_init')
  <2>1. f \in Surjection(s_priv_init, s_priv_init')
    BY <1>1 DEF Surjection
  <2>. QED  BY <2>1, FS_Surjection DEF ServerOnce
<1>6. \A n : /\ (QueuedSubmit(n)' <=> QueuedSubmit(n)) /\ (QueuedUnlink(n)' <=> QueuedUnlink(n))
             /\ (SendingSubmit(n)' <=> SendingSubmit(n)) /\ (SendingUnlink(n)' <=> SendingUnlink(n))
  BY DEF QueuedSubmit, QueuedUnlink, SendingSubmit, SendingUnlink
<1>7. Different(s_unlink_tx)'
  BY DEF ServerOnce
<1>. QED
  BY <1>3, <1>4, <1>5, <1>6, <1>7 DEF ServerSame, ServerOnce, HeldSubmit, HeldUnlink

\* stub_complete without a memory failure: the stub_priv goes to the queue its
\* reply is sent from.
LEMMA ServerComplete ==
  ASSUME ServerInv, ServerOnce, ServerCompletes
  PROVE  ServerKeeps
<1> USE ServerShape
<1>1. PICK p \in s_priv_init, quiet \in BOOLEAN : Server!stub_complete(p, quiet)
  BY DEF ServerCompletes, Server!Complete
<1>2. s_priv_init' = s_priv_init \ {p} /\ IsFiniteSet(s_priv_init')
  BY <1>1, FS_RemoveElement DEF Server!stub_complete, ServerOnce
<1>3. p.seqnum \in Numbers /\ p.unlinking \in BOOLEAN
  BY DEF Server!Privs, Server!Cmds, Numbers
<1>4. \A n : /\ (SendingSubmit(n)' <=> SendingSubmit(n)) /\ (SendingUnlink(n)' <=> SendingUnlink(n))
  BY <1>1 DEF Server!stub_complete, Server!WakeTx, Server!Conns, SendingSubmit, SendingUnlink,
              Server!TxThread
<1>5. \A n : /\ (InitSubmit(n) <=> InitSubmit(n)' \/ (~ p.unlinking /\ n = p.seqnum))
             /\ (InitUnlink(n) <=> InitUnlink(n)' \/ (p.unlinking /\ n = p.seqnum))
  BY <1>2 DEF InitSubmit, InitUnlink
<1>6. \A q, r \in s_priv_init' : (q.unlinking /\ r.unlinking /\ q.seqnum = r.seqnum) => q = r
  BY <1>2 DEF ServerOnce
<1>7. CASE p.unlinking /\ s_unlink_tx' = Append(s_unlink_tx, p.seqnum) /\ UNCHANGED s_priv_tx
  <2>1. \A n : QueuedUnlink(n)' <=> QueuedUnlink(n) \/ n = p.seqnum
    BY <1>3, <1>7, AppendIn DEF QueuedUnlink
  <2>2. \A n : QueuedSubmit(n)' <=> QueuedSubmit(n)
    BY <1>7 DEF QueuedSubmit
  <2>3. InitUnlink(p.seqnum) /\ ~ InitUnlink(p.seqnum)'
    BY <1>2, <1>7 DEF InitUnlink, ServerOnce
  <2>4. ~ QueuedUnlink(p.seqnum) /\ ~ SendingUnlink(p.seqnum)
    BY <1>3, <2>3 DEF ServerOnce
  <2>5. Different(s_unlink_tx')
    BY <1>3, <1>7, <2>4, AppendDifferent DEF QueuedUnlink, ServerOnce
  <2>. QED
    BY <1>2, <1>4, <1>5, <1>6, <1>7, <2>1, <2>2, <2>3, <2>4, <2>5
       DEF ServerKeeps, ServerSame, ServerOnce, HeldSubmit, HeldUnlink
<1>8. CASE p.unlinking /\ s_event' # {} /\ UNCHANGED <<s_unlink_tx, s_priv_tx>>
  <2>1. ~ Fine'
    BY <1>8 DEF Fine
  <2>2. \A n : (QueuedUnlink(n)' <=> QueuedUnlink(n)) /\ (QueuedSubmit(n)' <=> QueuedSubmit(n))
    BY <1>8 DEF QueuedSubmit, QueuedUnlink
  <2>. QED
    BY <1>2, <1>4, <1>5, <1>6, <1>8, <2>1, <2>2
       DEF ServerKeeps, ServerOnce, HeldSubmit, HeldUnlink
<1>9. CASE ~ p.unlinking /\ s_priv_tx' = Append(s_priv_tx, [p EXCEPT !.urb = "done"])
             /\ UNCHANGED s_unlink_tx
  <2>1. [p EXCEPT !.urb = "done"] \in Server!Privs /\ [p EXCEPT !.urb = "done"].seqnum = p.seqnum
    BY DEF Server!Privs
  <2>2. \A n : QueuedSubmit(n)' <=> QueuedSubmit(n) \/ n = p.seqnum
    <3> DEFINE q == [p EXCEPT !.urb = "done"]
    <3>1. \A x : InTransit(x, s_priv_tx') <=> InTransit(x, s_priv_tx) \/ x = q
      BY <1>9, <2>1, AppendIn
    <3>. HIDE DEF q
    <3>. QED  BY <2>1, <3>1 DEF QueuedSubmit, q
  <2>3. \A n : QueuedUnlink(n)' <=> QueuedUnlink(n)
    BY <1>9 DEF QueuedUnlink
  <2>. QED
    BY <1>2, <1>4, <1>5, <1>6, <1>9, <2>2, <2>3
       DEF ServerKeeps, ServerSame, ServerOnce, HeldSubmit, HeldUnlink
<1>10. Server!usbip_event_add(Server!VDEV_EVENT_ERROR_MALLOC) => s_event' # {}
  BY DEF Server!usbip_event_add, Server!VDEV_EVENT_ERROR_MALLOC
<1>11. IF p.unlinking
       THEN Server!stub_enqueue_ret_unlink(p.seqnum) /\ UNCHANGED s_priv_tx
       ELSE /\ s_priv_tx' = Append(s_priv_tx, [p EXCEPT !.urb = "done"])
            /\ UNCHANGED s_unlink_tx
  BY <1>1 DEF Server!stub_complete
<1>12. CASE p.unlinking
  <2>1. \/ s_unlink_tx' = Append(s_unlink_tx, p.seqnum)
        \/ s_event' # {} /\ UNCHANGED s_unlink_tx
    BY <1>10, <1>11, <1>12 DEF Server!stub_enqueue_ret_unlink
  <2>2. UNCHANGED s_priv_tx
    BY <1>11, <1>12
  <2>. QED  BY <1>7, <1>8, <1>12, <2>1, <2>2
<1>13. CASE ~ p.unlinking
  BY <1>9, <1>11, <1>13
<1>. QED  BY <1>12, <1>13

\* dequeue_from_priv_tx: the first reply is being sent.
LEMMA ServerTakeSubmit ==
  ASSUME ServerInv, ServerOnce, Server!TxTakeSubmit(1)
  PROVE  ServerSame
<1> USE ServerShape
<1>1. CASE UNCHANGED <<s_priv_init, s_priv_tx, s_unlink_tx>> /\ Silent(s_tx) /\ Silent(s_tx')
  BY <1>1, ServerUnmoved
<1>2. CASE s_priv_tx # <<>> /\ s_priv_tx' = Tail(s_priv_tx)
             /\ s_tx' = [s_tx EXCEPT ![1] = [pc |-> "send_submit", seqnum |-> Head(s_priv_tx).seqnum]]
             /\ UNCHANGED <<s_priv_init, s_unlink_tx>> /\ Silent(s_tx)
  <2> PICK h : h = Head(s_priv_tx)
    OBVIOUS
  <2>1. /\ h \in Server!Privs
        /\ \A x : InTransit(x, s_priv_tx) <=> x = h \/ InTransit(x, s_priv_tx')
    BY <1>2, TailIn
  <2>2. /\ \A n : SendingSubmit(n)' <=> n = h.seqnum
        /\ \A n : ~ SendingSubmit(n) /\ ~ SendingUnlink(n) /\ ~ SendingUnlink(n)'
    BY <1>2 DEF SendingSubmit, SendingUnlink, Silent
  <2>3. \A n : QueuedSubmit(n) <=> QueuedSubmit(n)' \/ n = h.seqnum
    BY <2>1 DEF QueuedSubmit
  <2>4. \A n : /\ (InitSubmit(n)' <=> InitSubmit(n)) /\ (InitUnlink(n)' <=> InitUnlink(n))
               /\ (QueuedUnlink(n)' <=> QueuedUnlink(n))
    BY <1>2 DEF InitSubmit, InitUnlink, QueuedUnlink
  <2>5. ServerOnce'
    BY <1>2, <2>2, <2>4 DEF ServerOnce, InitUnlink
  <2>. QED
    BY <2>2, <2>3, <2>4, <2>5 DEF ServerSame, HeldSubmit, HeldUnlink
<1>. QED  BY <1>1, <1>2 DEF Server!TxTakeSubmit, Server!TxTo, Silent

\* dequeue_from_unlink_tx likewise.
LEMMA ServerTakeUnlink ==
  ASSUME ServerInv, ServerOnce, Server!TxTakeUnlink(1)
  PROVE  ServerSame
<1> USE ServerShape
<1>1. CASE UNCHANGED <<s_priv_init, s_priv_tx, s_unlink_tx>> /\ Silent(s_tx) /\ Silent(s_tx')
  BY <1>1, ServerUnmoved
<1>2. CASE s_unlink_tx # <<>> /\ s_unlink_tx' = Tail(s_unlink_tx)
             /\ s_tx' = [s_tx EXCEPT ![1] = [pc |-> "send_unlink", seqnum |-> Head(s_unlink_tx)]]
             /\ UNCHANGED <<s_priv_init, s_priv_tx>> /\ Silent(s_tx)
  <2> PICK h : h = Head(s_unlink_tx)
    OBVIOUS
  <2>1. /\ h \in Numbers
        /\ \A x : InTransit(x, s_unlink_tx) <=> x = h \/ InTransit(x, s_unlink_tx')
    BY <1>2, TailIn
  <2>2. Different(s_unlink_tx') /\ ~ InTransit(h, s_unlink_tx')
    BY <1>2, TailDifferent DEF ServerOnce
  <2>3. /\ \A n : SendingUnlink(n)' <=> n = h
        /\ \A n : ~ SendingUnlink(n) /\ ~ SendingSubmit(n) /\ ~ SendingSubmit(n)'
    BY <1>2 DEF SendingSubmit, SendingUnlink, Silent
  <2>4. \A n : QueuedUnlink(n) <=> QueuedUnlink(n)' \/ n = h
    BY <2>1 DEF QueuedUnlink
  <2>5. ~ QueuedUnlink(h)' /\ QueuedUnlink(h)
    BY <2>2, <2>4 DEF QueuedUnlink
  <2>6. \A n : /\ (InitSubmit(n)' <=> InitSubmit(n)) /\ (InitUnlink(n)' <=> InitUnlink(n))
               /\ (QueuedSubmit(n)' <=> QueuedSubmit(n))
    BY <1>2 DEF InitSubmit, InitUnlink, QueuedSubmit
  <2>7. ServerOnce'
    BY <1>2, <2>1, <2>2, <2>3, <2>4, <2>5, <2>6 DEF ServerOnce
  <2>. QED
    BY <2>3, <2>4, <2>6, <2>7 DEF ServerSame, HeldSubmit, HeldUnlink
<1>. QED  BY <1>1, <1>2 DEF Server!TxTakeUnlink, Server!TxTo, Silent

\* Fine holds only while both ends are open, or not attached yet, and their
\* event threads have nothing to do.
LEMMA FineMeans ==
  ASSUME ServerInv, ServerOpenInv, Fine
  PROVE  s_event = {} /\ s_eh.pc \in {"head", "wait"} /\ (s_conn = 1 => s_tcp_socket = "open")
<1>1. s_event = {} /\ ~ Broken
  BY DEF Fine
<1>2. s_conn = 1 => s_tcp_socket = "open"
  BY <1>1 DEF Broken, ServerGone
<1>3. s_conn \in {0, 1}
  BY ServerShape
<1>. QED  BY <1>1, <1>2, <1>3 DEF ServerOpenInv

\* A thread stub_tx that fails to send, and the cleanup, lose replies after a
\* failure only.
LEMMA ServerLoses ==
  ASSUME ServerInv, ServerOnce, ServerOpenInv, Fine' => Fine,
         \/ Server!TxSendFails(1, Server!SDEV_EVENT_ERROR_TCP)
         \/ Server!EhCleanup
  PROVE  ServerKeeps
<1> USE ServerShape
<1>1. CASE Server!TxSendFails(1, Server!SDEV_EVENT_ERROR_TCP)
  <2>1. s_event' # {}
    BY <1>1 DEF Server!TxSendFails, Server!usbip_event_add, Server!SDEV_EVENT_ERROR_TCP
  <2>2. /\ UNCHANGED <<s_priv_init, s_priv_tx, s_unlink_tx>>
        /\ \A n : ~ SendingSubmit(n)' /\ ~ SendingUnlink(n)'
    BY <1>1 DEF Server!TxSendFails, Server!TxTo, SendingSubmit, SendingUnlink
  <2>3. \A n : /\ (InitSubmit(n)' <=> InitSubmit(n)) /\ (InitUnlink(n)' <=> InitUnlink(n))
               /\ (QueuedSubmit(n)' <=> QueuedSubmit(n)) /\ (QueuedUnlink(n)' <=> QueuedUnlink(n))
    BY <2>2 DEF InitSubmit, InitUnlink, QueuedSubmit, QueuedUnlink
  <2>4. ServerOnce'
    BY <2>2, <2>3 DEF ServerOnce
  <2>5. ~ Fine'
    BY <2>1 DEF Fine
  <2>. QED  BY <2>2, <2>3, <2>4, <2>5 DEF ServerKeeps, HeldSubmit, HeldUnlink
<1>2. CASE Server!EhCleanup
  <2>1. CASE s_priv_init' = {} /\ s_priv_tx' = <<>> /\ s_unlink_tx' = <<>>
    <3>1. UNCHANGED s_tx
      BY <1>2 DEF Server!EhCleanup
    <3>2. \A n : /\ ~ InitSubmit(n)' /\ ~ InitUnlink(n)' /\ ~ QueuedSubmit(n)' /\ ~ QueuedUnlink(n)'
                 /\ (SendingSubmit(n)' <=> SendingSubmit(n)) /\ (SendingUnlink(n)' <=> SendingUnlink(n))
      BY <2>1, <3>1
         DEF InitSubmit, InitUnlink, QueuedSubmit, QueuedUnlink, SendingSubmit, SendingUnlink,
             InTransit
    <3>3. IsFiniteSet(s_priv_init')
      BY <2>1, FS_EmptySet
    <3>4. ServerOnce'
      BY <2>1, <3>2, <3>3 DEF ServerOnce, Different
    <3>5. ~ Fine'
      BY <1>2, FineMeans DEF Server!EhCleanup
    <3>. QED  BY <3>2, <3>4, <3>5 DEF ServerKeeps, HeldSubmit, HeldUnlink
  <2>2. CASE UNCHANGED <<s_priv_init, s_priv_tx, s_unlink_tx>>
    <3>1. UNCHANGED s_tx
      BY <1>2 DEF Server!EhCleanup
    <3>. QED  BY <2>2, <3>1, ServerUnmoved DEF ServerKeeps, ServerSame
  <2>. QED  BY <1>2, <2>1, <2>2 DEF Server!EhCleanup
<1>. QED  BY <1>1, <1>2

\* Every step of the server that sends and receives nothing.
LEMMA ServerAloneKeeps ==
  ASSUME ServerInv, ServerOnce, ServerOpenInv, Fine' => Fine,
         \/ ServerAdmin \/ Server!SockfdStep \/ Server!EhStep \/ ServerTx \/ ServerRx
         \/ ServerCompletes \/ Server!EhSendDisconnect
  PROVE  ServerKeeps
<1> USE ServerShape
<1>0. ServerSame => ServerKeeps
  BY DEF ServerSame, ServerKeeps
<1>1. CASE ServerAdmin \/ Server!EhSendDisconnect
  <2>1. UNCHANGED <<s_priv_init, s_priv_tx, s_unlink_tx, s_tx>>
    BY <1>1 DEF ServerAdmin, Server!SockfdClaim, Server!DownCheck, Server!DownEvent,
         Server!EhSendDisconnect
  <2>. QED  BY <1>0, <2>1, ServerUnmoved
<1>2. CASE Server!SockfdStep
  <2>1. CASE Server!SockfdRunTx
    <3>1. Silent(s_tx)
      BY <2>1 DEF Server!SockfdRunTx, ServerInv, Stub!ThreadInv, Stub!SockfdInv, Stub!TxStopped,
           Stub!ThreadEnded, Stub!Conns, Silent
    <3>2. UNCHANGED <<s_priv_init, s_priv_tx, s_unlink_tx>> /\ Silent(s_tx')
      BY <2>1, <3>1 DEF Server!SockfdRunTx, Server!TxTo, Silent
    <3>. QED  BY <1>0, <3>1, <3>2, ServerUnmoved
  <2>2. CASE Server!SockfdRunRx \/ Server!SockfdSetRx \/ Server!SockfdSetTx
    <3>1. UNCHANGED <<s_priv_init, s_priv_tx, s_unlink_tx, s_tx>>
      BY <2>2 DEF Server!SockfdRunRx, Server!SockfdSetRx, Server!SockfdSetTx
    <3>. QED  BY <1>0, <3>1, ServerUnmoved
  <2>. QED  BY <1>2, <2>1, <2>2 DEF Server!SockfdStep
<1>3. CASE Server!EhStep
  <2>1. CASE Server!EhCleanup
    BY <2>1, ServerLoses
  <2>2. CASE ~ Server!EhCleanup
    <3>1. UNCHANGED <<s_priv_init, s_priv_tx, s_unlink_tx, s_tx>>
      BY <1>3, <2>2 DEF Server!EhStep, Server!EhLoop, Server!EhShutdown, Server!EhStopRx,
           Server!EhStopTx, Server!EhPutSocket, Server!EhReset, Server!EhUnusable
    <3>. QED  BY <1>0, <3>1, ServerUnmoved
  <2>. QED  BY <2>1, <2>2
<1>4. CASE ServerTx
  <2>1. CASE Server!TxTop(1) \/ Server!TxWait(1)
    <3>1. UNCHANGED <<s_priv_init, s_priv_tx, s_unlink_tx>> /\ Silent(s_tx) /\ Silent(s_tx')
      BY <2>1 DEF Server!TxTop, Server!TxWait, Server!TxTo, Silent
    <3>. QED  BY <1>0, <3>1, ServerUnmoved
  <2>. QED
    BY <1>0, <1>4, <2>1, ServerTakeSubmit, ServerTakeUnlink, ServerLoses DEF ServerTx
<1>5. CASE ServerRx
  <2>1. CASE Server!RxLoop(1) \/ Server!RxBad(1)
    <3>1. UNCHANGED <<s_priv_init, s_priv_tx, s_unlink_tx, s_tx>>
      BY <2>1 DEF Server!RxLoop, Server!RxBad
    <3>. QED  BY <1>0, <3>1, ServerUnmoved
  <2>2. CASE Server!RxUnlinkUrb(1) \/ Server!RxAlloc(1) \/ Server!RxSubmitUrb(1)
    <3>1. /\ UNCHANGED <<s_priv_tx, s_unlink_tx, s_tx>>
          /\ UNCHANGED s_priv_init \/ \E c, urb : Server!SetUrb(c, urb)
      BY <2>2 DEF Server!RxUnlinkUrb, Server!RxAlloc, Server!RxSubmitUrb
    <3>. QED  BY <1>0, <3>1, ServerUnmoved, ServerSetUrb
  <2>. QED  BY <1>5, <2>1, <2>2 DEF ServerRx
<1>6. CASE ServerCompletes
  BY <1>6, ServerComplete
<1>. QED  BY <1>1, <1>2, <1>3, <1>4, <1>5, <1>6

\* One element in the place of another.
LEMMA FiniteSwap ==
  ASSUME NEW S, IsFiniteSet(S), NEW p, NEW q
  PROVE  IsFiniteSet((S \ {p}) \cup {q})
<1>1. IsFiniteSet(S \ {p})
  BY FS_RemoveElement
<1>. QED  BY <1>1, FS_AddElement

\* A CMD_SUBMIT that arrives is held, unless there is no memory.
LEMMA ServerGetsSubmit ==
  ASSUME ServerInv, ServerOnce, NEW n \in Numbers, Server!RxCmdSubmit(1, n), UNCHANGED s_event
  PROVE  /\ \A m \in Numbers : /\ HeldSubmit(m)' => HeldSubmit(m) \/ m = n
                               /\ HeldUnlink(m)' <=> HeldUnlink(m)
         /\ ServerOnce'
         /\ Fine' => \A m \in Numbers : HeldSubmit(m) \/ m = n => HeldSubmit(m)'
<1> USE ServerShape
<1>1. UNCHANGED <<s_priv_tx, s_unlink_tx, s_tx>>
  BY DEF Server!RxCmdSubmit
<1>2. \A m : /\ (QueuedSubmit(m)' <=> QueuedSubmit(m)) /\ (QueuedUnlink(m)' <=> QueuedUnlink(m))
             /\ (SendingSubmit(m)' <=> SendingSubmit(m)) /\ (SendingUnlink(m)' <=> SendingUnlink(m))
  BY <1>1 DEF QueuedSubmit, QueuedUnlink, SendingSubmit, SendingUnlink
<1>3. CASE s_priv_init' = s_priv_init \cup
             {[cmd |-> n, seqnum |-> n, unlinking |-> FALSE, urb |-> "none"]}
  <2> PICK q : q = [cmd |-> n, seqnum |-> n, unlinking |-> FALSE, urb |-> "none"]
    OBVIOUS
  <2>0. /\ ~ q.unlinking /\ q.seqnum = n
        /\ \A r : r \in s_priv_init' <=> r \in s_priv_init \/ r = q
    BY <1>3
  <2>1. \A m : /\ InitSubmit(m)' <=> InitSubmit(m) \/ m = n
               /\ InitUnlink(m)' <=> InitUnlink(m)
    BY <2>0 DEF InitSubmit, InitUnlink
  <2>2. \A p, r \in s_priv_init' : (p.unlinking /\ r.unlinking /\ p.seqnum = r.seqnum) => p = r
    BY <1>3 DEF ServerOnce
  <2>3. IsFiniteSet(s_priv_init')
    BY <1>3, FS_AddElement DEF ServerOnce
  <2>4. ServerOnce'
    BY <1>1, <1>2, <2>1, <2>2, <2>3 DEF ServerOnce
  <2>. QED  BY <1>2, <2>1, <2>4 DEF HeldSubmit, HeldUnlink
<1>4. CASE UNCHANGED s_priv_init /\ s_event' # {}
  <2>1. ~ Fine'
    BY <1>4 DEF Fine
  <2>2. ServerSame
    BY <1>1, <1>4, ServerUnmoved
  <2>. QED  BY <2>1, <2>2 DEF ServerSame
<1>. QED
  BY <1>3, <1>4
     DEF Server!RxCmdSubmit, Server!usbip_event_add, Server!SDEV_EVENT_ERROR_MALLOC

\* A CMD_UNLINK that arrives is held, and may take the place of the request it
\* cancels, unless there is no memory.
LEMMA ServerGetsUnlink ==
  ASSUME ServerInv, ServerOnce, NEW n \in Numbers, NEW t \in Targets,
         Server!RxCmdUnlink(1, n, t), UNCHANGED s_event,
         ~ HeldUnlink(n), t \in Numbers => ~ HeldUnlink(t)
  PROVE  /\ \A m \in Numbers : /\ HeldSubmit(m)' => HeldSubmit(m)
                               /\ HeldUnlink(m)' => HeldUnlink(m) \/ m = n
         /\ ServerOnce'
         /\ Fine' => \A m \in Numbers : /\ HeldSubmit(m) => HeldSubmit(m)' \/ m = t
                                        /\ HeldUnlink(m) \/ m = n => HeldUnlink(m)'
<1> USE ServerShape
<1>1. UNCHANGED <<s_priv_tx, s_tx>>
  BY DEF Server!RxCmdUnlink
<1>2. \A m : /\ QueuedSubmit(m)' <=> QueuedSubmit(m)
             /\ (SendingSubmit(m)' <=> SendingSubmit(m)) /\ (SendingUnlink(m)' <=> SendingUnlink(m))
  BY <1>1 DEF QueuedSubmit, SendingSubmit, SendingUnlink
<1>3. ~ InitUnlink(n) /\ ~ QueuedUnlink(n) /\ ~ SendingUnlink(n)
  BY DEF HeldUnlink
<1>4. ASSUME NEW p \in s_priv_init, p.seqnum = t, UNCHANGED s_unlink_tx,
             s_priv_init' = (s_priv_init \ {p}) \cup {[p EXCEPT !.unlinking = TRUE, !.seqnum = n]}
      PROVE  /\ ServerOnce'
             /\ \A m \in Numbers : /\ HeldSubmit(m)' => HeldSubmit(m)
                                   /\ HeldUnlink(m)' <=> HeldUnlink(m) \/ m = n
                                   /\ HeldSubmit(m) => HeldSubmit(m)' \/ m = t
  <2> PICK q : q = [p EXCEPT !.unlinking = TRUE, !.seqnum = n]
    OBVIOUS
  <2>1. q.unlinking = TRUE /\ q.seqnum = n
    BY DEF Server!Privs
  <2>2. ~ p.unlinking /\ t \in Numbers
    BY <1>4 DEF HeldUnlink, InitUnlink, Server!Privs, Server!Cmds, Numbers
  <2>3. \A r : r \in s_priv_init' <=> r = q \/ (r \in s_priv_init /\ r # p)
    BY <1>4
  <2>4. \A m : /\ InitSubmit(m)' => InitSubmit(m)
               /\ InitSubmit(m) => InitSubmit(m)' \/ m = t
               /\ InitUnlink(m)' <=> InitUnlink(m) \/ m = n
    BY <1>4, <2>1, <2>2, <2>3 DEF InitSubmit, InitUnlink
  <2>5. \A r, s \in s_priv_init' : (r.unlinking /\ s.unlinking /\ r.seqnum = s.seqnum) => r = s
    BY <1>3, <2>1, <2>3 DEF ServerOnce, InitUnlink
  <2>6. IsFiniteSet(s_priv_init')
    <3>1. s_priv_init' = (s_priv_init \ {p}) \cup {q}
      BY <1>4
    <3>. QED  BY <3>1, FiniteSwap DEF ServerOnce
  <2>7. \A m : QueuedUnlink(m)' <=> QueuedUnlink(m)
    BY <1>4 DEF QueuedUnlink
  <2>8. ServerOnce'
    BY <1>2, <1>3, <1>4, <2>4, <2>5, <2>6, <2>7 DEF ServerOnce
  <2>. QED  BY <1>2, <2>4, <2>7, <2>8 DEF HeldSubmit, HeldUnlink
<1>5. CASE s_unlink_tx' = Append(s_unlink_tx, n) /\ UNCHANGED s_priv_init
  <2>1. \A m : QueuedUnlink(m)' <=> QueuedUnlink(m) \/ m = n
    BY <1>5, AppendIn DEF QueuedUnlink
  <2>2. Different(s_unlink_tx')
    BY <1>3, <1>5, AppendDifferent DEF QueuedUnlink, ServerOnce
  <2>3. \A m : (InitSubmit(m)' <=> InitSubmit(m)) /\ (InitUnlink(m)' <=> InitUnlink(m))
    BY <1>5 DEF InitSubmit, InitUnlink
  <2>4. ServerOnce'
    BY <1>2, <1>3, <1>5, <2>1, <2>2, <2>3 DEF ServerOnce
  <2>. QED  BY <1>2, <2>1, <2>3, <2>4 DEF HeldSubmit, HeldUnlink
<1>6. CASE s_event' # {} /\ UNCHANGED <<s_priv_init, s_unlink_tx>>
  <2>1. ~ Fine'
    BY <1>6 DEF Fine
  <2>2. ServerSame
    BY <1>1, <1>6, ServerUnmoved
  <2>. QED  BY <2>1, <2>2 DEF ServerSame
<1>7. \/ \E p \in s_priv_init :
            /\ p.seqnum = t /\ UNCHANGED s_unlink_tx
            /\ s_priv_init' = (s_priv_init \ {p}) \cup
                                {[p EXCEPT !.unlinking = TRUE, !.seqnum = n]}
      \/ s_unlink_tx' = Append(s_unlink_tx, n) /\ UNCHANGED s_priv_init
      \/ s_event' # {} /\ UNCHANGED <<s_priv_init, s_unlink_tx>>
  BY DEF Server!RxCmdUnlink, Server!stub_enqueue_ret_unlink, Server!usbip_event_add,
         Server!VDEV_EVENT_ERROR_MALLOC
<1>. QED  BY <1>4, <1>5, <1>6, <1>7

\* A RET_SUBMIT that goes out was held.
LEMMA ServerPutsSubmit ==
  ASSUME ServerInv, ServerOnce, NEW n \in Numbers, Server!TxSendSubmit(1, n)
  PROVE  /\ HeldSubmit(n) /\ ServerOnce'
         /\ \A m \in Numbers : /\ HeldSubmit(m)' => HeldSubmit(m)
                               /\ HeldSubmit(m) => HeldSubmit(m)' \/ m = n
                               /\ HeldUnlink(m)' <=> HeldUnlink(m)
<1> USE ServerShape
<1>1. /\ SendingSubmit(n)
      /\ \A m : /\ SendingSubmit(m) => m = n
                /\ ~ SendingUnlink(m) /\ ~ SendingSubmit(m)' /\ ~ SendingUnlink(m)'
  BY DEF Server!TxSendSubmit, Server!TxTo, SendingSubmit, SendingUnlink
<1>2. UNCHANGED <<s_priv_init, s_priv_tx, s_unlink_tx>>
  BY DEF Server!TxSendSubmit
<1>3. \A m : /\ (InitSubmit(m)' <=> InitSubmit(m)) /\ (InitUnlink(m)' <=> InitUnlink(m))
             /\ (QueuedSubmit(m)' <=> QueuedSubmit(m)) /\ (QueuedUnlink(m)' <=> QueuedUnlink(m))
  BY <1>2 DEF InitSubmit, InitUnlink, QueuedSubmit, QueuedUnlink
<1>4. ServerOnce'
  BY <1>1, <1>2, <1>3 DEF ServerOnce
<1>. QED  BY <1>1, <1>3, <1>4 DEF HeldSubmit, HeldUnlink

\* A RET_UNLINK that goes out was held, and is not any more.
LEMMA ServerPutsUnlink ==
  ASSUME ServerInv, ServerOnce, NEW n \in Numbers, Server!TxSendUnlink(1, n)
  PROVE  /\ HeldUnlink(n) /\ ~ HeldUnlink(n)' /\ ServerOnce'
         /\ \A m \in Numbers : /\ HeldUnlink(m)' => HeldUnlink(m)
                               /\ HeldUnlink(m) => HeldUnlink(m)' \/ m = n
                               /\ HeldSubmit(m)' <=> HeldSubmit(m)
<1> USE ServerShape
<1>1. /\ SendingUnlink(n)
      /\ \A m : /\ SendingUnlink(m) => m = n
                /\ ~ SendingSubmit(m) /\ ~ SendingSubmit(m)' /\ ~ SendingUnlink(m)'
  BY DEF Server!TxSendUnlink, Server!TxTo, SendingSubmit, SendingUnlink
<1>2. UNCHANGED <<s_priv_init, s_priv_tx, s_unlink_tx>>
  BY DEF Server!TxSendUnlink
<1>3. \A m : /\ (InitSubmit(m)' <=> InitSubmit(m)) /\ (InitUnlink(m)' <=> InitUnlink(m))
             /\ (QueuedSubmit(m)' <=> QueuedSubmit(m)) /\ (QueuedUnlink(m)' <=> QueuedUnlink(m))
  BY <1>2 DEF InitSubmit, InitUnlink, QueuedSubmit, QueuedUnlink
<1>4. ~ InitUnlink(n) /\ ~ QueuedUnlink(n)
  BY <1>1 DEF ServerOnce
<1>5. ServerOnce'
  BY <1>1, <1>2, <1>3 DEF ServerOnce
<1>. QED  BY <1>1, <1>3, <1>4, <1>5 DEF HeldSubmit, HeldUnlink

-----------------------------------------------------------------------------
(* 1. What goes wrong stays wrong.                                         *)

\* Nothing has gone wrong at one end.
ServerFine == s_event = {} /\ ~ ServerGone
ClientFine == c_event = {} /\ ~ ClientGone

\* A thread of the server runs on its connection only.
LEMMA ServerRuns ==
  ASSUME ServerInv
  PROVE  /\ s_rx[1].pc \notin {"unborn", "done"} => s_conn = 1
         /\ s_tx[1].pc \notin {"unborn", "done"} => s_conn = 1
  BY DEF ServerInv, Stub!ThreadInv, Stub!RunningInv, Stub!ThreadEnded, Stub!Conns

\* A thread of the server, or the USB core, ends nothing: it raises events.
LEMMA ServerThreadsOpen ==
  ASSUME ServerInv, ServerOpenInv,
         \/ Server!Complete \/ Server!SockfdStep
         \/ Server!RxBad(1) \/ Server!RxStep(1) \/ Server!TxSend(1) \/ Server!TxStep(1)
         \/ \E n \in Numbers : \/ Server!RxCmdSubmit(1, n)
                               \/ \E t \in Targets : Server!RxCmdUnlink(1, n, t)
  PROVE  ServerOpenInv' /\ (ServerFine' => ServerFine)
<1>1. UNCHANGED <<s_status, s_tcp_socket, s_conn, s_down, s_unbind, s_eh>>
  BY DEF Server!Complete, Server!stub_complete, Server!SockfdStep, Server!SockfdRunRx,
       Server!SockfdSetRx, Server!SockfdRunTx, Server!SockfdSetTx, Server!RxBad, Server!RxStep,
       Server!RxLoop, Server!RxAlloc, Server!RxSubmitUrb, Server!RxSetupFails,
       Server!RxIsoNoMemory, Server!RxUnlinkUrb, Server!TxSend, Server!TxSendSubmit,
       Server!TxSendUnlink, Server!TxStep, Server!TxTop, Server!TxTakeSubmit,
       Server!TxTakeUnlink, Server!TxWait, Server!TxSendFails, Server!RxCmdSubmit,
       Server!RxCmdUnlink
<1>2. s_event \subseteq s_event'
  BY DEF Server!Complete, Server!stub_complete, Server!SockfdStep, Server!SockfdRunRx,
       Server!SockfdSetRx, Server!SockfdRunTx, Server!SockfdSetTx, Server!RxBad, Server!RxStep,
       Server!RxLoop, Server!RxAlloc, Server!RxSubmitUrb, Server!RxSetupFails,
       Server!RxIsoNoMemory, Server!RxUnlinkUrb, Server!TxSend, Server!TxSendSubmit,
       Server!TxSendUnlink, Server!TxStep, Server!TxTop, Server!TxTakeSubmit,
       Server!TxTakeUnlink, Server!TxWait, Server!TxSendFails, Server!RxCmdSubmit,
       Server!RxCmdUnlink, Server!usbip_event_add, Server!stub_enqueue_ret_unlink
<1>3. s_conn = 0 => UNCHANGED s_event
  <2> SUFFICES ASSUME s_conn = 0 PROVE UNCHANGED s_event
    OBVIOUS
  <2>1. s_priv_init = {}
    BY DEF ServerOpenInv, ServerInv, Stub!ThreadInv, Stub!StoppedInv, Stub!NoRequests
  <2>2. s_rx[1].pc \in {"unborn", "done"} /\ s_tx[1].pc \in {"unborn", "done"}
    BY ServerRuns
  <2>. QED
    BY <2>1, <2>2
       DEF Server!Complete, Server!SockfdStep, Server!SockfdRunRx, Server!SockfdSetRx,
       Server!SockfdRunTx, Server!SockfdSetTx, Server!RxBad, Server!RxStep, Server!RxLoop,
       Server!RxAlloc, Server!RxSubmitUrb, Server!RxSetupFails, Server!RxIsoNoMemory,
       Server!RxUnlinkUrb, Server!TxSend, Server!TxSendSubmit, Server!TxSendUnlink,
       Server!TxStep, Server!TxTop, Server!TxTakeSubmit, Server!TxTakeUnlink, Server!TxWait,
       Server!TxSendFails, Server!RxCmdSubmit, Server!RxCmdUnlink, Server!Valid
<1>4. ServerOpenInv'
  BY <1>1, <1>2, <1>3 DEF ServerOpenInv
<1>5. ServerFine' => ServerFine
  BY <1>1, <1>2 DEF ServerFine, ServerGone
<1>. QED  BY <1>4, <1>5

\* The event thread takes a bit back only after it has shut the socket.
LEMMA ServerEhOpen ==
  ASSUME ServerInv, ServerOpenInv, Server!EhStep \/ Server!EhSendDisconnect
  PROVE  ServerOpenInv' /\ (ServerFine' => ServerFine)
<1> USE ServerShape
<1>0. /\ s_eh.pc = "wait" => "SHUTDOWN" \in s_event \/ s_event = {}
      /\ s_unbind = "no"
  BY DEF ServerInv, Stub!ThreadInv, Stub!ShutdownFirst, Stub!Rest, ServerOpenInv
<1>1. UNCHANGED <<s_conn, s_down, s_unbind>>
  BY DEF Server!EhStep, Server!EhLoop, Server!EhShutdown, Server!EhStopRx, Server!EhStopTx,
       Server!EhPutSocket, Server!EhCleanup, Server!EhReset, Server!EhUnusable,
       Server!EhSendDisconnect
<1>2. CASE Server!EhLoop
  <2>1. UNCHANGED <<s_status, s_tcp_socket>>
    BY <1>2 DEF Server!EhLoop
  <2>2. CASE Server!EhHead(s_unbind = "done") \/ Server!EhIdle \/ Server!EhWake(s_unbind = "done")
    <3>1. UNCHANGED s_event
      BY <2>2 DEF Server!EhHead, Server!EhIdle, Server!EhWake
    <3>2. ServerOpenInv'
      BY <1>0, <1>1, <2>1, <2>2, <3>1
         DEF ServerOpenInv, Server!EhHead, Server!EhIdle, Server!EhWake, Server!EhTo
    <3>. QED  BY <1>1, <2>1, <3>1, <3>2 DEF ServerFine, ServerGone
  <2>3. CASE Server!EhSkips \/ Server!EhClears \/ Server!EhBye
    <3>1. s_conn = 1 /\ s_tcp_socket # "open"
      BY <2>3 DEF ServerOpenInv, Server!EhSkips, Server!EhSkip, Server!EhClears, Server!EhLoad,
                  Server!EhStore, Server!EhBye, Server!EhHandle
    <3>. QED  BY <1>0, <1>1, <2>1, <3>1 DEF ServerOpenInv, ServerFine, ServerGone
  <2>. QED  BY <1>2, <2>2, <2>3 DEF Server!EhLoop, Server!EhRound
<1>3. CASE Server!EhSendDisconnect
  BY <1>0, <1>1, <1>3
     DEF ServerOpenInv, Server!EhSendDisconnect, Server!EhHandle, Server!EhTo, ServerFine, ServerGone
<1>4. CASE \/ Server!EhShutdown \/ Server!EhStopRx \/ Server!EhStopTx \/ Server!EhPutSocket
           \/ Server!EhCleanup \/ Server!EhReset \/ Server!EhUnusable
  <2>1. s_conn = 1 /\ s_tcp_socket' # "open"
    BY <1>4 DEF ServerOpenInv, Server!EhShutdown, Server!EhStopRx, Server!EhStopTx,
       Server!EhPutSocket, Server!EhCleanup, Server!EhReset, Server!EhUnusable, Server!EhHandle
  <2>. QED  BY <1>0, <1>1, <2>1 DEF ServerOpenInv, ServerFine, ServerGone
<1>. QED  BY <1>2, <1>3, <1>4 DEF Server!EhStep

\* A write to usbip_sockfd gives the device its one connection, or ends it.
LEMMA ServerAdminOpen ==
  ASSUME ServerInv, ServerOpenInv, ServerAdmin
  PROVE  ServerOpenInv' /\ (ServerFine' => ServerFine)
<1> USE ServerShape
<1>1. CASE Server!SockfdClaim
  BY <1>1 DEF ServerOpenInv, Server!SockfdClaim, ServerFine, ServerGone
<1>2. CASE Server!DownCheck
  BY <1>2 DEF ServerOpenInv, Server!DownCheck, ServerFine, ServerGone
<1>3. CASE Server!DownEvent
  BY <1>3 DEF ServerOpenInv, Server!DownEvent, ServerFine, ServerGone, Server!usbip_event_add
<1>. QED  BY <1>1, <1>2, <1>3 DEF ServerAdmin

\* Every step, at the server.
LEMMA ServerOpenStep ==
  ASSUME ServerInv, ServerOpenInv, Next
  PROVE  ServerOpenInv' /\ (ServerFine' => ServerFine)
<1>1. CASE UNCHANGED serverVars
  BY <1>1 DEF serverVars, ServerOpenInv, ServerFine, ServerGone
<1>. QED
  BY <1>1, ServerKinds, ServerThreadsOpen, ServerEhOpen, ServerAdminOpen

USE DEF Client!portVars, Client!urbVars, Client!thrVars, Client!admVars, Client!ehVars

\* The types the lemmas below need.
LEMMA ClientShape ==
  ASSUME ClientInv
  PROVE  /\ c_priv \in [Urbs -> Client!Priv]
         /\ c_unlink_tx \subseteq Client!Unlink /\ c_unlink_rx \subseteq Client!Unlink
         /\ c_tx \in [{1} -> Client!TxThread] /\ c_rx \in [{1} -> Client!RxThread]
         /\ c_call \in Client!Calls
         /\ c_conn \in {0, 1} /\ c_seqnum \in 0 .. MaxSeqnum
  BY DEF ClientInv, Port!TypeInv, Port!TypeOK, Port!Priv, Client!Priv, Port!NoPriv, Client!NoPriv,
         Port!Unlink, Client!Unlink, Port!Conns, Client!Conns, Port!TxThread, Client!TxThread,
         Port!RxThread, Client!RxThread, Port!Calls, Client!Calls

\* A thread of the client runs on its connection only, and so does an enqueue.
LEMMA ClientRuns ==
  ASSUME ClientInv
  PROVE  /\ c_rx[1].pc \notin {"unborn", "done"} => c_conn = 1
         /\ c_tx[1].pc \notin {"unborn", "done"} => c_conn = 1
         /\ c_call.op \notin {"none", "dequeue"} => c_conn # 0
  BY DEF ClientInv, Port!ThreadInv, Port!RunningInv, Port!ThreadEnded, Port!Conns, Port!TypeInv,
         Port!CallInv

\* The USB core, a thread of the client and a write to attach, once the port is
\* claimed, end nothing: they raise events.
LEMMA ClientThreadsOpen ==
  ASSUME ClientInv, ClientOpenInv,
         \/ ClientCall \/ ClientCallStep \/ Client!AttachStep \/ ClientTx \/ ClientRx
         \/ \E n, t \in Targets : Client!TxSendSubmit(1, n) \/ Client!TxSendUnlink(1, n, t)
         \/ Client!RxDown(1)
         \/ \E n \in Numbers : Client!RxRetSubmit(1, n) \/ Client!RxRetUnlink(1, n)
  PROVE  ClientOpenInv' /\ (ClientFine' => ClientFine)
<1>1. UNCHANGED <<c_tcp_socket, c_conn, c_detach, c_unload, c_eh>>
  BY DEF ClientCall, Client!vhci_urb_enqueue, Client!vhci_urb_dequeue, ClientCallStep,
       Client!EnqueueSetAddress, Client!EnqueueGetVdev, Client!EnqueuePush, Client!DequeueLocal,
       Client!DequeueUnlink, Client!AttachStep, Client!AttachRunRx, Client!AttachSetRx,
       Client!AttachRunTx, Client!AttachSetTx, Client!AttachConnect, ClientTx,
       Client!TxTakeSubmit, Client!TxTakeUnlink, Client!TxWait, Client!TxOops,
       Client!TxSendFails, ClientRx, Client!RxLoop, Client!RxPayload, Client!RxGiveBack,
       Client!RxDown, Client!TxSendSubmit, Client!TxSendUnlink, Client!RxRetSubmit,
       Client!RxRetUnlink
<1>2. c_event \subseteq c_event'
  BY DEF ClientCall, Client!vhci_urb_enqueue, Client!vhci_urb_dequeue, ClientCallStep,
       Client!EnqueueSetAddress, Client!EnqueueGetVdev, Client!EnqueuePush, Client!DequeueLocal,
       Client!DequeueUnlink, Client!AttachStep, Client!AttachRunRx, Client!AttachSetRx,
       Client!AttachRunTx, Client!AttachSetTx, Client!AttachConnect, ClientTx,
       Client!TxTakeSubmit, Client!TxTakeUnlink, Client!TxWait, Client!TxOops,
       Client!TxSendFails, ClientRx, Client!RxLoop, Client!RxPayload, Client!RxGiveBack,
       Client!RxDown, Client!TxSendSubmit, Client!TxSendUnlink, Client!RxRetSubmit,
       Client!RxRetUnlink, Client!usbip_event_add
<1>3. c_conn = 0 => UNCHANGED <<c_event, c_status>>
  <2> SUFFICES ASSUME c_conn = 0 PROVE UNCHANGED <<c_event, c_status>>
    OBVIOUS
  <2>1. /\ c_rx[1].pc \in {"unborn", "done"} /\ c_tx[1].pc \in {"unborn", "done"}
        /\ c_call.op \in {"none", "dequeue"}
    BY ClientRuns
  <2>. QED
    BY <2>1
       DEF ClientCall, Client!vhci_urb_enqueue, Client!vhci_urb_dequeue, ClientCallStep,
       Client!EnqueueSetAddress, Client!EnqueueGetVdev, Client!EnqueuePush, Client!DequeueLocal,
       Client!DequeueUnlink, Client!AttachStep, Client!AttachRunRx, Client!AttachSetRx,
       Client!AttachRunTx, Client!AttachSetTx, Client!AttachConnect, ClientTx,
       Client!TxTakeSubmit, Client!TxTakeUnlink, Client!TxWait, Client!TxOops,
       Client!TxSendFails, ClientRx, Client!RxLoop, Client!RxPayload, Client!RxGiveBack,
       Client!RxDown, Client!TxSendSubmit, Client!TxSendUnlink, Client!RxRetSubmit,
       Client!RxRetUnlink, Client!CanSendSubmit
<1>4. ClientOpenInv'
  BY <1>1, <1>2, <1>3 DEF ClientOpenInv
<1>5. ClientFine' => ClientFine
  BY <1>1, <1>2 DEF ClientFine, ClientGone
<1>. QED  BY <1>4, <1>5

\* The event thread takes a bit back only after it has shut the socket.
LEMMA ClientEhOpen ==
  ASSUME ClientInv, ClientOpenInv, Client!EhStep
  PROVE  ClientOpenInv' /\ (ClientFine' => ClientFine)
<1> USE ClientShape
<1>0. /\ c_eh.pc = "wait" => "SHUTDOWN" \in c_event \/ c_event = {}
      /\ c_unload = "no"
  BY DEF ClientInv, Port!ThreadInv, Port!ShutdownFirst, Port!Rest, ClientOpenInv
<1>1. UNCHANGED <<c_conn, c_detach, c_unload>>
  BY DEF Client!EhStep, Client!EhLoop, Client!EhShutdown, Client!EhStopRx, Client!EhStopTx,
       Client!EhPutSocket, Client!EhCleanup, Client!EhGiveBack, Client!EhDisconnect,
       Client!EhReset, Client!EhUnusable
<1>2. CASE Client!EhLoop
  <2>1. UNCHANGED <<c_status, c_tcp_socket>>
    BY <1>2 DEF Client!EhLoop
  <2>2. CASE Client!EhHead(c_unload = "done") \/ Client!EhIdle \/ Client!EhWake(c_unload = "done")
    <3>1. UNCHANGED c_event
      BY <2>2 DEF Client!EhHead, Client!EhIdle, Client!EhWake
    <3>2. ClientOpenInv'
      BY <1>0, <1>1, <2>1, <2>2, <3>1
         DEF ClientOpenInv, Client!EhHead, Client!EhIdle, Client!EhWake, Client!EhTo
    <3>. QED  BY <1>1, <2>1, <3>1, <3>2 DEF ClientFine, ClientGone
  <2>3. CASE Client!EhSkips \/ Client!EhClears \/ Client!EhBye
    <3>1. c_conn = 1 /\ c_tcp_socket # "open"
      BY <2>3 DEF ClientOpenInv, Client!EhSkips, Client!EhSkip, Client!EhClears, Client!EhLoad,
                  Client!EhStore, Client!EhBye, Client!EhHandle
    <3>. QED  BY <1>0, <1>1, <2>1, <3>1 DEF ClientOpenInv, ClientFine, ClientGone
  <2>. QED  BY <1>2, <2>2, <2>3 DEF Client!EhLoop, Client!EhRound
<1>3. CASE \/ Client!EhShutdown \/ Client!EhStopRx \/ Client!EhStopTx \/ Client!EhPutSocket
           \/ Client!EhCleanup \/ Client!EhGiveBack \/ Client!EhDisconnect \/ Client!EhReset
           \/ Client!EhUnusable
  <2>1. c_conn = 1 /\ c_tcp_socket' # "open"
    BY <1>3 DEF ClientOpenInv, Client!EhShutdown, Client!EhStopRx, Client!EhStopTx,
       Client!EhPutSocket, Client!EhCleanup, Client!EhGiveBack, Client!EhDisconnect,
       Client!EhReset, Client!EhUnusable, Client!EhHandle
  <2>. QED  BY <1>0, <1>1, <2>1 DEF ClientOpenInv, ClientFine, ClientGone
<1>. QED  BY <1>2, <1>3 DEF Client!EhStep

\* A write to attach gives the port its one connection, one to detach ends it.
LEMMA ClientAdminOpen ==
  ASSUME ClientInv, ClientOpenInv, ClientAdmin
  PROVE  ClientOpenInv' /\ (ClientFine' => ClientFine)
<1> USE ClientShape
<1>1. CASE Client!AttachClaim
  BY <1>1 DEF ClientOpenInv, Client!AttachClaim, ClientFine, ClientGone
<1>2. CASE Client!DetachCheck
  BY <1>2 DEF ClientOpenInv, Client!DetachCheck, ClientFine, ClientGone
<1>3. CASE Client!DetachEvent
  BY <1>3 DEF ClientOpenInv, Client!DetachEvent, ClientFine, ClientGone, Client!usbip_event_add
<1>. QED  BY <1>1, <1>2, <1>3 DEF ClientAdmin

\* Every step, at the client.
LEMMA ClientOpenStep ==
  ASSUME ClientInv, ClientOpenInv, Next
  PROVE  ClientOpenInv' /\ (ClientFine' => ClientFine)
<1>1. CASE UNCHANGED clientVars
  BY <1>1 DEF clientVars, ClientOpenInv, ClientFine, ClientGone
<1>. QED
  BY <1>1, ClientKinds, ClientThreadsOpen, ClientEhOpen, ClientAdminOpen

\* Nothing repairs the connection.
LEMMA FineStays ==
  ASSUME ClientInv, ServerInv, ClientOpenInv, ServerOpenInv, Next, Fine'
  PROVE  Fine
<1>1. cut => cut'
  BY DEF Next, Cut, ClientAlone, ClientSends, ClientReceives, ServerAlone, ServerSends,
         ServerSendsDisconnect, ServerReceives, linkVars
<1>2. ClientFine' /\ ServerFine' /\ ~ cut'
  BY DEF Fine, Broken, ClientFine, ServerFine, ClientGone, ServerGone
<1>3. ClientFine /\ ServerFine
  BY <1>2, ClientOpenStep, ServerOpenStep
<1>. QED  BY <1>1, <1>2, <1>3 DEF Fine, Broken, ClientFine, ServerFine

-----------------------------------------------------------------------------
(* What the steps of the client do to its requests.                        *)

\* No request is numbered: requests are freed, a dequeue begins for one, and a
\* cancel request goes from the list it waits on to vhci_tx and to the list
\* of those that were sent.
ClientOld ==
  /\ UNCHANGED <<c_seqnum, c_conn>>
  /\ \A u \in Urbs : Linked(u)' => Linked(u) /\ c_priv'[u].seqnum = c_priv[u].seqnum
  /\ c_call'.op = "dequeue" =>
       c_call' = c_call \/ \E u \in Urbs : Linked(u) /\ c_call'.priv.seqnum = c_priv[u].seqnum
  /\ c_unlink_tx' \subseteq c_unlink_tx /\ c_unlink_rx' \subseteq Cancels
  /\ SendsUnlink' => \/ SendsUnlink /\ c_tx'[1].unlink = c_tx[1].unlink
                     \/ c_tx'[1].unlink \in c_unlink_tx \ c_unlink_tx'

\* A step that touches neither the lists nor vhci_tx.
LEMMA ClientOldCalls ==
  ASSUME ClientInv,
         \/ ClientCall
         \/ Client!EnqueueSetAddress \/ Client!EnqueueGetVdev \/ Client!DequeueLocal
  PROVE  ClientOld
<1> USE ClientShape
<1>1. UNCHANGED <<c_seqnum, c_conn, c_unlink_tx, c_unlink_rx, c_tx>>
  BY DEF ClientCall, Client!vhci_urb_enqueue, Client!vhci_urb_dequeue,
         Client!EnqueueSetAddress, Client!EnqueueGetVdev, Client!DequeueLocal
<1>2. CASE ClientCall
  <2>1. UNCHANGED c_priv
    BY <1>2 DEF ClientCall, Client!vhci_urb_enqueue, Client!vhci_urb_dequeue
  <2>2. c_call'.op = "dequeue" =>
          \E u \in Urbs : Linked(u) /\ c_call'.priv.seqnum = c_priv[u].seqnum
    BY <1>2 DEF ClientCall, Client!vhci_urb_enqueue, Client!vhci_urb_dequeue, Linked
  <2>. QED  BY <1>1, <2>1, <2>2 DEF ClientOld, Linked, Cancels, SendsUnlink
<1>3. CASE Client!EnqueueSetAddress \/ Client!EnqueueGetVdev \/ Client!DequeueLocal
  <2>1. c_call'.op # "dequeue"
    BY <1>3 DEF Client!EnqueueSetAddress, Client!EnqueueGetVdev, Client!DequeueLocal,
                Client!Idle, Client!Calls
  <2>2. \A u \in Urbs : Linked(u)' => Linked(u) /\ c_priv'[u].seqnum = c_priv[u].seqnum
    BY <1>3 DEF Client!EnqueueSetAddress, Client!EnqueueGetVdev, Client!DequeueLocal,
                Client!FreePriv, Client!NoPriv, Linked
  <2>. QED  BY <1>1, <2>1, <2>2 DEF ClientOld, Cancels, SendsUnlink
<1>. QED  BY <1>2, <1>3

\* Attach, once the port is claimed, detach and the event thread.
LEMMA ClientOldAdmin ==
  ASSUME ClientInv,
         \/ Client!DetachCheck \/ Client!DetachEvent \/ Client!AttachStep \/ Client!EhStep
  PROVE  ClientOld
<1> USE ClientShape
<1>1. UNCHANGED <<c_seqnum, c_conn, c_call>>
  BY DEF Client!DetachCheck, Client!DetachEvent, Client!AttachStep, Client!AttachRunRx,
       Client!AttachSetRx, Client!AttachRunTx, Client!AttachSetTx, Client!AttachConnect,
       Client!EhStep, Client!EhLoop, Client!EhShutdown, Client!EhStopRx, Client!EhStopTx,
       Client!EhPutSocket, Client!EhCleanup, Client!EhGiveBack, Client!EhDisconnect,
       Client!EhReset, Client!EhUnusable
<1>2. CASE Client!EhCleanup
  <2>1. UNCHANGED c_tx
    BY <1>2 DEF Client!EhCleanup
  <2>2. c_unlink_tx' \subseteq c_unlink_tx /\ c_unlink_rx' \subseteq c_unlink_rx
    BY <1>2 DEF Client!EhCleanup
  <2>3. UNCHANGED c_priv \/ \E u \in Urbs : Client!FreePriv(u)
    BY <1>2 DEF Client!EhCleanup
  <2>4. \A u \in Urbs : Linked(u)' => Linked(u) /\ c_priv'[u].seqnum = c_priv[u].seqnum
    BY <2>3 DEF Client!FreePriv, Client!NoPriv, Linked
  <2>. QED  BY <1>1, <2>1, <2>2, <2>4 DEF ClientOld, Cancels, SendsUnlink
<1>3. CASE ~ Client!EhCleanup
  <2>1. UNCHANGED <<c_priv, c_unlink_tx, c_unlink_rx>>
    BY <1>3
       DEF Client!DetachCheck, Client!DetachEvent, Client!AttachStep, Client!AttachRunRx,
       Client!AttachSetRx, Client!AttachRunTx, Client!AttachSetTx, Client!AttachConnect,
       Client!EhStep, Client!EhLoop, Client!EhShutdown, Client!EhStopRx, Client!EhStopTx,
       Client!EhPutSocket, Client!EhGiveBack, Client!EhDisconnect, Client!EhReset,
       Client!EhUnusable
  <2>2. UNCHANGED c_tx \/ Client!AttachRunTx
    BY <1>3
       DEF Client!DetachCheck, Client!DetachEvent, Client!AttachStep, Client!AttachRunRx,
       Client!AttachSetRx, Client!AttachSetTx, Client!AttachConnect,
       Client!EhStep, Client!EhLoop, Client!EhShutdown, Client!EhStopRx, Client!EhStopTx,
       Client!EhPutSocket, Client!EhGiveBack, Client!EhDisconnect, Client!EhReset,
       Client!EhUnusable
  <2>3. SendsUnlink' => SendsUnlink /\ c_tx'[1].unlink = c_tx[1].unlink
    BY <2>2 DEF Client!AttachRunTx, Client!TxTo, SendsUnlink
  <2>. QED  BY <1>1, <2>1, <2>3 DEF ClientOld, Cancels, Linked
<1>. QED  BY <1>2, <1>3

\* The two threads of the connection.
LEMMA ClientOldThreads ==
  ASSUME ClientInv,
         \/ ClientTx \/ ClientRx \/ Client!RxDown(1)
         \/ \E n, t \in Targets : Client!TxSendSubmit(1, n) \/ Client!TxSendUnlink(1, n, t)
         \/ \E n \in Numbers : Client!RxRetSubmit(1, n) \/ Client!RxRetUnlink(1, n)
  PROVE  ClientOld
<1> USE ClientShape
<1>1. UNCHANGED <<c_seqnum, c_conn, c_call>>
  BY DEF ClientTx, Client!TxTakeSubmit, Client!TxTakeUnlink, Client!TxWait, Client!TxOops,
       Client!TxSendFails, ClientRx, Client!RxLoop, Client!RxPayload, Client!RxGiveBack,
       Client!RxDown, Client!TxSendSubmit, Client!TxSendUnlink, Client!RxRetSubmit,
       Client!RxRetUnlink
<1>2. CASE Client!TxTakeUnlink(1)
  <2>1. UNCHANGED c_priv
    BY <1>2 DEF Client!TxTakeUnlink
  <2>2. /\ c_unlink_tx' \subseteq c_unlink_tx /\ c_unlink_rx' \subseteq Cancels
        /\ SendsUnlink' => c_tx'[1].unlink \in c_unlink_tx \ c_unlink_tx'
    BY <1>2 DEF Client!TxTakeUnlink, Client!TxTo, Cancels, SendsUnlink, Client!FirstUnlink
  <2>. QED  BY <1>1, <2>1, <2>2 DEF ClientOld, Linked
<1>3. CASE Client!TxTakeSubmit(1)
  <2>1. UNCHANGED <<c_unlink_tx, c_unlink_rx>> /\ ~ SendsUnlink'
    BY <1>3 DEF Client!TxTakeSubmit, Client!TxTo, SendsUnlink
  <2>2. \A u \in Urbs : Linked(u)' => Linked(u) /\ c_priv'[u].seqnum = c_priv[u].seqnum
    BY <1>3 DEF Client!TxTakeSubmit, Client!FirstPriv, Client!priv_tx, Linked, Client!Priv,
                Client!NoPriv
  <2>. QED  BY <1>1, <2>1, <2>2 DEF ClientOld, Cancels
<1>4. CASE \/ Client!TxWait(1) \/ Client!TxOops(1)
           \/ Client!TxSendFails(1, Client!VDEV_EVENT_ERROR_TCP)
           \/ \E n, t \in Targets : Client!TxSendSubmit(1, n) \/ Client!TxSendUnlink(1, n, t)
  <2>1. UNCHANGED <<c_priv, c_unlink_tx, c_unlink_rx>> /\ ~ SendsUnlink'
    BY <1>4 DEF Client!TxWait, Client!TxOops, Client!TxSendFails, Client!TxSendSubmit,
                Client!TxSendUnlink, Client!TxTo, SendsUnlink
  <2>. QED  BY <1>1, <2>1 DEF ClientOld, Cancels, Linked
<1>5. CASE ClientRx \/ Client!RxDown(1)
           \/ \E n \in Numbers : Client!RxRetSubmit(1, n) \/ Client!RxRetUnlink(1, n)
  <2>1. UNCHANGED <<c_tx, c_unlink_tx>> /\ c_unlink_rx' \subseteq c_unlink_rx
    BY <1>5 DEF ClientRx, Client!RxLoop, Client!RxPayload, Client!RxGiveBack, Client!RxDown,
                Client!RxRetSubmit, Client!RxRetUnlink
  <2>2. UNCHANGED c_priv \/ \E u \in Urbs : Client!FreePriv(u)
    BY <1>5 DEF ClientRx, Client!RxLoop, Client!RxPayload, Client!RxGiveBack, Client!RxDown,
                Client!RxRetSubmit, Client!RxRetUnlink
  <2>3. \A u \in Urbs : Linked(u)' => Linked(u) /\ c_priv'[u].seqnum = c_priv[u].seqnum
    BY <2>2 DEF Client!FreePriv, Client!NoPriv, Linked
  <2>. QED  BY <1>1, <2>1, <2>3 DEF ClientOld, Cancels, SendsUnlink
<1>. QED  BY <1>2, <1>3, <1>4, <1>5 DEF ClientTx

\* What such a step does to a number.
LEMMA ClientOldNumbers ==
  ASSUME ClientInv, NumbersInv, ClientOld
  PROVE  /\ \A n : /\ ClientSubmit(n)' => ClientSubmit(n)
                   /\ Queued(n)' => Queued(n)
                   /\ Sends(n)' => Sends(n) \/ (Queued(n) /\ ~ Queued(n)')
                   /\ Awaited(n)' => Queued(n) \/ Awaited(n)
         /\ \A u, v \in Urbs :
              (Linked(u)' /\ Linked(v)' /\ c_priv'[u].seqnum = c_priv'[v].seqnum) => u = v
         /\ \A m, k \in Cancels' : m.seqnum = k.seqnum => m = k
<1>1. Cancels' \subseteq Cancels
  BY DEF ClientOld, Cancels
<1>2. ASSUME NEW n, ClientSubmit(n)' PROVE ClientSubmit(n)
  <2>1. CASE \E u \in Urbs : Linked(u)' /\ c_priv'[u].seqnum = n
    BY <2>1 DEF ClientOld, ClientSubmit
  <2>2. CASE c_call'.op = "dequeue" /\ c_call'.priv.seqnum = n
    BY <2>2 DEF ClientOld, ClientSubmit
  <2>3. CASE \E m \in Cancels' : m.unlink_seqnum = n
    BY <1>1, <2>3 DEF ClientSubmit
  <2>4. CASE SendsUnlink' /\ c_tx'[1].unlink.unlink_seqnum = n
    BY <2>4 DEF ClientOld, ClientSubmit, Cancels
  <2>. QED  BY <1>2, <2>1, <2>2, <2>3, <2>4 DEF ClientSubmit
<1>3. \A n : Queued(n)' => Queued(n)
  BY DEF ClientOld, Queued
<1>4. \A n : Awaited(n)' => Queued(n) \/ Awaited(n)
  BY DEF ClientOld, Queued, Awaited, Cancels
<1>5. ASSUME NEW n, Sends(n)', ~ Sends(n) PROVE Queued(n) /\ ~ Queued(n)'
  <2>1. /\ c_tx'[1].unlink \in c_unlink_tx \ c_unlink_tx'
        /\ c_tx'[1].unlink.seqnum = n
    BY <1>5 DEF ClientOld, Sends
  <2>2. Queued(n)
    BY <2>1 DEF Queued
  <2>3. \A m \in c_unlink_tx' : m.seqnum # n
    BY <2>1 DEF ClientOld, Cancels, NumbersInv
  <2>. QED  BY <2>2, <2>3 DEF Queued
<1>6. \A u, v \in Urbs :
        (Linked(u)' /\ Linked(v)' /\ c_priv'[u].seqnum = c_priv'[v].seqnum) => u = v
  BY DEF ClientOld, NumbersInv
<1>7. \A m, k \in Cancels' : m.seqnum = k.seqnum => m = k
  BY <1>1 DEF NumbersInv
<1>. QED  BY <1>2, <1>3, <1>4, <1>5, <1>6, <1>7

\* vhci_tx_urb numbers a request.
LEMMA ClientPushes ==
  ASSUME ClientInv, NumbersInv, Client!EnqueuePush
  PROVE  /\ c_seqnum' = c_seqnum + 1 /\ c_seqnum' \in Numbers /\ c_conn' # 0
         /\ UNCHANGED <<c_tcp_socket, c_unlink_tx, c_unlink_rx, c_tx, c_event>>
         /\ \A n : ClientSubmit(n)' => ClientSubmit(n) \/ n = c_seqnum'
         /\ \A u \in Urbs : \/ c_priv'[u] = c_priv[u]
                            \/ c_priv'[u].list = "tx" /\ c_priv'[u].seqnum = c_seqnum'
         /\ \A u, v \in Urbs :
              (Linked(u)' /\ Linked(v)' /\ c_priv'[u].seqnum = c_priv'[v].seqnum) => u = v
<1> USE ClientShape
<1>1. /\ UNCHANGED <<c_tcp_socket, c_conn, c_unlink_tx, c_unlink_rx, c_tx, c_event>>
      /\ c_seqnum' = c_seqnum + 1
  BY DEF Client!EnqueuePush
<1>2. c_call.urb \in Urbs /\ c_seqnum < MaxSeqnum /\ c_conn # 0
  BY DEF ClientInv, Port!TypeInv, Port!CallInv, Client!EnqueuePush
<1>3. c_seqnum' \in Numbers
  BY <1>1, <1>2, Constants DEF Numbers
<1>4. /\ c_priv'[c_call.urb].list = "tx" /\ c_priv'[c_call.urb].seqnum = c_seqnum'
      /\ \A u \in Urbs : u # c_call.urb => c_priv'[u] = c_priv[u]
  BY <1>1, <1>2 DEF Client!EnqueuePush
<1>5. c_call'.op # "dequeue"
  BY DEF Client!EnqueuePush, Client!Idle
<1>6. ASSUME NEW n, ClientSubmit(n)' PROVE ClientSubmit(n) \/ n = c_seqnum'
  BY <1>1, <1>4, <1>5, <1>6 DEF ClientSubmit, Linked, Cancels, SendsUnlink
<1>7. \A u \in Urbs : Linked(u) => c_priv[u].seqnum \in Numbers
  BY DEF Linked, Client!Priv, Client!NoPriv, Numbers
<1>8. \A u \in Urbs : Linked(u) => c_priv[u].seqnum <= c_seqnum
  BY <1>7 DEF NumbersInv, Submitted, ClientSubmit
<1>9. \A u \in Urbs : Linked(u) => c_priv[u].seqnum # c_seqnum'
  BY <1>1, <1>7, <1>8 DEF Numbers
<1>10. ASSUME NEW u \in Urbs, NEW v \in Urbs, Linked(u)', Linked(v)',
              c_priv'[u].seqnum = c_priv'[v].seqnum
       PROVE  u = v
  BY <1>4, <1>9, <1>10 DEF Linked, NumbersInv
<1>. QED  BY <1>1, <1>2, <1>3, <1>4, <1>6, <1>10

\* vhci_urb_dequeue numbers a cancel request.
LEMMA ClientDequeues ==
  ASSUME ClientInv, NumbersInv, Client!DequeueUnlink
  PROVE  /\ c_seqnum' = c_seqnum + 1 /\ c_seqnum' \in Numbers /\ c_conn' # 0
         /\ UNCHANGED <<c_tcp_socket, c_priv, c_unlink_rx, c_tx, c_event>>
         /\ \A n \in Numbers : ClientSubmit(n)' => ClientSubmit(n)
         /\ \A n : Queued(n)' => Queued(n) \/ n = c_seqnum'
         /\ \A m, k \in Cancels' : m.seqnum = k.seqnum => m = k
<1> USE ClientShape
<1>1. /\ UNCHANGED <<c_tcp_socket, c_conn, c_priv, c_unlink_rx, c_tx, c_event>>
      /\ c_seqnum' = c_seqnum + 1
      /\ c_conn # 0
  BY DEF Client!DequeueUnlink, NumbersInv
<1>2. c_seqnum < MaxSeqnum
  BY DEF ClientInv, Port!TypeInv, Port!CallInv, Client!DequeueUnlink
<1>3. c_seqnum' \in Numbers
  BY <1>1, <1>2, Constants DEF Numbers
<1>4. PICK m : /\ m.seqnum = c_seqnum' /\ m.unlink_seqnum \in {c_call.priv.seqnum, 0}
               /\ c_unlink_tx' = c_unlink_tx \cup {m}
  BY <1>1 DEF Client!DequeueUnlink
<1>5. /\ c_call'.op # "dequeue" /\ c_call.op = "dequeue"
      /\ Cancels' = Cancels \cup {m}
  BY <1>1, <1>4 DEF Client!DequeueUnlink, Client!Idle, Cancels
<1>6. \A k : k \in Cancels' <=> k \in Cancels \/ k = m
  BY <1>5
<1>7. ASSUME NEW n \in Numbers, ClientSubmit(n)' PROVE ClientSubmit(n)
  <2>1. n # 0
    BY DEF Numbers
  <2>. QED  BY <1>1, <1>4, <1>5, <1>6, <1>7, <2>1 DEF ClientSubmit, Linked, SendsUnlink
<1>8. \A n : Queued(n)' => Queued(n) \/ n = c_seqnum'
  <2>1. \A k : k \in c_unlink_tx' <=> k \in c_unlink_tx \/ k = m
    BY <1>4
  <2>. QED  BY <1>4, <2>1 DEF Queued
<1>9. ASSUME NEW k \in Cancels PROVE k.seqnum <= c_seqnum
  <2>1. k.seqnum \in Targets
    BY DEF Cancels, Client!Unlink, Targets
  <2>2. k.seqnum \in Numbers => Cancelling(k.seqnum)
    BY DEF Cancels, Cancelling, Queued, Awaited
  <2>. QED  BY <2>1, <2>2, Constants DEF NumbersInv, Targets, Numbers
<1>10. ASSUME NEW k \in Cancels PROVE k.seqnum # c_seqnum'
  <2>1. k.seqnum \in 0 .. MaxSeqnum
    BY DEF Cancels, Client!Unlink
  <2>. QED  BY <1>1, <1>9, <2>1
<1>11. \A j, k \in Cancels' : j.seqnum = k.seqnum => j = k
  BY <1>4, <1>6, <1>10 DEF NumbersInv
<1>. QED  BY <1>1, <1>3, <1>7, <1>8, <1>11

-----------------------------------------------------------------------------
(* What any step does to a number, and the parts of the invariant.         *)

\* The client numbers the requests submits and the cancel requests cancels,
\* and sends what it had queued.
ClientFlows(submits, cancels) ==
  /\ c_seqnum <= c_seqnum' /\ c_seqnum' \in Targets
  /\ c_conn' = 0 => c_conn = 0 /\ c_seqnum' = c_seqnum
  /\ submits \cap cancels = {}
  /\ \A n \in submits \cup cancels : c_seqnum < n /\ n <= c_seqnum'
  /\ \A n \in Numbers :
       /\ ClientSubmit(n)' => ClientSubmit(n) \/ n \in submits
       /\ Queued(n)' => Queued(n) \/ n \in cancels
       /\ Sends(n)' => Sends(n) \/ (Queued(n) /\ ~ Queued(n)')
       /\ Awaited(n)' => Awaited(n) \/ Queued(n)
  /\ \A u, v \in Urbs :
       (Linked(u)' /\ Linked(v)' /\ c_priv'[u].seqnum = c_priv'[v].seqnum) => u = v
  /\ \A m, k \in Cancels' : m.seqnum = k.seqnum => m = k

\* vhci_tx sends the cancel request k of request t.
IsSending(k, t) ==
  SendsUnlink /\ c_tx[1].unlink.seqnum = k /\ c_tx[1].unlink.unlink_seqnum = t

\* Each number moves one place on.
LinkFlows ==
  /\ \A n \in Numbers :
       /\ OutSubmit(n)' => OutSubmit(n) \/ ClientSubmit(n)
       /\ HeldSubmit(n)' => HeldSubmit(n) \/ OutSubmit(n)
       /\ BackSubmit(n)' => BackSubmit(n) \/ HeldSubmit(n)
       /\ Out(n)' => Out(n) \/ (Sends(n) /\ ~ Sends(n)')
       /\ HeldUnlink(n)' => HeldUnlink(n) \/ (Out(n) /\ ~ Out(n)')
       /\ BackUnlink(n)' => BackUnlink(n) \/ (HeldUnlink(n) /\ ~ HeldUnlink(n)')
  /\ \A k, t \in Targets : OutUnlink(k, t)' => OutUnlink(k, t) \/ IsSending(k, t)

\* The client goes on waiting for the cancel requests it waits for.
ClientAwaits ==
  /\ c_tcp_socket' # "NULL" => c_tcp_socket # "NULL" /\ c_unlink_rx \subseteq c_unlink_rx'
  /\ SendsUnlink' => \/ SendsUnlink /\ c_tx'[1].unlink = c_tx[1].unlink
                     \/ c_tx'[1].unlink \in c_unlink_rx'

\* So it does for the requests.
ClientWaits ==
  /\ ClientAwaits
  /\ Fine' =>
       /\ c_unlink_rx \subseteq c_unlink_rx'
       /\ \A u \in Urbs :
            c_priv'[u].list = "rx" =>
              \/ InHand(u)'
              \/ /\ c_priv[u].list = "rx" /\ c_priv'[u].seqnum = c_priv[u].seqnum
                 /\ InHand(u) => OutSubmit(c_priv[u].seqnum)'

\* Nothing on its way is lost.
LinkWaits ==
  Fine' =>
    \A n \in Numbers :
      /\ OutSubmit(n) => OutSubmit(n)' \/ HeldSubmit(n)'
      /\ HeldSubmit(n) => HeldSubmit(n)' \/ BackSubmit(n)' \/ AnsweredAsUnlink(n)'
      /\ BackSubmit(n) => BackSubmit(n)'
      /\ HeldUnlink(n) => HeldUnlink(n)' \/ BackUnlink(n)'
      /\ BackUnlink(n) => BackUnlink(n)'

\* The numbers stay what they are, and stay in one place.
LEMMA NumbersStep ==
  ASSUME ClientInv, NumbersInv, StageInv,
         NEW submits, NEW cancels, ClientFlows(submits, cancels), LinkFlows
  PROVE  NumbersInv' /\ StageInv'
<1> USE ClientShape
<1>1. \A n \in Numbers : /\ Submitted(n)' => Submitted(n) \/ n \in submits
                         /\ Cancelling(n)' => Cancelling(n) \/ n \in cancels
  <2> TAKE n \in Numbers
  <2>1. \A k \in Targets : OutUnlink(k, n)' => OutUnlink(k, n) \/ ClientSubmit(n)
    BY Constants DEF LinkFlows, IsSending, ClientSubmit, Numbers, Targets
  <2>2. Submitted(n)' => Submitted(n) \/ n \in submits
    BY <2>1 DEF ClientFlows, LinkFlows, Submitted
  <2>3. Cancelling(n)' => Cancelling(n) \/ n \in cancels
    BY DEF ClientFlows, LinkFlows, Cancelling
  <2>. QED  BY <2>2, <2>3
<1>2. \A n \in Numbers : n \in submits \cup cancels => ~ Submitted(n) /\ ~ Cancelling(n)
  BY Constants DEF ClientFlows, NumbersInv, Numbers
<1>3. ASSUME NEW n \in Numbers, Submitted(n)' PROVE n <= c_seqnum' /\ ~ Cancelling(n)'
  <2>1. CASE Submitted(n)
    <3>1. n <= c_seqnum /\ ~ Cancelling(n)
      BY <2>1 DEF NumbersInv
    <3>2. n \notin cancels
      BY <1>2, <2>1
    <3>. QED  BY <1>1, <3>1, <3>2 DEF ClientFlows, Numbers, Targets
  <2>2. CASE n \in submits
    <3>1. n \notin cancels /\ ~ Cancelling(n)
      BY <1>2, <2>2 DEF ClientFlows
    <3>. QED  BY <1>1, <2>2, <3>1 DEF ClientFlows
  <2>. QED  BY <1>1, <1>3, <2>1, <2>2
<1>4. ASSUME NEW n \in Numbers, Cancelling(n)' PROVE n <= c_seqnum'
  <2>1. CASE Cancelling(n)
    BY <2>1 DEF NumbersInv, ClientFlows, Numbers, Targets
  <2>2. CASE n \in cancels
    BY <2>2 DEF ClientFlows
  <2>. QED  BY <1>1, <1>4, <2>1, <2>2
<1>5. c_conn' = 0 => c_seqnum' = 0
  BY DEF ClientFlows, NumbersInv
<1>6. NumbersInv'
  BY <1>3, <1>4, <1>5 DEF NumbersInv, ClientFlows
<1>7. ASSUME NEW k \in Numbers PROVE OnePlace(k)'
  <2>1. k \in cancels =>
          ~ Queued(k) /\ ~ Sends(k) /\ ~ Out(k) /\ ~ HeldUnlink(k) /\ ~ BackUnlink(k)
    BY <1>2 DEF Cancelling
  <2>. QED  BY <2>1 DEF ClientFlows, LinkFlows, StageInv, OnePlace
<1>. QED  BY <1>6, <1>7 DEF StageInv

\* The client waits for every cancel request on its way, and goes on to do so.
LEMMA AwaitedStep ==
  ASSUME AwaitedInv, ClientAwaits, LinkFlows
  PROVE  AwaitedInv'
<1> SUFFICES ASSUME c_tcp_socket' # "NULL"
             PROVE  /\ SendsUnlink' => c_tx'[1].unlink \in c_unlink_rx'
                    /\ \A k \in Numbers, t \in Targets : OutUnlink(k, t)' => AwaitedFor(k, t)'
                    /\ \A k \in Numbers : HeldUnlink(k)' \/ BackUnlink(k)' => Awaited(k)'
  BY DEF AwaitedInv
<1>1. /\ SendsUnlink => c_tx[1].unlink \in c_unlink_rx
      /\ \A k \in Numbers, t \in Targets : OutUnlink(k, t) => AwaitedFor(k, t)
      /\ \A k \in Numbers : HeldUnlink(k) \/ BackUnlink(k) => Awaited(k)
  BY DEF AwaitedInv, ClientAwaits
<1>2. \A k : /\ Awaited(k) => Awaited(k)'
             /\ \A t : AwaitedFor(k, t) => AwaitedFor(k, t)'
  BY DEF Awaited, AwaitedFor, ClientAwaits
<1>3. SendsUnlink' => c_tx'[1].unlink \in c_unlink_rx'
  BY <1>1 DEF ClientAwaits
<1>4. \A k, t \in Targets : IsSending(k, t) => AwaitedFor(k, t)
  BY <1>1 DEF IsSending, AwaitedFor
<1>5. \A k \in Numbers, t \in Targets : OutUnlink(k, t)' => AwaitedFor(k, t)'
  BY <1>1, <1>2, <1>4, Constants DEF LinkFlows, Numbers, Targets
<1>6. \A k \in Numbers : HeldUnlink(k)' \/ BackUnlink(k)' => Awaited(k)'
  <2>1. \A k, t : AwaitedFor(k, t) => Awaited(k)
    BY DEF AwaitedFor, Awaited
  <2>. QED  BY <1>1, <1>2, <2>1 DEF Out, LinkFlows
<1>. QED  BY <1>3, <1>5, <1>6

\* A request that is on its way stays so.
LEMMA WayStep ==
  ASSUME ClientInv', WayInv, Fine' => Fine, ClientWaits, LinkWaits
  PROVE  WayInv'
<1> SUFFICES ASSUME Fine', NEW u \in Urbs, c_priv'[u].list = "rx", ~ InHand(u)'
             PROVE  OnWay(c_priv[u].seqnum)'
  BY DEF WayInv
<1>1. /\ c_priv[u].list = "rx" /\ c_priv'[u].seqnum = c_priv[u].seqnum
      /\ InHand(u) => OutSubmit(c_priv[u].seqnum)'
  BY DEF ClientWaits
<1> PICK n : n = c_priv'[u].seqnum
  OBVIOUS
<1>2. n \in Numbers
  BY DEF ClientInv, Port!TypeInv, Port!TypeOK, Port!Priv, Port!NoPriv, Numbers
<1>3. InHand(u) \/ OnWay(n)
  BY <1>1 DEF WayInv
<1>4. \A k : AwaitedFor(k, n) => AwaitedFor(k, n)'
  BY DEF AwaitedFor, ClientWaits
<1>5. AnsweredAsUnlink(n) => AnsweredAsUnlink(n)'
  <2> SUFFICES ASSUME NEW k \in Numbers, AwaitedFor(k, n), HeldUnlink(k) \/ BackUnlink(k)
               PROVE  AwaitedFor(k, n)' /\ (HeldUnlink(k)' \/ BackUnlink(k)')
    BY DEF AnsweredAsUnlink
  <2>. QED  BY <1>4 DEF LinkWaits
<1>. QED  BY <1>1, <1>2, <1>3, <1>5 DEF OnWay, LinkWaits

\* A step that changes nothing of a queue, of the server or of the client.
LEMMA SamePlaces ==
  /\ UNCHANGED c2s =>
       \A n : /\ OutSubmit(n)' <=> OutSubmit(n)
              /\ Out(n)' <=> Out(n)
              /\ \A k : OutUnlink(k, n)' <=> OutUnlink(k, n)
  /\ UNCHANGED s2c =>
       \A n : (BackSubmit(n)' <=> BackSubmit(n)) /\ (BackUnlink(n)' <=> BackUnlink(n))
  /\ UNCHANGED serverVars =>
       /\ \A n : (HeldSubmit(n)' <=> HeldSubmit(n)) /\ (HeldUnlink(n)' <=> HeldUnlink(n))
       /\ ServerOnce => ServerOnce'
<1>1. UNCHANGED c2s =>
        \A n : /\ OutSubmit(n)' <=> OutSubmit(n)
               /\ Out(n)' <=> Out(n)
               /\ \A k : OutUnlink(k, n)' <=> OutUnlink(k, n)
  BY DEF OutSubmit, Out, OutUnlink
<1>2. UNCHANGED s2c =>
        \A n : (BackSubmit(n)' <=> BackSubmit(n)) /\ (BackUnlink(n)' <=> BackUnlink(n))
  BY DEF BackSubmit, BackUnlink
<1>3. UNCHANGED serverVars => UNCHANGED <<s_priv_init, s_priv_tx, s_unlink_tx, s_tx>>
  BY DEF serverVars
<1>4. UNCHANGED <<s_priv_init, s_priv_tx, s_unlink_tx, s_tx>> =>
        \A n : (HeldSubmit(n)' <=> HeldSubmit(n)) /\ (HeldUnlink(n)' <=> HeldUnlink(n))
  BY DEF HeldSubmit, HeldUnlink, InitSubmit, InitUnlink, QueuedSubmit, QueuedUnlink,
         SendingSubmit, SendingUnlink
<1>5. UNCHANGED <<s_priv_init, s_priv_tx, s_unlink_tx, s_tx>> => (ServerOnce => ServerOnce')
  BY DEF ServerOnce, InitUnlink, QueuedUnlink, SendingUnlink
<1>. QED  BY <1>1, <1>2, <1>3, <1>4, <1>5

\* A step of the server leaves the client as it is.
LEMMA ClientIdle ==
  ASSUME ClientInv, NumbersInv, UNCHANGED clientVars
  PROVE  ClientFlows({}, {}) /\ ClientWaits
<1> USE ClientShape
<1>1. UNCHANGED <<c_seqnum, c_conn, c_priv, c_call, c_unlink_tx, c_unlink_rx, c_tx, c_tcp_socket>>
  BY DEF clientVars
<1>2. \A n : /\ ClientSubmit(n)' <=> ClientSubmit(n)
             /\ (Queued(n)' <=> Queued(n)) /\ (Sends(n)' <=> Sends(n))
             /\ (Awaited(n)' <=> Awaited(n))
  BY <1>1 DEF ClientSubmit, Queued, Sends, Awaited, Linked, Cancels, SendsUnlink
<1>3. \A u, v \in Urbs :
        (Linked(u)' /\ Linked(v)' /\ c_priv'[u].seqnum = c_priv'[v].seqnum) => u = v
  BY <1>1 DEF NumbersInv, Linked
<1>4. \A m, k \in Cancels' : m.seqnum = k.seqnum => m = k
  BY <1>1 DEF NumbersInv, Cancels
<1>5. ClientFlows({}, {})
  BY <1>1, <1>2, <1>3, <1>4 DEF ClientFlows, Targets
<1>6. ClientWaits
  BY <1>1 DEF ClientAwaits, ClientWaits, SendsUnlink, InHand
<1>. QED  BY <1>5, <1>6

\* A step of the client that numbers nothing.
LEMMA ClientOldFlows ==
  ASSUME ClientInv, NumbersInv, ClientOld
  PROVE  ClientFlows({}, {})
<1> USE ClientShape
<1>1. c_seqnum <= c_seqnum' /\ c_seqnum' \in Targets /\ c_conn' = c_conn /\ c_seqnum' = c_seqnum
  BY DEF ClientOld, Targets
<1>. QED  BY <1>1, ClientOldNumbers DEF ClientFlows

\* What all steps below start from, and what they show.
Steady ==
  ClientInv /\ ServerInv /\ LinkTypes /\ LinkInv /\ ClientInv' /\ (Fine' => Fine)
Moved == NumbersInv' /\ ServerOnce' /\ OnceInv' /\ AwaitedInv' /\ WayInv'

\* The parts of the invariant from what a step does.
LEMMA Moves ==
  ASSUME Steady, NEW submits, NEW cancels, ClientFlows(submits, cancels),
         LinkFlows, ClientWaits, LinkWaits, ServerOnce',
         Distinct(c2s, "CMD_UNLINK")', Distinct(s2c, "RET_UNLINK")'
  PROVE  Moved
<1>1. NumbersInv' /\ StageInv'
  BY NumbersStep DEF Steady, LinkInv, OnceInv
<1>2. AwaitedInv' /\ WayInv'
  BY AwaitedStep, WayStep DEF Steady, LinkInv, ClientWaits
<1>. QED  BY <1>1, <1>2 DEF Moved, OnceInv

\* A step of the client alone.
LEMMA ClientMoves ==
  ASSUME Steady, UNCHANGED <<serverVars, c2s, s2c>>,
         NEW submits, NEW cancels, ClientFlows(submits, cancels), ClientWaits
  PROVE  Moved
<1>1. LinkFlows /\ LinkWaits
  BY SamePlaces DEF LinkFlows, LinkWaits
<1>2. ServerOnce'
  BY SamePlaces DEF Steady, LinkInv
<1>3. Distinct(c2s, "CMD_UNLINK")' /\ Distinct(s2c, "RET_UNLINK")'
  BY DEF Steady, LinkInv, OnceInv
<1>. QED  BY <1>1, <1>2, <1>3, Moves

\* While nothing has gone wrong the event thread of the client is not at work.
LEMMA ClientFineMeans ==
  ASSUME ClientInv, ClientOpenInv, Fine
  PROVE  /\ c_event = {} /\ c_eh.pc \in {"head", "wait"} /\ (c_conn = 1 => c_tcp_socket = "open")
<1>1. c_event = {} /\ ~ Broken
  BY DEF Fine
<1>2. c_conn = 1 => c_tcp_socket = "open"
  BY <1>1 DEF Broken, ClientGone
<1>3. c_conn \in {0, 1}
  BY ClientShape
<1>. QED  BY <1>1, <1>2, <1>3 DEF ClientOpenInv

\* A call of the USB core that numbers nothing.
LEMMA ClientCallMoves ==
  ASSUME Steady, UNCHANGED <<serverVars, c2s, s2c>>,
         \/ ClientCall
         \/ Client!EnqueueSetAddress \/ Client!EnqueueGetVdev \/ Client!DequeueLocal
  PROVE  Moved
<1>1. UNCHANGED <<c_tcp_socket, c_unlink_rx, c_tx>>
  BY DEF ClientCall, Client!vhci_urb_enqueue, Client!vhci_urb_dequeue,
         Client!EnqueueSetAddress, Client!EnqueueGetVdev, Client!DequeueLocal
<1>2. UNCHANGED c_priv \/ \E u : Client!FreePriv(u)
  BY DEF ClientCall, Client!vhci_urb_enqueue, Client!vhci_urb_dequeue,
         Client!EnqueueSetAddress, Client!EnqueueGetVdev, Client!DequeueLocal
<1>3. \A u \in Urbs : c_priv'[u].list = "rx" =>
                        c_priv[u].list = "rx" /\ c_priv'[u].seqnum = c_priv[u].seqnum
  BY <1>2, ClientShape DEF Client!FreePriv, Client!NoPriv, Steady
<1>4. ClientWaits
  BY <1>1, <1>3 DEF ClientAwaits, ClientWaits, SendsUnlink, InHand
<1>5. ClientOld
  BY ClientOldCalls DEF Steady
<1>. QED  BY <1>4, <1>5, ClientOldFlows, ClientMoves DEF Steady, LinkInv

\* An enqueue that numbers a request.
LEMMA ClientPushMoves ==
  ASSUME Steady, UNCHANGED <<serverVars, c2s, s2c>>, Client!EnqueuePush
  PROVE  Moved
<1>0. ClientInv /\ NumbersInv
  BY DEF Steady, LinkInv
<1> USE <1>0, ClientShape, ClientPushes
<1>1. ClientWaits
  <2>1. \A u \in Urbs : c_priv'[u].list = "rx" =>
                          c_priv[u].list = "rx" /\ c_priv'[u].seqnum = c_priv[u].seqnum
    OBVIOUS
  <2>. QED  BY <2>1 DEF ClientAwaits, ClientWaits, SendsUnlink, InHand
<1>2. ClientFlows({c_seqnum'}, {})
  <2>1. c_seqnum <= c_seqnum' /\ c_seqnum' \in Targets /\ c_seqnum < c_seqnum' /\ c_seqnum' <= c_seqnum'
    BY DEF Targets, Numbers
  <2>2. UNCHANGED <<c_unlink_tx, c_unlink_rx, c_tx>>
    OBVIOUS
  <2>3. \A n : (Queued(n)' <=> Queued(n)) /\ (Sends(n)' <=> Sends(n)) /\ (Awaited(n)' <=> Awaited(n))
    BY <2>2 DEF Queued, Sends, Awaited, SendsUnlink
  <2>4. \A m, k \in Cancels' : m.seqnum = k.seqnum => m = k
    BY <2>2 DEF NumbersInv, Cancels
  <2>. QED  BY <2>1, <2>3, <2>4 DEF ClientFlows
<1>. QED  BY <1>1, <1>2, ClientMoves

\* A dequeue that numbers a cancel request.
LEMMA ClientDequeueMoves ==
  ASSUME Steady, UNCHANGED <<serverVars, c2s, s2c>>, Client!DequeueUnlink
  PROVE  Moved
<1>0. ClientInv /\ NumbersInv
  BY DEF Steady, LinkInv
<1> USE <1>0, ClientShape, ClientDequeues
<1>1. ClientWaits
  BY DEF ClientAwaits, ClientWaits, SendsUnlink, InHand
<1>2. ClientFlows({}, {c_seqnum'})
  <2>1. c_seqnum <= c_seqnum' /\ c_seqnum' \in Targets /\ c_seqnum < c_seqnum' /\ c_seqnum' <= c_seqnum'
    BY DEF Targets, Numbers
  <2>2. UNCHANGED <<c_priv, c_unlink_rx, c_tx>>
    OBVIOUS
  <2>3. \A n : (Sends(n)' <=> Sends(n)) /\ (Awaited(n)' <=> Awaited(n))
    BY <2>2 DEF Sends, Awaited, SendsUnlink
  <2>4. \A u, v \in Urbs :
          (Linked(u)' /\ Linked(v)' /\ c_priv'[u].seqnum = c_priv'[v].seqnum) => u = v
    BY <2>2 DEF NumbersInv, Linked
  <2>. QED  BY <2>1, <2>3, <2>4 DEF ClientFlows
<1>. QED  BY <1>1, <1>2, ClientMoves

\* The write to attach finds no request of a former connection.
LEMMA ClientAttachMoves ==
  ASSUME Steady, UNCHANGED <<serverVars, c2s, s2c>>, Client!AttachClaim
  PROVE  Moved
<1>0. ClientInv /\ NumbersInv /\ StageInv
  BY DEF Steady, LinkInv, OnceInv
<1> USE <1>0, ClientShape
<1>1. /\ UNCHANGED <<c_priv, c_unlink_tx, c_unlink_rx, c_tx, c_call>>
      /\ c_conn = 0 /\ c_conn' = 1 /\ c_seqnum = 0 /\ c_seqnum' = 0
  BY DEF Client!AttachClaim, NumbersInv
<1>2. \A n \in Numbers : ~ Submitted(n) /\ ~ Cancelling(n)
  BY <1>1 DEF NumbersInv, Numbers
<1>3. ClientFlows({}, {})
  <2>1. \A n : /\ ClientSubmit(n)' <=> ClientSubmit(n)
               /\ (Queued(n)' <=> Queued(n)) /\ (Sends(n)' <=> Sends(n))
               /\ (Awaited(n)' <=> Awaited(n))
    BY <1>1 DEF ClientSubmit, Queued, Sends, Awaited, Linked, Cancels, SendsUnlink
  <2>2. \A u, v \in Urbs :
          (Linked(u)' /\ Linked(v)' /\ c_priv'[u].seqnum = c_priv'[v].seqnum) => u = v
    BY <1>1 DEF NumbersInv, Linked
  <2>3. \A m, k \in Cancels' : m.seqnum = k.seqnum => m = k
    BY <1>1 DEF NumbersInv, Cancels
  <2>. QED  BY <1>1, <2>1, <2>2, <2>3, Constants DEF ClientFlows, Targets
<1>4. LinkFlows
  BY SamePlaces DEF LinkFlows
<1>5. NumbersInv' /\ StageInv'
  BY <1>3, <1>4, NumbersStep
<1>6. ServerOnce' /\ Distinct(c2s, "CMD_UNLINK")' /\ Distinct(s2c, "RET_UNLINK")'
  BY SamePlaces DEF Steady, LinkInv, OnceInv
<1>7. AwaitedInv'
  <2>1. ~ SendsUnlink'
    BY <1>1, ClientRuns DEF SendsUnlink
  <2>2. \A k \in Numbers, t \in Targets : ~ OutUnlink(k, t)'
    BY <1>2, SamePlaces DEF Cancelling, Out
  <2>3. \A k \in Numbers : ~ HeldUnlink(k)' /\ ~ BackUnlink(k)'
    BY <1>2, SamePlaces DEF Cancelling
  <2>. QED  BY <2>1, <2>2, <2>3 DEF AwaitedInv
<1>8. WayInv'
  <2>1. ASSUME NEW u \in Urbs, c_priv'[u].list = "rx" PROVE FALSE
    <3>1. Linked(u) /\ c_priv[u].seqnum \in Numbers
      BY <1>1, <2>1 DEF Linked, Client!Priv, Client!NoPriv, Numbers
    <3>. QED  BY <1>2, <3>1 DEF Submitted, ClientSubmit
  <2>. QED  BY <2>1 DEF WayInv
<1>. QED  BY <1>5, <1>6, <1>7, <1>8 DEF Moved, OnceInv

\* Detach, the event thread, and attach once it has claimed the port.
LEMMA ClientAdminMoves ==
  ASSUME Steady, UNCHANGED <<serverVars, c2s, s2c>>,
         \/ Client!DetachCheck \/ Client!DetachEvent \/ Client!AttachStep \/ Client!EhStep
  PROVE  Moved
<1>0. ClientInv /\ NumbersInv /\ ClientOpenInv /\ (Fine' => Fine)
  BY DEF Steady, LinkInv
<1> USE <1>0, ClientShape
<1>1. CASE Client!EhCleanup
  <2>1. UNCHANGED <<c_tcp_socket, c_tx>> /\ c_eh.pc \in {"cleanup", "cleanup_rx"}
    BY <1>1 DEF Client!EhCleanup
  <2>2. c_tcp_socket = "NULL"
    BY <2>1 DEF ClientInv, Port!ThreadInv, Port!StoppedInv, Port!AfterPut, Port!AfterCleanupTx
  <2>3. ~ Fine'
    BY <2>1, ClientFineMeans
  <2>. QED  BY <2>1, <2>2, <2>3, ClientOldAdmin, ClientOldFlows, ClientMoves DEF ClientAwaits, ClientWaits, SendsUnlink
<1>2. CASE ~ Client!EhCleanup
  <2>1. UNCHANGED <<c_priv, c_unlink_rx>>
    BY <1>2
       DEF Client!DetachCheck, Client!DetachEvent, Client!AttachStep, Client!AttachRunRx,
       Client!AttachSetRx, Client!AttachRunTx, Client!AttachSetTx, Client!AttachConnect,
       Client!EhStep, Client!EhLoop, Client!EhShutdown, Client!EhStopRx, Client!EhStopTx,
       Client!EhPutSocket, Client!EhGiveBack, Client!EhDisconnect, Client!EhReset,
       Client!EhUnusable
  <2>2. c_tcp_socket' # "NULL" => c_tcp_socket # "NULL"
    BY <1>2
       DEF Client!DetachCheck, Client!DetachEvent, Client!AttachStep, Client!AttachRunRx,
       Client!AttachSetRx, Client!AttachRunTx, Client!AttachSetTx, Client!AttachConnect,
       Client!EhStep, Client!EhLoop, Client!EhShutdown, Client!EhStopRx, Client!EhStopTx,
       Client!EhPutSocket, Client!EhGiveBack, Client!EhDisconnect, Client!EhReset,
       Client!EhUnusable
  <2>3. UNCHANGED c_tx \/ Client!AttachRunTx
    BY <1>2
       DEF Client!DetachCheck, Client!DetachEvent, Client!AttachStep, Client!AttachRunRx,
       Client!AttachSetRx, Client!AttachSetTx, Client!AttachConnect,
       Client!EhStep, Client!EhLoop, Client!EhShutdown, Client!EhStopRx, Client!EhStopTx,
       Client!EhPutSocket, Client!EhGiveBack, Client!EhDisconnect, Client!EhReset,
       Client!EhUnusable
  <2>4. Client!AttachRunTx => c_tx[1].pc \in {"unborn", "done"} /\ ~ SendsUnlink'
    BY DEF Client!AttachRunTx, Client!TxTo, SendsUnlink, ClientInv, Port!ThreadInv,
           Port!AttachInv, Port!TxStopped, Port!ThreadEnded, Port!Conns
  <2>5. ClientWaits
    BY <2>1, <2>2, <2>3, <2>4 DEF ClientAwaits, ClientWaits, SendsUnlink, InHand
  <2>. QED  BY <2>5, ClientOldAdmin, ClientOldFlows, ClientMoves
<1>. QED  BY <1>1, <1>2

\* The threads of the client, as long as they send and receive nothing.
LEMMA ClientThreadMoves ==
  ASSUME Steady, UNCHANGED <<serverVars, c2s, s2c>>, ClientTx \/ ClientRx
  PROVE  Moved
<1>0. ClientInv /\ NumbersInv /\ ClientOpenInv /\ (Fine' => Fine)
  BY DEF Steady, LinkInv
<1> USE <1>0, ClientShape
<1>1. ClientOld
  BY ClientOldThreads
<1>2. UNCHANGED c_tcp_socket /\ c_unlink_rx \subseteq c_unlink_rx'
  BY DEF ClientTx, Client!TxTakeSubmit, Client!TxTakeUnlink, Client!TxWait, Client!TxOops,
         Client!TxSendFails, ClientRx, Client!RxLoop, Client!RxPayload, Client!RxGiveBack,
         Client!RxDown
<1>3. SendsUnlink' => \/ SendsUnlink /\ c_tx'[1].unlink = c_tx[1].unlink
                      \/ c_tx'[1].unlink \in c_unlink_rx'
  BY DEF ClientTx, Client!TxTakeSubmit, Client!TxTakeUnlink, Client!TxWait, Client!TxOops,
         Client!TxSendFails, ClientRx, Client!RxLoop, Client!RxPayload, Client!RxGiveBack,
         Client!RxDown, Client!TxTo, SendsUnlink
<1>4. ASSUME Fine', NEW u \in Urbs, c_priv'[u].list = "rx"
      PROVE  \/ InHand(u)'
             \/ /\ c_priv[u].list = "rx" /\ c_priv'[u].seqnum = c_priv[u].seqnum
                /\ ~ InHand(u)
  <2>1. CASE Client!TxTakeSubmit(1)
    BY <1>4, <2>1 DEF Client!TxTakeSubmit, Client!TxTo, Client!Priv, Client!NoPriv, InHand
  <2>2. CASE Client!TxTakeUnlink(1) \/ Client!TxWait(1)
    BY <1>4, <2>2 DEF Client!TxTakeUnlink, Client!TxWait, InHand
  <2>3. CASE Client!TxOops(1)
    <3>1. UNCHANGED c_priv
      BY <2>3 DEF Client!TxOops
    <3>2. c_tx[1].pc \in {"send_submit", "send_unlink"}
      BY <2>3 DEF Client!TxOops
    <3>3. c_tcp_socket = "open"
      BY <1>4, <3>2, ClientRuns, ClientFineMeans
    <3>4. ~ InHand(u)
      BY <1>4, <2>3, <3>1, <3>3 DEF Client!TxOops, Client!CanSendSubmit, InHand
    <3>. QED  BY <1>4, <3>1, <3>4
  <2>4. CASE Client!TxSendFails(1, Client!VDEV_EVENT_ERROR_TCP)
    <3>1. c_event' # {}
      BY <2>4 DEF Client!TxSendFails, Client!usbip_event_add, Client!VDEV_EVENT_ERROR_TCP
    <3>. QED  BY <1>4, <3>1 DEF Fine
  <2>5. CASE ClientRx
    <3>1. UNCHANGED <<c_priv, c_tx>>
      BY <2>5 DEF ClientRx, Client!RxLoop, Client!RxPayload, Client!RxGiveBack, Client!RxDown
    <3>. QED  BY <1>4, <3>1 DEF InHand
  <2>. QED  BY <2>1, <2>2, <2>3, <2>4, <2>5 DEF ClientTx
<1>5. ClientWaits
  BY <1>2, <1>3, <1>4 DEF ClientAwaits, ClientWaits
<1>. QED  BY <1>1, <1>5, ClientOldFlows, ClientMoves

\* vhci_tx has what it sends.
LEMMA SendShapeStep ==
  ASSUME ClientInv, SendShape, Next
  PROVE  SendShape'
<1> USE ClientShape
<1>1. CASE UNCHANGED clientVars
  BY <1>1 DEF clientVars, SendShape, SendsUnlink
<1>2. CASE \/ ClientCall \/ ClientCallStep \/ ClientAdmin \/ Client!AttachStep \/ Client!EhStep
           \/ ClientRx \/ Client!RxDown(1)
           \/ \E n \in Numbers : Client!RxRetSubmit(1, n) \/ Client!RxRetUnlink(1, n)
  <2>1. UNCHANGED c_tx \/ Client!AttachRunTx
    BY <1>2
       DEF ClientCall, Client!vhci_urb_enqueue, Client!vhci_urb_dequeue, ClientCallStep,
       Client!EnqueueSetAddress, Client!EnqueueGetVdev, Client!EnqueuePush, Client!DequeueLocal,
       Client!DequeueUnlink, ClientAdmin, Client!AttachClaim, Client!DetachCheck,
       Client!DetachEvent, Client!AttachStep, Client!AttachRunRx,
       Client!AttachSetRx, Client!AttachSetTx, Client!AttachConnect,
       Client!EhStep, Client!EhLoop, Client!EhShutdown, Client!EhStopRx, Client!EhStopTx,
       Client!EhPutSocket, Client!EhCleanup, Client!EhGiveBack, Client!EhDisconnect,
       Client!EhReset, Client!EhUnusable, ClientRx, Client!RxLoop, Client!RxPayload,
       Client!RxGiveBack, Client!RxDown, Client!RxRetSubmit, Client!RxRetUnlink
  <2>2. Client!AttachRunTx => c_tx'[1].pc \notin {"send_submit", "send_unlink"}
    BY DEF Client!AttachRunTx, Client!TxTo, ClientInv, Port!ThreadInv, Port!AttachInv,
           Port!TxStopped, Port!ThreadEnded, Port!Conns
  <2>3. c_unlink_tx' \subseteq c_unlink_tx \/ Client!DequeueUnlink
    BY <1>2
       DEF ClientCall, Client!vhci_urb_enqueue, Client!vhci_urb_dequeue, ClientCallStep,
       Client!EnqueueSetAddress, Client!EnqueueGetVdev, Client!EnqueuePush, Client!DequeueLocal,
       ClientAdmin, Client!AttachClaim, Client!DetachCheck,
       Client!DetachEvent, Client!AttachStep, Client!AttachRunRx, Client!AttachRunTx,
       Client!AttachSetRx, Client!AttachSetTx, Client!AttachConnect,
       Client!EhStep, Client!EhLoop, Client!EhShutdown, Client!EhStopRx, Client!EhStopTx,
       Client!EhPutSocket, Client!EhCleanup, Client!EhGiveBack, Client!EhDisconnect,
       Client!EhReset, Client!EhUnusable, ClientRx, Client!RxLoop, Client!RxPayload,
       Client!RxGiveBack, Client!RxDown, Client!RxRetSubmit, Client!RxRetUnlink
  <2>4. Client!DequeueUnlink => \A m \in c_unlink_tx' : m \in c_unlink_tx \/ m.seqnum = c_seqnum + 1
    BY DEF Client!DequeueUnlink
  <2>5. \A m \in c_unlink_tx' : m.seqnum # 0
    BY <2>3, <2>4 DEF SendShape
  <2>. QED  BY <2>1, <2>2, <2>5 DEF SendShape, SendsUnlink
<1>3. CASE ClientTx
  BY <1>3 DEF ClientTx, Client!TxTakeSubmit, Client!TxTakeUnlink, Client!TxWait, Client!TxOops,
         Client!TxSendFails, Client!TxTo, SendShape, SendsUnlink
<1>4. CASE \E n, t \in Targets : Client!TxSendSubmit(1, n) \/ Client!TxSendUnlink(1, n, t)
  BY <1>4 DEF Client!TxSendSubmit, Client!TxSendUnlink, Client!TxTo, SendShape, SendsUnlink
<1>. QED  BY <1>1, <1>2, <1>3, <1>4, ClientKinds

-----------------------------------------------------------------------------
(* The steps that send and receive.                                        *)

\* What a PDU that is sent adds.
LEMMA SentPdu ==
  ASSUME NEW s \in Seq(Pdus), NEW n, NEW t
  PROVE  /\ CmdSubmit(n) \in Pdus =>
              \A m, k : /\ InTransit(CmdSubmit(m), Append(s, CmdSubmit(n)))
                             <=> InTransit(CmdSubmit(m), s) \/ m = n
                        /\ InTransit(CmdUnlink(m, k), Append(s, CmdSubmit(n)))
                             <=> InTransit(CmdUnlink(m, k), s)
         /\ CmdUnlink(n, t) \in Pdus =>
              \A m, k : /\ InTransit(CmdSubmit(m), Append(s, CmdUnlink(n, t)))
                             <=> InTransit(CmdSubmit(m), s)
                        /\ InTransit(CmdUnlink(m, k), Append(s, CmdUnlink(n, t)))
                             <=> InTransit(CmdUnlink(m, k), s) \/ (m = n /\ k = t)
         /\ RetSubmit(n) \in Pdus =>
              \A m : /\ InTransit(RetSubmit(m), Append(s, RetSubmit(n)))
                          <=> InTransit(RetSubmit(m), s) \/ m = n
                     /\ InTransit(RetUnlink(m), Append(s, RetSubmit(n)))
                          <=> InTransit(RetUnlink(m), s)
         /\ RetUnlink(n) \in Pdus =>
              \A m : /\ InTransit(RetSubmit(m), Append(s, RetUnlink(n)))
                          <=> InTransit(RetSubmit(m), s)
                     /\ InTransit(RetUnlink(m), Append(s, RetUnlink(n)))
                          <=> InTransit(RetUnlink(m), s) \/ m = n
         /\ Disconnect \in Pdus =>
              \A m : /\ InTransit(RetSubmit(m), Append(s, Disconnect))
                          <=> InTransit(RetSubmit(m), s)
                     /\ InTransit(RetUnlink(m), Append(s, Disconnect))
                          <=> InTransit(RetUnlink(m), s)
<1>1. \A m, k : /\ CmdSubmit(m) = CmdSubmit(n) <=> m = n
                /\ CmdUnlink(m, k) # CmdSubmit(n) /\ CmdSubmit(m) # CmdUnlink(n, t)
                /\ CmdUnlink(m, k) = CmdUnlink(n, t) <=> m = n /\ k = t
  BY DEF CmdSubmit, CmdUnlink
<1>2. \A m : /\ RetSubmit(m) = RetSubmit(n) <=> m = n
             /\ RetUnlink(m) # RetSubmit(n) /\ RetSubmit(m) # RetUnlink(n)
             /\ RetUnlink(m) = RetUnlink(n) <=> m = n
             /\ RetSubmit(m) # Disconnect /\ RetUnlink(m) # Disconnect
  BY DEF RetSubmit, RetUnlink, Disconnect
<1>. QED  BY <1>1, <1>2, AppendIn, ZenonT(60)

\* vhci_tx sends a request.
LEMMA ClientSendsSubmit ==
  ASSUME Steady, NEW n \in Targets, Client!TxSendSubmit(1, n),
         c2s' = Append(c2s, CmdSubmit(n)), UNCHANGED <<serverVars, s2c>>
  PROVE  Moved
<1>0. ClientInv /\ NumbersInv /\ SendShape /\ c2s \in Seq(Pdus)
  BY DEF Steady, LinkInv, LinkTypes
<1> USE <1>0, ClientShape
<1>1. /\ UNCHANGED <<c_tcp_socket, c_priv, c_unlink_rx>>
      /\ c_tx[1].pc = "send_submit" /\ ~ SendsUnlink'
      /\ n = c_priv[c_tx[1].urb].seqnum /\ Linked(c_tx[1].urb) /\ c_tx[1].urb \in Urbs
  BY DEF Client!TxSendSubmit, Client!CanSendSubmit, Client!TxTo, SendsUnlink, Linked, SendShape
<1>2. ClientSubmit(n)
  BY <1>1 DEF ClientSubmit
<1>3. /\ \A m : OutSubmit(m)' <=> OutSubmit(m) \/ m = n
      /\ \A m, k : OutUnlink(m, k)' <=> OutUnlink(m, k)
  BY PduTypes, SentPdu DEF OutSubmit, OutUnlink
<1>4. \A m : Out(m)' <=> Out(m)
  BY <1>3 DEF Out
<1>5. LinkFlows /\ LinkWaits
  BY <1>2, <1>3, <1>4, SamePlaces DEF LinkFlows, LinkWaits
<1>6. ClientWaits
  BY <1>1, <1>3 DEF ClientAwaits, ClientWaits, InHand
<1>7. ClientFlows({}, {})
  BY ClientOldThreads, ClientOldFlows
<1>8. Distinct(c2s', "CMD_UNLINK")
  BY PduTypes, PduFields, AppendDistinct DEF Steady, LinkInv, OnceInv
<1>9. ServerOnce' /\ Distinct(s2c, "RET_UNLINK")'
  BY SamePlaces DEF Steady, LinkInv, OnceInv
<1>. QED  BY <1>5, <1>6, <1>7, <1>8, <1>9, Moves

\* vhci_tx sends a cancel request.
LEMMA ClientSendsUnlink ==
  ASSUME Steady, NEW n \in Targets, NEW t \in Targets, Client!TxSendUnlink(1, n, t),
         c2s' = Append(c2s, CmdUnlink(n, t)), UNCHANGED <<serverVars, s2c>>
  PROVE  Moved
<1>0. ClientInv /\ NumbersInv /\ SendShape /\ StageInv /\ LinkTypes /\ c2s \in Seq(Pdus)
  BY DEF Steady, LinkInv, LinkTypes, OnceInv
<1> USE <1>0, ClientShape
<1>1. /\ UNCHANGED <<c_tcp_socket, c_priv, c_unlink_rx>>
      /\ c_tx[1].pc = "send_unlink" /\ ~ SendsUnlink' /\ IsSending(n, t)
  BY DEF Client!TxSendUnlink, Client!TxTo, SendsUnlink, IsSending
<1>2. n \in Numbers /\ Sends(n) /\ \A k : ~ Sends(k)'
  BY <1>1, Constants DEF SendShape, Targets, Numbers, IsSending, Sends
<1>3. /\ \A m : OutSubmit(m)' <=> OutSubmit(m)
      /\ \A m, k : OutUnlink(m, k)' <=> OutUnlink(m, k) \/ (m = n /\ k = t)
  BY PduTypes, SentPdu DEF OutSubmit, OutUnlink
<1>4. \A m : Out(m)' => Out(m) \/ m = n
  BY <1>3 DEF Out
<1>5. LinkFlows /\ LinkWaits
  BY <1>1, <1>2, <1>3, <1>4, SamePlaces DEF LinkFlows, LinkWaits
<1>6. ClientWaits
  BY <1>1 DEF ClientAwaits, ClientWaits, InHand
<1>7. ClientFlows({}, {})
  BY ClientOldThreads, ClientOldFlows
<1>8. \A i \in DOMAIN c2s : ~ (c2s[i].pdu = "CMD_UNLINK" /\ c2s[i].seqnum = n)
  BY <1>2, UnlinkPdu DEF StageInv, OnePlace, Out
<1>9. Distinct(c2s', "CMD_UNLINK")
  <2>1. CmdUnlink(n, t) \in Pdus /\ CmdUnlink(n, t).seqnum = n
    BY PduTypes, PduFields
  <2>2. Distinct(c2s, "CMD_UNLINK")
    BY DEF Steady, LinkInv, OnceInv
  <2>. QED  BY <1>8, <2>1, <2>2, AppendDistinct
<1>10. ServerOnce' /\ Distinct(s2c, "RET_UNLINK")'
  BY SamePlaces DEF Steady, LinkInv, OnceInv
<1>. QED  BY <1>5, <1>6, <1>7, <1>9, <1>10, Moves

\* What taking the first PDU of a queue removes.
LEMMA TakenPdu ==
  ASSUME NEW s \in Seq(Pdus), s # <<>>, NEW n, NEW t
  PROVE  /\ Head(s) = CmdSubmit(n) =>
              \A m, k : /\ InTransit(CmdSubmit(m), Tail(s)) => InTransit(CmdSubmit(m), s)
                        /\ InTransit(CmdSubmit(m), s) => InTransit(CmdSubmit(m), Tail(s)) \/ m = n
                        /\ InTransit(CmdUnlink(m, k), Tail(s)) <=> InTransit(CmdUnlink(m, k), s)
         /\ Head(s) = CmdUnlink(n, t) =>
              \A m, k : /\ InTransit(CmdSubmit(m), Tail(s)) <=> InTransit(CmdSubmit(m), s)
                        /\ InTransit(CmdUnlink(m, k), Tail(s)) => InTransit(CmdUnlink(m, k), s)
         /\ Head(s) = RetSubmit(n) =>
              \A m : /\ InTransit(RetSubmit(m), Tail(s)) => InTransit(RetSubmit(m), s)
                     /\ InTransit(RetSubmit(m), s) => InTransit(RetSubmit(m), Tail(s)) \/ m = n
                     /\ InTransit(RetUnlink(m), Tail(s)) <=> InTransit(RetUnlink(m), s)
         /\ Head(s) = RetUnlink(n) =>
              \A m : /\ InTransit(RetSubmit(m), Tail(s)) <=> InTransit(RetSubmit(m), s)
                     /\ InTransit(RetUnlink(m), Tail(s)) => InTransit(RetUnlink(m), s)
                     /\ InTransit(RetUnlink(m), s) => InTransit(RetUnlink(m), Tail(s)) \/ m = n
         /\ \A x : InTransit(x, Tail(s)) => InTransit(x, s)
<1>1. \A m, k : /\ CmdSubmit(m) = CmdSubmit(n) <=> m = n
                /\ CmdUnlink(m, k) # CmdSubmit(n) /\ CmdSubmit(m) # CmdUnlink(n, t)
  BY DEF CmdSubmit, CmdUnlink
<1>2. \A m : /\ RetSubmit(m) = RetSubmit(n) <=> m = n
             /\ RetUnlink(m) # RetSubmit(n) /\ RetSubmit(m) # RetUnlink(n)
             /\ RetUnlink(m) = RetUnlink(n) <=> m = n
  BY DEF RetSubmit, RetUnlink
<1>. QED  BY <1>1, <1>2, TailIn

\* vhci_rx meets the type 3 header of send_disconnect.
LEMMA ClientGetsDisconnect ==
  ASSUME Steady, s2c # <<>>, s2c' = Tail(s2c), Client!RxDown(1), UNCHANGED <<serverVars, c2s>>
  PROVE  Moved
<1>0. ClientInv /\ NumbersInv /\ s2c \in Seq(Pdus) /\ Distinct(s2c, "RET_UNLINK")
  BY DEF Steady, LinkInv, LinkTypes, OnceInv
<1> USE <1>0, ClientShape
<1>1. UNCHANGED <<c_tcp_socket, c_unlink_rx, c_tx>> /\ ~ Fine'
  BY DEF Client!RxDown, Client!usbip_event_add, Client!VDEV_EVENT_DOWN, Fine
<1>2. \A m : (BackSubmit(m)' => BackSubmit(m)) /\ (BackUnlink(m)' => BackUnlink(m))
  BY TailIn DEF BackSubmit, BackUnlink
<1>3. LinkFlows /\ LinkWaits
  BY <1>1, <1>2, SamePlaces DEF LinkFlows, LinkWaits
<1>4. ClientWaits
  BY <1>1 DEF ClientAwaits, ClientWaits, SendsUnlink
<1>5. ClientFlows({}, {})
  BY ClientOldThreads, ClientOldFlows
<1>6. ServerOnce' /\ Distinct(c2s, "CMD_UNLINK")' /\ Distinct(s2c', "RET_UNLINK")
  BY SamePlaces, TailDistinct DEF Steady, LinkInv, OnceInv
<1>. QED  BY <1>3, <1>4, <1>5, <1>6, Moves

\* vhci_recv_ret_submit: the request that is found is not waited for any more.
LEMMA ClientGetsSubmit ==
  ASSUME Steady, NEW n \in Numbers, s2c # <<>>, Head(s2c) = RetSubmit(n), s2c' = Tail(s2c),
         Client!RxRetSubmit(1, n), UNCHANGED <<serverVars, c2s>>
  PROVE  Moved
<1>0. ClientInv /\ NumbersInv /\ StageInv /\ AwaitedInv /\ WayInv /\ (Fine' => Fine)
      /\ s2c \in Seq(Pdus) /\ Distinct(s2c, "RET_UNLINK")
  BY DEF Steady, LinkInv, LinkTypes, OnceInv
<1> USE <1>0, ClientShape
<1>1. UNCHANGED <<c_tcp_socket, c_unlink_rx, c_tx>>
  BY DEF Client!RxRetSubmit
<1>2. \A m : /\ BackSubmit(m)' => BackSubmit(m)
             /\ BackSubmit(m) => BackSubmit(m)' \/ m = n
             /\ BackUnlink(m)' <=> BackUnlink(m)
  BY TakenPdu DEF BackSubmit, BackUnlink
<1>3. LinkFlows
  BY <1>2, SamePlaces DEF LinkFlows
<1>4. ClientFlows({}, {})
  BY ClientOldThreads, ClientOldFlows
<1>5. NumbersInv' /\ StageInv'
  BY <1>3, <1>4, NumbersStep
<1>6. AwaitedInv'
  BY <1>1, <1>3, AwaitedStep DEF ClientAwaits, SendsUnlink
<1>7. ServerOnce' /\ Distinct(c2s, "CMD_UNLINK")' /\ Distinct(s2c', "RET_UNLINK")
  BY SamePlaces, TailDistinct DEF Steady, LinkInv, OnceInv
<1>8. ASSUME Fine', NEW v \in Urbs, c_priv'[v].list = "rx"
      PROVE  InHand(v)' \/ OnWay(c_priv[v].seqnum)'
  <2>1. PICK u \in Urbs : Client!Picked(u, n) /\ Client!FreePriv(u)
    BY <1>8 DEF Client!RxRetSubmit, Client!usbip_event_add, Client!VDEV_EVENT_ERROR_TCP, Fine
  <2>2. c_priv[u].list = "rx" /\ c_priv[u].seqnum = n
    BY <2>1 DEF Client!Picked, Client!FirstPriv, Client!priv_rx
  <2>3. v # u /\ c_priv'[v] = c_priv[v]
    BY <1>8, <2>1 DEF Client!FreePriv, Client!NoPriv
  <2>4. c_priv[v].seqnum # n
    BY <1>8, <2>2, <2>3 DEF NumbersInv, Linked
  <2> PICK m : m = c_priv[v].seqnum
    OBVIOUS
  <2>5. InHand(v) \/ OnWay(m)
    BY <1>8, <2>3 DEF WayInv
  <2>6. InHand(v) => InHand(v)'
    BY <1>1 DEF InHand
  <2>7. AnsweredAsUnlink(m) => AnsweredAsUnlink(m)'
    BY <1>1, <1>2, SamePlaces DEF AnsweredAsUnlink, AwaitedFor
  <2>8. OnWay(m) => OnWay(m)'
    BY <1>2, <2>4, <2>7, SamePlaces DEF OnWay
  <2>. QED  BY <2>3, <2>5, <2>6, <2>8
<1>9. WayInv'
  <2>1. ASSUME Fine', NEW v \in Urbs, c_priv'[v].list = "rx"
        PROVE  c_priv'[v].seqnum = c_priv[v].seqnum
    BY <2>1, ClientOldThreads DEF ClientOld, Linked
  <2>2. ASSUME Fine', NEW v \in Urbs, c_priv'[v].list = "rx"
        PROVE  InHand(v)' \/ (\E m : m = c_priv'[v].seqnum /\ OnWay(m)')
    <3> PICK m : m = c_priv[v].seqnum
      OBVIOUS
    <3>. QED  BY <1>8, <2>1, <2>2
  <2>. QED  BY <2>2 DEF WayInv
<1>. QED  BY <1>5, <1>6, <1>7, <1>9 DEF Moved, OnceInv

\* vhci_recv_ret_unlink: neither the cancel request that is found nor the
\* request it cancels is waited for any more.
LEMMA ClientGetsUnlink ==
  ASSUME Steady, NEW n \in Numbers, s2c # <<>>, Head(s2c) = RetUnlink(n), s2c' = Tail(s2c),
         Client!RxRetUnlink(1, n), UNCHANGED <<serverVars, c2s>>
  PROVE  Moved
<1>0. ClientInv /\ NumbersInv /\ StageInv /\ AwaitedInv /\ WayInv /\ LinkTypes /\ (Fine' => Fine)
      /\ s2c \in Seq(Pdus) /\ Distinct(s2c, "RET_UNLINK")
  BY DEF Steady, LinkInv, LinkTypes, OnceInv
<1> USE <1>0, ClientShape
<1>1. UNCHANGED <<c_tcp_socket, c_tx>>
  BY DEF Client!RxRetUnlink
<1>2. \A k : /\ BackSubmit(k)' <=> BackSubmit(k)
             /\ BackUnlink(k)' => BackUnlink(k)
             /\ BackUnlink(k) => BackUnlink(k)' \/ k = n
  BY TakenPdu DEF BackSubmit, BackUnlink
<1>3. BackUnlink(n) /\ ~ Sends(n) /\ ~ Out(n) /\ ~ HeldUnlink(n)
  BY TailIn DEF BackUnlink, StageInv, OnePlace
<1>4. ~ BackUnlink(n)'
  <2>1. \A i \in DOMAIN Tail(s2c) :
          ~ (Head(s2c).pdu = "RET_UNLINK" /\ Tail(s2c)[i].pdu = "RET_UNLINK"
               /\ Tail(s2c)[i].seqnum = Head(s2c).seqnum)
    BY TailDistinct
  <2>2. RetUnlink(n).pdu = "RET_UNLINK" /\ RetUnlink(n).seqnum = n
    BY PduFields
  <2>3. ~ InTransit(RetUnlink(n), Tail(s2c))
    BY <2>1, <2>2 DEF InTransit
  <2>. QED  BY <2>3 DEF BackUnlink
<1>5. LinkFlows
  BY <1>2, SamePlaces DEF LinkFlows
<1>6. ClientFlows({}, {})
  BY ClientOldThreads, ClientOldFlows
<1>7. NumbersInv' /\ StageInv'
  BY <1>5, <1>6, NumbersStep
<1>8. ServerOnce' /\ Distinct(c2s, "CMD_UNLINK")' /\ Distinct(s2c', "RET_UNLINK")
  BY SamePlaces, TailDistinct DEF Steady, LinkInv, OnceInv
<1>10. AwaitedInv'
  <2>1. SendsUnlink' => SendsUnlink /\ c_tx'[1].unlink = c_tx[1].unlink /\ Sends(c_tx[1].unlink.seqnum)
    BY <1>1 DEF SendsUnlink, Sends
  <2>2. ASSUME NEW m \in c_unlink_rx, m.seqnum # n
        PROVE  m \in c_unlink_rx'
    BY <2>2 DEF Client!RxRetUnlink, Client!FirstUnlink
  <2>3. ASSUME c_tcp_socket # "NULL", SendsUnlink'
        PROVE  c_tx'[1].unlink \in c_unlink_rx'
    BY <1>3, <2>1, <2>2, <2>3 DEF AwaitedInv
  <2>4. ASSUME c_tcp_socket # "NULL", NEW k \in Numbers, NEW t \in Targets, OutUnlink(k, t)'
        PROVE  AwaitedFor(k, t)'
    <3>1. OutUnlink(k, t) /\ Out(k)
      BY <2>4, SamePlaces DEF Out
    <3>2. k # n /\ AwaitedFor(k, t)
      BY <1>3, <2>4, <3>1 DEF AwaitedInv
    <3>. QED  BY <2>2, <3>2 DEF AwaitedFor
  <2>5. ASSUME c_tcp_socket # "NULL", NEW k \in Numbers, HeldUnlink(k)' \/ BackUnlink(k)'
        PROVE  Awaited(k)'
    <3>1. k # n /\ (HeldUnlink(k) \/ BackUnlink(k))
      BY <1>2, <1>3, <1>4, <2>5, SamePlaces
    <3>2. Awaited(k)
      BY <2>5, <3>1 DEF AwaitedInv
    <3>. QED  BY <2>2, <3>1, <3>2 DEF Awaited
  <2>. QED  BY <1>1, <2>3, <2>4, <2>5 DEF AwaitedInv
<1>11. ASSUME Fine', NEW v \in Urbs, c_priv'[v].list = "rx"
       PROVE  /\ c_priv'[v] = c_priv[v]
              /\ \A m \in c_unlink_rx : m.unlink_seqnum = c_priv[v].seqnum /\ m.seqnum # n =>
                                          m \in c_unlink_rx'
              /\ \A m \in c_unlink_rx : m.unlink_seqnum = c_priv[v].seqnum => m.seqnum # n
  <2>1. CASE {m \in c_unlink_rx : m.seqnum = n} = {}
    BY <2>1 DEF Client!RxRetUnlink
  <2>2. CASE {m \in c_unlink_rx : m.seqnum = n} # {}
    <3>1. PICK m \in c_unlink_rx :
            /\ m.seqnum = n /\ c_unlink_rx' = c_unlink_rx \ {m}
            /\ \/ Client!NotFound(m.unlink_seqnum) /\ UNCHANGED c_priv
               \/ \E u \in Urbs : Client!Picked(u, m.unlink_seqnum) /\ Client!FreePriv(u)
      BY <2>2 DEF Client!RxRetUnlink, Client!FirstUnlink
    <3>2. c_priv'[v] = c_priv[v] /\ c_priv[v].seqnum # m.unlink_seqnum
      <4>1. CASE Client!NotFound(m.unlink_seqnum) /\ UNCHANGED c_priv
        BY <1>11, <4>1 DEF Client!NotFound, Client!priv_rx
      <4>2. CASE \E u \in Urbs : Client!Picked(u, m.unlink_seqnum) /\ Client!FreePriv(u)
        <5>1. PICK u \in Urbs : Client!Picked(u, m.unlink_seqnum) /\ Client!FreePriv(u)
          BY <4>2
        <5>2. c_priv[u].list = "rx" /\ c_priv[u].seqnum = m.unlink_seqnum
          BY <5>1 DEF Client!Picked, Client!FirstPriv, Client!priv_rx
        <5>3. v # u /\ c_priv'[v] = c_priv[v]
          BY <1>11, <5>1 DEF Client!FreePriv, Client!NoPriv
        <5>. QED  BY <1>11, <5>2, <5>3 DEF NumbersInv, Linked
      <4>. QED  BY <3>1, <4>1, <4>2
    <3>3. \A k \in c_unlink_rx : k.seqnum = n => k = m
      BY <3>1 DEF NumbersInv, Cancels
    <3>. QED  BY <3>1, <3>2, <3>3
  <2>. QED  BY <2>1, <2>2
<1>12. ASSUME Fine', NEW v \in Urbs, c_priv'[v].list = "rx"
       PROVE  InHand(v)' \/ (\E x : x = c_priv'[v].seqnum /\ OnWay(x)')
  <2> PICK x : x = c_priv[v].seqnum
    OBVIOUS
  <2>1. c_priv'[v] = c_priv[v]
    BY <1>11, <1>12
  <2>2. InHand(v) \/ OnWay(x)
    BY <1>12, <2>1 DEF WayInv
  <2>3. InHand(v) => InHand(v)'
    BY <1>1 DEF InHand
  <2>4. ASSUME AnsweredAsUnlink(x) PROVE AnsweredAsUnlink(x)'
    <3>1. PICK k \in Numbers : AwaitedFor(k, x) /\ (HeldUnlink(k) \/ BackUnlink(k))
      BY <2>4 DEF AnsweredAsUnlink
    <3>2. PICK m \in c_unlink_rx : m.seqnum = k /\ m.unlink_seqnum = x
      BY <3>1 DEF AwaitedFor
    <3>3. k # n /\ m \in c_unlink_rx'
      BY <1>11, <1>12, <3>2
    <3>4. AwaitedFor(k, x)'
      BY <3>2, <3>3 DEF AwaitedFor
    <3>5. HeldUnlink(k)' \/ BackUnlink(k)'
      BY <1>2, <3>1, <3>3, SamePlaces
    <3>. QED  BY <3>4, <3>5 DEF AnsweredAsUnlink
  <2>5. OnWay(x) => OnWay(x)'
    BY <1>2, <2>4, SamePlaces DEF OnWay
  <2>. QED  BY <2>1, <2>2, <2>3, <2>5
<1>13. WayInv'
  BY <1>12 DEF WayInv
<1>. QED  BY <1>7, <1>8, <1>10, <1>13 DEF Moved, OnceInv

-----------------------------------------------------------------------------
(* The steps of the server and of the connection.                          *)

\* A step of the server that sends and receives nothing.
LEMMA ServerAloneMoves ==
  ASSUME Steady, UNCHANGED <<clientVars, c2s, s2c>>,
         \/ ServerAdmin \/ Server!SockfdStep \/ Server!EhStep \/ ServerTx \/ ServerRx
         \/ ServerCompletes
  PROVE  Moved
<1>0. ClientInv /\ ServerInv /\ NumbersInv /\ ServerOnce /\ ServerOpenInv /\ (Fine' => Fine)
  BY DEF Steady, LinkInv
<1> USE <1>0
<1>1. ServerKeeps
  BY ServerAloneKeeps
<1>2. ClientFlows({}, {}) /\ ClientWaits
  BY ClientIdle
<1>3. LinkFlows /\ LinkWaits
  <2>1. \A k, t \in Targets : OutUnlink(k, t)' => OutUnlink(k, t)
    BY SamePlaces
  <2>. QED  BY <1>1, <2>1, SamePlaces DEF LinkFlows, LinkWaits, ServerKeeps, ServerSame
<1>4. ServerOnce' /\ Distinct(c2s, "CMD_UNLINK")' /\ Distinct(s2c, "RET_UNLINK")'
  BY <1>1 DEF Steady, LinkInv, OnceInv, ServerKeeps
<1>. QED  BY <1>2, <1>3, <1>4, Moves

\* The type 3 header of send_disconnect is no reply.
LEMMA ServerDisconnectMoves ==
  ASSUME Steady, Server!EhSendDisconnect,
         s2c' = s2c \/ s2c' = Append(s2c, Disconnect), UNCHANGED <<clientVars, c2s>>
  PROVE  Moved
<1>0. /\ ClientInv /\ ServerInv /\ NumbersInv /\ ServerOnce /\ ServerOpenInv /\ (Fine' => Fine)
      /\ s2c \in Seq(Pdus) /\ Distinct(s2c, "RET_UNLINK") /\ Distinct(c2s, "CMD_UNLINK")
  BY DEF Steady, LinkInv, LinkTypes, OnceInv
<1> USE <1>0
<1>1. ServerKeeps
  BY ServerAloneKeeps
<1>2. ClientFlows({}, {}) /\ ClientWaits
  BY ClientIdle
<1>3. Disconnect \in Pdus /\ Disconnect.pdu # "RET_UNLINK"
  <2>1. 0 \in Targets
    BY Constants DEF Targets
  <2>2. Disconnect \in Pdus
    BY <2>1, PduTypes
  <2>. QED  BY <2>2 DEF Disconnect
<1>4. \A n : (BackSubmit(n)' <=> BackSubmit(n)) /\ (BackUnlink(n)' <=> BackUnlink(n))
  <2>1. \A m : /\ InTransit(RetSubmit(m), Append(s2c, Disconnect)) <=> InTransit(RetSubmit(m), s2c)
               /\ InTransit(RetUnlink(m), Append(s2c, Disconnect)) <=> InTransit(RetUnlink(m), s2c)
    BY <1>3, SentPdu
  <2>. QED  BY <2>1 DEF BackSubmit, BackUnlink
<1>5. LinkFlows /\ LinkWaits
  <2>1. \A k, t \in Targets : OutUnlink(k, t)' => OutUnlink(k, t)
    BY SamePlaces
  <2>. QED  BY <1>1, <1>4, <2>1, SamePlaces DEF LinkFlows, LinkWaits, ServerKeeps, ServerSame
<1>6. Distinct(s2c', "RET_UNLINK")
  BY <1>3, AppendDistinct
<1>7. ServerOnce' /\ Distinct(c2s, "CMD_UNLINK")'
  BY <1>1 DEF ServerKeeps
<1>. QED  BY <1>2, <1>5, <1>6, <1>7, Moves

\* stub_tx sends the reply to a request.
LEMMA ServerSendsSubmit ==
  ASSUME Steady, NEW n \in Numbers, Server!TxSendSubmit(1, n),
         s2c' = Append(s2c, RetSubmit(n)), UNCHANGED <<clientVars, c2s>>
  PROVE  Moved
<1>0. /\ ClientInv /\ ServerInv /\ NumbersInv /\ ServerOnce
      /\ s2c \in Seq(Pdus) /\ Distinct(s2c, "RET_UNLINK") /\ Distinct(c2s, "CMD_UNLINK")
  BY DEF Steady, LinkInv, LinkTypes, OnceInv
<1> USE <1>0
<1>1. /\ HeldSubmit(n) /\ ServerOnce'
      /\ \A m \in Numbers : /\ HeldSubmit(m)' => HeldSubmit(m)
                            /\ HeldSubmit(m) => HeldSubmit(m)' \/ m = n
                            /\ HeldUnlink(m)' <=> HeldUnlink(m)
  BY ServerPutsSubmit
<1>2. ClientFlows({}, {}) /\ ClientWaits
  BY ClientIdle
<1>3. RetSubmit(n) \in Pdus /\ RetSubmit(n).pdu # "RET_UNLINK"
  <2>1. n \in Targets
    BY Constants DEF Targets, Numbers
  <2>2. RetSubmit(n) \in Pdus
    BY <2>1, PduTypes
  <2>. QED  BY <2>2 DEF RetSubmit
<1>4. \A m : /\ BackSubmit(m)' <=> BackSubmit(m) \/ m = n
             /\ BackUnlink(m)' <=> BackUnlink(m)
  BY <1>3, SentPdu DEF BackSubmit, BackUnlink
<1>5. LinkFlows /\ LinkWaits
  <2>1. \A k, t \in Targets : OutUnlink(k, t)' => OutUnlink(k, t)
    BY SamePlaces
  <2>. QED  BY <1>1, <1>4, <2>1, SamePlaces DEF LinkFlows, LinkWaits
<1>6. Distinct(s2c', "RET_UNLINK")
  BY <1>3, AppendDistinct
<1>7. Distinct(c2s, "CMD_UNLINK")'
  OBVIOUS
<1>. QED  BY <1>1, <1>2, <1>5, <1>6, <1>7, Moves

\* stub_tx sends the reply to a cancel request.
LEMMA ServerSendsUnlink ==
  ASSUME Steady, NEW n \in Numbers, Server!TxSendUnlink(1, n),
         s2c' = Append(s2c, RetUnlink(n)), UNCHANGED <<clientVars, c2s>>
  PROVE  Moved
<1>0. /\ ClientInv /\ ServerInv /\ NumbersInv /\ StageInv /\ ServerOnce /\ LinkTypes
      /\ s2c \in Seq(Pdus) /\ Distinct(s2c, "RET_UNLINK") /\ Distinct(c2s, "CMD_UNLINK")
  BY DEF Steady, LinkInv, LinkTypes, OnceInv
<1> USE <1>0
<1>1. /\ HeldUnlink(n) /\ ~ HeldUnlink(n)' /\ ServerOnce'
      /\ \A m \in Numbers : /\ HeldUnlink(m)' => HeldUnlink(m)
                            /\ HeldUnlink(m) => HeldUnlink(m)' \/ m = n
                            /\ HeldSubmit(m)' <=> HeldSubmit(m)
  BY ServerPutsUnlink
<1>2. ClientFlows({}, {}) /\ ClientWaits
  BY ClientIdle
<1>3. RetUnlink(n) \in Pdus /\ RetUnlink(n).seqnum = n
  <2>1. n \in Targets
    BY Constants DEF Targets, Numbers
  <2>2. RetUnlink(n) \in Pdus
    BY <2>1, PduTypes
  <2>. QED  BY <2>2 DEF RetUnlink
<1>4. \A m : /\ BackSubmit(m)' <=> BackSubmit(m)
             /\ BackUnlink(m)' <=> BackUnlink(m) \/ m = n
  BY <1>3, SentPdu DEF BackSubmit, BackUnlink
<1>5. LinkFlows /\ LinkWaits
  <2>1. \A k, t \in Targets : OutUnlink(k, t)' => OutUnlink(k, t)
    BY SamePlaces
  <2>. QED  BY <1>1, <1>4, <2>1, SamePlaces DEF LinkFlows, LinkWaits
<1>6. \A i \in DOMAIN s2c : ~ (s2c[i].pdu = "RET_UNLINK" /\ s2c[i].seqnum = n)
  BY <1>1, UnlinkPdu DEF StageInv, OnePlace
<1>7. Distinct(s2c', "RET_UNLINK")
  BY <1>3, <1>6, AppendDistinct
<1>8. Distinct(c2s, "CMD_UNLINK")'
  OBVIOUS
<1>. QED  BY <1>1, <1>2, <1>5, <1>7, <1>8, Moves

\* stub_rx receives a request.
LEMMA ServerReceivesSubmit ==
  ASSUME Steady, NEW n \in Numbers, c2s # <<>>, Head(c2s) = CmdSubmit(n), c2s' = Tail(c2s),
         Server!RxCmdSubmit(1, n), UNCHANGED s_event, UNCHANGED <<clientVars, s2c>>
  PROVE  Moved
<1>0. /\ ClientInv /\ ServerInv /\ NumbersInv /\ ServerOnce
      /\ c2s \in Seq(Pdus) /\ Distinct(s2c, "RET_UNLINK") /\ Distinct(c2s, "CMD_UNLINK")
  BY DEF Steady, LinkInv, LinkTypes, OnceInv
<1> USE <1>0
<1>1. /\ \A m \in Numbers : /\ HeldSubmit(m)' => HeldSubmit(m) \/ m = n
                            /\ HeldUnlink(m)' <=> HeldUnlink(m)
      /\ ServerOnce'
      /\ Fine' => \A m \in Numbers : HeldSubmit(m) \/ m = n => HeldSubmit(m)'
  BY ServerGetsSubmit
<1>2. ClientFlows({}, {}) /\ ClientWaits
  BY ClientIdle
<1>3. /\ OutSubmit(n)
      /\ \A m : /\ OutSubmit(m)' => OutSubmit(m)
                /\ OutSubmit(m) => OutSubmit(m)' \/ m = n
      /\ \A m, k : OutUnlink(m, k)' <=> OutUnlink(m, k)
  BY TailIn, TakenPdu, ZenonT(60) DEF OutSubmit, OutUnlink
<1>4. \A m : Out(m)' <=> Out(m)
  BY <1>3 DEF Out
<1>5. LinkFlows /\ LinkWaits
  BY <1>1, <1>3, <1>4, SamePlaces DEF LinkFlows, LinkWaits
<1>6. Distinct(c2s', "CMD_UNLINK")
  BY TailDistinct
<1>7. Distinct(s2c, "RET_UNLINK")'
  OBVIOUS
<1>. QED  BY <1>1, <1>2, <1>5, <1>6, <1>7, Moves

\* stub_rx receives a cancel request: the request it finds will be answered as
\* the cancel request, which the client waits for.
LEMMA ServerReceivesUnlink ==
  ASSUME Steady, NEW n \in Numbers, NEW t \in Targets,
         c2s # <<>>, Head(c2s) = CmdUnlink(n, t), c2s' = Tail(c2s),
         Server!RxCmdUnlink(1, n, t), UNCHANGED s_event, UNCHANGED <<clientVars, s2c>>
  PROVE  Moved
<1>0. /\ ClientInv /\ ServerInv /\ NumbersInv /\ StageInv /\ ServerOnce /\ AwaitedInv
      /\ ClientOpenInv /\ (Fine' => Fine)
      /\ c2s \in Seq(Pdus) /\ Distinct(s2c, "RET_UNLINK") /\ Distinct(c2s, "CMD_UNLINK")
  BY DEF Steady, LinkInv, LinkTypes, OnceInv
<1> USE <1>0
<1>1. OutUnlink(n, t) /\ Out(n)
  BY TailIn DEF OutUnlink, Out
<1>2. ~ HeldUnlink(n)
  BY <1>1 DEF StageInv, OnePlace
<1>3. t \in Numbers => ~ HeldUnlink(t)
  BY <1>1, Constants DEF NumbersInv, Submitted, Cancelling, Targets, Numbers
<1>4. /\ \A m \in Numbers : /\ HeldSubmit(m)' => HeldSubmit(m)
                            /\ HeldUnlink(m)' => HeldUnlink(m) \/ m = n
      /\ ServerOnce'
      /\ Fine' => \A m \in Numbers : /\ HeldSubmit(m) => HeldSubmit(m)' \/ m = t
                                     /\ HeldUnlink(m) \/ m = n => HeldUnlink(m)'
  BY <1>2, <1>3, ServerGetsUnlink
<1>5. ClientFlows({}, {}) /\ ClientWaits
  BY ClientIdle
<1>6. \A m, k : /\ OutSubmit(m)' <=> OutSubmit(m)
                /\ OutUnlink(m, k)' => OutUnlink(m, k)
  BY TakenPdu DEF OutSubmit, OutUnlink
<1>7. \A m : Out(m)' => Out(m)
  BY <1>6 DEF Out
<1>8. ~ Out(n)'
  <2>1. \A i \in DOMAIN Tail(c2s) :
          ~ (Head(c2s).pdu = "CMD_UNLINK" /\ Tail(c2s)[i].pdu = "CMD_UNLINK"
               /\ Tail(c2s)[i].seqnum = Head(c2s).seqnum)
    BY TailDistinct
  <2>2. \A k : CmdUnlink(n, k).pdu = "CMD_UNLINK" /\ CmdUnlink(n, k).seqnum = n
    BY DEF CmdUnlink
  <2>3. \A k : ~ InTransit(CmdUnlink(n, k), Tail(c2s))
    BY <2>1, <2>2 DEF InTransit
  <2>. QED  BY <2>3 DEF Out, OutUnlink
<1>9. LinkFlows
  BY <1>1, <1>4, <1>6, <1>7, <1>8, SamePlaces DEF LinkFlows
<1>10. Fine' => AwaitedFor(n, t)
  <2>1. SUFFICES ASSUME Fine' PROVE AwaitedFor(n, t)
    OBVIOUS
  <2>2. c_conn = 0 => c_seqnum = 0
    BY DEF NumbersInv
  <2>3. n <= c_seqnum
    BY <1>1 DEF NumbersInv, Cancelling
  <2>4. c_conn = 1
    BY <2>2, <2>3, ClientShape DEF Numbers
  <2>5. c_tcp_socket = "open"
    BY <2>1, <2>4, ClientFineMeans
  <2>. QED  BY <1>1, <2>5 DEF AwaitedInv
<1>11. Fine' => AwaitedFor(n, t)'
  BY <1>10 DEF AwaitedFor, clientVars
<1>12. Fine' => HeldUnlink(n)' /\ AnsweredAsUnlink(t)'
  BY <1>4, <1>11 DEF AnsweredAsUnlink
<1>13. LinkWaits
  BY <1>4, <1>6, <1>12, SamePlaces DEF LinkWaits
<1>14. Distinct(c2s', "CMD_UNLINK")
  BY TailDistinct
<1>15. Distinct(s2c, "RET_UNLINK")'
  OBVIOUS
<1>. QED  BY <1>4, <1>5, <1>9, <1>13, <1>14, <1>15, Moves

\* The network fails, or nothing happens.
LEMMA CutMoves ==
  ASSUME Steady, UNCHANGED <<clientVars, serverVars, c2s, s2c>>
  PROVE  Moved
<1>1. ClientFlows({}, {}) /\ ClientWaits
  BY ClientIdle DEF Steady, LinkInv
<1>. QED  BY <1>1, ClientMoves

-----------------------------------------------------------------------------
(* The invariant.                                                          *)

Inv == ClientInv /\ ServerInv /\ LinkTypes /\ LinkInv

\* The PDUs on the link are those the drivers send, and each is for one end.
LEMMA LinkTypesStep ==
  ASSUME LinkTypes, Next
  PROVE  LinkTypes'
<1>0. c2s \in Seq(Pdus) /\ s2c \in Seq(Pdus)
  BY DEF LinkTypes
<1>1. \A n \in Numbers : n \in Targets
  BY Constants DEF Numbers, Targets
<1>2. \A n \in Targets : RetSubmit(n) \in Pdus /\ RetUnlink(n) \in Pdus
  BY PduTypes
<1>3. Disconnect \in Pdus
  <2>1. 0 \in Targets
    BY Constants DEF Targets
  <2>. QED  BY <2>1, PduTypes
<1>4. c2s' \in Seq(Pdus)
  <2>1. \/ UNCHANGED c2s
        \/ c2s # <<>> /\ c2s' = Tail(c2s)
        \/ \E n, t \in Targets : c2s' = Append(c2s, CmdSubmit(n)) \/ c2s' = Append(c2s, CmdUnlink(n, t))
    BY DEF Next, Cut, ClientAlone, ServerAlone, ClientSends, ClientReceives, ServerSends,
           ServerSendsDisconnect, ServerReceives, linkVars, Targets
  <2>2. \A n, t \in Targets : CmdSubmit(n) \in Pdus /\ CmdUnlink(n, t) \in Pdus
    BY PduTypes
  <2>3. \/ UNCHANGED c2s
        \/ c2s # <<>> /\ c2s' = Tail(c2s)
        \/ \E e \in Pdus : c2s' = Append(c2s, e)
    BY <2>1, <2>2
  <2>. QED  BY <1>0, <2>3, AppendIn, TailIn, SMTT(30)
<1>5. \/ UNCHANGED s2c
      \/ s2c # <<>> /\ s2c' = Tail(s2c)
      \/ \E e \in Pdus : e.target = 0 /\ s2c' = Append(s2c, e)
  <2>1. \/ UNCHANGED s2c
        \/ s2c # <<>> /\ s2c' = Tail(s2c)
        \/ \E n \in Numbers : s2c' = Append(s2c, RetSubmit(n)) \/ s2c' = Append(s2c, RetUnlink(n))
        \/ s2c' = Append(s2c, Disconnect)
    BY DEF Next, Cut, ClientAlone, ServerAlone, ClientSends, ClientReceives, ServerSends,
           ServerSendsDisconnect, ServerReceives, linkVars, Numbers
  <2>2. \A n : RetSubmit(n).target = 0 /\ RetUnlink(n).target = 0 /\ Disconnect.target = 0
    BY DEF RetSubmit, RetUnlink, Disconnect
  <2>. QED  BY <1>1, <1>2, <1>3, <2>1, <2>2
<1>6. s2c' \in Seq(Pdus)
  BY <1>0, <1>5, AppendIn, TailIn
<1>7. \A i \in DOMAIN s2c' : s2c'[i].target = 0
  <2>1. \A i \in DOMAIN s2c : s2c[i].target = 0
    BY DEF LinkTypes
  <2>2. CASE UNCHANGED s2c
    BY <2>1, <2>2
  <2>3. CASE s2c # <<>> /\ s2c' = Tail(s2c)
    BY <1>0, <2>1, <2>3
  <2>4. CASE \E e \in Pdus : e.target = 0 /\ s2c' = Append(s2c, e)
    BY <1>0, <2>1, <2>4
  <2>. QED  BY <1>5, <2>2, <2>3, <2>4
<1>8. cut' \in BOOLEAN /\ UNCHANGED disturbance
  BY DEF Next, Cut, ClientAlone, ServerAlone, ClientSends, ClientReceives, ServerSends,
         ServerSendsDisconnect, ServerReceives, linkVars, LinkTypes
<1>. QED  BY <1>4, <1>6, <1>7, <1>8 DEF LinkTypes

\* Before the server is attached no number is anywhere.
LEMMA LinkInit == Init => LinkInv
<1> SUFFICES ASSUME Init PROVE LinkInv
  OBVIOUS
<1>1. /\ c2s = <<>> /\ s2c = <<>>
      /\ c_status = "NULL" /\ c_tcp_socket = "NULL" /\ c_seqnum = 0 /\ c_conn = 0
      /\ c_unlink_tx = {} /\ c_unlink_rx = {} /\ c_detach = "idle" /\ c_unload = "no"
      /\ c_event = {} /\ c_eh.pc \in {"head", "wait"}
      /\ \A u \in Urbs : c_priv[u].list = "none"
      /\ c_call.op = "none" /\ c_tx[1].pc = "unborn"
  <2>1. Client!Init
    BY DEF Init
  <2>2. 1 \in Client!Conns
    BY DEF Client!Conns
  <2>. QED  BY <2>1, <2>2 DEF Init, Client!Init, Client!EhInit, Client!NoPriv, Client!Idle
<1>2. /\ s_status = "AVAILABLE" /\ s_tcp_socket = "NULL" /\ s_conn = 0
      /\ s_event = {} /\ s_eh.pc \in {"head", "wait"}
      /\ s_priv_init = {} /\ s_priv_tx = <<>> /\ s_unlink_tx = <<>>
      /\ s_down = "idle" /\ s_unbind = "no" /\ s_tx[1].pc = "unborn"
  <2>1. Server!Init
    BY DEF Init
  <2>2. 1 \in Server!Conns
    BY DEF Server!Conns
  <2>. QED  BY <2>1, <2>2 DEF Server!Init, Server!EhInit
<1>3. ClientOpenInv /\ ServerOpenInv
  BY <1>1, <1>2 DEF ClientOpenInv, ServerOpenInv
<1>4. ~ SendsUnlink /\ SendShape
  BY <1>1 DEF SendsUnlink, SendShape
<1>5. \A x : ~ InTransit(x, c2s) /\ ~ InTransit(x, s2c) /\ ~ InTransit(x, s_priv_tx)
              /\ ~ InTransit(x, s_unlink_tx)
  BY <1>1, <1>2 DEF InTransit
<1>6. \A n : ~ HeldSubmit(n) /\ ~ HeldUnlink(n)
  BY <1>2, <1>5 DEF HeldSubmit, HeldUnlink, InitSubmit, QueuedSubmit, SendingSubmit, InitUnlink,
                    QueuedUnlink, SendingUnlink
<1>7. \A n : ~ ClientSubmit(n) /\ ~ Queued(n) /\ ~ Sends(n) /\ ~ Awaited(n)
  BY <1>1, <1>4 DEF ClientSubmit, Linked, Cancels, Queued, Sends, Awaited
<1>8. \A n : ~ OutSubmit(n) /\ ~ BackSubmit(n) /\ ~ BackUnlink(n) /\ ~ Out(n)
              /\ \A k : ~ OutUnlink(k, n)
  BY <1>5 DEF OutSubmit, BackSubmit, BackUnlink, Out, OutUnlink
<1>9. \A n : ~ Submitted(n) /\ ~ Cancelling(n)
  BY <1>6, <1>7, <1>8 DEF Submitted, Cancelling
<1>10. NumbersInv
  BY <1>1, <1>9 DEF NumbersInv, Linked, Cancels
<1>11. ServerOnce
  BY <1>2, <1>5, FS_EmptySet DEF ServerOnce, InitUnlink, QueuedUnlink, SendingUnlink, Different
<1>12. OnceInv
  BY <1>1, <1>6, <1>7, <1>8 DEF OnceInv, StageInv, OnePlace, Distinct
<1>13. AwaitedInv /\ WayInv
  BY <1>1 DEF AwaitedInv, WayInv
<1>. QED  BY <1>3, <1>4, <1>10, <1>11, <1>12, <1>13 DEF LinkInv

\* Every step of the session moves the numbers on.
LEMMA NextMoves ==
  ASSUME Steady, Next
  PROVE  Moved
<1>1. CASE Cut
  BY <1>1, CutMoves DEF Cut
<1>2. CASE ClientAlone(ClientCall)
  BY <1>2, ClientCallMoves DEF ClientAlone, linkVars
<1>3. CASE ClientAlone(ClientCallStep)
  BY <1>3, ClientCallMoves, ClientPushMoves, ClientDequeueMoves
     DEF ClientAlone, linkVars, ClientCallStep
<1>4. CASE ClientAlone(ClientAdmin)
  BY <1>4, ClientAttachMoves, ClientAdminMoves DEF ClientAlone, linkVars, ClientAdmin
<1>5. CASE ClientAlone(Client!AttachStep) \/ ClientAlone(Client!EhStep)
  BY <1>5, ClientAdminMoves DEF ClientAlone, linkVars
<1>6. CASE ClientAlone(ClientTx) \/ ClientAlone(ClientRx)
  BY <1>6, ClientThreadMoves DEF ClientAlone, linkVars
<1>7. CASE ClientSends
  BY <1>7, ClientSendsSubmit, ClientSendsUnlink DEF ClientSends, Targets
<1>8. CASE ClientReceives
  BY <1>8, ClientGetsDisconnect, ClientGetsSubmit, ClientGetsUnlink DEF ClientReceives, Numbers
<1>9. CASE \/ ServerAlone(ServerAdmin) \/ ServerAlone(Server!SockfdStep)
           \/ ServerAlone(Server!EhStep) \/ ServerAlone(ServerTx)
           \/ ServerAlone(ServerRx) \/ ServerAlone(ServerCompletes)
  BY <1>9, ServerAloneMoves DEF ServerAlone, linkVars
<1>10. CASE ServerSends
  BY <1>10, ServerSendsSubmit, ServerSendsUnlink DEF ServerSends, Numbers
<1>11. CASE ServerSendsDisconnect
  BY <1>11, ServerDisconnectMoves DEF ServerSendsDisconnect
<1>12. CASE ServerReceives
  BY <1>12, ServerReceivesSubmit, ServerReceivesUnlink DEF ServerReceives, Numbers, Targets
<1>. QED  BY <1>1, <1>2, <1>3, <1>4, <1>5, <1>6, <1>7, <1>8, <1>9, <1>10, <1>11, <1>12 DEF Next

\* The invariant is inductive.
LEMMA InvStep == Inv /\ [Next]_vars => Inv'
<1>1. ASSUME Inv, Next PROVE Inv'
  <2>1. /\ ClientInv /\ ServerInv /\ LinkTypes /\ LinkInv /\ NumbersInv
        /\ ClientOpenInv /\ ServerOpenInv /\ SendShape
    BY <1>1 DEF Inv, LinkInv
  <2>2. ClientInv' /\ ServerInv' /\ LinkTypes'
    BY <1>1, <2>1, ClientInvStep, ServerInvStep, LinkTypesStep
  <2>3. ClientOpenInv' /\ ServerOpenInv' /\ SendShape'
    BY <1>1, <2>1, ClientOpenStep, ServerOpenStep, SendShapeStep
  <2>4. Fine' => Fine
    BY <1>1, <2>1, FineStays
  <2>5. Moved
    BY <1>1, <2>1, <2>2, <2>4, NextMoves DEF Steady
  <2>. QED  BY <2>2, <2>3, <2>5 DEF Inv, LinkInv, Moved
<1>2. ASSUME Inv, UNCHANGED vars PROVE Inv'
  <2>1. UNCHANGED <<clientVars, serverVars, c2s, s2c>> /\ UNCHANGED <<cut, disturbance>>
    BY <1>2 DEF vars, linkVars
  <2>2. ClientInv /\ ServerInv /\ LinkTypes /\ LinkInv
    BY <1>2 DEF Inv
  <2>3. ClientInv'
    <3>1. UNCHANGED Port!vars
      BY <2>1 DEF clientVars, Port!vars, Port!portVars, Port!urbVars, Port!thrVars, Port!admVars,
                  Port!ehVars
    <3>. QED  BY <2>2, <3>1, Constants, Port!TypeStep, Port!ThreadStep DEF ClientInv
  <2>4. ServerInv'
    <3>1. UNCHANGED Stub!vars
      BY <2>1 DEF serverVars, Stub!vars, Stub!devVars, Stub!thrVars, Stub!privVars, Stub!unlVars,
                  Stub!admVars, Stub!hisVars
    <3>. QED  BY <2>2, <3>1, Constants, Stub!TypeStep, Stub!ThreadStep DEF ServerInv, Stub!AnyStep
  <2>5. LinkTypes'
    BY <2>1, <2>2 DEF LinkTypes
  <2>6. ClientOpenInv' /\ ServerOpenInv' /\ SendShape'
    BY <2>1, <2>2 DEF LinkInv, ClientOpenInv, ServerOpenInv, SendShape, SendsUnlink, clientVars,
                      serverVars
  <2>7. Fine' => Fine
    BY <2>1 DEF Fine, Broken, ClientGone, ServerGone, clientVars, serverVars
  <2>8. Moved
    BY <2>1, <2>2, <2>3, <2>7, CutMoves DEF Steady
  <2>. QED  BY <2>3, <2>4, <2>5, <2>6, <2>8 DEF Inv, LinkInv, Moved
<1>. QED  BY <1>1, <1>2

\* So it always holds.
THEOREM Invariance == Spec => []Inv
<1>1. Init => Inv
  BY DriversInit, LinkInit DEF Inv
<1>. QED  BY <1>1, InvStep, PTL DEF Spec

-----------------------------------------------------------------------------
(* What it implies.                                                        *)

\* Every number the client has counted is that of one request or of one cancel
\* request, a cancel request is in one place at a time between the two drivers,
\* and the client waits for its answer, whatever ends the connection.
THEOREM LinkInvHolds == Spec => []LinkInv
<1>1. Inv => LinkInv
  BY DEF Inv
<1>. QED  BY <1>1, Invariance, PTL

\* The variables of both drivers and of the connection keep their types,
\* whatever ends the connection.
THEOREM TypeCorrect == Spec => []TypeOK
<1>1. Inv => Client!TypeOK
  BY SamePortInit DEF Inv, ClientInv, Port!TypeInv
<1>2. Inv => Server!TypeOK
  BY SameStubInit DEF Inv, ServerInv
<1>3. Inv => TypeOK
  BY <1>1, <1>2 DEF Inv, LinkTypes, TypeOK
<1>. QED  BY <1>3, Invariance, PTL

\* The client of the session is a port of VhciPort: its peer, the device, does
\* nothing that VhciPort does not expect of a peer, so what is proved of every
\* port holds here.
THEOREM ClientIsPort == Spec => Client!Spec
<1>1. Init => Client!Init
  BY DEF Init
<1>2. Inv /\ [Next]_vars => [Client!Next]_(Client!vars)
  <2>1. Inv => c_seqnum \in 0 .. MaxSeqnum /\ LinkTypes /\ NumbersInv
    BY ClientShape DEF Inv, LinkInv
  <2>2. UNCHANGED vars => UNCHANGED Client!vars
    BY DEF vars, clientVars, Client!vars, Client!portVars, Client!urbVars, Client!thrVars,
           Client!admVars, Client!ehVars
  <2>. QED  BY <2>1, <2>2, ClientSteps
<1>. QED  BY <1>1, <1>2, Invariance, PTL DEF Spec, Client!Spec

\* However the connection ends, a RET_UNLINK on its way to the client is there
\* once and answers a cancel request the client waits for until its cleanup has
\* given up waiting, and no RET_SUBMIT has the number of a cancel request.
THEOREM RepliesMatchHolds == Spec => []RepliesMatch
<1>1. ASSUME Inv, NEW n \in Numbers
      PROVE  /\ Cardinality({i \in DOMAIN s2c : s2c[i] = RetUnlink(n)}) <= 1
             /\ (InTransit(RetUnlink(n), s2c) /\ c_tcp_socket # "NULL") => n \in AwaitedUnlinks
             /\ InTransit(RetSubmit(n), s2c) => n \notin AwaitedUnlinks
  <2>1. /\ NumbersInv /\ AwaitedInv /\ Distinct(s2c, "RET_UNLINK") /\ s2c \in Seq(Pdus)
    BY <1>1 DEF Inv, LinkInv, OnceInv, LinkTypes
  <2>2. n \in AwaitedUnlinks <=> Awaited(n)
    BY DEF AwaitedUnlinks, Awaited
  <2>3. Cardinality({i \in DOMAIN s2c : s2c[i] = RetUnlink(n)}) <= 1
    <3>1. \A i, j \in DOMAIN s2c : s2c[i] = RetUnlink(n) /\ s2c[j] = RetUnlink(n) => i = j
      BY <2>1, PduFields, ZenonT(60) DEF Distinct
    <3>2. CASE {i \in DOMAIN s2c : s2c[i] = RetUnlink(n)} = {}
      BY <3>2, FS_EmptySet
    <3>3. CASE {i \in DOMAIN s2c : s2c[i] = RetUnlink(n)} # {}
      <4>1. PICK i \in DOMAIN s2c : s2c[i] = RetUnlink(n)
        BY <3>3
      <4>2. {j \in DOMAIN s2c : s2c[j] = RetUnlink(n)} = {i}
        BY <3>1, <4>1
      <4>. QED  BY <4>2, FS_Singleton
    <3>. QED  BY <3>2, <3>3
  <2>4. (InTransit(RetUnlink(n), s2c) /\ c_tcp_socket # "NULL") => Awaited(n)
    BY <2>1 DEF AwaitedInv, BackUnlink
  <2>5. InTransit(RetSubmit(n), s2c) => ~ Awaited(n)
    BY <2>1 DEF NumbersInv, Submitted, BackSubmit, Cancelling
  <2>. QED  BY <2>2, <2>3, <2>4, <2>5
<1>2. Inv => RepliesMatch
  BY <1>1 DEF RepliesMatch, Numbers
<1>. QED  BY <1>2, Invariance, PTL

\* StubDevice counts as the library does.
LEMMA SameCount == \A S : Server!Cardinality(S) = Cardinality(S)
  BY DEF Server!Cardinality, Cardinality

\* A number the server will answer has a reply due.
LEMMA HeldIsDue ==
  ASSUME ServerInv, ServerOnce, NEW n \in Numbers, HeldSubmit(n) \/ HeldUnlink(n)
  PROVE  Server!Replies(n) > s_answered[n] + (IF n \in s_superseded THEN 1 ELSE 0)
<1>0. PICK A, B, C, D :
      /\ A = {p \in s_priv_init : p.seqnum = n} /\ B = {i \in DOMAIN s_priv_tx : s_priv_tx[i].seqnum = n}
      /\ C = {i \in DOMAIN s_unlink_tx : s_unlink_tx[i] = n} /\ D = {c \in 1 .. 1 : s_tx[c].seqnum = n}
  OBVIOUS
<1>1. Server!Replies(n) =
        Cardinality(A) + Cardinality(B) + Cardinality(C) + Cardinality(D) + s_answered[n]
          + (IF n \in s_superseded THEN 1 ELSE 0)
  <2>1. {i \in DOMAIN Server!Numbers(s_priv_tx) : Server!Numbers(s_priv_tx)[i] = n} = B
    BY <1>0 DEF Server!Numbers
  <2>2. /\ Server!Numbered(n, s_priv_init) = Cardinality(A)
        /\ Server!Copies(n, Server!Numbers(s_priv_tx)) = Cardinality(B)
        /\ Server!Copies(n, s_unlink_tx) = Cardinality(C) /\ Server!Senders(n, s_tx) = Cardinality(D)
    BY <1>0, <2>1, SameCount DEF Server!Numbered, Server!Copies, Server!Senders, Server!Conns
  <2>. QED  BY <2>2 DEF Server!Replies
<1>2. IsFiniteSet(A) /\ IsFiniteSet(B) /\ IsFiniteSet(C) /\ IsFiniteSet(D)
  <2>1. /\ DOMAIN s_priv_tx = 1 .. Len(s_priv_tx) /\ Len(s_priv_tx) \in Nat
        /\ DOMAIN s_unlink_tx = 1 .. Len(s_unlink_tx) /\ Len(s_unlink_tx) \in Nat
    BY ServerShape
  <2>2. \A k \in Nat : IsFiniteSet(1 .. k)
    BY FS_Interval
  <2>3. /\ A \in SUBSET s_priv_init /\ B \in SUBSET DOMAIN s_priv_tx
        /\ C \in SUBSET DOMAIN s_unlink_tx /\ D \in SUBSET (1 .. 1)
    BY <1>0
  <2>4. /\ IsFiniteSet(s_priv_init) /\ IsFiniteSet(DOMAIN s_priv_tx)
        /\ IsFiniteSet(DOMAIN s_unlink_tx) /\ IsFiniteSet(1 .. 1)
    BY <2>1, <2>2 DEF ServerOnce
  <2>. QED  BY <2>3, <2>4, FS_Subset
<1>3. A # {} \/ B # {} \/ C # {} \/ D # {}
  <2>1. InitSubmit(n) \/ InitUnlink(n) => A # {}
    <3>1. InitSubmit(n) \/ InitUnlink(n) => \E p \in s_priv_init : p.seqnum = n
      BY DEF InitSubmit, InitUnlink
    <3>. QED  BY <1>0, <3>1
  <2>2. QueuedSubmit(n) => B # {}
    <3>1. QueuedSubmit(n) => \E i \in DOMAIN s_priv_tx : s_priv_tx[i].seqnum = n
      BY DEF QueuedSubmit, InTransit
    <3>. QED  BY <1>0, <3>1
  <2>3. QueuedUnlink(n) => C # {}
    <3>1. QueuedUnlink(n) => \E i \in DOMAIN s_unlink_tx : s_unlink_tx[i] = n
      BY DEF QueuedUnlink, InTransit
    <3>. QED  BY <1>0, <3>1
  <2>4. SendingSubmit(n) \/ SendingUnlink(n) => D # {}
    <3>1. SendingSubmit(n) \/ SendingUnlink(n) => 1 \in 1 .. 1 /\ s_tx[1].seqnum = n
      BY DEF SendingSubmit, SendingUnlink
    <3>. QED  BY <1>0, <3>1
  <2>. QED  BY <2>1, <2>2, <2>3, <2>4 DEF HeldSubmit, HeldUnlink
<1>4. /\ Cardinality(A) \in Nat /\ Cardinality(B) \in Nat /\ Cardinality(C) \in Nat
      /\ Cardinality(D) \in Nat
      /\ Cardinality(A) # 0 \/ Cardinality(B) # 0 \/ Cardinality(C) # 0 \/ Cardinality(D) # 0
  BY <1>2, <1>3, FS_CardinalityType, FS_EmptySet
<1>5. s_answered[n] \in Nat
  <2>1. s_answered \in [Numbers -> Nat]
    BY DEF ServerInv, Stub!TypeOK, Stub!Cmds, Numbers
  <2>. QED  BY <2>1
<1>6. \A a, b, c, d, e, f \in Nat :
        a # 0 \/ b # 0 \/ c # 0 \/ d # 0 => a + b + c + d + e + f > e + f
  OBVIOUS
<1>7. (IF n \in s_superseded THEN 1 ELSE 0) \in Nat
  OBVIOUS
<1>. QED  BY <1>1, <1>4, <1>5, <1>6, <1>7

\* While nothing has gone wrong, every request the client waits for is on its
\* way out, held by the server, or coming back as its reply or as that of a
\* cancel request for which the client waits too.
THEOREM RequestOnItsWayHolds == Spec => []RequestOnItsWay
<1>1. ASSUME Inv, Healthy, NEW u \in Client!priv_rx, NEW n, n = c_priv[u].seqnum
      PROVE  \/ c_tx[1].urb = u
             \/ InTransit(CmdSubmit(n), c2s)
             \/ Pending(n, RetSubmit(n))
             \/ \E m \in c_unlink_rx : m.unlink_seqnum = n /\ Pending(m.seqnum, RetUnlink(m.seqnum))
  <2>1. ClientInv /\ ServerInv /\ ServerOnce /\ WayInv
    BY <1>1 DEF Inv, LinkInv
  <2>2. u \in Urbs /\ c_priv[u].list = "rx"
    BY DEF Client!priv_rx
  <2>3. n \in Numbers
    BY <1>1, <2>1, <2>2, ClientShape DEF Client!Priv, Client!NoPriv, Numbers
  <2>4. Fine
    BY <1>1 DEF Healthy, Fine
  <2>5. InHand(u) \/ OnWay(n)
    BY <1>1, <2>1, <2>2, <2>4 DEF WayInv
  <2>6. InHand(u) => c_tx[1].urb = u
    BY DEF InHand
  <2>7. OutSubmit(n) => InTransit(CmdSubmit(n), c2s)
    BY DEF OutSubmit
  <2>8. HeldSubmit(n) \/ BackSubmit(n) => Pending(n, RetSubmit(n))
    BY <2>1, <2>3, HeldIsDue DEF Pending, BackSubmit
  <2>9. AnsweredAsUnlink(n) =>
          \E m \in c_unlink_rx : m.unlink_seqnum = n /\ Pending(m.seqnum, RetUnlink(m.seqnum))
    <3>1. \A k \in Numbers : HeldUnlink(k) \/ BackUnlink(k) => Pending(k, RetUnlink(k))
      BY <2>1, HeldIsDue DEF Pending, BackUnlink
    <3>. QED  BY <3>1 DEF AnsweredAsUnlink, AwaitedFor
  <2>. QED  BY <2>5, <2>6, <2>7, <2>8, <2>9 DEF OnWay
<1>2. Inv => RequestOnItsWay
  BY <1>1 DEF RequestOnItsWay
<1>. QED  BY <1>2, Invariance, PTL

\* A behaviour of the client is one of the port that the proofs of VhciPort are
\* about.
LEMMA SamePortSpec == Client!Spec => Port!Spec
<1>1. Client!Init => Port!Init
  BY SamePortInit
<1>2. [Client!Next]_(Client!vars) => [Port!Next]_(Port!vars)
  <2>1. UNCHANGED Client!vars => UNCHANGED Port!vars
    BY DEF Client!vars, Client!portVars, Client!urbVars, Client!thrVars, Client!admVars,
           Client!ehVars, Port!vars, Port!portVars, Port!urbVars, Port!thrVars, Port!admVars,
           Port!ehVars
  <2>. QED  BY <2>1, SamePort
<1>. QED  BY <1>1, <1>2, PTL DEF Client!Spec, Port!Spec

\* However the connection ends and whatever replies and cancel requests cross
\* on it, no URB is given back to the USB core twice: VhciPort proves it of a
\* port with any peer, and the session is such a port.
THEOREM GivebackOnceHolds == Spec => []Client!GivebackOnce
<1>1. Port!Spec => []Port!GivebackOnce
  BY Constants, Port!GivebackOnceHolds
<1>2. Port!GivebackOnce => Client!GivebackOnce
  BY DEF Client!GivebackOnce, Port!GivebackOnce, Client!InEnqueue, Port!InEnqueue, Client!Listed,
         Port!Listed, Client!InEh, Port!InEh, Client!InRx, Port!InRx, Client!Conns, Port!Conns
<1>. QED  BY <1>1, <1>2, SamePortSpec, ClientIsPort, PTL

\* The session keeps the promise of UrbCustody: whatever the device answers and
\* however the connection ends, a URB moves only the ways the promise allows.
THEOREM KeepsCustodyHolds == Spec => Client!KeepsCustody
<1> DEFINE cPlace == [u \in Urbs |-> Client!PlaceOf(u)]
           pPlace == [u \in Urbs |-> Port!PlaceOf(u)]
<1>1. cPlace = pPlace
  <2>1. \A u \in Urbs : Client!PlaceOf(u) = Port!PlaceOf(u)
    BY DEF Client!PlaceOf, Port!PlaceOf, Client!InEnqueue, Port!InEnqueue, Client!Listed,
           Port!Listed, Client!InEh, Port!InEh, Client!InRx, Port!InRx, Client!Conns, Port!Conns
  <2>. QED  BY <2>1
<1>2. cPlace' = pPlace'
  <2>1. \A u \in Urbs : Client!PlaceOf(u)' = Port!PlaceOf(u)'
    BY DEF Client!PlaceOf, Port!PlaceOf, Client!InEnqueue, Port!InEnqueue, Client!Listed,
           Port!Listed, Client!InEh, Port!InEh, Client!InRx, Port!InRx, Client!Conns, Port!Conns
  <2>. QED  BY <2>1
<1>3. Port!Spec => Port!KeepsCustody
  BY Constants, Port!KeepsCustodyHolds
<1>4. Port!UrbSpec!CustodyInit => Client!UrbSpec!CustodyInit
  BY <1>1 DEF Port!UrbSpec!CustodyInit, Client!UrbSpec!CustodyInit
<1>5. [Port!UrbSpec!CustodyNext]_pPlace => [Client!UrbSpec!CustodyNext]_cPlace
  BY <1>1, <1>2 DEF Port!UrbSpec!CustodyNext, Client!UrbSpec!CustodyNext,
     Port!UrbSpec!Submit, Client!UrbSpec!Submit, Port!UrbSpec!Push, Client!UrbSpec!Push,
     Port!UrbSpec!PickUp, Client!UrbSpec!PickUp, Port!UrbSpec!GiveBackUrb,
     Client!UrbSpec!GiveBackUrb, Port!UrbSpec!Lose, Client!UrbSpec!Lose, Port!UrbSpec!Move,
     Client!UrbSpec!Move
<1>6. Port!KeepsCustody => Client!KeepsCustody
  BY <1>4, <1>5, PTL DEF Port!KeepsCustody, Client!KeepsCustody, Port!UrbSpec!Custody,
     Client!UrbSpec!Custody
<1>. QED  BY <1>3, <1>6, SamePortSpec, ClientIsPort, PTL

\* The device is clean when it is free for the next connection, although this
\* client does what StubDevice does not allow its peer: it may number a second
\* CMD_SUBMIT like the first.
THEOREM AvailableIsCleanHolds == Spec => []Server!AvailableIsClean
<1>1. Inv => Server!AvailableIsClean
  BY DEF Inv, ServerInv, Stub!ThreadInv, Stub!StoppedInv, Stub!RxStopped, Stub!TxStopped,
         Stub!NoRequests, Stub!ThreadEnded, Stub!Conns, Server!AvailableIsClean,
         Server!ThreadEnded, Server!Conns
<1>. QED  BY <1>1, Invariance, PTL
=============================================================================
