-------------------------- MODULE VhciPort_proofs ---------------------------
(***************************************************************************)
(* Proofs, for every set of URBs and every bound, that VhciPort keeps its  *)
(* types and its safety invariants when a write to attach does not overlap *)
(* the handling of an event.  The invariant Inv of VhciPortInv is          *)
(* inductive: each of its three parts is shown to be kept by every action, *)
(* given the parts before it.  From it follow the invariants the runs      *)
(* check and that a port implements UrbCustody.                            *)
(***************************************************************************)
EXTENDS VhciPortInv, TLAPS

USE DEF portVars, urbVars, thrVars, admVars, ehVars

-----------------------------------------------------------------------------
(* Types of the data.                                                      *)

\* The struct vhci_priv values an action builds are of type Priv.
LEMMA NoPrivType == NoPriv \in Priv
  BY DEF NoPriv, Priv

\* A request number within the bound gives a vhci_priv of type Priv.
LEMMA PushedType ==
  ASSUME conn \in 0 .. MaxAttach, conn # 0, seqnum \in 0 .. MaxSeqnum,
         seqnum < MaxSeqnum
  PROVE  [list |-> "tx", conn |-> conn, seqnum |-> seqnum + 1] \in Priv
  BY VhciPortAssumption DEF Priv, Conns

\* dequeue_from_priv_tx keeps the type of a vhci_priv.
LEMMA MovedType ==
  ASSUME NEW p \in Priv, p.list = "tx"
  PROVE  /\ [p EXCEPT !.list = "rx"] \in Priv
         /\ [p EXCEPT !.list = "rx"].list = "rx"
  BY VhciPortAssumption DEF Priv, NoPriv

\* The fields of a linked vhci_priv.
LEMMA PrivFields ==
  ASSUME NEW p \in Priv
  PROVE  p.seqnum \in 0 .. MaxSeqnum
  BY VhciPortAssumption DEF Priv, NoPriv, Conns

\* So are the cancel requests, and a call that has ended.
LEMMA NoUnlinkType == NoUnlink \in Unlink
  BY VhciPortAssumption DEF NoUnlink, Unlink

\* A numbered cancel request is of type Unlink.
LEMMA CancelType ==
  ASSUME TypeOK, CallInv, call.op = "dequeue",
         NEW target \in {call.priv.seqnum, 0}
  PROVE  [conn |-> conn, seqnum |-> seqnum + 1, unlink_seqnum |-> target]
           \in Unlink
<1>1. call.priv \in Priv
  BY DEF TypeOK, Calls
<1> QED
  BY <1>1, PrivFields, VhciPortAssumption DEF TypeOK, CallInv, Unlink

\* An ended call is of type Calls.
LEMMA IdleType == Idle("none") \in Calls
  BY VhciPortAssumption, NoPrivType DEF Idle, Calls

\* What a pass of the cleanup does: it ends, or picks up one URB of priv_rx.
LEMMA CleanupEffect ==
  ASSUME EhCleanup
  PROVE  \/ /\ unlink_tx' = (IF eh.pc = "cleanup" THEN {} ELSE unlink_tx)
            /\ unlink_rx' = {}
            /\ eh' = [pc |-> "disconnect", ev |-> {}]
            /\ UNCHANGED <<priv, reaped>>
         \/ \E u \in Urbs :
              /\ unlink_tx' = (IF eh.pc = "cleanup" THEN {} ELSE unlink_tx)
              /\ unlink_rx' \subseteq unlink_rx
              /\ priv[u].list = "rx"
              /\ priv' = [priv EXCEPT ![u] = NoPriv]
              /\ reaped' = u
              /\ eh' = [pc |-> "giveback", ev |-> {}]
<1> DEFINE pending == {m \in unlink_rx : ~NotFound(m.unlink_seqnum)}
<1>1. CASE pending = {} /\ unlink_rx' = {} /\ EhTo("disconnect")
             /\ UNCHANGED <<priv, reaped>>
  BY <1>1 DEF EhCleanup, EhTo
<1>2. ASSUME NEW m \in pending, NEW u \in Urbs, Picked(u, m.unlink_seqnum),
             unlink_rx' = {n \in unlink_rx : Older(m, n)},
             FreePriv(u), reaped' = u, EhTo("giveback")
      PROVE  /\ unlink_rx' \subseteq unlink_rx
             /\ priv[u].list = "rx"
             /\ priv' = [priv EXCEPT ![u] = NoPriv]
             /\ eh' = [pc |-> "giveback", ev |-> {}]
  BY <1>2 DEF Picked, FirstPriv, priv_rx, FreePriv, EhTo
<1> QED
  BY <1>1, <1>2 DEF EhCleanup

\* What a RET_UNLINK does: nothing to the URBs, or it picks up one of priv_rx.
LEMMA RetUnlinkEffect ==
  ASSUME NEW c \in Conns, NEW n \in Nat, RxRetUnlink(c, n)
  PROVE  /\ rx[c].pc = "recv" /\ tcp_socket # "NULL"
         /\ unlink_rx' \subseteq unlink_rx
         /\ \/ priv' = priv /\ RxTo(c, "loop", NoUrb)
            \/ \E u \in Urbs :
                 /\ priv[u].list = "rx"
                 /\ priv' = [priv EXCEPT ![u] = NoPriv]
                 /\ RxTo(c, "giveback", u)
<1>1. ASSUME NEW u \in Urbs, NEW k, Picked(u, k), FreePriv(u)
      PROVE  priv[u].list = "rx" /\ priv' = [priv EXCEPT ![u] = NoPriv]
  BY <1>1 DEF Picked, FirstPriv, priv_rx, FreePriv
<1> QED
  BY <1>1 DEF RxRetUnlink

-----------------------------------------------------------------------------
(* 1. Types.                                                               *)

\* vhci_device_init establishes the types.
LEMMA TypeInit == Init => TypeInv
  BY VhciPortAssumption, NoPrivType, NoUnlinkType, IdleType
     DEF Init, TypeInv, TypeOK, CallInv, RxShape, EhShape, EhInit, Statuses,
         RxThread, TxThread, EhPcs, EhLoopPcs, EventBits, Idle

\* Every step keeps the types: one step of the proof per action.
LEMMA TypeStep ==
  ASSUME TypeInv, [Next]_vars
  PROVE  TypeInv'
<1> USE VhciPortAssumption DEF TypeInv, TypeOK, CallInv, RxShape, EhShape
<1>1. ASSUME NEW u \in Urbs, NEW d \in Conns, NEW op \in {"set_address",
     "get_descriptor", "get_vdev"}, vhci_urb_enqueue(u, op, d) PROVE TypeInv'
  <2>1. call' \in Calls
    BY <1>1, NoPrivType DEF vhci_urb_enqueue, Calls, Conns
  <2> QED
    BY <1>1, <2>1 DEF vhci_urb_enqueue, Conns, ControllerFree, Statuses
<1>2. ASSUME NEW u \in Urbs, vhci_urb_dequeue(u) PROVE TypeInv'
  BY <1>2 DEF vhci_urb_dequeue, Calls, Conns, ControllerFree, Statuses
<1>3. ASSUME EnqueueSetAddress PROVE TypeInv'
  <2>1. call' \in Calls
    BY <1>3, IdleType DEF EnqueueSetAddress
  <2>2. owed' \in [Urbs -> Int]
    BY <1>3 DEF EnqueueSetAddress, GiveBack
  <2>3. udev' \in 0 .. MaxAttach /\ addressed' \in SUBSET Conns
    <3>1. call.dev \in Conns
      BY <1>3 DEF EnqueueSetAddress
    <3>2. call.dev \in 0 .. MaxAttach
      BY <3>1 DEF Conns
    <3> QED
      BY <1>3, <3>1, <3>2 DEF EnqueueSetAddress
  <2>4. CallInv'
    BY <1>3 DEF EnqueueSetAddress, Idle
  <2> QED
    BY <1>3, <2>1, <2>2, <2>3, <2>4 DEF EnqueueSetAddress, Statuses
<1>4. ASSUME EnqueueGetDescriptor PROVE TypeInv'
  BY <1>4, ZenonT(30) DEF EnqueueGetDescriptor, Calls, Conns
<1>5. ASSUME EnqueueGetVdev PROVE TypeInv'
  BY <1>5, IdleType, ZenonT(30) DEF EnqueueGetVdev, Calls, Conns, Idle
<1>6. ASSUME EnqueuePush PROVE TypeInv'
  BY <1>6, IdleType, PushedType DEF EnqueuePush, Idle
<1>7. ASSUME EnqueueNoMemory PROVE TypeInv'
  BY <1>7, IdleType DEF EnqueueNoMemory, Idle, usbip_event_add,
     VDEV_EVENT_ERROR_MALLOC, EventBits
<1>8. ASSUME DequeueLocal PROVE TypeInv'
  BY <1>8, IdleType, NoPrivType DEF DequeueLocal, Idle, GiveBack, FreePriv
<1>9. ASSUME DequeueUnlink PROVE TypeInv'
  BY <1>9, IdleType, CancelType DEF DequeueUnlink, Idle, GiveBack, FreePriv
<1>10. ASSUME DequeueNoMemory PROVE TypeInv'
  BY <1>10, IdleType DEF DequeueNoMemory, Idle, usbip_event_add,
     VDEV_EVENT_ERROR_MALLOC, EventBits
<1>11. ASSUME NEW c \in Conns, TxTakeSubmit(c) PROVE TypeInv'
  <2>1. CASE priv_tx = {} /\ TxTo(c, "unlink") /\ UNCHANGED priv
    BY <1>11, <2>1, NoUnlinkType DEF TxTakeSubmit, TxTo, TxThread
  <2>2. CASE \E u \in Urbs :
               /\ FirstPriv(u, priv_tx)
               /\ priv' = [priv EXCEPT ![u].list = "rx"]
               /\ tx' = [tx EXCEPT ![c] =
                     [pc |-> "send_submit", urb |-> u, unlink |-> NoUnlink]]
    <3>1. PICK u \in Urbs :
            /\ FirstPriv(u, priv_tx)
            /\ priv' = [priv EXCEPT ![u].list = "rx"]
            /\ tx' = [tx EXCEPT ![c] =
                  [pc |-> "send_submit", urb |-> u, unlink |-> NoUnlink]]
      BY <2>2
    <3>2. priv' \in [Urbs -> Priv]
      BY <3>1, MovedType DEF FirstPriv, priv_tx
    <3>3. tx' \in [Conns -> TxThread]
      BY <3>1, NoUnlinkType DEF TxThread
    <3> QED
      BY <1>11, <3>2, <3>3 DEF TxTakeSubmit
  <2> QED
    BY <1>11, <2>1, <2>2 DEF TxTakeSubmit
<1>12. ASSUME NEW c \in Conns, TxTakeUnlink(c) PROVE TypeInv'
  <2>1. unlink_tx' \in SUBSET Unlink /\ unlink_rx' \in SUBSET Unlink
    BY <1>12 DEF TxTakeUnlink
  <2>2. tx' \in [Conns -> TxThread]
    BY <1>12, NoUnlinkType DEF TxTakeUnlink, TxTo, TxThread
  <2> QED
    BY <1>12, <2>1, <2>2 DEF TxTakeUnlink
<1>13. ASSUME NEW c \in Conns, TxWait(c) PROVE TypeInv'
  BY <1>13, NoUnlinkType DEF TxWait, TxTo, TxThread
<1>14. ASSUME NEW c \in Conns, TxOops(c) PROVE TypeInv'
  BY <1>14, NoUnlinkType DEF TxOops, TxTo, TxThread
<1>15. ASSUME NEW c \in Conns, NEW mask \in TxErrors, TxSendFails(c, mask)
     PROVE TypeInv'
  BY <1>15, NoUnlinkType DEF TxSendFails, TxTo, TxThread, TxErrors,
     usbip_event_add, VDEV_EVENT_ERROR_MALLOC, VDEV_EVENT_ERROR_TCP, EventBits
<1>16. ASSUME NEW c \in Conns, NEW n \in Seqnums, TxSendSubmit(c, n) PROVE
     TypeInv'
  BY <1>16, NoUnlinkType DEF TxSendSubmit, TxTo, TxThread
<1>17. ASSUME NEW c \in Conns, NEW n \in Seqnums, NEW m \in Seqnums,
     TxSendUnlink(c, n, m) PROVE TypeInv'
  BY <1>17, NoUnlinkType DEF TxSendUnlink, TxTo, TxThread
<1>18. ASSUME NEW c \in Conns, NEW n \in 1 .. seqnum,
     RxRetSubmit(c, n) PROVE TypeInv'
  <2>1. CASE NotFound(n) /\ usbip_event_add(VDEV_EVENT_ERROR_TCP)
               /\ RxTo(c, "loop", NoUrb) /\ UNCHANGED priv
    BY <1>18, <2>1 DEF RxRetSubmit, RxTo, RxThread, usbip_event_add,
         VDEV_EVENT_ERROR_TCP, EventBits
  <2>2. CASE \E u \in Urbs : FreePriv(u) /\ RxTo(c, "xbuff", u)
                            /\ UNCHANGED event
    <3>1. priv' \in [Urbs -> Priv]
      BY <2>2, NoPrivType DEF FreePriv
    <3>2. rx' \in [Conns -> RxThread] /\ RxShape'
      BY <2>2 DEF RxTo, RxThread
    <3> QED
      BY <1>18, <2>2, <3>1, <3>2 DEF RxRetSubmit
  <2> QED
    BY <1>18, <2>1, <2>2 DEF RxRetSubmit
<1>19. ASSUME NEW c \in Conns, NEW n \in 1 .. seqnum,
     RxRetUnlink(c, n) PROVE TypeInv'
  <2>1. n \in Nat
    BY DEF TypeOK
  <2>2. priv' \in [Urbs -> Priv] /\ unlink_rx' \in SUBSET Unlink
    BY <1>19, <2>1, RetUnlinkEffect, NoPrivType
  <2>3. rx' \in [Conns -> RxThread] /\ RxShape'
    BY <1>19, <2>1, RetUnlinkEffect DEF RxTo, RxThread
  <2> QED
    BY <1>19, <2>2, <2>3 DEF RxRetUnlink
<1>20. ASSUME NEW c \in Conns, RxLoop(c) PROVE TypeInv'
  BY <1>20 DEF RxLoop, RxTo, RxThread
<1>21. ASSUME NEW c \in Conns, RxDown(c) PROVE TypeInv'
  BY <1>21 DEF RxDown, RxTo, usbip_event_add, VDEV_EVENT_DOWN, RxThread,
     EventBits
<1>22. ASSUME NEW c \in Conns, RxIdleTimeout(c) PROVE TypeInv'
  BY <1>22 DEF RxIdleTimeout, RxTo, RxThread
<1>23. ASSUME NEW c \in Conns, RxPayload(c) PROVE TypeInv'
  BY <1>23 DEF RxPayload, RxTo, RxThread
<1>24. ASSUME NEW c \in Conns, RxGiveBack(c) PROVE TypeInv'
  BY <1>24 DEF RxGiveBack, RxTo, RxThread, GiveBack
<1>25. ASSUME NEW c \in Conns, NEW mask \in RxErrors, RxPayloadFails(c, mask)
     PROVE TypeInv'
  BY <1>25 DEF RxPayloadFails, RxTo, RxErrors, usbip_event_add,
     VDEV_EVENT_ERROR_TCP, RxThread, EventBits
<1>26. ASSUME EhLoop PROVE TypeInv'
  BY <1>26 DEF EhLoop, EhRound, EhHead, EhIdle, EhSkips, EhSkip, EhClears,
     EhLoad, EhStore, EhBye, EhHandle, EhWake, EhTo, EhPcs, EhLoopPcs
<1>27. ASSUME EhShutdown PROVE TypeInv'
  BY <1>27 DEF EhShutdown, EhHandle, EhTo, EhPcs, EhLoopPcs, Statuses
<1>28. ASSUME EhStopRx PROVE TypeInv'
  BY <1>28 DEF EhStopRx, EhTo, EhPcs, EhLoopPcs
<1>29. ASSUME EhStopTx PROVE TypeInv'
  BY <1>29 DEF EhStopTx, EhTo, EhPcs, EhLoopPcs
<1>30. ASSUME EhPutSocket PROVE TypeInv'
  BY <1>30 DEF EhPutSocket, EhTo, EhPcs, EhLoopPcs
<1>31. ASSUME EhCleanup PROVE TypeInv'
  <2>1. priv' \in [Urbs -> Priv] /\ reaped' \in Urbs \cup {NoUrb}
    BY <1>31, CleanupEffect, NoPrivType
  <2>2. eh' \in [pc: EhPcs, ev: SUBSET EventBits]
    BY <1>31, CleanupEffect DEF EhPcs
  <2>3. EhShape'
    <3>1. reaped = NoUrb
      BY <1>31 DEF EhCleanup
    <3> QED
      BY <1>31, <3>1, CleanupEffect
  <2>4. unlink_tx' \in SUBSET Unlink /\ unlink_rx' \in SUBSET Unlink
    BY <1>31, CleanupEffect
  <2> QED
    BY <1>31, <2>1, <2>2, <2>3, <2>4 DEF EhCleanup
<1>32. ASSUME EhGiveBack PROVE TypeInv'
  BY <1>32 DEF EhGiveBack, EhTo, EhPcs, EhLoopPcs, GiveBack
<1>33. ASSUME EhDisconnect PROVE TypeInv'
  BY <1>33 DEF EhDisconnect, EhTo, EhPcs, EhLoopPcs
<1>34. ASSUME EhReset PROVE TypeInv'
  BY <1>34 DEF EhReset, EhHandle, EhTo, EhPcs, EhLoopPcs, Statuses
<1>35. ASSUME EhUnusable PROVE TypeInv'
  BY <1>35 DEF EhUnusable, EhHandle, EhTo, EhPcs, EhLoopPcs, Statuses
<1>36. ASSUME AttachRunRx PROVE TypeInv'
  BY <1>36 DEF AttachRunRx, RxTo, RxThread
<1>37. ASSUME AttachSetRx PROVE TypeInv'
  BY <1>37 DEF AttachSetRx
<1>38. ASSUME AttachRunTx PROVE TypeInv'
  BY <1>38, NoUnlinkType DEF AttachRunTx, TxTo, TxThread
<1>39. ASSUME AttachSetTx PROVE TypeInv'
  BY <1>39 DEF AttachSetTx
<1>40. ASSUME AttachConnect PROVE TypeInv'
  BY <1>40 DEF AttachConnect
<1>41. ASSUME AttachClaim PROVE TypeInv'
  BY <1>41 DEF AttachClaim, Statuses
<1>42. ASSUME DetachCheck PROVE TypeInv'
  BY <1>42 DEF DetachCheck, ControllerFree
<1>43. ASSUME DetachEvent PROVE TypeInv'
  BY <1>43 DEF DetachEvent, usbip_event_add, VDEV_EVENT_DOWN, EventBits
<1>44. ASSUME StopBegin PROVE TypeInv'
  BY <1>44 DEF StopBegin
<1>45. ASSUME StopEvent PROVE TypeInv'
  BY <1>45 DEF StopEvent, usbip_event_add, VDEV_EVENT_REMOVED, EventBits
<1>46. ASSUME UNCHANGED vars PROVE TypeInv'
  BY <1>46 DEF vars
<1> HIDE DEF TypeInv
<1> QED
  BY <1>1, <1>2, <1>3, <1>4, <1>5, <1>6, <1>7, <1>8, <1>9, <1>10, <1>11, <1>12,
     <1>13, <1>14, <1>15, <1>16, <1>17, <1>18, <1>19, <1>20, <1>21, <1>22,
     <1>23, <1>24, <1>25, <1>26, <1>27, <1>28, <1>29, <1>30, <1>31, <1>32,
     <1>33, <1>34, <1>35, <1>36, <1>37, <1>38, <1>39, <1>40, <1>41, <1>42,
     <1>43, <1>44, <1>45, <1>46 DEF Next, UrbCall, CallStep, EhStep,
     AttachStep, Admin, TxSend, TxStep, RxPdu, RxStep

-----------------------------------------------------------------------------
(* 2. Threads.                                                             *)

\* vhci_device_init establishes what the threads and the event thread owe
\* each other.
LEMMA ThreadInit == Init => ThreadInv
  BY DEF Init, ThreadInv, ShutdownFirst, AttachInv, RunningInv, StoppedInv,
         UnloadInv, RxStopped, TxStopped, ThreadEnded, EhInit

\* Every step keeps it, when no attach overlaps the handling of an event.
LEMMA ThreadStep ==
  ASSUME TypeInv, ThreadInv, ~AttachRaces, [Next]_vars
  PROVE  ThreadInv'
<1> USE VhciPortAssumption
    DEF TypeInv, TypeOK, ThreadInv, ShutdownFirst, Rest, StoredRest,
        AttachInv, RunningInv, StoppedInv, UnloadInv, RxStopped, TxStopped,
        ThreadEnded, AfterStopRx, AfterStopTx, AfterPut, AfterCleanupTx,
        AfterCleanup, AfterDisconnect
<1>1. ASSUME NEW u \in Urbs, NEW d \in Conns, NEW op \in {"set_address",
     "get_descriptor", "get_vdev"}, vhci_urb_enqueue(u, op, d) PROVE ThreadInv'
  BY <1>1 DEF vhci_urb_enqueue, ControllerFree
<1>2. ASSUME NEW u \in Urbs, vhci_urb_dequeue(u) PROVE ThreadInv'
  BY <1>2 DEF vhci_urb_dequeue, ControllerFree
<1>3. ASSUME EnqueueSetAddress PROVE ThreadInv'
  BY <1>3 DEF EnqueueSetAddress, Idle, GiveBack
<1>4. ASSUME EnqueueGetDescriptor PROVE ThreadInv'
  BY <1>4 DEF EnqueueGetDescriptor
<1>5. ASSUME EnqueueGetVdev PROVE ThreadInv'
  BY <1>5 DEF EnqueueGetVdev, Idle
<1>6. ASSUME EnqueuePush PROVE ThreadInv'
  BY <1>6 DEF EnqueuePush, Idle
<1>7. ASSUME EnqueueNoMemory PROVE ThreadInv'
  BY <1>7 DEF EnqueueNoMemory, Idle, usbip_event_add, VDEV_EVENT_ERROR_MALLOC
<1>8. ASSUME DequeueLocal PROVE ThreadInv'
  BY <1>8 DEF DequeueLocal, Idle, GiveBack, FreePriv
<1>9. ASSUME DequeueUnlink PROVE ThreadInv'
  BY <1>9 DEF DequeueUnlink, Idle
<1>10. ASSUME DequeueNoMemory PROVE ThreadInv'
  BY <1>10 DEF DequeueNoMemory, Idle, usbip_event_add, VDEV_EVENT_ERROR_MALLOC
<1>11. ASSUME NEW c \in Conns, TxTakeSubmit(c) PROVE ThreadInv'
  BY <1>11 DEF TxTakeSubmit, TxTo, FirstPriv, priv_tx
<1>12. ASSUME NEW c \in Conns, TxTakeUnlink(c) PROVE ThreadInv'
  BY <1>12 DEF TxTakeUnlink, TxTo
<1>13. ASSUME NEW c \in Conns, TxWait(c) PROVE ThreadInv'
  BY <1>13 DEF TxWait, TxTo
<1>14. ASSUME NEW c \in Conns, TxOops(c) PROVE ThreadInv'
  BY <1>14 DEF TxOops, TxTo, CanSendSubmit
<1>15. ASSUME NEW c \in Conns, NEW mask \in TxErrors, TxSendFails(c, mask)
     PROVE ThreadInv'
  BY <1>15 DEF TxSendFails, TxTo, TxErrors, CanSendSubmit, usbip_event_add,
     VDEV_EVENT_ERROR_MALLOC, VDEV_EVENT_ERROR_TCP
<1>16. ASSUME NEW c \in Conns, NEW n \in Seqnums, TxSendSubmit(c, n) PROVE
     ThreadInv'
  BY <1>16 DEF TxSendSubmit, TxTo, CanSendSubmit
<1>17. ASSUME NEW c \in Conns, NEW n \in Seqnums, NEW m \in Seqnums,
     TxSendUnlink(c, n, m) PROVE ThreadInv'
  BY <1>17 DEF TxSendUnlink, TxTo
<1>18. ASSUME NEW c \in Conns, NEW n \in 1 .. seqnum,
     RxRetSubmit(c, n) PROVE ThreadInv'
  BY <1>18 DEF RxRetSubmit, RxTo, FreePriv, Picked, FirstPriv, priv_rx,
     usbip_event_add, VDEV_EVENT_ERROR_TCP
<1>19. ASSUME NEW c \in Conns, NEW n \in 1 .. seqnum,
     RxRetUnlink(c, n) PROVE ThreadInv'
  BY <1>19, ZenonT(30) DEF RxRetUnlink, RxTo, FreePriv, Picked, FirstPriv, priv_rx
<1>20. ASSUME NEW c \in Conns, RxLoop(c) PROVE ThreadInv'
  BY <1>20 DEF RxLoop, RxTo
<1>21. ASSUME NEW c \in Conns, RxDown(c) PROVE ThreadInv'
  BY <1>21 DEF RxDown, RxTo, usbip_event_add, VDEV_EVENT_DOWN
<1>22. ASSUME NEW c \in Conns, RxIdleTimeout(c) PROVE ThreadInv'
  BY <1>22 DEF RxIdleTimeout, RxTo
<1>23. ASSUME NEW c \in Conns, RxPayload(c) PROVE ThreadInv'
  BY <1>23 DEF RxPayload, RxTo
<1>24. ASSUME NEW c \in Conns, RxGiveBack(c) PROVE ThreadInv'
  BY <1>24 DEF RxGiveBack, RxTo, GiveBack, ControllerFree
<1>25. ASSUME NEW c \in Conns, NEW mask \in RxErrors, RxPayloadFails(c, mask)
     PROVE ThreadInv'
  BY <1>25 DEF RxPayloadFails, RxTo, RxErrors, usbip_event_add,
     VDEV_EVENT_ERROR_TCP
<1>26. ASSUME EhLoop PROVE ThreadInv'
  <2>1. CASE EhHead(unload = "done")
    BY <1>26, <2>1 DEF EhLoop, EhHead, EhTo
  <2>2. CASE EhIdle
    BY <1>26, <2>2 DEF EhLoop, EhIdle, EhTo
  <2>3. CASE EhSkips
    BY <1>26, <2>3 DEF EhLoop, EhSkips, EhSkip, EhTo
  <2>4. CASE EhClears
    <3>1. CASE EhLoad("SHUTDOWN", "clear_shutdown", "store_shutdown")
      BY <1>26, <3>1 DEF EhLoop, EhLoad, EventBits
    <3>2. CASE EhLoad("RESET", "clear_reset", "store_reset")
      BY <1>26, <3>2 DEF EhLoop, EhLoad, EventBits
    <3>3. CASE EhLoad("UNUSABLE", "clear_unusable", "store_unusable")
      BY <1>26, <3>3 DEF EhLoop, EhLoad, EventBits
    <3>4. CASE EhStore("store_shutdown", "test_reset")
      BY <1>26, <3>4 DEF EhLoop, EhStore, EhTo, EventBits
    <3>5. CASE EhStore("store_reset", "test_unusable")
      BY <1>26, <3>5 DEF EhLoop, EhStore, EhTo, EventBits
    <3>6. CASE EhStore("store_unusable", "test_bye")
      BY <1>26, <3>6 DEF EhLoop, EhStore, EhTo, EventBits
    <3> QED
      BY <2>4, <3>1, <3>2, <3>3, <3>4, <3>5, <3>6 DEF EhClears
  <2>5. CASE EhBye
    BY <1>26, <2>5 DEF EhLoop, EhBye, EhHandle, EhTo
  <2>6. CASE EhWake(unload = "done") /\ (AttachRaces \/ attach = "idle")
    BY <1>26, <2>6 DEF EhLoop, EhWake, EhTo
  <2> QED
    BY <1>26, <2>1, <2>2, <2>3, <2>4, <2>5, <2>6 DEF EhLoop, EhRound
<1>27. ASSUME EhShutdown PROVE ThreadInv'
  BY <1>27 DEF EhShutdown, EhHandle, EhTo
<1>28. ASSUME EhStopRx PROVE ThreadInv'
  <2>1. RxStopped
    BY <1>28 DEF EhStopRx, Conns
  <2> QED
    BY <1>28, <2>1 DEF EhStopRx, EhTo
<1>29. ASSUME EhStopTx PROVE ThreadInv'
  <2>1. TxStopped
    BY <1>29, SMTT(20) DEF EhStopTx, Conns
  <2> QED
    BY <1>29, <2>1 DEF EhStopTx, EhTo
<1>30. ASSUME EhPutSocket PROVE ThreadInv'
  BY <1>30 DEF EhPutSocket, EhTo
<1>31. ASSUME EhCleanup PROVE ThreadInv'
  <2>1. eh.pc \in {"cleanup", "cleanup_rx"}
    BY <1>31 DEF EhCleanup
  <2>2. unlink_tx' = {} /\ (eh'.pc = "disconnect" => unlink_rx' = {})
    BY <1>31, <2>1, CleanupEffect
  <2>3. eh'.pc \in {"disconnect", "giveback"}
    BY <1>31, CleanupEffect
  <2>4. unlink_rx = {} => unlink_rx' = {}
    BY <1>31, CleanupEffect
  <2>5. UNCHANGED <<portVars, thrVars, admVars, event>>
    BY <1>31 DEF EhCleanup
  <2> QED
    BY <2>1, <2>2, <2>3, <2>4, <2>5
<1>32. ASSUME EhGiveBack PROVE ThreadInv'
  BY <1>32 DEF EhGiveBack, EhTo, GiveBack
<1>33. ASSUME EhDisconnect PROVE ThreadInv'
  BY <1>33 DEF EhDisconnect, EhTo, ControllerFree
<1>34. ASSUME EhReset PROVE ThreadInv'
  BY <1>34 DEF EhReset, EhHandle, EhTo
<1>35. ASSUME EhUnusable PROVE ThreadInv'
  BY <1>35 DEF EhUnusable, EhHandle, EhTo
<1>36. ASSUME AttachRunRx PROVE ThreadInv'
  BY <1>36 DEF AttachRunRx, RxTo
<1>37. ASSUME AttachSetRx PROVE ThreadInv'
  BY <1>37 DEF AttachSetRx
<1>38. ASSUME AttachRunTx PROVE ThreadInv'
  BY <1>38 DEF AttachRunTx, TxTo
<1>39. ASSUME AttachSetTx PROVE ThreadInv'
  BY <1>39 DEF AttachSetTx
<1>40. ASSUME AttachConnect PROVE ThreadInv'
  BY <1>40 DEF AttachConnect
<1>41. ASSUME AttachClaim PROVE ThreadInv'
  BY <1>41 DEF AttachClaim, ControllerFree
<1>42. ASSUME DetachCheck PROVE ThreadInv'
  BY <1>42 DEF DetachCheck, ControllerFree
<1>43. ASSUME DetachEvent PROVE ThreadInv'
  BY <1>43 DEF DetachEvent, usbip_event_add, VDEV_EVENT_DOWN
<1>44. ASSUME StopBegin PROVE ThreadInv'
  BY <1>44 DEF StopBegin
<1>45. ASSUME StopEvent PROVE ThreadInv'
  BY <1>45 DEF StopEvent, usbip_event_add, VDEV_EVENT_REMOVED
<1>46. ASSUME UNCHANGED vars PROVE ThreadInv'
  BY <1>46 DEF vars
<1> HIDE DEF TypeInv, ThreadInv
<1> QED
  BY <1>1, <1>2, <1>3, <1>4, <1>5, <1>6, <1>7, <1>8, <1>9, <1>10, <1>11, <1>12,
     <1>13, <1>14, <1>15, <1>16, <1>17, <1>18, <1>19, <1>20, <1>21, <1>22,
     <1>23, <1>24, <1>25, <1>26, <1>27, <1>28, <1>29, <1>30, <1>31, <1>32,
     <1>33, <1>34, <1>35, <1>36, <1>37, <1>38, <1>39, <1>40, <1>41, <1>42,
     <1>43, <1>44, <1>45, <1>46 DEF Next, UrbCall, CallStep, EhStep,
     AttachStep, Admin, TxSend, TxStep, RxPdu, RxStep

-----------------------------------------------------------------------------
(* 3. Custody.                                                             *)

\* vhci_device_init establishes custody: no URB is in the port.
LEMMA CustodyStart == Init => CustodyInv
  BY VhciPortAssumption
     DEF Init, CustodyInv, GivebackOnce, DequeueInv, InEnqueue, Listed, InRx,
         InEh, Idle, NoPriv, EhInit

\* Every step keeps custody: a URB moves between contexts, never to two.
LEMMA CustodyStep ==
  ASSUME TypeInv, ThreadInv, CustodyInv, ~AttachRaces, [Next]_vars
  PROVE  CustodyInv'
<1> USE VhciPortAssumption
    DEF TypeInv, TypeOK, CallInv, RxShape, EhShape, ThreadInv, StoppedInv,
        RunningInv, AfterPut, AfterStopRx, AfterStopTx, AfterCleanupTx,
        AfterCleanup, AfterDisconnect, ThreadEnded, RxStopped, CustodyInv,
        GivebackOnce,
        DequeueInv, InEnqueue, Listed, InRx, InEh, NoPriv
<1>1. ASSUME NEW u \in Urbs, NEW d \in Conns, NEW op \in {"set_address",
     "get_descriptor", "get_vdev"}, vhci_urb_enqueue(u, op, d) PROVE
     CustodyInv'
  BY <1>1 DEF vhci_urb_enqueue, ControllerFree
<1>2. ASSUME NEW u \in Urbs, vhci_urb_dequeue(u) PROVE CustodyInv'
  BY <1>2 DEF vhci_urb_dequeue, ControllerFree
<1>3. ASSUME EnqueueSetAddress PROVE CustodyInv'
  BY <1>3 DEF EnqueueSetAddress, Idle, GiveBack
<1>4. ASSUME EnqueueGetDescriptor PROVE CustodyInv'
  BY <1>4 DEF EnqueueGetDescriptor
<1>5. ASSUME EnqueueGetVdev PROVE CustodyInv'
  BY <1>5 DEF EnqueueGetVdev, Idle
<1>6. ASSUME EnqueuePush PROVE CustodyInv'
  BY <1>6 DEF EnqueuePush, Idle
<1>7. ASSUME EnqueueNoMemory PROVE CustodyInv'
  BY <1>7 DEF EnqueueNoMemory, Idle, usbip_event_add, VDEV_EVENT_ERROR_MALLOC
<1>8. ASSUME DequeueLocal PROVE CustodyInv'
  BY <1>8 DEF DequeueLocal, Idle, GiveBack, FreePriv
<1>9. ASSUME DequeueUnlink PROVE CustodyInv'
  BY <1>9 DEF DequeueUnlink, Idle
<1>10. ASSUME DequeueNoMemory PROVE CustodyInv'
  BY <1>10 DEF DequeueNoMemory, Idle, usbip_event_add, VDEV_EVENT_ERROR_MALLOC
<1>11. ASSUME NEW c \in Conns, TxTakeSubmit(c) PROVE CustodyInv'
  <2>1. ASSUME NEW v \in Urbs, FirstPriv(v, priv_tx),
               priv' = [priv EXCEPT ![v].list = "rx"]
        PROVE  \A u \in Urbs : Listed(u)' <=> Listed(u)
    <3>1. priv[v] \in Priv /\ priv[v].list = "tx"
      BY <2>1 DEF FirstPriv, priv_tx
    <3>2. priv'[v].list = "rx"
      BY <2>1, <3>1, MovedType
    <3> QED
      BY <2>1, <3>1, <3>2
  <2>2. \A u \in Urbs : Listed(u)' <=> Listed(u)
    BY <1>11, <2>1 DEF TxTakeSubmit
  <2> QED
    BY <1>11, <2>2 DEF TxTakeSubmit
<1>12. ASSUME NEW c \in Conns, TxTakeUnlink(c) PROVE CustodyInv'
  BY <1>12 DEF TxTakeUnlink, TxTo
<1>13. ASSUME NEW c \in Conns, TxWait(c) PROVE CustodyInv'
  BY <1>13 DEF TxWait, TxTo
<1>14. ASSUME NEW c \in Conns, TxOops(c) PROVE CustodyInv'
  BY <1>14 DEF TxOops, TxTo, CanSendSubmit
<1>15. ASSUME NEW c \in Conns, NEW mask \in TxErrors, TxSendFails(c, mask)
     PROVE CustodyInv'
  BY <1>15 DEF TxSendFails, TxTo, TxErrors, CanSendSubmit, usbip_event_add,
     VDEV_EVENT_ERROR_MALLOC, VDEV_EVENT_ERROR_TCP
<1>16. ASSUME NEW c \in Conns, NEW n \in Seqnums, TxSendSubmit(c, n) PROVE
     CustodyInv'
  BY <1>16 DEF TxSendSubmit, TxTo, CanSendSubmit
<1>17. ASSUME NEW c \in Conns, NEW n \in Seqnums, NEW m \in Seqnums,
     TxSendUnlink(c, n, m) PROVE CustodyInv'
  BY <1>17 DEF TxSendUnlink, TxTo
<1>18. ASSUME NEW c \in Conns, NEW n \in 1 .. seqnum,
     RxRetSubmit(c, n) PROVE CustodyInv'
  BY <1>18, SMTT(20) DEF RxRetSubmit, RxTo, FreePriv, Picked, FirstPriv, priv_rx,
     usbip_event_add, VDEV_EVENT_ERROR_TCP
<1>19. ASSUME NEW c \in Conns, NEW n \in 1 .. seqnum,
     RxRetUnlink(c, n) PROVE CustodyInv'
  <2>1. n \in Nat
    OBVIOUS
  <2>2. CASE priv' = priv /\ RxTo(c, "loop", NoUrb)
    BY <1>19, <2>2 DEF RxRetUnlink, RxTo
  <2>3. ASSUME NEW u \in Urbs, priv[u].list = "rx",
               priv' = [priv EXCEPT ![u] = NoPriv], RxTo(c, "giveback", u)
        PROVE  CustodyInv'
    BY <1>19, <2>3 DEF RxRetUnlink, RxTo
  <2> QED
    BY <1>19, <2>1, <2>2, <2>3, RetUnlinkEffect
<1>20. ASSUME NEW c \in Conns, RxLoop(c) PROVE CustodyInv'
  BY <1>20 DEF RxLoop, RxTo
<1>21. ASSUME NEW c \in Conns, RxDown(c) PROVE CustodyInv'
  BY <1>21 DEF RxDown, RxTo, usbip_event_add, VDEV_EVENT_DOWN
<1>22. ASSUME NEW c \in Conns, RxIdleTimeout(c) PROVE CustodyInv'
  BY <1>22 DEF RxIdleTimeout, RxTo
<1>23. ASSUME NEW c \in Conns, RxPayload(c) PROVE CustodyInv'
  BY <1>23 DEF RxPayload, RxTo
<1>24. ASSUME NEW c \in Conns, RxGiveBack(c) PROVE CustodyInv'
  BY <1>24 DEF RxGiveBack, RxTo, GiveBack, ControllerFree
<1>25. ASSUME NEW c \in Conns, NEW mask \in RxErrors, RxPayloadFails(c, mask)
     PROVE CustodyInv'
  BY <1>25 DEF RxPayloadFails, RxTo, RxErrors, usbip_event_add,
     VDEV_EVENT_ERROR_TCP
<1>26. ASSUME EhLoop PROVE CustodyInv'
  BY <1>26 DEF EhLoop, EhRound, EhHead, EhIdle, EhSkips, EhSkip, EhClears,
     EhLoad, EhStore, EhBye, EhHandle, EhWake, EhTo
<1>27. ASSUME EhShutdown PROVE CustodyInv'
  BY <1>27 DEF EhShutdown, EhHandle, EhTo
<1>28. ASSUME EhStopRx PROVE CustodyInv'
  BY <1>28 DEF EhStopRx, EhTo
<1>29. ASSUME EhStopTx PROVE CustodyInv'
  BY <1>29 DEF EhStopTx, EhTo
<1>30. ASSUME EhPutSocket PROVE CustodyInv'
  BY <1>30 DEF EhPutSocket, EhTo
<1>31. ASSUME EhCleanup PROVE CustodyInv'
  <2>1. CASE priv' = priv /\ reaped' = reaped
    BY <1>31, <2>1 DEF EhCleanup
  <2>2. ASSUME NEW u \in Urbs, priv[u].list = "rx", reaped' = u,
               priv' = [priv EXCEPT ![u] = NoPriv]
        PROVE  CustodyInv'
    BY <1>31, <2>2 DEF EhCleanup, ControllerFree
  <2> QED
    BY <1>31, <2>1, <2>2, CleanupEffect
<1>32. ASSUME EhGiveBack PROVE CustodyInv'
  BY <1>32 DEF EhGiveBack, EhTo, GiveBack
<1>33. ASSUME EhDisconnect PROVE CustodyInv'
  BY <1>33 DEF EhDisconnect, EhTo, ControllerFree
<1>34. ASSUME EhReset PROVE CustodyInv'
  BY <1>34 DEF EhReset, EhHandle, EhTo
<1>35. ASSUME EhUnusable PROVE CustodyInv'
  BY <1>35 DEF EhUnusable, EhHandle, EhTo
<1>36. ASSUME AttachRunRx PROVE CustodyInv'
  BY <1>36 DEF AttachRunRx, RxTo
<1>37. ASSUME AttachSetRx PROVE CustodyInv'
  BY <1>37 DEF AttachSetRx
<1>38. ASSUME AttachRunTx PROVE CustodyInv'
  BY <1>38 DEF AttachRunTx, TxTo
<1>39. ASSUME AttachSetTx PROVE CustodyInv'
  BY <1>39 DEF AttachSetTx
<1>40. ASSUME AttachConnect PROVE CustodyInv'
  BY <1>40 DEF AttachConnect
<1>41. ASSUME AttachClaim PROVE CustodyInv'
  BY <1>41 DEF AttachClaim, ControllerFree
<1>42. ASSUME DetachCheck PROVE CustodyInv'
  BY <1>42 DEF DetachCheck, ControllerFree
<1>43. ASSUME DetachEvent PROVE CustodyInv'
  BY <1>43 DEF DetachEvent, usbip_event_add, VDEV_EVENT_DOWN
<1>44. ASSUME StopBegin PROVE CustodyInv'
  BY <1>44 DEF StopBegin
<1>45. ASSUME StopEvent PROVE CustodyInv'
  BY <1>45 DEF StopEvent, usbip_event_add, VDEV_EVENT_REMOVED
<1>46. ASSUME UNCHANGED vars PROVE CustodyInv'
  BY <1>46 DEF vars
<1> HIDE DEF TypeInv, ThreadInv, CustodyInv
<1> QED
  BY <1>1, <1>2, <1>3, <1>4, <1>5, <1>6, <1>7, <1>8, <1>9, <1>10, <1>11, <1>12,
     <1>13, <1>14, <1>15, <1>16, <1>17, <1>18, <1>19, <1>20, <1>21, <1>22,
     <1>23, <1>24, <1>25, <1>26, <1>27, <1>28, <1>29, <1>30, <1>31, <1>32,
     <1>33, <1>34, <1>35, <1>36, <1>37, <1>38, <1>39, <1>40, <1>41, <1>42,
     <1>43, <1>44, <1>45, <1>46 DEF Next, UrbCall, CallStep, EhStep,
     AttachStep, Admin, TxSend, TxStep, RxPdu, RxStep

-----------------------------------------------------------------------------
(* The theorems.                                                           *)

\* The invariant holds in every reachable state, as long as no attach overlaps
\* the handling of an event.  Nothing in the code ensures that condition, which
\* all theorems below but TypeCorrect have too: MCVhciPortRace.cfg runs without it.
THEOREM Invariance ==
  ASSUME ~AttachRaces
  PROVE  Spec => []Inv
<1>1. Init => Inv
  BY TypeInit, ThreadInit, CustodyStart DEF Inv
<1>2. Inv /\ [Next]_vars => Inv'
  BY TypeStep, ThreadStep, CustodyStep DEF Inv
<1> QED
  BY <1>1, <1>2, PTL DEF Spec

\* Every variable keeps its type, however attach and the event thread overlap.
THEOREM TypeCorrect == Spec => []TypeOK
<1>1. TypeInv /\ [Next]_vars => TypeInv'
  BY TypeStep
<1>2. TypeInv => TypeOK
  BY DEF TypeInv
<1> QED
  BY TypeInit, <1>1, <1>2, PTL DEF Spec

\* No URB is given back to the USB core twice: at any moment one context has
\* custody of it and owes exactly one giveback.  As long as no attach overlaps
\* the handling of an event.
THEOREM GivebackOnceHolds ==
  ASSUME ~AttachRaces
  PROVE  Spec => []GivebackOnce
<1>1. Inv => GivebackOnce
  BY DEF Inv, CustodyInv
<1> QED
  BY Invariance, <1>1, PTL

\* A port that is free for the next attach has been shut down completely.  As
\* long as no attach overlaps the handling of an event.
THEOREM FreePortIsQuietHolds ==
  ASSUME ~AttachRaces
  PROVE  Spec => []FreePortIsQuiet
<1>1. Inv => FreePortIsQuiet
  BY DEF Inv, ThreadInv, StoppedInv, RxStopped, TxStopped, FreePortIsQuiet
<1> QED
  BY Invariance, <1>1, PTL

\* When the event thread has ended at unload, no thread of a connection is
\* left.  As long as no attach overlaps the handling of an event.
THEOREM UnloadShutsDownHolds ==
  ASSUME ~AttachRaces
  PROVE  Spec => []UnloadShutsDown
<1>1. Inv => UnloadShutsDown
  BY DEF Inv, ThreadInv, UnloadInv, RxStopped, TxStopped, UnloadShutsDown
<1> QED
  BY Invariance, <1>1, PTL
-----------------------------------------------------------------------------
(* The refinement: a port implements UrbCustody.  Its initial states are   *)
(* initial, and each of its steps moves one URB the way UrbCustody allows, *)
(* or none.                                                                *)

\* What decides the place of an URB v is the same before and after a step.
Same(v) ==
  /\ owed'[v] = owed[v]
  /\ Listed(v)' <=> Listed(v)
  /\ InEnqueue(v)' <=> InEnqueue(v)
  /\ InEh(v)' <=> InEh(v)
  /\ \A c \in Conns : InRx(c, v)' <=> InRx(c, v)

\* Then its place is the same.
LEMMA SamePlace ==
  ASSUME NEW v \in Urbs, Same(v)
  PROVE  PlaceOf(v)' = PlaceOf(v)
  BY DEF Same, PlaceOf, Listed, InEnqueue, InEh, InRx

\* A step that concerns no URB is a stuttering step of the promise.
LEMMA NoMove ==
  ASSUME \A v \in Urbs : Same(v)
  PROVE  UNCHANGED [u \in Urbs |-> PlaceOf(u)]
  BY SamePlace

\* The moves the promise allows.
Allowed == {<<"core", "enqueue">>, <<"enqueue", "pushed">>,
            <<"pushed", "returning">>, <<"enqueue", "core">>,
            <<"pushed", "core">>, <<"returning", "core">>,
            <<"lost", "core">>, <<"enqueue", "lost">>,
            <<"returning", "lost">>}

\* A step that concerns one URB and moves it so is a step of the promise.
LEMMA OneMove ==
  ASSUME NEW u \in Urbs, \A v \in Urbs \ {u} : Same(v),
         <<PlaceOf(u), PlaceOf(u)'>> \in Allowed
  PROVE  UrbSpec!CustodyNext
<1> DEFINE place == [w \in Urbs |-> PlaceOf(w)]
<1>1. place' = [place EXCEPT ![u] = PlaceOf(u)']
  BY SamePlace
<1>2. UrbSpec!Move(u, PlaceOf(u), PlaceOf(u)')
  BY <1>1 DEF UrbSpec!Move
<1> QED
  BY <1>2 DEF Allowed, UrbSpec!CustodyNext, UrbSpec!Submit, UrbSpec!Push,
     UrbSpec!PickUp, UrbSpec!GiveBackUrb, UrbSpec!Lose

\* The initial states of a port are those of the promise.
LEMMA InitMaps == Init => UrbSpec!CustodyInit
  BY DEF Init, UrbSpec!CustodyInit, PlaceOf

\* A step of a port is a step of the promise or a stuttering one.
Maps == UrbSpec!CustodyNext \/ UNCHANGED [u \in Urbs |-> PlaceOf(u)]

\* Every step maps so: one step of the proof per action, which names the URB
\* that moves, if one does.
LEMMA StepMaps ==
  ASSUME Inv, ~AttachRaces, [Next]_vars
  PROVE  Maps
<1> USE VhciPortAssumption
    DEF Inv, TypeInv, TypeOK, CallInv, RxShape, EhShape, CustodyInv,
        GivebackOnce, DequeueInv, InEnqueue, Listed, InRx, InEh, NoPriv
<1>1. ASSUME NEW u \in Urbs, NEW d \in Conns, NEW op \in {"set_address",
     "get_descriptor", "get_vdev"}, vhci_urb_enqueue(u, op, d) PROVE Maps
  <2>1. \A v \in Urbs \ {u} : Same(v)
    BY <1>1 DEF Same, vhci_urb_enqueue, ControllerFree
  <2>2. <<PlaceOf(u), PlaceOf(u)'>> \in Allowed
    BY <1>1 DEF PlaceOf, Allowed, vhci_urb_enqueue, ControllerFree
  <2> QED
    BY <2>1, <2>2, OneMove DEF Maps
<1>2. ASSUME NEW u \in Urbs, vhci_urb_dequeue(u) PROVE Maps
  <2>1. \A v \in Urbs : Same(v)
    BY <1>2 DEF Same, vhci_urb_dequeue, ControllerFree
  <2> QED
    BY <2>1, NoMove DEF Maps
<1>3. ASSUME EnqueueSetAddress PROVE Maps
  <2>1. PICK u \in Urbs : call.urb = u
    BY <1>3 DEF EnqueueSetAddress
  <2>2. \A v \in Urbs \ {u} : Same(v)
    BY <1>3, <2>1 DEF Same, EnqueueSetAddress, Idle, GiveBack
  <2>3. <<PlaceOf(u), PlaceOf(u)'>> \in Allowed
    BY <1>3, <2>1 DEF PlaceOf, Allowed, EnqueueSetAddress, Idle, GiveBack
  <2> QED
    BY <2>2, <2>3, OneMove DEF Maps
<1>4. ASSUME EnqueueGetDescriptor PROVE Maps
  <2>1. \A v \in Urbs : Same(v)
    BY <1>4 DEF Same, EnqueueGetDescriptor
  <2> QED
    BY <2>1, NoMove DEF Maps
<1>5. ASSUME EnqueueGetVdev PROVE Maps
  <2>1. CASE udev = call.dev
    <3>1. \A v \in Urbs : Same(v)
      BY <1>5, <2>1 DEF Same, EnqueueGetVdev
    <3> QED
      BY <3>1, NoMove DEF Maps
  <2>2. CASE udev # call.dev
    <3>1. PICK u \in Urbs : call.urb = u
      BY <1>5 DEF EnqueueGetVdev
    <3>2. \A v \in Urbs \ {u} : Same(v)
      BY <1>5, <2>2, <3>1 DEF Same, EnqueueGetVdev, Idle
    <3>3. <<PlaceOf(u), PlaceOf(u)'>> \in Allowed
      BY <1>5, <2>2, <3>1 DEF PlaceOf, Allowed, EnqueueGetVdev, Idle
    <3> QED
      BY <3>2, <3>3, OneMove DEF Maps
  <2> QED
    BY <2>1, <2>2
<1>6. ASSUME EnqueuePush PROVE Maps
  <2>1. PICK u \in Urbs : call.urb = u
    BY <1>6 DEF EnqueuePush
  <2>2. \A v \in Urbs \ {u} : Same(v)
    BY <1>6, <2>1 DEF Same, EnqueuePush, Idle
  <2>3. <<PlaceOf(u), PlaceOf(u)'>> \in Allowed
    BY <1>6, <2>1 DEF PlaceOf, Allowed, EnqueuePush, Idle
  <2> QED
    BY <2>2, <2>3, OneMove DEF Maps
<1>7. ASSUME EnqueueNoMemory PROVE Maps
  <2>1. PICK u \in Urbs : call.urb = u
    BY <1>7 DEF EnqueueNoMemory
  <2>2. \A v \in Urbs \ {u} : Same(v)
    BY <1>7, <2>1 DEF Same, EnqueueNoMemory, Idle, usbip_event_add,
       VDEV_EVENT_ERROR_MALLOC
  <2>3. <<PlaceOf(u), PlaceOf(u)'>> \in Allowed
    BY <1>7, <2>1 DEF PlaceOf, Allowed, EnqueueNoMemory, Idle,
       usbip_event_add, VDEV_EVENT_ERROR_MALLOC
  <2> QED
    BY <2>2, <2>3, OneMove DEF Maps
<1>8. ASSUME DequeueLocal PROVE Maps
  <2>1. PICK u \in Urbs : call.urb = u
    BY <1>8 DEF DequeueLocal
  <2>2. \A v \in Urbs \ {u} : Same(v)
    BY <1>8, <2>1 DEF Same, DequeueLocal, Idle, GiveBack, FreePriv
  <2>3. <<PlaceOf(u), PlaceOf(u)'>> \in Allowed
    BY <1>8, <2>1 DEF PlaceOf, Allowed, DequeueLocal, Idle, GiveBack, FreePriv
  <2> QED
    BY <2>2, <2>3, OneMove DEF Maps
<1>9. ASSUME DequeueUnlink PROVE Maps
  <2>1. \A v \in Urbs : Same(v)
    BY <1>9 DEF Same, DequeueUnlink, Idle
  <2> QED
    BY <2>1, NoMove DEF Maps
<1>10. ASSUME DequeueNoMemory PROVE Maps
  <2>1. \A v \in Urbs : Same(v)
    BY <1>10 DEF Same, DequeueNoMemory, Idle, usbip_event_add,
       VDEV_EVENT_ERROR_MALLOC
  <2> QED
    BY <2>1, NoMove DEF Maps
<1>11. ASSUME NEW c \in Conns, TxTakeSubmit(c) PROVE Maps
  <2>1. ASSUME NEW v \in Urbs, FirstPriv(v, priv_tx),
               priv' = [priv EXCEPT ![v].list = "rx"]
        PROVE  \A u \in Urbs : Listed(u)' <=> Listed(u)
    <3>1. priv[v] \in Priv /\ priv[v].list = "tx"
      BY <2>1 DEF FirstPriv, priv_tx
    <3>2. priv'[v].list = "rx"
      BY <2>1, <3>1, MovedType
    <3> QED
      BY <2>1, <3>1, <3>2
  <2>2. \A v \in Urbs : Same(v)
    BY <1>11, <2>1 DEF Same, TxTakeSubmit
  <2> QED
    BY <2>2, NoMove DEF Maps
<1>12. ASSUME NEW c \in Conns, TxTakeUnlink(c) PROVE Maps
  <2>1. \A v \in Urbs : Same(v)
    BY <1>12 DEF Same, TxTakeUnlink, TxTo
  <2> QED
    BY <2>1, NoMove DEF Maps
<1>13. ASSUME NEW c \in Conns, TxWait(c) PROVE Maps
  <2>1. \A v \in Urbs : Same(v)
    BY <1>13 DEF Same, TxWait, TxTo
  <2> QED
    BY <2>1, NoMove DEF Maps
<1>14. ASSUME NEW c \in Conns, TxOops(c) PROVE Maps
  <2>1. \A v \in Urbs : Same(v)
    BY <1>14 DEF Same, TxOops, TxTo, CanSendSubmit
  <2> QED
    BY <2>1, NoMove DEF Maps
<1>15. ASSUME NEW c \in Conns, NEW mask \in TxErrors, TxSendFails(c, mask)
     PROVE Maps
  <2>1. \A v \in Urbs : Same(v)
    BY <1>15 DEF Same, TxSendFails, TxTo, TxErrors, CanSendSubmit,
       usbip_event_add, VDEV_EVENT_ERROR_MALLOC, VDEV_EVENT_ERROR_TCP
  <2> QED
    BY <2>1, NoMove DEF Maps
<1>16. ASSUME NEW c \in Conns, NEW n \in Seqnums, TxSendSubmit(c, n) PROVE
     Maps
  <2>1. \A v \in Urbs : Same(v)
    BY <1>16 DEF Same, TxSendSubmit, TxTo, CanSendSubmit
  <2> QED
    BY <2>1, NoMove DEF Maps
<1>17. ASSUME NEW c \in Conns, NEW n \in Seqnums, NEW m \in Seqnums,
     TxSendUnlink(c, n, m) PROVE Maps
  <2>1. \A v \in Urbs : Same(v)
    BY <1>17 DEF Same, TxSendUnlink, TxTo
  <2> QED
    BY <2>1, NoMove DEF Maps
<1>18. ASSUME NEW c \in Conns, NEW n \in 1 .. seqnum,
     RxRetSubmit(c, n) PROVE Maps
  <2>1. CASE priv' = priv /\ RxTo(c, "loop", NoUrb)
    <3>1. \A v \in Urbs : Same(v)
      BY <1>18, <2>1 DEF Same, RxRetSubmit, RxTo
    <3> QED
      BY <3>1, NoMove DEF Maps
  <2>2. ASSUME NEW u \in Urbs, Picked(u, n), FreePriv(u), RxTo(c, "xbuff", u)
        PROVE  Maps
    <3>1. priv[u].list = "rx" /\ rx[c].pc = "recv"
      BY <1>18, <2>2 DEF RxRetSubmit, Picked, FirstPriv, priv_rx
    <3>2. \A v \in Urbs \ {u} : Same(v)
      BY <1>18, <2>2, <3>1 DEF Same, RxRetSubmit, RxTo, FreePriv
    <3>3. <<PlaceOf(u), PlaceOf(u)'>> \in Allowed
      BY <1>18, <2>2, <3>1 DEF PlaceOf, Allowed, RxRetSubmit, RxTo, FreePriv
    <3> QED
      BY <3>2, <3>3, OneMove DEF Maps
  <2> QED
    BY <1>18, <2>1, <2>2 DEF RxRetSubmit
<1>19. ASSUME NEW c \in Conns, NEW n \in 1 .. seqnum,
     RxRetUnlink(c, n) PROVE Maps
  <2>1. n \in Nat
    OBVIOUS
  <2>2. CASE priv' = priv /\ RxTo(c, "loop", NoUrb)
    <3>1. \A v \in Urbs : Same(v)
      BY <1>19, <2>2 DEF Same, RxRetUnlink, RxTo
    <3> QED
      BY <3>1, NoMove DEF Maps
  <2>3. ASSUME NEW u \in Urbs, priv[u].list = "rx",
               priv' = [priv EXCEPT ![u] = NoPriv], RxTo(c, "giveback", u)
        PROVE  Maps
    <3>1. \A v \in Urbs \ {u} : Same(v)
      BY <1>19, <2>3 DEF Same, RxRetUnlink, RxTo
    <3>2. <<PlaceOf(u), PlaceOf(u)'>> \in Allowed
      BY <1>19, <2>3 DEF PlaceOf, Allowed, RxRetUnlink, RxTo
    <3> QED
      BY <2>3, <3>1, <3>2, OneMove DEF Maps
  <2> QED
    BY <1>19, <2>1, <2>2, <2>3, RetUnlinkEffect
<1>20. ASSUME NEW c \in Conns, RxLoop(c) PROVE Maps
  <2>1. \A v \in Urbs : Same(v)
    BY <1>20 DEF Same, RxLoop, RxTo
  <2> QED
    BY <2>1, NoMove DEF Maps
<1>21. ASSUME NEW c \in Conns, RxDown(c) PROVE Maps
  <2>1. \A v \in Urbs : Same(v)
    BY <1>21 DEF Same, RxDown, RxTo, usbip_event_add, VDEV_EVENT_DOWN
  <2> QED
    BY <2>1, NoMove DEF Maps
<1>22. ASSUME NEW c \in Conns, RxIdleTimeout(c) PROVE Maps
  <2>1. \A v \in Urbs : Same(v)
    BY <1>22 DEF Same, RxIdleTimeout, RxTo
  <2> QED
    BY <2>1, NoMove DEF Maps
<1>23. ASSUME NEW c \in Conns, RxPayload(c) PROVE Maps
  <2>1. \A v \in Urbs : Same(v)
    BY <1>23 DEF Same, RxPayload, RxTo
  <2> QED
    BY <2>1, NoMove DEF Maps
<1>24. ASSUME NEW c \in Conns, RxGiveBack(c) PROVE Maps
  <2>1. PICK u \in Urbs : rx[c].urb = u
    BY <1>24 DEF RxGiveBack, RxThread
  <2>2. \A v \in Urbs \ {u} : Same(v)
    BY <1>24, <2>1 DEF Same, RxGiveBack, RxTo, GiveBack, ControllerFree
  <2>3. <<PlaceOf(u), PlaceOf(u)'>> \in Allowed
    BY <1>24, <2>1 DEF PlaceOf, Allowed, RxGiveBack, RxTo, GiveBack,
       ControllerFree
  <2> QED
    BY <2>2, <2>3, OneMove DEF Maps
<1>25. ASSUME NEW c \in Conns, NEW mask \in RxErrors, RxPayloadFails(c, mask)
     PROVE Maps
  <2>1. PICK u \in Urbs : rx[c].urb = u
    BY <1>25 DEF RxPayloadFails, RxThread
  <2>2. \A v \in Urbs \ {u} : Same(v)
    BY <1>25, <2>1 DEF Same, RxPayloadFails, RxTo, RxErrors, usbip_event_add,
       VDEV_EVENT_ERROR_TCP
  <2>3. <<PlaceOf(u), PlaceOf(u)'>> \in Allowed
    BY <1>25, <2>1 DEF PlaceOf, Allowed, RxPayloadFails, RxTo, RxErrors,
       usbip_event_add, VDEV_EVENT_ERROR_TCP
  <2> QED
    BY <2>2, <2>3, OneMove DEF Maps
<1>26. ASSUME EhLoop PROVE Maps
  <2>1. \A v \in Urbs : Same(v)
    BY <1>26 DEF Same, EhLoop, EhRound, EhHead, EhIdle, EhSkips, EhSkip,
       EhClears, EhLoad, EhStore, EhBye, EhHandle, EhWake, EhTo
  <2> QED
    BY <2>1, NoMove DEF Maps
<1>27. ASSUME EhShutdown PROVE Maps
  <2>1. \A v \in Urbs : Same(v)
    BY <1>27 DEF Same, EhShutdown, EhHandle, EhTo
  <2> QED
    BY <2>1, NoMove DEF Maps
<1>28. ASSUME EhStopRx PROVE Maps
  <2>1. \A v \in Urbs : Same(v)
    BY <1>28 DEF Same, EhStopRx, EhTo
  <2> QED
    BY <2>1, NoMove DEF Maps
<1>29. ASSUME EhStopTx PROVE Maps
  <2>1. \A v \in Urbs : Same(v)
    BY <1>29 DEF Same, EhStopTx, EhTo
  <2> QED
    BY <2>1, NoMove DEF Maps
<1>30. ASSUME EhPutSocket PROVE Maps
  <2>1. \A v \in Urbs : Same(v)
    BY <1>30 DEF Same, EhPutSocket, EhTo
  <2> QED
    BY <2>1, NoMove DEF Maps
<1>31. ASSUME EhCleanup PROVE Maps
  <2>1. CASE priv' = priv /\ reaped' = reaped
    <3>1. \A v \in Urbs : Same(v)
      BY <1>31, <2>1 DEF Same, EhCleanup
    <3> QED
      BY <3>1, NoMove DEF Maps
  <2>2. ASSUME NEW u \in Urbs, priv[u].list = "rx", reaped' = u,
               priv' = [priv EXCEPT ![u] = NoPriv]
        PROVE  Maps
    <3>1. \A v \in Urbs \ {u} : Same(v)
      BY <1>31, <2>2 DEF Same, EhCleanup, ControllerFree
    <3>2. <<PlaceOf(u), PlaceOf(u)'>> \in Allowed
      BY <1>31, <2>2 DEF PlaceOf, Allowed, EhCleanup, ControllerFree
    <3> QED
      BY <2>2, <3>1, <3>2, OneMove DEF Maps
  <2> QED
    BY <1>31, <2>1, <2>2, CleanupEffect
<1>32. ASSUME EhGiveBack PROVE Maps
  <2>1. PICK u \in Urbs : reaped = u
    BY <1>32 DEF EhGiveBack
  <2>2. \A v \in Urbs \ {u} : Same(v)
    BY <1>32, <2>1 DEF Same, EhGiveBack, EhTo, GiveBack
  <2>3. <<PlaceOf(u), PlaceOf(u)'>> \in Allowed
    BY <1>32, <2>1 DEF PlaceOf, Allowed, EhGiveBack, EhTo, GiveBack
  <2> QED
    BY <2>2, <2>3, OneMove DEF Maps
<1>33. ASSUME EhDisconnect PROVE Maps
  <2>1. \A v \in Urbs : Same(v)
    BY <1>33 DEF Same, EhDisconnect, EhTo, ControllerFree
  <2> QED
    BY <2>1, NoMove DEF Maps
<1>34. ASSUME EhReset PROVE Maps
  <2>1. \A v \in Urbs : Same(v)
    BY <1>34 DEF Same, EhReset, EhHandle, EhTo
  <2> QED
    BY <2>1, NoMove DEF Maps
<1>35. ASSUME EhUnusable PROVE Maps
  <2>1. \A v \in Urbs : Same(v)
    BY <1>35 DEF Same, EhUnusable, EhHandle, EhTo
  <2> QED
    BY <2>1, NoMove DEF Maps
<1>36. ASSUME AttachRunRx PROVE Maps
  <2>1. \A v \in Urbs : Same(v)
    BY <1>36 DEF Same, AttachRunRx, RxTo, ThreadInv, AttachInv, RxStopped,
       ThreadEnded
  <2> QED
    BY <2>1, NoMove DEF Maps
<1>37. ASSUME AttachSetRx PROVE Maps
  <2>1. \A v \in Urbs : Same(v)
    BY <1>37 DEF Same, AttachSetRx
  <2> QED
    BY <2>1, NoMove DEF Maps
<1>38. ASSUME AttachRunTx PROVE Maps
  <2>1. \A v \in Urbs : Same(v)
    BY <1>38 DEF Same, AttachRunTx, TxTo
  <2> QED
    BY <2>1, NoMove DEF Maps
<1>39. ASSUME AttachSetTx PROVE Maps
  <2>1. \A v \in Urbs : Same(v)
    BY <1>39 DEF Same, AttachSetTx
  <2> QED
    BY <2>1, NoMove DEF Maps
<1>40. ASSUME AttachConnect PROVE Maps
  <2>1. \A v \in Urbs : Same(v)
    BY <1>40 DEF Same, AttachConnect
  <2> QED
    BY <2>1, NoMove DEF Maps
<1>41. ASSUME AttachClaim PROVE Maps
  <2>1. \A v \in Urbs : Same(v)
    BY <1>41 DEF Same, AttachClaim, ControllerFree
  <2> QED
    BY <2>1, NoMove DEF Maps
<1>42. ASSUME DetachCheck PROVE Maps
  <2>1. \A v \in Urbs : Same(v)
    BY <1>42 DEF Same, DetachCheck, ControllerFree
  <2> QED
    BY <2>1, NoMove DEF Maps
<1>43. ASSUME DetachEvent PROVE Maps
  <2>1. \A v \in Urbs : Same(v)
    BY <1>43 DEF Same, DetachEvent, usbip_event_add, VDEV_EVENT_DOWN
  <2> QED
    BY <2>1, NoMove DEF Maps
<1>44. ASSUME StopBegin PROVE Maps
  <2>1. \A v \in Urbs : Same(v)
    BY <1>44 DEF Same, StopBegin
  <2> QED
    BY <2>1, NoMove DEF Maps
<1>45. ASSUME StopEvent PROVE Maps
  <2>1. \A v \in Urbs : Same(v)
    BY <1>45 DEF Same, StopEvent, usbip_event_add, VDEV_EVENT_REMOVED
  <2> QED
    BY <2>1, NoMove DEF Maps
<1>46. ASSUME UNCHANGED vars PROVE Maps
  <2>1. \A v \in Urbs : Same(v)
    BY <1>46 DEF Same, vars
  <2> QED
    BY <2>1, NoMove DEF Maps
<1> HIDE DEF Inv, Maps
<1> QED
  BY <1>1, <1>2, <1>3, <1>4, <1>5, <1>6, <1>7, <1>8, <1>9, <1>10, <1>11, <1>12,
     <1>13, <1>14, <1>15, <1>16, <1>17, <1>18, <1>19, <1>20, <1>21, <1>22,
     <1>23, <1>24, <1>25, <1>26, <1>27, <1>28, <1>29, <1>30, <1>31, <1>32,
     <1>33, <1>34, <1>35, <1>36, <1>37, <1>38, <1>39, <1>40, <1>41, <1>42,
     <1>43, <1>44, <1>45, <1>46 DEF Next, UrbCall, CallStep, EhStep,
     AttachStep, Admin, TxSend, TxStep, RxPdu, RxStep

-----------------------------------------------------------------------------
\* The port implements the promise: under the mapping PlaceOf every behaviour
\* of the port is one of UrbCustody, as long as no attach overlaps the handling
\* of an event.
THEOREM KeepsCustodyHolds ==
  ASSUME ~AttachRaces
  PROVE  Spec => KeepsCustody
<1>1. Inv /\ [Next]_vars
        => [UrbSpec!CustodyNext]_[u \in Urbs |-> PlaceOf(u)]
  BY StepMaps DEF Maps
<1> QED
  BY InitMaps, <1>1, Invariance, PTL DEF Spec, KeepsCustody, UrbSpec!Custody
=============================================================================
