------------------------- MODULE StubDevice_proofs --------------------------
(***************************************************************************)
(* Proofs, for any numbers of commands and connections, that StubDevice    *)
(* keeps its types.  When a write to usbip_sockfd does not overlap the     *)
(* handling of an event, a device that is free has nothing left of a       *)
(* former connection, no command has two replies, and none is forgotten.   *)
(***************************************************************************)
EXTENDS StubDevice, FiniteSetTheorems, SequenceTheorems, TLAPS

USE DEF devVars, thrVars, privVars, unlVars, admVars, hisVars

-----------------------------------------------------------------------------
(* The data.                                                               *)

\* A bound is a number, so that the commands and connections are.
LEMMA Bounds == MaxCmd \in Nat \ {0} /\ MaxConn \in Nat \ {0} /\ Cmds \subseteq 0 .. MaxCmd
BY StubDeviceAssumption DEF Cmds

\* Every mask of the driver is made of bits, has SHUTDOWN, and one that ends the
\* connection.
Masks == {SDEV_EVENT_REMOVED, SDEV_EVENT_DOWN, SDEV_EVENT_ERROR_TCP,
          SDEV_EVENT_ERROR_SUBMIT, SDEV_EVENT_ERROR_MALLOC}

\* What raising one of them does.
LEMMA Raised ==
  ASSUME NEW mask \in Masks, usbip_event_add(mask)
  PROVE  /\ event \subseteq event' /\ "SHUTDOWN" \in event' /\ event' \cap Ending # {}
         /\ event \in SUBSET EventBits => event' \in SUBSET EventBits
BY DEF Masks, SDEV_EVENT_REMOVED, SDEV_EVENT_DOWN, SDEV_EVENT_ERROR_TCP,
       SDEV_EVENT_ERROR_SUBMIT, SDEV_EVENT_ERROR_MALLOC, usbip_event_add, EventBits, Ending

\* A context other than the event thread leaves the bits alone or raises some.
EventGrows ==
  /\ event' = event \/ (event \subseteq event' /\ "SHUTDOWN" \in event' /\ event' \cap Ending # {})
  /\ event \in SUBSET EventBits => event' \in SUBSET EventBits

\* A step that raises a mask, or none, lets the bits grow.
LEMMA Grows ==
  ASSUME event' = event \/ \E mask \in Masks : usbip_event_add(mask)
  PROVE  EventGrows
BY Raised DEF EventGrows

\* stub_enqueue_ret_unlink queues one more number, or raises an event.
LEMMA RetUnlinkEffect ==
  ASSUME TypeOK, NEW n \in Cmds, stub_enqueue_ret_unlink(n)
  PROVE  unlink_tx' \in Seq(Cmds) /\ EventGrows
<1>1. CASE unlink_tx' = Append(unlink_tx, n) /\ UNCHANGED event
  BY <1>1, Grows DEF TypeOK
<1>2. CASE usbip_event_add(VDEV_EVENT_ERROR_MALLOC) /\ UNCHANGED unlink_tx
  <2>1. VDEV_EVENT_ERROR_MALLOC \in Masks
    BY DEF Masks, VDEV_EVENT_ERROR_MALLOC, SDEV_EVENT_ERROR_MALLOC
  <2>. QED  BY <1>2, <2>1, Grows DEF TypeOK
<1>. QED  BY <1>1, <1>2 DEF stub_enqueue_ret_unlink

UrbStates == {"none", "new", "flight", "cancelled", "done"}

\* Setting the URB of a stub_priv keeps the type of the list.
LEMMA SetUrbType ==
  ASSUME TypeOK, NEW n, NEW urb \in UrbStates, SetUrb(n, urb)
  PROVE  priv_init' \in SUBSET Privs
<1>1. \A p \in Privs : [p EXCEPT !.urb = urb] \in Privs
  BY DEF Privs, UrbStates
<1>. QED  BY <1>1 DEF SetUrb, TypeOK

\* The steps of a thread of a connection keep the type of its state.
LEMMA RxToType ==
  ASSUME TypeOK, NEW c, NEW pc \in {"loop", "recv", "alloc", "setup", "unlink", "garbled", "done"},
         NEW n \in 0 .. MaxCmd, RxTo(c, pc, n)
  PROVE  rx' \in [Conns -> RxThread]
BY DEF TypeOK, RxTo, RxThread

\* Likewise of the sending thread.
LEMMA TxToType ==
  ASSUME TypeOK, NEW c, NEW pc \in {"top", "submit", "send_submit", "unlink", "send_unlink",
                                    "wait", "asleep", "done"},
         NEW n \in 0 .. MaxCmd, TxTo(c, pc, n)
  PROVE  tx' \in [Conns -> TxThread]
BY DEF TypeOK, TxTo, TxThread

\* A wake-up wakes, and ends no thread nor starts one.
LEMMA WakeEffect ==
  ASSUME TypeOK, WakeTx
  PROVE  /\ tx' \in [Conns -> TxThread]
         /\ \A c \in Conns : ThreadEnded(tx'[c].pc) <=> ThreadEnded(tx[c].pc)
<1>1. ASSUME NEW t \in TxThread
      PROVE  [t EXCEPT !.pc = "wait"] \in TxThread /\ [t EXCEPT !.pc = "wait"].pc = "wait"
  BY DEF TxThread
<1>2. tx \in [Conns -> TxThread]
  BY DEF TypeOK
<1>3. \A c \in Conns : tx'[c] = IF tx[c].pc = "asleep" THEN [tx[c] EXCEPT !.pc = "wait"] ELSE tx[c]
  BY DEF WakeTx
<1>4. tx' \in [Conns -> TxThread]
  BY <1>1, <1>2, <1>3 DEF WakeTx
<1>. QED  BY <1>1, <1>2, <1>3, <1>4 DEF ThreadEnded

-----------------------------------------------------------------------------
(* Types, to begin with.                                                   *)

\* stub_device_alloc establishes the types.
LEMMA TypeInit == Init => TypeOK
<1> SUFFICES ASSUME Init PROVE TypeOK
  OBVIOUS
<1>1. [pc |-> "unborn", cmd |-> 0] \in RxThread /\ [pc |-> "unborn", seqnum |-> 0] \in TxThread
  BY Bounds DEF RxThread, TxThread
<1>2. [pc |-> "head", ev |-> {}] \in [pc : EhPcs, ev : SUBSET EventBits]
  BY DEF EhPcs, EhLoopPcs
<1>. QED  BY <1>1, <1>2, Bounds DEF Init, EhInit, TypeOK

-----------------------------------------------------------------------------
(* What the actions do, thread by thread.                                  *)

HistoryType ==
  /\ received \in SUBSET [n : Cmds, target : 0 .. MaxCmd]
  /\ answered \in [Cmds -> Nat]
  /\ superseded \in SUBSET Cmds

\* All that the receiving thread of connection c does: its own place, new
\* requests, unlinks, events.
RxEffect(c) ==
  /\ ~ ThreadEnded(rx[c].pc)
  /\ \E pc \in {"loop", "recv", "alloc", "setup", "unlink", "garbled", "done"},
        n \in 0 .. MaxCmd : RxTo(c, pc, n)
  /\ EventGrows
  /\ priv_init' \in SUBSET Privs /\ unlink_tx' \in Seq(Cmds)
  /\ HistoryType'
  /\ UNCHANGED <<devVars, tcp_rx, tcp_tx, tx, priv_tx, priv_free, unlink_free, admVars, eh>>

\* A PDU of a client that does not keep to RxPdu: the one of UsbipSession may
\* send a number twice.
AnyPdu(c) ==
  \E n \in Cmds : \/ RxCmdSubmit(c, n)
                 \/ \E target \in 0 .. MaxCmd : RxCmdUnlink(c, n, target)

\* A step of the device with such a client.
AnyStep == [Next]_vars \/ \E c \in Conns : AnyPdu(c)

\* A submission or an unlink that arrives.
LEMMA RxPduEffect == ASSUME TypeOK, NEW c \in Conns, RxPdu(c) \/ AnyPdu(c) PROVE RxEffect(c)
<1>0. AnyPdu(c)
  BY Bounds DEF RxPdu, AnyPdu
<1> PICK n \in Cmds : \/ RxCmdSubmit(c, n)
                      \/ \E target \in 0 .. MaxCmd : RxCmdUnlink(c, n, target)
  BY <1>0 DEF AnyPdu
<1>1. CASE RxCmdSubmit(c, n)
  <2>1. rx[c].pc = "recv" /\ n \in 0 .. MaxCmd
    BY <1>1, Bounds DEF RxCmdSubmit, Valid
  <2>2. [cmd |-> n, seqnum |-> n, unlinking |-> FALSE, urb |-> "none"] \in Privs
    BY DEF Privs
  <2>3. \/ /\ priv_init' = priv_init \cup
                {[cmd |-> n, seqnum |-> n, unlinking |-> FALSE, urb |-> "none"]}
           /\ RxTo(c, "alloc", n) /\ UNCHANGED event
        \/ usbip_event_add(SDEV_EVENT_ERROR_MALLOC) /\ RxTo(c, "loop", 0) /\ UNCHANGED priv_init
    BY <1>1 DEF RxCmdSubmit
  <2>4. EventGrows
    BY <2>3, Grows DEF Masks
  <2>5. priv_init' \in SUBSET Privs
    BY <2>2, <2>3 DEF TypeOK
  <2>6. HistoryType'
    BY <1>1, Bounds DEF RxCmdSubmit, TypeOK, HistoryType
  <2>7. UNCHANGED <<devVars, tcp_rx, tcp_tx, tx, priv_tx, priv_free, unlVars, admVars, eh>>
    BY <1>1 DEF RxCmdSubmit
  <2>8. unlink_tx' \in Seq(Cmds)
    BY <2>7 DEF TypeOK
  <2>9. \E pc \in {"loop", "alloc"}, k \in 0 .. MaxCmd : RxTo(c, pc, k)
    BY <2>1, <2>3, Bounds
  <2>. QED  BY <2>1, <2>4, <2>5, <2>6, <2>7, <2>8, <2>9 DEF RxEffect, ThreadEnded
<1>2. ASSUME NEW target \in 0 .. MaxCmd, RxCmdUnlink(c, n, target) PROVE RxEffect(c)
  <2>1. rx[c].pc = "recv"
    BY <1>2 DEF RxCmdUnlink, Valid
  <2>2. \A p \in Privs : /\ [p EXCEPT !.unlinking = TRUE, !.seqnum = n] \in Privs
                         /\ p.cmd \in Cmds
    <3> SUFFICES ASSUME NEW p \in Privs
                 PROVE  [p EXCEPT !.unlinking = TRUE, !.seqnum = n] \in Privs /\ p.cmd \in Cmds
      OBVIOUS
    <3> DEFINE q == [p EXCEPT !.unlinking = TRUE]
    <3>1. q \in Privs
      BY DEF Privs
    <3>2. [p EXCEPT !.unlinking = TRUE, !.seqnum = n] = [q EXCEPT !.seqnum = n]
      OBVIOUS
    <3> HIDE DEF q
    <3>. QED  BY <3>1, <3>2 DEF Privs
  <2>4. received' \in SUBSET [n : Cmds, target : 0 .. MaxCmd]
    <3>1. received' = received \cup {[n |-> n, target |-> target]}
      BY <1>2 DEF RxCmdUnlink
    <3>2. [n |-> n, target |-> target] \in [n : Cmds, target : 0 .. MaxCmd]
      OBVIOUS
    <3>. QED  BY <3>1, <3>2 DEF TypeOK
  <2>5. UNCHANGED <<devVars, tcp_rx, tcp_tx, tx, priv_tx, priv_free, unlink_free,
                    admVars, answered, eh>>
    BY <1>2 DEF RxCmdUnlink
  <2>6. CASE /\ \A p \in priv_init : p.seqnum # target
             /\ stub_enqueue_ret_unlink(n)
             /\ RxTo(c, "loop", 0)
             /\ UNCHANGED <<priv_init, superseded>>
    <3>1. EventGrows /\ unlink_tx' \in Seq(Cmds)
      BY <2>6, RetUnlinkEffect
    <3>2. \E pc \in {"loop"}, k \in 0 .. MaxCmd : RxTo(c, pc, k)
      BY <2>6, Bounds
    <3>. QED  BY <2>1, <2>4, <2>5, <2>6, <3>1, <3>2 DEF RxEffect, HistoryType, ThreadEnded, TypeOK
  <2>7. ASSUME NEW p \in priv_init,
               priv_init' = (priv_init \ {p}) \cup {[p EXCEPT !.unlinking = TRUE, !.seqnum = n]},
               superseded' = superseded \cup {p.cmd}, RxTo(c, "unlink", p.cmd),
               UNCHANGED <<unlink_tx, event>>
        PROVE  RxEffect(c)
    <3>1. p \in Privs
      BY DEF TypeOK
    <3>2. priv_init' \in SUBSET Privs /\ superseded' \in SUBSET Cmds
      BY <2>2, <2>7, <3>1 DEF TypeOK
    <3>3. \E pc \in {"unlink"}, k \in 0 .. MaxCmd : RxTo(c, pc, k)
      BY <2>2, <2>7, <3>1, Bounds
    <3>4. EventGrows /\ unlink_tx' \in Seq(Cmds)
      BY <2>7, Grows DEF TypeOK
    <3>. QED  BY <2>1, <2>4, <2>5, <3>2, <3>3, <3>4 DEF RxEffect, HistoryType, ThreadEnded, TypeOK
  <2>. QED  BY <1>2, <2>6, <2>7 DEF RxCmdUnlink
<1>. QED  BY <1>1, <1>2

\* The other steps of the thread set a URB up, or unlink it.
RxSetsUp ==
  /\ UNCHANGED priv_init \/ \E k \in 0 .. MaxCmd, urb \in UrbStates : SetUrb(k, urb)
  /\ UNCHANGED <<unlVars, hisVars>>

\* What the receiving thread's steps change.
LEMMA RxStepEffect ==
  ASSUME TypeOK, NEW c \in Conns, RxBad(c) \/ RxStep(c)
  PROVE  RxEffect(c) /\ RxSetsUp
<1>1. ASSUME ~ ThreadEnded(rx[c].pc),
             NEW pc \in {"loop", "recv", "alloc", "setup", "unlink", "garbled", "done"},
             NEW n \in 0 .. MaxCmd, RxTo(c, pc, n),
             event' = event \/ \E mask \in Masks : usbip_event_add(mask),
             \/ UNCHANGED priv_init
             \/ \E k \in 0 .. MaxCmd, urb \in UrbStates : SetUrb(k, urb),
             UNCHANGED <<devVars, tcp_rx, tcp_tx, tx, priv_tx, priv_free, unlVars, admVars,
                         hisVars, eh>>
      PROVE  RxEffect(c) /\ RxSetsUp
  <2>1. EventGrows
    BY <1>1, Grows
  <2>2. priv_init' \in SUBSET Privs
    BY <1>1, SetUrbType DEF TypeOK
  <2>3. HistoryType' /\ unlink_tx' \in Seq(Cmds)
    BY <1>1 DEF HistoryType, TypeOK
  <2>. QED  BY <1>1, <2>1, <2>2, <2>3 DEF RxEffect, RxSetsUp
<1>2. rx[c].cmd \in 0 .. MaxCmd /\ 0 \in 0 .. MaxCmd
  BY Bounds DEF TypeOK, RxThread
<1>3. CASE RxBad(c)
  BY <1>1, <1>2, <1>3 DEF RxBad, ThreadEnded, Masks
<1>4. CASE RxLoop(c)
  BY <1>1, <1>2, <1>4 DEF RxLoop, ThreadEnded
<1>5. CASE RxAlloc(c)
  BY <1>1, <1>2, <1>5 DEF RxAlloc, ThreadEnded, Masks, UrbStates
<1>6. CASE RxSubmitUrb(c)
  <2>1. PICK mask \in {{}, SDEV_EVENT_ERROR_TCP} : usbip_event_add(mask)
    BY <1>6 DEF RxSubmitUrb
  <2>2. event' = event \/ \E m \in Masks : usbip_event_add(m)
    BY <2>1 DEF Masks, usbip_event_add
  <2>. QED  BY <1>1, <1>2, <1>6, <2>2 DEF RxSubmitUrb, ThreadEnded, UrbStates
<1>7. CASE RxSetupFails(c)
  BY <1>1, <1>2, <1>7 DEF RxSetupFails, ThreadEnded, Masks
<1>8. CASE RxIsoNoMemory(c)
  BY <1>1, <1>2, <1>8 DEF RxIsoNoMemory, ThreadEnded
<1>9. CASE RxUnlinkUrb(c)
  <2>1. ASSUME NEW p \in priv_init,
               SetUrb(p.cmd, IF p.urb = "flight" THEN "cancelled" ELSE p.urb), RxTo(c, "loop", 0)
        PROVE  RxEffect(c) /\ RxSetsUp
    <3>1. p.urb \in UrbStates /\ "cancelled" \in UrbStates /\ p.cmd \in 0 .. MaxCmd
      BY Bounds DEF TypeOK, Privs, UrbStates
    <3>2. \E k \in 0 .. MaxCmd, urb \in UrbStates : SetUrb(k, urb)
      BY <2>1, <3>1
    <3>. QED  BY <1>1, <1>2, <1>9, <2>1, <3>2 DEF RxUnlinkUrb, ThreadEnded
  <2>2. ASSUME NEW pc \in {"loop", "done"}, RxTo(c, pc, 0), UNCHANGED priv_init
        PROVE  RxEffect(c) /\ RxSetsUp
    BY <1>1, <1>2, <1>9, <2>2 DEF RxUnlinkUrb, ThreadEnded
  <2>. QED  BY <1>9, <2>1, <2>2 DEF RxUnlinkUrb
<1>. QED  BY <1>3, <1>4, <1>5, <1>6, <1>7, <1>8, <1>9 DEF RxStep

\* All that the sending thread of connection c does: its own place, what it
\* takes from the lists, events.
TxEffect(c) ==
  /\ ~ ThreadEnded(tx[c].pc)
  /\ \E pc \in {"top", "submit", "send_submit", "unlink", "send_unlink", "wait", "asleep", "done"},
        n \in 0 .. MaxCmd : TxTo(c, pc, n)
  /\ EventGrows
  /\ priv_tx' \in Seq(Privs) /\ priv_free' \in SUBSET Privs
  /\ unlink_tx' \in Seq(Cmds) /\ unlink_free' \in SUBSET Cmds
  /\ answered' \in [Cmds -> Nat]
  /\ UNCHANGED <<devVars, tcp_rx, tcp_tx, rx, priv_init, admVars, received, superseded, eh>>

\* A reply goes out.
LEMMA TxSendEffect == ASSUME TypeOK, NEW c \in Conns, TxSend(c) PROVE TxEffect(c)
<1> PICK n \in Cmds : TxSendSubmit(c, n) \/ TxSendUnlink(c, n)
  BY DEF TxSend
<1>1. /\ tx[c].pc \in {"send_submit", "send_unlink"}
      /\ \E pc \in {"submit", "unlink"} : TxTo(c, pc, 0)
      /\ answered' = [answered EXCEPT ![n] = @ + 1]
      /\ UNCHANGED <<devVars, tcp_rx, tcp_tx, rx, privVars, unlVars, admVars, received,
                     superseded, event, eh>>
  BY DEF TxSendSubmit, TxSendUnlink, Answer
<1>2. answered' \in [Cmds -> Nat]
  BY <1>1 DEF TypeOK
<1>3. 0 \in 0 .. MaxCmd /\ EventGrows
  BY <1>1, Bounds, Grows
<1>. QED  BY <1>1, <1>2, <1>3 DEF TxEffect, ThreadEnded, TypeOK

\* The other steps of the thread.
LEMMA TxStepEffect == ASSUME TypeOK, NEW c \in Conns, TxStep(c) PROVE TxEffect(c)
<1>1. 0 \in 0 .. MaxCmd
  BY Bounds
<1>2. CASE TxTop(c)
  <2>1. EventGrows
    BY <1>2, Grows DEF TxTop
  <2>2. \E pc \in {"done", "submit"} : TxTo(c, pc, 0)
    BY <1>2 DEF TxTop
  <2>. QED  BY <1>1, <1>2, <2>1, <2>2 DEF TxTop, TxEffect, ThreadEnded, TypeOK
<1>3. CASE TxTakeSubmit(c)
  <2>1. EventGrows
    BY <1>3, Grows DEF TxTakeSubmit
  <2>2. CASE priv_tx = <<>> /\ priv_free' = {} /\ TxTo(c, "unlink", 0) /\ UNCHANGED priv_tx
    BY <1>1, <1>3, <2>1, <2>2 DEF TxTakeSubmit, TxEffect, ThreadEnded, TypeOK
  <2>3. CASE /\ priv_tx # <<>> /\ priv_tx' = Tail(priv_tx)
             /\ priv_free' = priv_free \cup {Head(priv_tx)}
             /\ TxTo(c, "send_submit", Head(priv_tx).seqnum)
    <3>1. Head(priv_tx) \in Privs /\ Tail(priv_tx) \in Seq(Privs)
      BY <2>3 DEF TypeOK
    <3>2. Head(priv_tx).seqnum \in 0 .. MaxCmd
      BY <3>1, Bounds DEF Privs
    <3>. QED  BY <1>3, <2>1, <2>3, <3>1, <3>2 DEF TxTakeSubmit, TxEffect, ThreadEnded, TypeOK
  <2>. QED  BY <1>3, <2>2, <2>3 DEF TxTakeSubmit
<1>4. CASE TxTakeUnlink(c)
  <2>1. EventGrows
    BY <1>4, Grows DEF TxTakeUnlink
  <2>2. CASE unlink_tx = <<>> /\ unlink_free' = {} /\ TxTo(c, "wait", 0) /\ UNCHANGED unlink_tx
    BY <1>1, <1>4, <2>1, <2>2 DEF TxTakeUnlink, TxEffect, ThreadEnded, TypeOK
  <2>3. CASE /\ unlink_tx # <<>> /\ unlink_tx' = Tail(unlink_tx)
             /\ unlink_free' = unlink_free \cup {Head(unlink_tx)}
             /\ TxTo(c, "send_unlink", Head(unlink_tx))
    <3>1. Head(unlink_tx) \in Cmds /\ Tail(unlink_tx) \in Seq(Cmds)
      BY <2>3 DEF TypeOK
    <3>2. Head(unlink_tx) \in 0 .. MaxCmd
      BY <3>1, Bounds
    <3>. QED  BY <1>4, <2>1, <2>3, <3>1, <3>2 DEF TxTakeUnlink, TxEffect, ThreadEnded, TypeOK
  <2>. QED  BY <1>4, <2>2, <2>3 DEF TxTakeUnlink
<1>5. CASE TxWait(c)
  <2>1. EventGrows
    BY <1>5, Grows DEF TxWait
  <2>2. \E pc \in {"top", "asleep", "wait"} : TxTo(c, pc, 0)
    BY <1>5 DEF TxWait
  <2>. QED  BY <1>1, <1>5, <2>1, <2>2 DEF TxWait, TxEffect, ThreadEnded, TypeOK
<1>6. ASSUME NEW mask \in TxErrors, TxSendFails(c, mask) PROVE TxEffect(c)
  <2>1. EventGrows
    BY <1>6, Grows DEF TxSendFails, TxErrors, Masks
  <2>. QED  BY <1>1, <1>6, <2>1 DEF TxSendFails, TxEffect, ThreadEnded, TypeOK
<1>. QED  BY <1>2, <1>3, <1>4, <1>5, <1>6 DEF TxStep

\* A URB that completes was on priv_init; its result goes to a list.
CompleteEffect ==
  /\ priv_init # {} /\ priv_init' \in SUBSET Privs
  /\ priv_tx' \in Seq(Privs) /\ unlink_tx' \in Seq(Cmds)
  /\ EventGrows
  /\ tx' \in [Conns -> TxThread]
  /\ \A c \in Conns : ThreadEnded(tx'[c].pc) <=> ThreadEnded(tx[c].pc)
  /\ UNCHANGED <<devVars, tcp_rx, tcp_tx, rx, priv_free, unlink_free, admVars, hisVars, eh>>

\* stub_complete does just that.
LEMMA StubComplete == ASSUME TypeOK, Complete PROVE CompleteEffect
<1> PICK p \in priv_init, quiet \in BOOLEAN : stub_complete(p, quiet)
  BY DEF Complete
<1>1. p \in Privs /\ p.seqnum \in Cmds /\ [p EXCEPT !.urb = "done"] \in Privs
  BY DEF TypeOK, Privs
<1>2. priv_init # {} /\ priv_init' \in SUBSET Privs
  BY DEF stub_complete, TypeOK
<1>3. priv_tx' \in Seq(Privs) /\ unlink_tx' \in Seq(Cmds) /\ EventGrows
  <2>1. CASE stub_enqueue_ret_unlink(p.seqnum) /\ UNCHANGED priv_tx
    BY <1>1, <2>1, RetUnlinkEffect DEF TypeOK
  <2>2. CASE priv_tx' = Append(priv_tx, [p EXCEPT !.urb = "done"]) /\ UNCHANGED <<unlink_tx, event>>
    BY <1>1, <2>2, Grows DEF TypeOK
  <2>. QED  BY <2>1, <2>2 DEF stub_complete
<1>4. /\ tx' \in [Conns -> TxThread]
      /\ \A c \in Conns : ThreadEnded(tx'[c].pc) <=> ThreadEnded(tx[c].pc)
  BY WakeEffect DEF stub_complete, TypeOK
<1>. QED  BY <1>2, <1>3, <1>4 DEF stub_complete, CompleteEffect

-----------------------------------------------------------------------------
(* Types.                                                                  *)

\* The event thread keeps the types.
LEMMA EhTypes == ASSUME TypeOK, EhStep \/ EhSendDisconnect PROVE TypeOK'
<1> DEFINE Threads == [pc : EhPcs, ev : SUBSET EventBits]
<1>1. ASSUME NEW pc \in EhPcs, EhTo(pc) PROVE eh' \in Threads
  BY <1>1 DEF EhTo
<1>2. CASE EhLoop
  <2>1. eh' \in Threads /\ event' \in SUBSET EventBits
    BY <1>2 DEF TypeOK, EhLoop, EhRound, EhHead, EhIdle, EhSkips, EhSkip, EhClears, EhLoad,
       EhStore, EhBye, EhHandle, EhWake, EhTo, EhPcs, EhLoopPcs
  <2>. QED  BY <1>2, <2>1 DEF TypeOK, EhLoop
<1>3. CASE EhSendDisconnect \/ EhShutdown \/ EhStopRx \/ EhStopTx \/ EhPutSocket
  <2>1. eh' \in Threads
    BY <1>1, <1>3 DEF EhSendDisconnect, EhShutdown, EhStopRx, EhStopTx, EhPutSocket, EhHandle,
       EhPcs
  <2>2. /\ tcp_socket' \in {"NULL", "open", "shut"}
        /\ tcp_rx' \in 0 .. MaxConn /\ tcp_tx' \in 0 .. MaxConn
    BY <1>3, Bounds DEF TypeOK, EhSendDisconnect, EhShutdown, EhStopRx, EhStopTx, EhPutSocket
  <2>3. UNCHANGED <<status, conn, rx, tx, privVars, unlVars, admVars, hisVars, event>>
    BY <1>3 DEF EhSendDisconnect, EhShutdown, EhStopRx, EhStopTx, EhPutSocket
  <2>. QED  BY <2>1, <2>2, <2>3 DEF TypeOK
<1>4. CASE EhCleanup
  <2>1. eh' \in Threads
    BY <1>1, <1>4 DEF EhCleanup, EhPcs, EhLoopPcs
  <2>2. /\ priv_init' \in SUBSET Privs /\ priv_tx' \in Seq(Privs) /\ priv_free' \in SUBSET Privs
        /\ unlink_tx' \in Seq(Cmds) /\ unlink_free' \in SUBSET Cmds
    <3>1. CASE priv_init' = {} /\ priv_tx' = <<>> /\ priv_free' = {}
               /\ unlink_tx' = <<>> /\ unlink_free' = {}
      BY <3>1
    <3>2. CASE UNCHANGED <<privVars, unlVars>>
      BY <3>2 DEF TypeOK
    <3>. QED  BY <1>4, <3>1, <3>2 DEF EhCleanup
  <2>3. UNCHANGED <<devVars, thrVars, admVars, hisVars, event>>
    BY <1>4 DEF EhCleanup
  <2>. QED  BY <2>1, <2>2, <2>3 DEF TypeOK
<1>5. CASE EhReset \/ EhUnusable
  <2>1. eh' \in Threads
    BY <1>1, <1>5 DEF EhReset, EhUnusable, EhHandle, EhPcs, EhLoopPcs
  <2>. QED  BY <1>5, <2>1 DEF TypeOK, EhReset, EhUnusable
<1>. QED  BY <1>2, <1>3, <1>4, <1>5 DEF EhStep

\* So do the writers of usbip_sockfd and unbind.
LEMMA AdminTypes == ASSUME TypeOK, SockfdStep \/ Admin PROVE TypeOK'
<1>1. 0 \in 0 .. MaxCmd
  BY Bounds
<1>2. CASE SockfdRunRx
  <2>1. rx' \in [Conns -> RxThread]
    BY <1>1, <1>2, RxToType DEF SockfdRunRx
  <2>. QED  BY <1>2, <2>1 DEF TypeOK, SockfdRunRx
<1>3. CASE SockfdRunTx
  <2>1. tx' \in [Conns -> TxThread]
    BY <1>1, <1>3, TxToType DEF SockfdRunTx
  <2>. QED  BY <1>3, <2>1 DEF TypeOK, SockfdRunTx
<1>4. CASE SockfdSetRx \/ SockfdSetTx
  BY <1>4 DEF TypeOK, SockfdSetRx, SockfdSetTx
<1>5. CASE SockfdClaim
  <2>1. conn' \in 0 .. MaxConn
    BY <1>5, Bounds DEF SockfdClaim, TypeOK
  <2>. QED  BY <1>5, <2>1 DEF TypeOK, SockfdClaim
<1>6. CASE DownCheck \/ UnbindBegin
  BY <1>6 DEF TypeOK, DownCheck, UnbindBegin
<1>7. CASE DownEvent \/ UnbindEvent
  <2>1. EventGrows
    BY <1>7, Grows DEF DownEvent, UnbindEvent, Masks
  <2>. QED  BY <1>7, <2>1 DEF TypeOK, DownEvent, UnbindEvent, EventGrows
<1>. QED  BY <1>2, <1>3, <1>4, <1>5, <1>6, <1>7 DEF SockfdStep, Admin

\* Every step keeps the types.
LEMMA TypeStep == TypeOK /\ AnyStep => TypeOK'
<1> SUFFICES ASSUME TypeOK, AnyStep PROVE TypeOK'
  OBVIOUS
<1>1. CASE UNCHANGED vars
  BY <1>1 DEF vars, TypeOK
<1>2. CASE Complete
  <2>1. CompleteEffect
    BY <1>2, StubComplete
  <2>2. event' \in SUBSET EventBits
    BY <2>1 DEF CompleteEffect, EventGrows, TypeOK
  <2>. QED  BY <2>1, <2>2 DEF CompleteEffect, TypeOK
<1>3. CASE EhSendDisconnect \/ EhStep \/ SockfdStep \/ Admin
  BY <1>3, EhTypes, AdminTypes
<1>4. ASSUME NEW c \in Conns, RxEffect(c) PROVE TypeOK'
  <2>1. rx' \in [Conns -> RxThread]
    BY <1>4, RxToType DEF RxEffect
  <2>. QED  BY <1>4, <2>1 DEF RxEffect, EventGrows, HistoryType, TypeOK
<1>5. ASSUME NEW c \in Conns, TxEffect(c) PROVE TypeOK'
  <2>1. tx' \in [Conns -> TxThread]
    BY <1>5, TxToType DEF TxEffect
  <2>. QED  BY <1>5, <2>1 DEF TxEffect, EventGrows, TypeOK
<1>. QED
  BY <1>1, <1>2, <1>3, <1>4, <1>5, RxPduEffect, RxStepEffect, TxSendEffect, TxStepEffect
     DEF Next, AnyStep

\* The device keeps its types, whatever the numbers of commands and
\* connections, and whether or not writes to usbip_sockfd overlap events.
THEOREM TypeCorrect == Spec => []TypeOK
<1>1. Init => TypeOK
  BY TypeInit
<1>2. TypeOK /\ [Next]_vars => TypeOK'
  BY TypeStep DEF AnyStep
<1>. QED  BY <1>1, <1>2, PTL DEF Spec

-----------------------------------------------------------------------------
(* Threads.                                                                *)

\* stub_device_alloc establishes what the threads owe the event thread.
LEMMA ThreadInit == Init => ThreadInv
BY DEF Init, EhInit, ThreadInv, ShutdownFirst, SockfdInv, RunningInv, StoppedInv, RxStopped,
       TxStopped, NoRequests, ThreadEnded

\* More bits, SHUTDOWN among them, or the same ones: the order is kept.
LEMMA GrowKeepsOrder == ASSUME ThreadInv, EventGrows, UNCHANGED eh PROVE ShutdownFirst'
BY DEF ThreadInv, ShutdownFirst, EventGrows

\* While the receiving thread of a connection runs, the device is not free,
\* and the event thread has not stopped it.
LEMMA RxThreads == ASSUME ThreadInv, NEW c \in Conns, RxEffect(c) PROVE ThreadInv'
<1>1. /\ ~ ThreadEnded(rx[c].pc) /\ ~ RxStopped
      /\ UNCHANGED <<status, tcp_socket, conn, tcp_rx, tcp_tx, tx, sockfd, eh>>
  BY DEF RxEffect, RxStopped
<1>2. status # "AVAILABLE" /\ eh.pc \notin AfterStopRx /\ sockfd # "run_rx"
  BY <1>1 DEF ThreadInv, StoppedInv, SockfdInv
<1>3. \A d \in Conns : d # c => rx'[d] = rx[d]
  BY DEF RxEffect, RxTo
<1>4. ShutdownFirst'
  BY <1>1, GrowKeepsOrder DEF RxEffect
<1>5. SockfdInv'
  BY <1>1, <1>2 DEF ThreadInv, SockfdInv, TxStopped
<1>6. RunningInv'
  BY <1>1, <1>3 DEF ThreadInv, RunningInv
<1>7. StoppedInv'
  BY <1>1, <1>2 DEF StoppedInv, AfterStopRx, AfterStopTx, AfterPut, AfterCleanup
<1>. QED  BY <1>4, <1>5, <1>6, <1>7 DEF ThreadInv

\* Likewise the sending thread.
LEMMA TxThreads == ASSUME ThreadInv, NEW c \in Conns, TxEffect(c) PROVE ThreadInv'
<1>1. /\ ~ ThreadEnded(tx[c].pc) /\ ~ TxStopped
      /\ UNCHANGED <<status, tcp_socket, conn, tcp_rx, tcp_tx, rx, sockfd, eh>>
  BY DEF TxEffect, TxStopped
<1>2. status # "AVAILABLE" /\ eh.pc \notin AfterStopTx /\ sockfd \notin {"run_rx", "set_rx", "run_tx"}
  BY <1>1 DEF ThreadInv, StoppedInv, SockfdInv
<1>3. \A d \in Conns : d # c => tx'[d] = tx[d]
  BY DEF TxEffect, TxTo
<1>4. ShutdownFirst'
  BY <1>1, GrowKeepsOrder DEF TxEffect
<1>5. SockfdInv'
  BY <1>1, <1>2 DEF ThreadInv, SockfdInv
<1>6. RunningInv'
  BY <1>1, <1>3 DEF ThreadInv, RunningInv
<1>7. StoppedInv'
  BY <1>1, <1>2 DEF ThreadInv, StoppedInv, RxStopped, AfterStopTx, AfterPut, AfterCleanup
<1>. QED  BY <1>4, <1>5, <1>6, <1>7 DEF ThreadInv

\* A URB completes: there was a request, so the cleanup is still to come.
LEMMA CompleteThreads == ASSUME ThreadInv, CompleteEffect PROVE ThreadInv'
<1>1. /\ ~ NoRequests
      /\ UNCHANGED <<status, tcp_socket, conn, tcp_rx, tcp_tx, rx, sockfd, eh>>
      /\ \A c \in Conns : ThreadEnded(tx'[c].pc) <=> ThreadEnded(tx[c].pc)
  BY DEF CompleteEffect, NoRequests
<1>2. status # "AVAILABLE" /\ eh.pc \notin AfterCleanup
  BY <1>1 DEF ThreadInv, StoppedInv
<1>3. ShutdownFirst'
  BY <1>1, GrowKeepsOrder DEF CompleteEffect
<1>4. RxStopped' = RxStopped /\ TxStopped' = TxStopped
  BY <1>1 DEF RxStopped, TxStopped
<1>5. SockfdInv'
  BY <1>1, <1>4 DEF ThreadInv, SockfdInv
<1>6. RunningInv'
  BY <1>1 DEF ThreadInv, RunningInv
<1>7. StoppedInv'
  BY <1>1, <1>2, <1>4 DEF ThreadInv, StoppedInv
<1>. QED  BY <1>3, <1>5, <1>6, <1>7 DEF ThreadInv

\* The places of the loop before the shutdown is done, or after the end.
Early == {"head", "wait", "handle", "gone"}

\* A step within the loop that keeps the order, and does not pass over a
\* shutdown that is still to be done.
LEMMA LoopStep ==
  ASSUME ThreadInv, ShutdownFirst', sockfd = "idle",
         UNCHANGED <<devVars, thrVars, privVars, unlVars, sockfd>>,
         eh'.pc \in Early \/ (eh.pc \in AfterCleanup /\ eh'.pc \in AfterCleanup)
  PROVE  ThreadInv'
<1>1. SockfdInv' /\ RunningInv'
  BY DEF ThreadInv, SockfdInv, RunningInv
<1>2. StoppedInv'
  BY DEF ThreadInv, StoppedInv, RxStopped, TxStopped, NoRequests, Early, AfterStopRx, AfterStopTx,
     AfterPut, AfterCleanup
<1>. QED  BY <1>1, <1>2 DEF ThreadInv

\* The loop never passes over a shutdown: at the start of a round nothing is
\* pending without it.
LEMMA LoopThreads ==
  ASSUME TypeOK, ThreadInv, ~ SockfdRaces, EhLoop
  PROVE  ThreadInv'
<1> USE DEF ThreadInv, ShutdownFirst, Rest, StoredRest, SockfdInv
<1>1. UNCHANGED <<devVars, thrVars, privVars, unlVars, sockfd>>
  BY DEF EhLoop
<1>2. event \in SUBSET EventBits
  BY DEF TypeOK
<1>3. CASE EhHead(unbind = "done")
  <2>1. eh'.pc \in Early /\ sockfd = "idle" /\ ShutdownFirst'
    BY <1>3 DEF EhHead, EhTo, Early
  <2>. QED  BY <1>1, <2>1, LoopStep
<1>4. CASE EhIdle
  <2>1. eh'.pc \in Early /\ sockfd = "idle" /\ ShutdownFirst'
    BY <1>4 DEF EhIdle, EhTo, Early
  <2>. QED  BY <1>1, <2>1, LoopStep
<1>5. CASE EhSkips
  <2>1. sockfd = "idle"
    BY <1>5 DEF EhSkips, EhSkip
  <2>2. ShutdownFirst'
    BY <1>5 DEF EhSkips, EhSkip, EhTo
  <2>3. eh'.pc \in Early \/ (eh.pc \in AfterCleanup /\ eh'.pc \in AfterCleanup)
    BY <1>5 DEF EhSkips, EhSkip, EhTo, Early, AfterCleanup
  <2>. QED  BY <1>1, <2>1, <2>2, <2>3, LoopStep
<1>6. CASE EhClears
  <2>1. sockfd = "idle"
    BY <1>6 DEF EhClears, EhLoad, EhStore
  <2>2. eh.pc \in AfterCleanup /\ eh'.pc \in AfterCleanup
    BY <1>6 DEF EhClears, EhLoad, EhStore, EhTo, AfterCleanup
  <2>3. ShutdownFirst'
    <3>1. CASE EhLoad("SHUTDOWN", "clear_shutdown", "store_shutdown")
      BY <1>2, <3>1 DEF EhLoad, EventBits
    <3>2. CASE EhLoad("RESET", "clear_reset", "store_reset")
      BY <1>2, <3>2 DEF EhLoad, EventBits
    <3>3. CASE EhLoad("UNUSABLE", "clear_unusable", "store_unusable")
      BY <1>2, <3>3 DEF EhLoad, EventBits
    <3>4. CASE EhStore("store_shutdown", "test_reset")
      BY <3>4 DEF EhStore, EhTo
    <3>5. CASE EhStore("store_reset", "test_unusable")
      BY <3>5 DEF EhStore, EhTo
    <3>6. CASE EhStore("store_unusable", "test_bye")
      BY <3>6 DEF EhStore, EhTo
    <3>. QED  BY <1>6, <3>1, <3>2, <3>3, <3>4, <3>5, <3>6 DEF EhClears
  <2>. QED  BY <1>1, <2>1, <2>2, <2>3, LoopStep
<1>7. CASE EhBye
  <2>1. eh'.pc \in Early /\ sockfd = "idle" /\ ShutdownFirst'
    BY <1>7 DEF EhBye, EhHandle, EhTo, Early
  <2>. QED  BY <1>1, <2>1, LoopStep
<1>8. CASE EhWake(unbind = "done") /\ sockfd = "idle"
  <2>1. eh'.pc \in Early /\ ShutdownFirst'
    BY <1>8 DEF EhWake, EhTo, Early
  <2>. QED  BY <1>1, <1>8, <2>1, LoopStep
<1>. QED  BY <1>3, <1>4, <1>5, <1>6, <1>7, <1>8 DEF EhLoop, EhRound

\* Each step of the shutdown does its part, and the later ones keep it.
LEMMA HandlerThreads ==
  ASSUME TypeOK, ThreadInv,
         \/ EhSendDisconnect \/ EhShutdown \/ EhStopRx \/ EhStopTx \/ EhPutSocket
         \/ EhCleanup \/ EhReset \/ EhUnusable
  PROVE  ThreadInv'
<1> USE DEF ThreadInv, ShutdownFirst, Rest, StoredRest, EhTo
<1>1. /\ eh.pc \in {"handle", "shut", "stop_rx", "stop_tx", "put", "cleanup", "test_reset",
                    "test_unusable"}
      /\ UNCHANGED <<conn, rx, tx, sockfd, event>>
  BY DEF EhSendDisconnect, EhShutdown, EhStopRx, EhStopTx, EhPutSocket, EhCleanup, EhReset,
     EhUnusable, EhHandle
<1>2. sockfd = "idle"
  BY <1>1 DEF SockfdInv
<1>3. SockfdInv' /\ RxStopped' = RxStopped /\ TxStopped' = TxStopped
  BY <1>1, <1>2 DEF SockfdInv, RxStopped, TxStopped
<1> USE DEF StoppedInv, NoRequests, AfterStopRx, AfterStopTx, AfterPut, AfterCleanup
<1>4. CASE EhSendDisconnect \/ EhShutdown
  <2>1. ShutdownFirst'
    BY <1>4 DEF EhSendDisconnect, EhShutdown, EhHandle
  <2>2. RunningInv'
    BY <1>4 DEF EhSendDisconnect, EhShutdown, RunningInv
  <2>3. StoppedInv'
    BY <1>3, <1>4 DEF EhSendDisconnect, EhShutdown, EhHandle
  <2>. QED  BY <1>3, <2>1, <2>2, <2>3
<1>5. CASE EhStopRx
  <2>1. RxStopped
    BY <1>2, <1>5 DEF EhStopRx, RunningInv, RxStopped, ThreadEnded, Conns
  <2>2. ShutdownFirst' /\ RunningInv'
    BY <1>5, <2>1 DEF EhStopRx, RunningInv, RxStopped
  <2>3. StoppedInv'
    BY <1>3, <1>5, <2>1 DEF EhStopRx
  <2>. QED  BY <1>3, <2>2, <2>3
<1>6. CASE EhStopTx
  <2>1. TxStopped
    BY <1>2, <1>6 DEF EhStopTx, RunningInv, TxStopped, ThreadEnded, Conns
  <2>2. ShutdownFirst' /\ RunningInv'
    BY <1>6, <2>1 DEF EhStopTx, RunningInv, TxStopped
  <2>3. StoppedInv'
    BY <1>3, <1>6, <2>1 DEF EhStopTx
  <2>. QED  BY <1>3, <2>2, <2>3
<1>7. CASE EhPutSocket
  <2>1. ShutdownFirst' /\ RunningInv'
    BY <1>7 DEF EhPutSocket, RunningInv
  <2>2. StoppedInv'
    BY <1>3, <1>7 DEF EhPutSocket
  <2>. QED  BY <1>3, <2>1, <2>2
<1>8. CASE EhCleanup
  <2>1. ShutdownFirst' /\ RunningInv'
    BY <1>8 DEF EhCleanup, RunningInv
  <2>2. StoppedInv'
    BY <1>3, <1>8 DEF EhCleanup
  <2>. QED  BY <1>3, <2>1, <2>2
<1>9. CASE EhReset \/ EhUnusable
  <2>1. ShutdownFirst' /\ RunningInv'
    BY <1>9 DEF EhReset, EhUnusable, EhHandle, RunningInv
  <2>2. StoppedInv'
    BY <1>3, <1>9 DEF EhReset, EhUnusable, EhHandle
  <2>. QED  BY <1>3, <2>1, <2>2
<1>. QED  BY <1>4, <1>5, <1>6, <1>7, <1>8, <1>9

\* A connection is given to a device that is free, while the event thread
\* waits, and told to the event thread before it wakes up.
LEMMA SockfdThreads ==
  ASSUME TypeOK, ThreadInv, ~ SockfdRaces, SockfdClaim \/ SockfdStep
  PROVE  ThreadInv'
<1> USE DEF ThreadInv, SockfdInv, RunningInv, StoppedInv, RxStopped, TxStopped, AfterStopRx,
            AfterStopTx, AfterPut, AfterCleanup
<1>1. UNCHANGED <<eh, event>>
  BY DEF SockfdClaim, SockfdStep, SockfdRunRx, SockfdSetRx, SockfdRunTx, SockfdSetTx
<1>2. ShutdownFirst'
  BY <1>1 DEF ShutdownFirst
<1>3. CASE SockfdClaim
  BY <1>2, <1>3 DEF SockfdClaim
<1>4. CASE SockfdRunRx
  BY <1>2, <1>4 DEF SockfdRunRx, RxTo
<1>5. CASE SockfdSetRx
  BY <1>2, <1>5 DEF SockfdSetRx
<1>6. CASE SockfdRunTx
  BY <1>2, <1>6 DEF SockfdRunTx, TxTo
<1>7. CASE SockfdSetTx
  BY <1>2, <1>7 DEF SockfdSetTx
<1>. QED  BY <1>3, <1>4, <1>5, <1>6, <1>7 DEF SockfdStep

\* A "-1" and the unbind only raise events.
LEMMA AdminThreads ==
  ASSUME ThreadInv, DownCheck \/ DownEvent \/ UnbindBegin \/ UnbindEvent
  PROVE  ThreadInv'
<1>1. EventGrows /\ UNCHANGED <<devVars, thrVars, privVars, unlVars, sockfd, eh>>
  BY Grows DEF DownCheck, DownEvent, UnbindBegin, UnbindEvent, Masks
<1>2. ShutdownFirst'
  BY <1>1, GrowKeepsOrder
<1>. QED
  BY <1>1, <1>2 DEF ThreadInv, SockfdInv, RunningInv, StoppedInv, RxStopped, TxStopped, NoRequests

\* Every step keeps it, when no write to usbip_sockfd overlaps an event.
LEMMA ThreadStep == ~ SockfdRaces /\ TypeOK /\ ThreadInv /\ AnyStep => ThreadInv'
<1> SUFFICES ASSUME ~ SockfdRaces, TypeOK, ThreadInv, AnyStep PROVE ThreadInv'
  OBVIOUS
<1>1. CASE UNCHANGED vars
  BY <1>1 DEF vars, ThreadInv, ShutdownFirst, SockfdInv, RunningInv, StoppedInv, RxStopped,
     TxStopped, NoRequests
<1>2. CASE Complete
  BY <1>2, StubComplete, CompleteThreads
<1>3. CASE EhSendDisconnect \/ EhStep
  BY <1>3, LoopThreads, HandlerThreads DEF EhStep
<1>4. CASE SockfdStep \/ Admin
  BY <1>4, SockfdThreads, AdminThreads DEF Admin
<1>5. ASSUME NEW c \in Conns, RxBad(c) \/ RxPdu(c) \/ AnyPdu(c) \/ RxStep(c) PROVE ThreadInv'
  BY <1>5, RxPduEffect, RxStepEffect, RxThreads
<1>6. ASSUME NEW c \in Conns, TxSend(c) \/ TxStep(c) PROVE ThreadInv'
  BY <1>6, TxSendEffect, TxStepEffect, TxThreads
<1>. QED  BY <1>1, <1>2, <1>3, <1>4, <1>5, <1>6 DEF Next, AnyStep

-----------------------------------------------------------------------------
(* Counting replies.                                                       *)

\* The stub_privs of a finite set with one number: their count is a number,
\* and falls when one of them is taken away.
LEMMA NumberedRemove ==
  ASSUME NEW S, IsFiniteSet(S), NEW p, NEW n
  PROVE  /\ IsFiniteSet(S \ {p}) /\ Numbered(n, S) \in Nat
         /\ Numbered(n, S \ {p}) = IF p \in S /\ p.seqnum = n THEN Numbered(n, S) - 1
                                                              ELSE Numbered(n, S)
<1> DEFINE T == {q \in S : q.seqnum = n}
<1>1. IsFiniteSet(T) /\ IsFiniteSet(S \ {p})
  BY FS_Subset
<1>2. {q \in S \ {p} : q.seqnum = n} = T \ {p}
  OBVIOUS
<1>3. p \in T <=> p \in S /\ p.seqnum = n
  OBVIOUS
<1> HIDE DEF T
<1>4. Cardinality(T) \in Nat
  BY <1>1, FS_CardinalityType
<1>5. Cardinality(T \ {p}) = IF p \in T THEN Cardinality(T) - 1 ELSE Cardinality(T)
  BY <1>1, FS_RemoveElement
<1>. QED  BY <1>1, <1>2, <1>3, <1>4, <1>5 DEF Numbered, T

\* One more stub_priv is one more with its number.
LEMMA NumberedAdd ==
  ASSUME NEW S, IsFiniteSet(S), NEW p, p \notin S, NEW n
  PROVE  /\ IsFiniteSet(S \cup {p}) /\ Numbered(n, S \cup {p}) \in Nat
         /\ Numbered(n, S \cup {p}) = Numbered(n, S) + (IF p.seqnum = n THEN 1 ELSE 0)
<1> DEFINE T == {q \in S : q.seqnum = n}
<1>1. IsFiniteSet(T) /\ IsFiniteSet(S \cup {p}) /\ p \notin T
  BY FS_Subset, FS_AddElement
<1>2. {q \in S \cup {p} : q.seqnum = n} = IF p.seqnum = n THEN T \cup {p} ELSE T
  OBVIOUS
<1> HIDE DEF T
<1>3. Cardinality(T) \in Nat
  BY <1>1, FS_CardinalityType
<1>4. Cardinality(T \cup {p}) = Cardinality(T) + 1
  BY <1>1, FS_AddElement
<1>5. Numbered(n, S) = Cardinality(T)
  BY DEF Numbered, T
<1>6. Numbered(n, S \cup {p}) = IF p.seqnum = n THEN Cardinality(T \cup {p}) ELSE Cardinality(T)
  BY <1>2 DEF Numbered
<1>. QED  BY <1>1, <1>3, <1>4, <1>5, <1>6

\* A stub_priv with a number counts.
LEMMA NumberedSome ==
  ASSUME NEW S, IsFiniteSet(S), NEW p \in S
  PROVE  Numbered(p.seqnum, S) # 0
<1>1. IsFiniteSet(S \ {p})
  BY NumberedRemove
<1>2. Numbered(p.seqnum, S \ {p}) \in Nat
  BY <1>1, NumberedRemove
<1>3. Numbered(p.seqnum, S \ {p}) = Numbered(p.seqnum, S) - 1 /\ Numbered(p.seqnum, S) \in Nat
  BY NumberedRemove
<1>. QED  BY <1>2, <1>3

\* Changing stub_privs, but not their numbers, makes none with a number more,
\* and does not make the last one go.
LEMMA NumberedMap ==
  ASSUME NEW S, IsFiniteSet(S), NEW f, DOMAIN f = S, f = [p \in S |-> f[p]],
         \A p \in S : f[p].seqnum = p.seqnum, NEW n
  PROVE  /\ IsFiniteSet({f[p] : p \in S}) /\ Numbered(n, {f[p] : p \in S}) \in Nat
         /\ Numbered(n, {f[p] : p \in S}) <= Numbered(n, S)
         /\ Numbered(n, S) # 0 => Numbered(n, {f[p] : p \in S}) # 0
<1> DEFINE R == {f[p] : p \in S}
           Sn == {p \in S : p.seqnum = n}
           Rn == {p \in R : p.seqnum = n}
           g == [p \in Sn |-> f[p]]
<1>1. f \in Surjection(S, R)
  BY DEF Surjection
<1>2. IsFiniteSet(R)
  <2> HIDE DEF R
  <2>. QED  BY <1>1, FS_Surjection
<1>3. g \in Surjection(Sn, Rn)
  BY DEF Surjection
<1>4. IsFiniteSet(Sn) /\ IsFiniteSet(Rn)
  BY <1>2, FS_Subset
<1>5. Sn # {} => Rn # {}
  OBVIOUS
<1> HIDE DEF g, Sn, Rn, R
<1>6. Cardinality(Rn) <= Cardinality(Sn) /\ Cardinality(Rn) \in Nat
  BY <1>3, <1>4, FS_Surjection, FS_CardinalityType
<1>7. Cardinality(Sn) # 0 => Cardinality(Rn) # 0
  BY <1>4, <1>5, FS_EmptySet
<1>. QED  BY <1>2, <1>6, <1>7 DEF Numbered, R, Sn, Rn

\* A queue of numbers holds a number so many times; one that is appended comes
\* on top, the head that is taken goes.
LEMMA CopiesQueue ==
  ASSUME NEW s \in Seq(Nat), NEW n
  PROVE  /\ Copies(n, s) \in Nat
         /\ \A x \in Nat : Copies(n, Append(s, x)) = Copies(n, s) + (IF x = n THEN 1 ELSE 0)
         /\ s # <<>> => Copies(n, Tail(s)) = Copies(n, s) - (IF Head(s) = n THEN 1 ELSE 0)
<1> DEFINE At(t) == {i \in DOMAIN t : t[i] = n}
<1>1. DOMAIN s = 1 .. Len(s) /\ Len(s) \in Nat
  OBVIOUS
<1>2. IsFiniteSet(At(s)) /\ Cardinality(At(s)) \in Nat
  <2>1. IsFiniteSet(1 .. Len(s)) /\ At(s) \in SUBSET (1 .. Len(s))
    BY <1>1, FS_Interval
  <2> HIDE DEF At
  <2>. QED  BY <2>1, FS_Subset, FS_CardinalityType
<1>3. ASSUME NEW x \in Nat
      PROVE  Copies(n, Append(s, x)) = Copies(n, s) + (IF x = n THEN 1 ELSE 0)
  <2>1. At(Append(s, x)) = IF x = n THEN At(s) \cup {Len(s) + 1} ELSE At(s)
    BY <1>1
  <2>2. Len(s) + 1 \notin At(s)
    BY <1>1
  <2> HIDE DEF At
  <2>3. Cardinality(At(s) \cup {Len(s) + 1}) = Cardinality(At(s)) + 1
    BY <1>2, <2>2, FS_AddElement
  <2>4. Copies(n, Append(s, x)) = Cardinality(At(Append(s, x))) /\ Copies(n, s) = Cardinality(At(s))
    BY DEF Copies, At
  <2>. QED  BY <1>2, <2>1, <2>3, <2>4
<1>4. ASSUME s # <<>>
      PROVE  Copies(n, Tail(s)) = Copies(n, s) - (IF Head(s) = n THEN 1 ELSE 0)
  <2> DEFINE back == [i \in At(Tail(s)) |-> i + 1]
  <2>1. /\ Len(s) >= 1 /\ DOMAIN Tail(s) = 1 .. Len(s) - 1
        /\ \A i \in DOMAIN Tail(s) : Tail(s)[i] = s[i + 1]
    BY <1>1, <1>4
  <2>2. Head(s) = s[1]
    OBVIOUS
  <2>3. back \in Bijection(At(Tail(s)), At(s) \ {1})
    <3>1. \A i \in At(Tail(s)) : i \in Int /\ i + 1 \in At(s) \ {1}
      BY <1>1, <2>1
    <3>2. back \in Injection(At(Tail(s)), At(s) \ {1})
      BY <3>1 DEF Injection, IsInjective
    <3>3. ASSUME NEW j \in At(s) \ {1}
          PROVE  \E i \in At(Tail(s)) : back[i] = j
      <4>1. j \in 2 .. Len(s) /\ s[j] = n
        BY <1>1, <3>3
      <4>2. j - 1 \in At(Tail(s)) /\ (j - 1) + 1 = j
        BY <1>1, <2>1, <4>1
      <4>. QED  BY <4>2
    <3>. QED  BY <3>1, <3>2, <3>3 DEF Bijection, Surjection
  <2>4. 1 \in At(s) <=> Head(s) = n
    BY <1>1, <2>1, <2>2
  <2> HIDE DEF back, At
  <2>5. IsFiniteSet(At(s) \ {1})
    BY <1>2, FS_RemoveElement
  <2>6. Cardinality(At(Tail(s))) = Cardinality(At(s) \ {1})
    BY <2>3, <2>5, FS_Surjection, FS_Injection DEF Bijection
  <2>7. Cardinality(At(s) \ {1}) = IF 1 \in At(s) THEN Cardinality(At(s)) - 1 ELSE Cardinality(At(s))
    BY <1>2, FS_RemoveElement
  <2>8. Copies(n, Tail(s)) = Cardinality(At(Tail(s))) /\ Copies(n, s) = Cardinality(At(s))
    BY DEF Copies, At
  <2>. QED  BY <1>2, <2>4, <2>6, <2>7, <2>8
<1>. QED  BY <1>2, <1>3, <1>4 DEF Copies

\* The numbers of a queue of stub_privs are a queue of numbers.
LEMMA NumbersQueue ==
  ASSUME NEW s \in Seq(Privs)
  PROVE  /\ Numbers(s) \in Seq(Nat)
         /\ \A p \in Privs : Numbers(Append(s, p)) = Append(Numbers(s), p.seqnum)
         /\ s # <<>> => /\ Numbers(s) # <<>> /\ Head(Numbers(s)) = Head(s).seqnum
                        /\ Numbers(Tail(s)) = Tail(Numbers(s))
<1>1. \A p \in Privs : p.seqnum \in Nat
  BY Bounds DEF Privs, Cmds
<1>2. Len(s) \in Nat /\ DOMAIN s = 1 .. Len(s) /\ \A i \in DOMAIN s : s[i] \in Privs
  OBVIOUS
<1>3. Numbers(s) \in Seq(Nat) /\ Len(Numbers(s)) = Len(s) /\ DOMAIN Numbers(s) = 1 .. Len(s)
  BY <1>1, <1>2 DEF Numbers
<1>4. ASSUME NEW p \in Privs PROVE Numbers(Append(s, p)) = Append(Numbers(s), p.seqnum)
  <2>1. p.seqnum \in Nat
    BY <1>1
  <2>2. DOMAIN Numbers(Append(s, p)) = 1 .. Len(s) + 1
    BY DEF Numbers
  <2>3. \A i \in 1 .. Len(s) + 1 : Numbers(Append(s, p))[i] = Append(Numbers(s), p.seqnum)[i]
    BY <1>2, <1>3, <2>1 DEF Numbers
  <2>4. Append(Numbers(s), p.seqnum) = [i \in 1 .. Len(s) + 1 |-> Append(Numbers(s), p.seqnum)[i]]
    BY <1>3, <2>1
  <2>5. Numbers(Append(s, p)) = [i \in 1 .. Len(s) + 1 |-> Numbers(Append(s, p))[i]]
    BY <2>2 DEF Numbers
  <2>. QED  BY <2>3, <2>4, <2>5
<1>5. ASSUME s # <<>> 
      PROVE  /\ Numbers(s) # <<>> /\ Head(Numbers(s)) = Head(s).seqnum
             /\ Numbers(Tail(s)) = Tail(Numbers(s))
  <2>1. Len(s) >= 1
    BY <1>2, <1>5
  <2>2. Numbers(s) # <<>> /\ Head(Numbers(s)) = Head(s).seqnum
    BY <1>2, <1>3, <2>1 DEF Numbers
  <2>3. Tail(Numbers(s)) = [i \in 1 .. Len(s) - 1 |-> Numbers(s)[i + 1]]
    <3> DEFINE t == Tail(Numbers(s))
    <3>1. t \in Seq(Nat) /\ Len(t) = Len(s) - 1 /\ \A i \in 1 .. Len(t) : t[i] = Numbers(s)[i + 1]
      BY <1>3, <2>1, <2>2, HeadTailProperties
    <3> HIDE DEF t
    <3>2. t = [i \in 1 .. Len(t) |-> t[i]]
      BY <3>1
    <3>. QED  BY <3>1, <3>2 DEF t
  <2>4. DOMAIN Tail(s) = 1 .. Len(s) - 1 /\ \A i \in 1 .. Len(s) - 1 : Tail(s)[i] = s[i + 1]
    BY <1>2, <2>1
  <2>5. \A i \in 1 .. Len(s) - 1 : i + 1 \in DOMAIN s
    BY <1>2
  <2>. QED  BY <2>2, <2>3, <2>4, <2>5 DEF Numbers
<1>. QED  BY <1>3, <1>4, <1>5

\* A thread that takes another number gives its own up.
LEMMA SendersStep ==
  ASSUME NEW t \in [Conns -> TxThread], NEW v \in [Conns -> TxThread], NEW c \in Conns,
         \A d \in Conns \ {c} : v[d] = t[d], NEW n
  PROVE  /\ Senders(n, t) \in Nat /\ Senders(n, v) \in Nat
         /\ Senders(n, v) = Senders(n, t) - (IF t[c].seqnum = n THEN 1 ELSE 0)
                                         + (IF v[c].seqnum = n THEN 1 ELSE 0)
<1> DEFINE T == {d \in Conns : t[d].seqnum = n}
           V == {d \in Conns : v[d].seqnum = n}
<1>1. IsFiniteSet(T) /\ IsFiniteSet(V)
  <2>1. IsFiniteSet(Conns) /\ T \in SUBSET Conns /\ V \in SUBSET Conns
    BY Bounds, FS_Interval DEF Conns
  <2> HIDE DEF T, V
  <2>. QED  BY <2>1, FS_Subset
<1>2. T \ {c} = V \ {c}
  OBVIOUS
<1>3. (c \in T <=> t[c].seqnum = n) /\ (c \in V <=> v[c].seqnum = n)
  OBVIOUS
<1> HIDE DEF T, V
<1>4. Cardinality(T) \in Nat /\ Cardinality(V) \in Nat
  BY <1>1, FS_CardinalityType
<1>5. /\ Cardinality(T \ {c}) = IF c \in T THEN Cardinality(T) - 1 ELSE Cardinality(T)
      /\ Cardinality(V \ {c}) = IF c \in V THEN Cardinality(V) - 1 ELSE Cardinality(V)
  BY <1>1, FS_RemoveElement
<1>6. Cardinality(T \ {c}) = Cardinality(V \ {c})
  BY <1>2, Zenon
<1>7. Senders(n, t) = Cardinality(T) /\ Senders(n, v) = Cardinality(V)
  BY DEF Senders, T, V
<1>8. Cardinality(V) = Cardinality(T) - (IF c \in T THEN 1 ELSE 0) + (IF c \in V THEN 1 ELSE 0)
  BY <1>4, <1>5, <1>6
<1>. QED  BY <1>3, <1>4, <1>7, <1>8

\* Every part of Replies is a number.
LEMMA CountTypes ==
  ASSUME TypeOK, IsFiniteSet(priv_init), NEW n \in Cmds
  PROVE  /\ Numbered(n, priv_init) \in Nat /\ Copies(n, Numbers(priv_tx)) \in Nat
         /\ Copies(n, unlink_tx) \in Nat /\ Senders(n, tx) \in Nat /\ answered[n] \in Nat
<1>1. Numbers(priv_tx) \in Seq(Nat) /\ unlink_tx \in Seq(Nat)
  BY NumbersQueue, Bounds DEF TypeOK, Cmds
<1>2. 1 \in Conns
  BY Bounds DEF Conns
<1>. QED  BY <1>1, <1>2, NumberedRemove, CopiesQueue, SendersStep DEF TypeOK

\* A step adds a reply to a number only for the command that it receives, and,
\* as long as nothing goes wrong, takes none away.
JustReceived(n) == IF n \in ReceivedNumbers' \ ReceivedNumbers THEN 1 ELSE 0
Carried ==
  \A n \in Cmds : /\ Replies(n) \in Nat /\ Replies(n)' \in Nat
                  /\ Replies(n)' <= Replies(n) + JustReceived(n)
                  /\ event' = {} => Replies(n)' = Replies(n) + JustReceived(n)

\* If nothing goes wrong, every reply stays due.
Kept == event' = {} /\ AllDue => AllDue'

\* Such a step, if it also forgets no command, keeps the number of replies.
LEMMA CarriedKeeps ==
  ASSUME TypeOK', ReplyInv, IsFiniteSet(priv_init'), RenumberedInv', SendingInv',
         received \subseteq received', Carried
  PROVE  ReplyInv' /\ Kept
<1>1. ReceivedNumbers \subseteq ReceivedNumbers' /\ ReceivedNumbers' \subseteq Cmds
  BY DEF ReceivedNumbers, TypeOK
<1>2. ASSUME NEW n \in Cmds PROVE Replies(n)' <= (IF n \in ReceivedNumbers' THEN 1 ELSE 0)
  <2>1. Replies(n) <= (IF n \in ReceivedNumbers THEN 1 ELSE 0)
    BY DEF ReplyInv, ReplyAtMostOnce
  <2>. QED  BY <1>1, <2>1 DEF Carried, JustReceived
<1>3. ASSUME event' = {}, AllDue, NEW n \in ReceivedNumbers' PROVE Replies(n)' = 1
  <2>1. n \in Cmds
    BY <1>1
  <2>2. CASE n \in ReceivedNumbers
    BY <1>3, <2>1, <2>2 DEF AllDue, Carried, JustReceived
  <2>3. CASE n \notin ReceivedNumbers
    <3>1. Replies(n) = 0
      BY <2>1, <2>3 DEF Carried, ReplyInv, ReplyAtMostOnce
    <3>. QED  BY <1>3, <2>1, <2>3, <3>1 DEF Carried, JustReceived
  <2>. QED  BY <2>2, <2>3
<1>4. ReplyAtMostOnce' /\ Kept
  BY <1>2, <1>3 DEF ReplyAtMostOnce, Kept, AllDue
<1>. QED  BY <1>4 DEF ReplyInv

\* A command that is received is the only one.
LEMMA OneReceived ==
  ASSUME NEW n \in Cmds \ ReceivedNumbers, NEW target,
         received' = received \cup {[n |-> n, target |-> target]}
  PROVE  \A m : JustReceived(m) = IF m = n THEN 1 ELSE 0
<1>1. [n |-> n, target |-> target].n = n
  OBVIOUS
<1>2. ReceivedNumbers' = ReceivedNumbers \cup {n}
  BY <1>1, Zenon DEF ReceivedNumbers
<1>. QED  BY <1>2 DEF JustReceived

\* There is at most one stub_priv with a number, and then the number was not
\* given up.
LEMMA AtMostOne ==
  ASSUME TypeOK, ReplyInv, NEW n \in Cmds
  PROVE  /\ Numbered(n, priv_init) \in {0, 1}
         /\ Numbered(n, priv_init) # 0 => n \notin superseded
<1>1. Replies(n) <= 1
  <2>1. Replies(n) <= 0 \/ Replies(n) <= 1
    BY DEF ReplyInv, ReplyAtMostOnce
  <2>2. Replies(n) \in Nat
    BY CountTypes DEF ReplyInv, Replies
  <2>. QED  BY <2>1, <2>2
<1>. QED  BY <1>1, CountTypes DEF ReplyInv, Replies

\* A command that was not received has no reply anywhere.
LEMMA NewNumber ==
  ASSUME TypeOK, ReplyInv, NEW n \in Cmds \ ReceivedNumbers
  PROVE  \A p \in priv_init : p.seqnum # n
<1>1. IsFiniteSet(priv_init) /\ Replies(n) <= 0
  BY DEF ReplyInv, ReplyAtMostOnce
<1>2. Numbered(n, priv_init) = 0
  BY <1>1, CountTypes DEF Replies
<1>. QED  BY <1>1, <1>2, NumberedSome

\* A thread that goes on without a number gives no reply.
LEMMA NoNumber ==
  ASSUME TypeOK, NEW c, NEW pc \in {"top", "submit", "unlink", "wait", "asleep", "done"}, TxTo(c, pc, 0),
         NEW n \in Cmds
  PROVE  /\ Senders(n, tx') \in Nat
         /\ Senders(n, tx') = Senders(n, tx) - (IF c \in Conns /\ tx[c].seqnum = n THEN 1 ELSE 0)
<1>1. n # 0 /\ 1 \in Conns /\ [pc |-> pc, seqnum |-> 0] \in TxThread
  BY Bounds DEF Cmds, Conns, TxThread
<1>2. tx \in [Conns -> TxThread] /\ tx' \in [Conns -> TxThread]
  BY <1>1 DEF TypeOK, TxTo
<1>3. CASE c \in Conns
  <2>1. tx'[c].seqnum = 0 /\ \A d \in Conns \ {c} : tx'[d] = tx[d]
    BY <1>3 DEF TxTo, TypeOK
  <2>2. /\ Senders(n, tx) \in Nat /\ Senders(n, tx') \in Nat
        /\ Senders(n, tx') = Senders(n, tx) - (IF tx[c].seqnum = n THEN 1 ELSE 0)
                                           + (IF tx'[c].seqnum = n THEN 1 ELSE 0)
    BY <1>2, <1>3, <2>1, SendersStep
  <2>. QED  BY <1>1, <1>3, <2>1, <2>2
<1>4. CASE c \notin Conns
  <2>1. tx' = tx
    BY <1>4 DEF TxTo, TypeOK
  <2>2. Senders(n, tx) \in Nat
    BY <1>1, <1>2, SendersStep
  <2>. QED  BY <1>4, <2>1, <2>2
<1>. QED  BY <1>3, <1>4

\* A RET_UNLINK is queued once, or, when something goes wrong, not at all.
LEMMA RetUnlinkReplies ==
  ASSUME TypeOK, NEW n \in Cmds, stub_enqueue_ret_unlink(n), NEW m \in Cmds
  PROVE  /\ Copies(m, unlink_tx') \in Nat
         /\ Copies(m, unlink_tx') <= Copies(m, unlink_tx) + (IF m = n THEN 1 ELSE 0)
         /\ event' = {} => Copies(m, unlink_tx') = Copies(m, unlink_tx) + (IF m = n THEN 1 ELSE 0)
<1>1. unlink_tx \in Seq(Nat) /\ n \in Nat
  BY Bounds DEF TypeOK, Cmds
<1>2. unlink_tx' = Append(unlink_tx, n) \/ (unlink_tx' = unlink_tx /\ event' # {})
  BY DEF stub_enqueue_ret_unlink, usbip_event_add, VDEV_EVENT_ERROR_MALLOC
<1>3. unlink_tx' \in Seq(Nat)
  BY <1>1, <1>2
<1>4. Copies(m, unlink_tx') \in Nat /\ Copies(m, unlink_tx) \in Nat
  BY <1>1, <1>3, CopiesQueue
<1>5. CASE unlink_tx' = Append(unlink_tx, n)
  <2>1. Copies(m, Append(unlink_tx, n)) = Copies(m, unlink_tx) + (IF n = m THEN 1 ELSE 0)
    BY <1>1, CopiesQueue
  <2>. QED  BY <1>4, <1>5, <2>1
<1>6. CASE unlink_tx' = unlink_tx /\ event' # {}
  BY <1>4, <1>6
<1>. QED  BY <1>2, <1>5, <1>6

\* A URB that is set up, submitted or unlinked leaves the numbers alone.
LEMMA SetUrbReplies ==
  ASSUME TypeOK, ReplyInv, NEW k, NEW urb, SetUrb(k, urb)
  PROVE  /\ IsFiniteSet(priv_init')
         /\ \A n \in Cmds : Numbered(n, priv_init') = Numbered(n, priv_init)
         /\ \A q \in priv_init' : \E p \in priv_init :
              q.cmd = p.cmd /\ q.seqnum = p.seqnum /\ q.unlinking = p.unlinking
<1> DEFINE f == [p \in priv_init |-> IF p.cmd = k THEN [p EXCEPT !.urb = urb] ELSE p]
<1>1. ASSUME NEW p \in priv_init
      PROVE  f[p].cmd = p.cmd /\ f[p].seqnum = p.seqnum /\ f[p].unlinking = p.unlinking
  BY DEF TypeOK, Privs
<1>2. priv_init' = {f[p] : p \in priv_init}
  BY DEF SetUrb
<1>3. f = [p \in priv_init |-> f[p]] /\ DOMAIN f = priv_init
  OBVIOUS
<1>4. IsFiniteSet(priv_init)
  BY DEF ReplyInv
<1> HIDE DEF f
<1>5. ASSUME NEW n
      PROVE  /\ IsFiniteSet({f[p] : p \in priv_init}) /\ Numbered(n, {f[p] : p \in priv_init}) \in Nat
             /\ Numbered(n, {f[p] : p \in priv_init}) <= Numbered(n, priv_init)
             /\ Numbered(n, priv_init) # 0 => Numbered(n, {f[p] : p \in priv_init}) # 0
  BY <1>1, <1>3, <1>4, NumberedMap
<1>6. \A q \in priv_init' : \E p \in priv_init : q = f[p]
  BY <1>2
<1>7. IsFiniteSet(priv_init')
  BY <1>2, <1>5
<1>8. ASSUME NEW n \in Cmds PROVE Numbered(n, priv_init') = Numbered(n, priv_init)
  <2>1. Numbered(n, priv_init) \in {0, 1}
    BY AtMostOne
  <2>2. /\ Numbered(n, priv_init') \in Nat /\ Numbered(n, priv_init') <= Numbered(n, priv_init)
        /\ Numbered(n, priv_init) # 0 => Numbered(n, priv_init') # 0
    BY <1>2, <1>5
  <2>. QED  BY <2>1, <2>2
<1>. QED  BY <1>1, <1>6, <1>7, <1>8

-----------------------------------------------------------------------------
(* No command has two replies.                                             *)

\* A step that leaves the numbers where they are.
LEMMA Elsewhere ==
  ASSUME ReplyInv, UNCHANGED <<tx, priv_init, priv_tx, unlink_tx, hisVars>>
  PROVE  ReplyInv' /\ Kept
BY DEF ReplyInv, RenumberedInv, SendingInv, ReplyAtMostOnce, Replies, ReceivedNumbers, Kept, AllDue

\* The receiving thread sets URBs up and unlinks them without touching a
\* number.
LEMMA RxStepReplies ==
  ASSUME TypeOK, TypeOK', ReplyInv, NEW c \in Conns, RxEffect(c), RxSetsUp
  PROVE  ReplyInv' /\ Kept
<1>1. UNCHANGED <<tx, priv_tx, unlink_tx, received, answered, superseded>>
  BY DEF RxEffect, RxSetsUp
<1>2. CASE UNCHANGED priv_init
  BY <1>1, <1>2, Elsewhere
<1>3. ASSUME NEW k, NEW urb, SetUrb(k, urb) PROVE ReplyInv' /\ Kept
  <2>1. IsFiniteSet(priv_init')
    BY <1>3, SetUrbReplies
  <2>2. RenumberedInv'
    BY <1>1, <1>3, SetUrbReplies DEF ReplyInv, RenumberedInv
  <2>3. SendingInv'
    BY <1>1 DEF ReplyInv, SendingInv
  <2>4. ASSUME NEW n \in Cmds PROVE Replies(n) \in Nat /\ Replies(n)' = Replies(n) /\ JustReceived(n) = 0
    <3>1. Numbered(n, priv_init') = Numbered(n, priv_init)
      BY <1>3, SetUrbReplies
    <3>. QED  BY <1>1, <3>1, CountTypes DEF ReplyInv, Replies, JustReceived, ReceivedNumbers
  <2>5. Carried
    BY <2>4 DEF Carried
  <2>. QED  BY <1>1, <2>1, <2>2, <2>3, <2>5, CarriedKeeps
<1>. QED  BY <1>2, <1>3 DEF RxSetsUp

\* A CMD_SUBMIT has a number that was not received before: its stub_priv is
\* the first with this number.
LEMMA RxCmdSubmitReplies ==
  ASSUME TypeOK, TypeOK', ReplyInv, NEW c \in Conns, NEW n \in Cmds \ ReceivedNumbers,
         RxCmdSubmit(c, n)
  PROVE  ReplyInv' /\ Kept
<1> DEFINE p == [cmd |-> n, seqnum |-> n, unlinking |-> FALSE, urb |-> "none"]
<1>1. UNCHANGED <<tx, priv_tx, unlink_tx, answered, superseded>>
  BY DEF RxCmdSubmit
<1>2. received' = received \cup {[n |-> n, target |-> 0]}
  BY DEF RxCmdSubmit
<1>3. priv_init' = priv_init \cup {p} \/ (priv_init' = priv_init /\ event' # {})
  BY DEF RxCmdSubmit, usbip_event_add, SDEV_EVENT_ERROR_MALLOC
<1>4. \A m \in Cmds : JustReceived(m) = IF m = n THEN 1 ELSE 0
  BY <1>2, OneReceived
<1>5. p \notin priv_init /\ p.seqnum = n
  BY NewNumber
<1>6. RenumberedInv'
  BY <1>2, <1>3 DEF ReplyInv, RenumberedInv
<1> HIDE DEF p
<1>7. IsFiniteSet(priv_init) /\ IsFiniteSet(priv_init')
  BY <1>3, <1>5, NumberedAdd DEF ReplyInv
<1>8. SendingInv'
  BY <1>1 DEF ReplyInv, SendingInv
<1>9. ASSUME NEW m \in Cmds
      PROVE  /\ Replies(m) \in Nat /\ Replies(m)' \in Nat
             /\ Replies(m)' <= Replies(m) + JustReceived(m)
             /\ event' = {} => Replies(m)' = Replies(m) + JustReceived(m)
  <2>1. /\ Numbered(m, priv_init') \in Nat /\ Numbered(m, priv_init) \in Nat
        /\ Numbered(m, priv_init') <= Numbered(m, priv_init) + JustReceived(m)
        /\ event' = {} => Numbered(m, priv_init') = Numbered(m, priv_init) + JustReceived(m)
    BY <1>3, <1>4, <1>5, <1>7, NumberedAdd, NumberedRemove
  <2>2. JustReceived(m) \in Nat
    BY <1>4
  <2>. QED  BY <1>1, <1>7, <2>1, <2>2, CountTypes DEF Replies
<1>. QED  BY <1>2, <1>6, <1>7, <1>8, <1>9, CarriedKeeps DEF Carried

\* A CMD_UNLINK has a new number too, and finds only a stub_priv that still
\* has the number of its submission, because no other unlink has this target:
\* the reply that is given up is the one whose number is taken away.
LEMMA RxCmdUnlinkReplies ==
  ASSUME TypeOK, TypeOK', ReplyInv, NEW c \in Conns, NEW n \in Cmds \ ReceivedNumbers,
         NEW target \in 1 .. n - 1,
         \A r \in received : r.target \notin {n, target} /\ (r.n = target => r.target = 0),
         RxCmdUnlink(c, n, target)
  PROVE  ReplyInv' /\ Kept
<1>1. UNCHANGED <<tx, priv_tx, answered>>
  BY DEF RxCmdUnlink
<1>2. received' = received \cup {[n |-> n, target |-> target]}
  BY DEF RxCmdUnlink
<1>3. \A m \in Cmds : JustReceived(m) = IF m = n THEN 1 ELSE 0
  BY <1>2, OneReceived
<1>4. IsFiniteSet(priv_init)
  BY DEF ReplyInv
<1>5. SendingInv'
  BY <1>1 DEF ReplyInv, SendingInv
<1>6. ASSUME NEW p \in priv_init, p.seqnum = target,
             priv_init' = (priv_init \ {p}) \cup {[p EXCEPT !.unlinking = TRUE, !.seqnum = n]},
             superseded' = superseded \cup {p.cmd}, UNCHANGED unlink_tx
      PROVE  ReplyInv' /\ Kept
  <2> DEFINE q == [p EXCEPT !.unlinking = TRUE, !.seqnum = n]
  <2>1. q.seqnum = n /\ q.unlinking
    BY DEF TypeOK, Privs
  <2>2. p.cmd = target
    BY <1>6 DEF ReplyInv, RenumberedInv
  <2> HIDE DEF q
  <2>3. priv_init' = (priv_init \ {p}) \cup {q} /\ q \notin priv_init \ {p}
    BY <1>6, <2>1, NewNumber DEF q
  <2>4. IsFiniteSet(priv_init \ {p}) /\ IsFiniteSet(priv_init')
    BY <1>4, <2>3, NumberedAdd, NumberedRemove
  <2>5. RenumberedInv'
    <3>1. [n |-> n, target |-> target] \in received' /\ target # 0
      BY <1>2
    <3>2. received \subseteq received'
      BY <1>2
    <3>. QED  BY <2>1, <2>3, <3>1, <3>2 DEF ReplyInv, RenumberedInv
  <2>6. target \in Cmds /\ target \notin superseded
    <3>1. target \in Cmds
      BY <1>6, <2>2 DEF TypeOK, Privs
    <3>2. Numbered(target, priv_init) # 0
      BY <1>4, <1>6, NumberedSome
    <3>. QED  BY <3>1, <3>2, AtMostOne
  <2>7. ASSUME NEW m \in Cmds
        PROVE  Replies(m) \in Nat /\ Replies(m)' \in Nat /\ Replies(m)' = Replies(m) + JustReceived(m)
    <3>1. /\ Numbered(m, priv_init) \in Nat
          /\ Numbered(m, priv_init \ {p}) = IF target = m THEN Numbered(m, priv_init) - 1
                                                          ELSE Numbered(m, priv_init)
      BY <1>4, <1>6, NumberedRemove
    <3>2. /\ Numbered(m, priv_init') \in Nat
          /\ Numbered(m, priv_init') = Numbered(m, priv_init \ {p}) + (IF n = m THEN 1 ELSE 0)
      BY <2>1, <2>3, <2>4, NumberedAdd
    <3>3. m \in superseded' <=> m \in superseded \/ m = target
      BY <1>6, <2>2
    <3>. QED  BY <1>1, <1>3, <1>4, <1>6, <2>6, <3>1, <3>2, <3>3, CountTypes DEF Replies
  <2>8. Carried
    <3>1. \A m \in Cmds : JustReceived(m) \in Nat
      BY <1>3
    <3>. QED  BY <2>7, <3>1 DEF Carried
  <2>. QED  BY <1>2, <1>5, <2>4, <2>5, <2>8, CarriedKeeps
<1>7. ASSUME stub_enqueue_ret_unlink(n), UNCHANGED <<priv_init, superseded>>
      PROVE  ReplyInv' /\ Kept
  <2>1. RenumberedInv'
    BY <1>2, <1>7 DEF ReplyInv, RenumberedInv
  <2>2. ASSUME NEW m \in Cmds
        PROVE  /\ Replies(m) \in Nat /\ Replies(m)' \in Nat
               /\ Replies(m)' <= Replies(m) + JustReceived(m)
               /\ event' = {} => Replies(m)' = Replies(m) + JustReceived(m)
    <3>1. /\ Copies(m, unlink_tx') \in Nat
          /\ Copies(m, unlink_tx') <= Copies(m, unlink_tx) + JustReceived(m)
          /\ event' = {} => Copies(m, unlink_tx') = Copies(m, unlink_tx) + JustReceived(m)
      BY <1>3, <1>7, RetUnlinkReplies
    <3>2. JustReceived(m) \in Nat
      BY <1>3
    <3>. QED  BY <1>1, <1>4, <1>7, <3>1, <3>2, CountTypes DEF Replies
  <2>. QED  BY <1>2, <1>4, <1>5, <1>7, <2>1, <2>2, CarriedKeeps DEF Carried
<1>. QED  BY <1>6, <1>7 DEF RxCmdUnlink

\* A completed URB takes its number from priv_init to one of the queues, if at
\* all.
LEMMA CompleteReplies == ASSUME TypeOK, TypeOK', ReplyInv, Complete PROVE ReplyInv' /\ Kept
<1> PICK p \in priv_init, quiet \in BOOLEAN : stub_complete(p, quiet)
  BY DEF Complete
<1>1. /\ priv_init' = priv_init \ {p} /\ UNCHANGED <<answered, superseded, received>>
      /\ tx' = tx \/ WakeTx
  BY DEF stub_complete
<1>2. IsFiniteSet(priv_init) /\ IsFiniteSet(priv_init')
  BY <1>1, NumberedRemove DEF ReplyInv
<1>3. p \in Privs /\ p.seqnum \in Cmds /\ [p EXCEPT !.urb = "done"] \in Privs
      /\ [p EXCEPT !.urb = "done"].seqnum = p.seqnum
  BY DEF TypeOK, Privs
<1>4. RenumberedInv'
  BY <1>1 DEF ReplyInv, RenumberedInv
<1>5. \A d \in Conns : tx'[d].seqnum = tx[d].seqnum /\ (tx'[d].seqnum # 0 => tx'[d] = tx[d])
  <2>1. CASE tx' = tx
    BY <2>1
  <2>2. CASE WakeTx
    <3>1. ASSUME NEW d \in Conns PROVE [tx[d] EXCEPT !.pc = "wait"].seqnum = tx[d].seqnum
      BY DEF TypeOK, TxThread
    <3>2. \A d \in Conns : tx'[d] = IF tx[d].pc = "asleep" THEN [tx[d] EXCEPT !.pc = "wait"] ELSE tx[d]
      BY <2>2 DEF WakeTx
    <3>3. \A d \in Conns : tx[d].pc = "asleep" => tx[d].seqnum = 0
      BY DEF ReplyInv, SendingInv
    <3>. QED  BY <3>1, <3>2, <3>3
  <2>. QED  BY <1>1, <2>1, <2>2
<1>6. SendingInv'
  BY <1>5 DEF ReplyInv, SendingInv
<1>7. ASSUME NEW m \in Cmds
      PROVE  /\ Replies(m) \in Nat /\ Replies(m)' \in Nat
             /\ Replies(m)' <= Replies(m)
             /\ event' = {} => Replies(m)' = Replies(m)
  <2>1. /\ Numbered(m, priv_init) \in Nat /\ Numbered(m, priv_init') \in Nat
        /\ Numbered(m, priv_init') = IF p.seqnum = m THEN Numbered(m, priv_init) - 1
                                                     ELSE Numbered(m, priv_init)
    BY <1>1, <1>2, NumberedRemove
  <2>2. Senders(m, tx') = Senders(m, tx)
    BY <1>5 DEF Senders
  <2>3. CASE stub_enqueue_ret_unlink(p.seqnum) /\ UNCHANGED priv_tx
    BY <1>1, <1>2, <1>3, <2>1, <2>2, <2>3, RetUnlinkReplies, CountTypes DEF Replies
  <2>4. CASE priv_tx' = Append(priv_tx, [p EXCEPT !.urb = "done"]) /\ UNCHANGED unlink_tx
    <3>1. Numbers(priv_tx') = Append(Numbers(priv_tx), p.seqnum) /\ Numbers(priv_tx) \in Seq(Nat)
      BY <1>3, <2>4, NumbersQueue DEF TypeOK
    <3>2. p.seqnum \in Nat
      BY <1>3, Bounds
    <3>3. Copies(m, Numbers(priv_tx')) = Copies(m, Numbers(priv_tx)) + (IF p.seqnum = m THEN 1 ELSE 0)
      BY <3>1, <3>2, CopiesQueue
    <3> DEFINE T == Copies(m, Numbers(priv_tx))
               Tnext == Copies(m, Numbers(priv_tx'))
    <3>4. T \in Nat /\ Tnext = T + (IF p.seqnum = m THEN 1 ELSE 0)
      BY <1>2, <3>3, CountTypes
    <3>5. /\ Replies(m) = Numbered(m, priv_init) + T + Copies(m, unlink_tx)
                             + Senders(m, tx) + answered[m] + (IF m \in superseded THEN 1 ELSE 0)
          /\ Replies(m)' = Numbered(m, priv_init') + Tnext + Copies(m, unlink_tx)
                             + Senders(m, tx) + answered[m] + (IF m \in superseded THEN 1 ELSE 0)
      BY <1>1, <2>2, <2>4 DEF Replies
    <3> HIDE DEF T, Tnext
    <3>. QED  BY <1>2, <2>1, <3>4, <3>5, CountTypes
  <2>. QED  BY <2>3, <2>4 DEF stub_complete
<1>8. \A m \in Cmds : JustReceived(m) = 0
  BY <1>1 DEF JustReceived, ReceivedNumbers
<1>. QED  BY <1>1, <1>2, <1>4, <1>6, <1>7, <1>8, CarriedKeeps DEF Carried

\* A thread that goes on without a number, or starts, takes no reply away from
\* another place.
LEMMA TxQuietReplies ==
  ASSUME TypeOK, TypeOK', ReplyInv, NEW c,
         NEW pc \in {"top", "submit", "unlink", "wait", "asleep", "done"}, TxTo(c, pc, 0),
         UNCHANGED <<priv_init, priv_tx, unlink_tx, hisVars>>,
         event' = {} /\ c \in Conns => tx[c].seqnum = 0
  PROVE  ReplyInv' /\ Kept
<1>1. IsFiniteSet(priv_init) /\ IsFiniteSet(priv_init')
  BY DEF ReplyInv
<1>2. RenumberedInv'
  BY DEF ReplyInv, RenumberedInv
<1>3. \A d \in Conns : tx'[d] = IF d = c THEN [pc |-> pc, seqnum |-> 0] ELSE tx[d]
  BY DEF TxTo, TypeOK
<1>4. SendingInv'
  BY <1>3 DEF ReplyInv, SendingInv
<1>5. ASSUME NEW m \in Cmds
      PROVE  /\ Replies(m) \in Nat /\ Replies(m)' \in Nat /\ Replies(m)' <= Replies(m)
             /\ event' = {} => Replies(m)' = Replies(m)
  <2>1. m # 0
    BY Bounds DEF Cmds
  <2>2. /\ Senders(m, tx) \in Nat /\ Senders(m, tx') \in Nat /\ Senders(m, tx') <= Senders(m, tx)
        /\ event' = {} => Senders(m, tx') = Senders(m, tx)
    BY <1>1, <2>1, NoNumber, CountTypes
  <2>. QED  BY <1>1, <2>2, CountTypes DEF Replies
<1>6. \A m \in Cmds : JustReceived(m) = 0
  BY DEF JustReceived, ReceivedNumbers
<1>. QED  BY <1>1, <1>2, <1>4, <1>5, <1>6, CarriedKeeps DEF Carried

\* The head of a queue becomes the number of the thread that sends it.
LEMMA TxTakeReplies ==
  ASSUME TypeOK, TypeOK', ReplyInv, NEW c \in Conns, TxTakeSubmit(c) \/ TxTakeUnlink(c)
  PROVE  ReplyInv' /\ Kept
<1>1. UNCHANGED <<priv_init, hisVars>>
  BY DEF TxTakeSubmit, TxTakeUnlink
<1>2. IsFiniteSet(priv_init) /\ IsFiniteSet(priv_init')
  BY <1>1 DEF ReplyInv
<1>3. RenumberedInv'
  BY <1>1 DEF ReplyInv, RenumberedInv
<1>4. tx[c].seqnum = 0
  BY DEF TxTakeSubmit, TxTakeUnlink, ReplyInv, SendingInv
<1>5. CASE \E pc \in {"unlink", "wait"} : TxTo(c, pc, 0) /\ UNCHANGED <<priv_tx, unlink_tx>>
  BY <1>1, <1>4, <1>5, TxQuietReplies
<1>6. ASSUME NEW pc \in {"send_submit", "send_unlink"}, NEW h \in Cmds, TxTo(c, pc, h),
             \A m \in Cmds : Copies(m, Numbers(priv_tx')) \in Nat /\ Copies(m, unlink_tx') \in Nat,
             \A m \in Cmds : Copies(m, Numbers(priv_tx')) + Copies(m, unlink_tx') =
               Copies(m, Numbers(priv_tx)) + Copies(m, unlink_tx) - (IF h = m THEN 1 ELSE 0)
      PROVE  ReplyInv' /\ Kept
  <2>1. \A d \in Conns : tx'[d] = IF d = c THEN [pc |-> pc, seqnum |-> h] ELSE tx[d]
    BY <1>6 DEF TxTo, TypeOK
  <2>2. tx' \in [Conns -> TxThread]
    BY <1>6, Bounds, TxToType
  <2>3. SendingInv'
    BY <2>1 DEF ReplyInv, SendingInv
  <2>4. ASSUME NEW m \in Cmds
        PROVE  Replies(m) \in Nat /\ Replies(m)' \in Nat /\ Replies(m)' = Replies(m)
    <3>1. tx \in [Conns -> TxThread] /\ tx'[c].seqnum = h /\ \A d \in Conns \ {c} : tx'[d] = tx[d]
      BY <2>1 DEF TypeOK
    <3>2. /\ Senders(m, tx) \in Nat /\ Senders(m, tx') \in Nat
          /\ Senders(m, tx') = Senders(m, tx) - (IF tx[c].seqnum = m THEN 1 ELSE 0)
                                             + (IF tx'[c].seqnum = m THEN 1 ELSE 0)
      BY <2>2, <3>1, SendersStep
    <3>3. Senders(m, tx') = Senders(m, tx) + (IF h = m THEN 1 ELSE 0)
      <4>1. m # 0
        BY Bounds DEF Cmds
      <4>. QED  BY <1>4, <3>1, <3>2, <4>1
    <3>. QED  BY <1>1, <1>2, <1>6, <3>2, <3>3, CountTypes DEF Replies
  <2>5. \A m \in Cmds : JustReceived(m) = 0
    BY <1>1 DEF JustReceived, ReceivedNumbers
  <2>6. Carried
    BY <2>4, <2>5 DEF Carried
  <2>. QED  BY <1>1, <1>2, <1>3, <2>3, <2>6, CarriedKeeps
<1>7. CASE TxTakeSubmit(c) /\ priv_tx # <<>>
  <2> DEFINE h == Head(priv_tx).seqnum
  <2>1. priv_tx' = Tail(priv_tx) /\ TxTo(c, "send_submit", h) /\ UNCHANGED unlink_tx
    BY <1>7 DEF TxTakeSubmit
  <2>2. h \in Cmds
    <3>1. Head(priv_tx) \in Privs
      BY <1>7 DEF TypeOK
    <3>. QED  BY <3>1 DEF Privs
  <2>3. /\ Numbers(priv_tx) \in Seq(Nat) /\ Numbers(priv_tx) # <<>> /\ Head(Numbers(priv_tx)) = h
        /\ Numbers(priv_tx') = Tail(Numbers(priv_tx))
    BY <1>7, <2>1, NumbersQueue DEF TypeOK
  <2> HIDE DEF h
  <2>4. Numbers(priv_tx') \in Seq(Nat)
    BY <2>3
  <2>5. ASSUME NEW m \in Cmds
        PROVE  /\ Copies(m, Numbers(priv_tx')) \in Nat /\ Copies(m, unlink_tx') \in Nat
               /\ Copies(m, Numbers(priv_tx)) \in Nat
               /\ Copies(m, Numbers(priv_tx')) =
                    Copies(m, Numbers(priv_tx)) - (IF h = m THEN 1 ELSE 0)
    <3>1. Copies(m, Tail(Numbers(priv_tx))) = Copies(m, Numbers(priv_tx)) - (IF h = m THEN 1 ELSE 0)
      BY <2>3, CopiesQueue
    <3>. QED  BY <1>2, <2>1, <2>3, <2>4, <3>1, CopiesQueue, CountTypes
  <2>. QED  BY <1>2, <1>6, <2>1, <2>2, <2>5, CountTypes
<1>8. CASE TxTakeUnlink(c) /\ unlink_tx # <<>>
  <2> DEFINE h == Head(unlink_tx)
  <2>1. unlink_tx' = Tail(unlink_tx) /\ TxTo(c, "send_unlink", h) /\ UNCHANGED priv_tx
    BY <1>8 DEF TxTakeUnlink
  <2>2. h \in Cmds
    BY <1>8 DEF TypeOK
  <2>3. unlink_tx \in Seq(Nat) /\ unlink_tx' \in Seq(Nat)
    BY <1>8, <2>1, Bounds DEF TypeOK, Cmds
  <2>4. ASSUME NEW m \in Cmds
        PROVE  /\ Copies(m, Numbers(priv_tx')) \in Nat /\ Copies(m, unlink_tx') \in Nat
               /\ Copies(m, unlink_tx) \in Nat
               /\ Copies(m, unlink_tx') = Copies(m, unlink_tx) - (IF h = m THEN 1 ELSE 0)
    BY <1>2, <1>8, <2>1, <2>3, CopiesQueue, CountTypes
  <2> HIDE DEF h
  <2>. QED  BY <1>2, <1>6, <2>1, <2>2, <2>4, CountTypes
<1>. QED  BY <1>5, <1>7, <1>8 DEF TxTakeSubmit, TxTakeUnlink

\* A reply that goes out leaves the thread.
LEMMA TxSendReplies ==
  ASSUME TypeOK, TypeOK', ReplyInv, NEW c \in Conns, TxSend(c)
  PROVE  ReplyInv' /\ Kept
<1> PICK n \in Cmds : TxSendSubmit(c, n) \/ TxSendUnlink(c, n)
  BY DEF TxSend
<1>1. /\ UNCHANGED <<privVars, unlVars, received, superseded>>
      /\ tx[c].seqnum = n /\ Answer(n) /\ \E pc \in {"submit", "unlink"} : TxTo(c, pc, 0)
  BY DEF TxSendSubmit, TxSendUnlink
<1>2. IsFiniteSet(priv_init) /\ IsFiniteSet(priv_init')
  BY <1>1 DEF ReplyInv
<1>3. RenumberedInv'
  BY <1>1 DEF ReplyInv, RenumberedInv
<1>4. SendingInv'
  BY <1>1 DEF TypeOK, TxTo, ReplyInv, SendingInv
<1>5. ASSUME NEW m \in Cmds
      PROVE  Replies(m) \in Nat /\ Replies(m)' \in Nat /\ Replies(m)' = Replies(m)
  <2>1. Senders(m, tx') \in Nat /\ Senders(m, tx') = Senders(m, tx) - (IF n = m THEN 1 ELSE 0)
    BY <1>1, NoNumber
  <2>2. answered[m] \in Nat /\ answered'[m] = answered[m] + (IF n = m THEN 1 ELSE 0)
    BY <1>1 DEF Answer, TypeOK
  <2>. QED  BY <1>1, <1>2, <2>1, <2>2, CountTypes DEF Replies
<1>6. \A m \in Cmds : JustReceived(m) = 0
  BY <1>1 DEF JustReceived, ReceivedNumbers
<1>7. Carried
  BY <1>5, <1>6 DEF Carried
<1>. QED  BY <1>1, <1>2, <1>3, <1>4, <1>7, CarriedKeeps

\* With nothing on the lists, and no thread that sends, no reply is due.
LEMMA NothingDue ==
  ASSUME NEW n \in Cmds
  PROVE  /\ Numbered(n, {}) = 0 /\ Copies(n, <<>>) = 0 /\ Copies(n, Numbers(<<>>)) = 0
         /\ \A t : (\A c \in Conns : t[c].seqnum = 0) => Senders(n, t) = 0
<1>1. n # 0
  BY Bounds DEF Cmds
<1>2. {p \in {} : p.seqnum = n} = {}
  OBVIOUS
<1>3. /\ {i \in DOMAIN <<>> : <<>>[i] = n} = {}
      /\ {i \in DOMAIN Numbers(<<>>) : Numbers(<<>>)[i] = n} = {}
  BY DEF Numbers
<1>4. ASSUME NEW t, \A c \in Conns : t[c].seqnum = 0
      PROVE  {c \in Conns : t[c].seqnum = n} = {}
  BY <1>1, <1>4
<1>. QED  BY <1>2, <1>3, <1>4, FS_EmptySet DEF Numbered, Copies, Senders

\* The cleanup takes everything off the lists, or dies before it does.
LEMMA CleanupReplies == ASSUME TypeOK, ReplyInv, EhCleanup PROVE ReplyInv'
<1>1. UNCHANGED <<tx, hisVars>>
  BY DEF EhCleanup
<1>2. CASE priv_init' = {} /\ priv_tx' = <<>> /\ unlink_tx' = <<>>
  <2>1. IsFiniteSet(priv_init') /\ IsFiniteSet(priv_init)
    BY <1>2, FS_EmptySet DEF ReplyInv
  <2>2. RenumberedInv' /\ SendingInv'
    BY <1>1, <1>2 DEF ReplyInv, RenumberedInv, SendingInv
  <2>3. ASSUME NEW m \in Cmds
        PROVE  Replies(m) \in Nat /\ Replies(m)' \in Nat /\ Replies(m)' <= Replies(m)
    <3>1. /\ Numbered(m, priv_init') = 0 /\ Copies(m, Numbers(priv_tx')) = 0
          /\ Copies(m, unlink_tx') = 0
      BY <1>2, NothingDue
    <3>2. Senders(m, tx) \in Nat /\ Senders(m, tx') = Senders(m, tx)
      BY <1>1, <2>1, CountTypes
    <3>. QED  BY <1>1, <2>1, <3>1, <3>2, CountTypes DEF Replies
  <2>4. ReplyAtMostOnce'
    <3>1. ReceivedNumbers' = ReceivedNumbers
      BY <1>1 DEF ReceivedNumbers
    <3>. QED  BY <2>3, <3>1 DEF ReplyInv, ReplyAtMostOnce
  <2>. QED  BY <2>1, <2>2, <2>4 DEF ReplyInv
<1>3. CASE UNCHANGED <<privVars, unlVars>>
  BY <1>1, <1>3, Elsewhere
<1>. QED  BY <1>2, <1>3 DEF EhCleanup

\* With nothing left and nothing received there is no reply.
LEMMA FreshReplies ==
  ASSUME NoRequests, SendingInv, \A c \in Conns : tx[c].seqnum = 0,
         received = {}, answered = [n \in Cmds |-> 0], superseded = {}
  PROVE  ReplyInv
<1>1. IsFiniteSet(priv_init) /\ RenumberedInv
  BY FS_EmptySet DEF NoRequests, RenumberedInv
<1>2. ASSUME NEW m \in Cmds PROVE Replies(m) = 0
  BY NothingDue DEF Replies, NoRequests
<1>. QED  BY <1>1, <1>2 DEF ReplyInv, ReplyAtMostOnce

\* So it is at first.
LEMMA ReplyInit == Init => ReplyInv
<1> SUFFICES ASSUME Init PROVE ReplyInv
  OBVIOUS
<1>1. \A c \in Conns : tx[c].seqnum = 0
  BY DEF Init
<1>. QED  BY <1>1, FreshReplies DEF Init, NoRequests, SendingInv

\* And for a new connection, whose numbers start again: nothing of the former
\* one is left.
LEMMA ClaimReplies == ASSUME Inv, SockfdClaim PROVE ReplyInv' /\ AllDue'
<1>1. NoRequests /\ TxStopped
  BY DEF Inv, ThreadInv, StoppedInv, SockfdClaim
<1>2. UNCHANGED <<tx, priv_init, priv_tx, unlink_tx>>
  BY DEF SockfdClaim
<1>3. \A c \in Conns : tx[c].seqnum = 0
  BY <1>1 DEF Inv, ReplyInv, SendingInv, TxStopped, ThreadEnded
<1>4. NoRequests' /\ SendingInv' /\ \A c \in Conns : tx'[c].seqnum = 0
  BY <1>1, <1>2, <1>3 DEF NoRequests, SendingInv
<1>5. received' = {} /\ answered' = [n \in Cmds |-> 0] /\ superseded' = {}
  BY DEF SockfdClaim
<1>6. IsFiniteSet(priv_init') /\ RenumberedInv'
  BY <1>4, FS_EmptySet DEF NoRequests, RenumberedInv
<1>7. ASSUME NEW m \in Cmds PROVE Replies(m)' = 0
  BY <1>4, <1>5, NothingDue DEF Replies, NoRequests
<1>8. AllDue'
  BY <1>5 DEF AllDue, ReceivedNumbers
<1>. QED  BY <1>4, <1>6, <1>7, <1>8 DEF ReplyInv, ReplyAtMostOnce

\* Every step but the end of a connection keeps what is due, unless something
\* goes wrong.
LEMMA ReplyStep ==
  Inv /\ TypeOK' /\ [Next]_vars => ReplyInv' /\ (EhCleanup \/ SockfdClaim \/ Kept)
<1> SUFFICES ASSUME Inv, TypeOK', [Next]_vars
             PROVE  ReplyInv' /\ (EhCleanup \/ SockfdClaim \/ Kept)
  OBVIOUS
<1>1. TypeOK /\ ReplyInv
  BY DEF Inv
<1>2. CASE UNCHANGED vars
  BY <1>1, <1>2, Elsewhere DEF vars
<1>3. CASE Complete
  BY <1>1, <1>3, CompleteReplies
<1>4. CASE EhSendDisconnect \/ EhStep
  <2>1. CASE EhCleanup
    BY <1>1, <2>1, CleanupReplies
  <2>2. CASE \/ EhSendDisconnect \/ EhLoop \/ EhShutdown \/ EhStopRx \/ EhStopTx \/ EhPutSocket
             \/ EhReset \/ EhUnusable
    <3>1. UNCHANGED <<tx, privVars, unlVars, hisVars>>
      BY <2>2 DEF EhSendDisconnect, EhLoop, EhShutdown, EhStopRx, EhStopTx, EhPutSocket, EhReset,
         EhUnusable
    <3>. QED  BY <1>1, <3>1, Elsewhere
  <2>. QED  BY <1>4, <2>1, <2>2 DEF EhStep
<1>5. CASE SockfdStep \/ Admin
  <2>1. CASE SockfdClaim
    BY <2>1, ClaimReplies
  <2>2. CASE SockfdRunTx
    <3>1. TxTo(conn, "top", 0) /\ UNCHANGED <<privVars, unlVars, hisVars>>
      BY <2>2 DEF SockfdRunTx
    <3>2. conn \in Conns => tx[conn].seqnum = 0
      BY <2>2 DEF SockfdRunTx, Inv, ThreadInv, SockfdInv, TxStopped, ThreadEnded, ReplyInv, SendingInv
    <3>. QED  BY <1>1, <3>1, <3>2, TxQuietReplies
  <2>3. CASE \/ SockfdRunRx \/ SockfdSetRx \/ SockfdSetTx
             \/ DownCheck \/ DownEvent \/ UnbindBegin \/ UnbindEvent
    <3>1. UNCHANGED <<tx, privVars, unlVars, hisVars>>
      BY <2>3 DEF SockfdRunRx, SockfdSetRx, SockfdSetTx, DownCheck, DownEvent, UnbindBegin,
         UnbindEvent
    <3>. QED  BY <1>1, <3>1, Elsewhere
  <2>. QED  BY <1>5, <2>1, <2>2, <2>3 DEF SockfdStep, Admin
<1>6. ASSUME NEW c \in Conns, RxBad(c) \/ RxStep(c) PROVE ReplyInv' /\ Kept
  BY <1>1, <1>6, RxStepEffect, RxStepReplies
<1>7. ASSUME NEW c \in Conns, RxPdu(c) PROVE ReplyInv' /\ Kept
  <2>1. PICK n \in Cmds \ ReceivedNumbers :
          \/ RxCmdSubmit(c, n)
          \/ \E target \in 1 .. n - 1 :
               /\ \A r \in received : r.target \notin {n, target} /\ (r.n = target => r.target = 0)
               /\ RxCmdUnlink(c, n, target)
    BY <1>7 DEF RxPdu
  <2>. QED  BY <1>1, <2>1, RxCmdSubmitReplies, RxCmdUnlinkReplies
<1>8. ASSUME NEW c \in Conns, TxSend(c) PROVE ReplyInv' /\ Kept
  BY <1>1, <1>8, TxSendReplies
<1>9. ASSUME NEW c \in Conns, TxStep(c) PROVE ReplyInv' /\ Kept
  <2>1. CASE TxTakeSubmit(c) \/ TxTakeUnlink(c)
    BY <1>1, <2>1, TxTakeReplies
  <2>2. CASE TxTop(c) \/ TxWait(c) \/ \E mask \in TxErrors : TxSendFails(c, mask)
    <3>1. /\ \E pc \in {"top", "submit", "wait", "asleep", "done"} : TxTo(c, pc, 0)
          /\ UNCHANGED <<privVars, unlVars, hisVars>>
      BY <2>2 DEF TxTop, TxWait, TxSendFails
    <3>2. event' = {} => tx[c].seqnum = 0
      BY <2>2 DEF TxTop, TxWait, TxSendFails, TxErrors, SDEV_EVENT_ERROR_TCP,
         SDEV_EVENT_ERROR_MALLOC, usbip_event_add, Inv, ReplyInv, SendingInv
    <3>. QED  BY <1>1, <3>1, <3>2, TxQuietReplies
  <2>. QED  BY <1>9, <2>1, <2>2 DEF TxStep
<1>. QED  BY <1>2, <1>3, <1>4, <1>5, <1>6, <1>7, <1>8, <1>9 DEF Next

-----------------------------------------------------------------------------
(* A failure is not lost.                                                  *)

\* A free device is in order.
LEMMA FailureInit == Init => FailureInv
BY DEF Init, FailureInv

\* A context other than the event thread that drops a reply raises a bit, and
\* takes none back.
LEMMA FailureGrows ==
  ASSUME FailureInv, EventGrows, UNCHANGED <<status, eh>>, Kept,
         event' = {} /\ unbind # "done" => unbind' # "done"
  PROVE  FailureInv'
<1> SUFFICES ASSUME status = "USED" PROVE InOrder' \/ FailurePending'
  BY DEF FailureInv
<1>1. CASE InOrder
  <2>1. CASE event' = {}
    BY <1>1, <2>1 DEF InOrder, Kept
  <2>2. CASE event' # {}
    BY <1>1, <2>2 DEF InOrder, EventGrows, FailurePending
  <2>. QED  BY <2>1, <2>2
<1>2. CASE FailurePending
  BY <1>2 DEF FailurePending, EventGrows
<1>. QED  BY <1>1, <1>2 DEF FailureInv

\* The event thread does not sleep again, or pass over a handler, while a bit
\* that ends the connection is pending.
LEMMA FailureLoop == ASSUME Inv, EhLoop PROVE FailureInv'
<1> SUFFICES ASSUME status = "USED" PROVE FailurePending'
  BY DEF EhLoop, FailureInv
<1>1. UNCHANGED unbind /\ event \in SUBSET EventBits
  BY DEF EhLoop, Inv, TypeOK
<1>2. FailurePending
  <2>1. ~ InOrder
    BY DEF EhLoop, EhRound, EhHead, EhIdle, EhSkips, EhSkip, EhClears, EhLoad, EhStore, EhBye,
       EhHandle, EhWake, InOrder
  <2>. QED  BY <2>1 DEF Inv, FailureInv
<1>3. ShutdownFirst
  BY DEF Inv, ThreadInv
<1> USE DEF FailurePending, EhTo
<1>4. CASE EhHead(unbind = "done")
  BY <1>2, <1>4 DEF EhHead
<1>5. CASE EhIdle
  BY <1>2, <1>5 DEF EhIdle
<1>6. CASE EhSkips
  <2>1. CASE EhSkip("SHUTDOWN", "handle", "test_reset")
    BY <1>2, <2>1 DEF EhSkip
  <2>2. CASE EhSkip("RESET", "test_reset", "test_unusable")
    BY <1>2, <2>2 DEF EhSkip, Ending
  <2>3. CASE EhSkip("UNUSABLE", "test_unusable", "test_bye") \/ EhSkip("BYE", "test_bye", "handle")
    BY <1>2, <2>3 DEF EhSkip
  <2>. QED  BY <1>6, <2>1, <2>2, <2>3 DEF EhSkips
<1>7. CASE EhClears
  <2>1. CASE EhLoad("SHUTDOWN", "clear_shutdown", "store_shutdown")
    BY <1>2, <2>1 DEF EhLoad, Ending
  <2>2. CASE EhStore("store_shutdown", "test_reset")
    BY <1>2, <2>2 DEF EhStore
  <2>. QED  BY <1>2, <1>7, <2>1, <2>2 DEF EhClears, EhLoad, EhStore
<1>8. CASE EhBye
  BY <1>8 DEF EhBye, EhHandle
<1>9. CASE EhWake(unbind = "done")
  BY <1>2, <1>9 DEF EhWake
<1>. QED  BY <1>4, <1>5, <1>6, <1>7, <1>8, <1>9 DEF EhLoop, EhRound

\* The handlers leave the bits alone; those of RESET and UNUSABLE end the
\* connection.
LEMMA FailureHandlers ==
  ASSUME Inv,
         \/ EhSendDisconnect \/ EhShutdown \/ EhStopRx \/ EhStopTx \/ EhPutSocket
         \/ EhCleanup \/ EhReset \/ EhUnusable
  PROVE  FailureInv'
<1>1. CASE EhReset \/ EhUnusable
  BY <1>1 DEF EhReset, EhUnusable, FailureInv
<1>2. CASE EhSendDisconnect \/ EhShutdown \/ EhStopRx \/ EhStopTx \/ EhPutSocket \/ EhCleanup
  <2>1. UNCHANGED <<status, event>> /\ eh.pc # "wait"
    BY <1>2 DEF EhSendDisconnect, EhShutdown, EhStopRx, EhStopTx, EhPutSocket, EhCleanup, EhHandle
  <2>2. status = "USED" => FailurePending
    BY <2>1 DEF Inv, FailureInv, InOrder
  <2>3. FailurePending => FailurePending'
    BY <1>2, <2>1 DEF FailurePending, EhSendDisconnect, EhShutdown, EhStopRx, EhStopTx,
       EhPutSocket, EhCleanup, EhHandle, EhTo
  <2>. QED  BY <2>1, <2>2, <2>3 DEF FailureInv
<1>. QED  BY <1>1, <1>2

\* A new connection starts in order.
LEMMA FailureClaim == ASSUME ~ SockfdRaces, SockfdClaim, AllDue' PROVE FailureInv'
BY DEF SockfdClaim, FailureInv, InOrder

\* Every step keeps it.
LEMMA FailureStep ==
  ~ SockfdRaces /\ Inv /\ TypeOK' /\ [Next]_vars => FailureInv'
<1> SUFFICES ASSUME ~ SockfdRaces, Inv, TypeOK', [Next]_vars PROVE FailureInv'
  OBVIOUS
<1>1. TypeOK /\ FailureInv
  BY DEF Inv
<1>2. EhCleanup \/ SockfdClaim \/ Kept
  BY ReplyStep
<1>3. CASE EhSendDisconnect \/ EhStep
  BY <1>3, FailureLoop, FailureHandlers DEF EhStep
<1>4. CASE SockfdClaim
  BY <1>1, <1>4, ClaimReplies, FailureClaim
<1>5. ASSUME EventGrows, UNCHANGED <<status, eh>>,
             event' = {} /\ unbind # "done" => unbind' # "done"
      PROVE  FailureInv'
  <2>1. ~ EhCleanup
    BY <1>5 DEF EhCleanup, EhTo
  <2>. QED  BY <1>1, <1>2, <1>4, <1>5, <2>1, FailureGrows
<1>6. CASE UNCHANGED vars
  BY <1>5, <1>6, Grows DEF vars
<1>7. CASE Complete
  BY <1>1, <1>5, <1>7, StubComplete DEF CompleteEffect
<1>8. CASE SockfdStep \/ Admin
  <2>1. CASE SockfdStep \/ DownCheck \/ UnbindBegin
    <3>1. UNCHANGED <<event, status, eh>> /\ (unbind # "done" => unbind' # "done")
      BY <2>1 DEF SockfdStep, SockfdRunRx, SockfdSetRx, SockfdRunTx, SockfdSetTx, DownCheck,
         UnbindBegin
    <3>. QED  BY <1>5, <3>1, Grows
  <2>2. CASE DownEvent \/ UnbindEvent
    <3>1. \E mask \in Masks : usbip_event_add(mask)
      BY <2>2 DEF DownEvent, UnbindEvent, Masks
    <3>2. event' # {} /\ EventGrows /\ UNCHANGED <<status, eh>>
      BY <2>2, <3>1, Grows, Raised DEF DownEvent, UnbindEvent
    <3>. QED  BY <1>5, <3>2
  <2>. QED  BY <1>4, <1>8, <2>1, <2>2 DEF Admin
<1>9. ASSUME NEW c \in Conns, RxEffect(c) \/ TxEffect(c) PROVE FailureInv'
  BY <1>5, <1>9 DEF RxEffect, TxEffect
<1>. QED
  BY <1>1, <1>3, <1>6, <1>7, <1>8, <1>9, RxPduEffect, RxStepEffect, TxSendEffect, TxStepEffect
     DEF Next

\* If no write to usbip_sockfd overlaps the handling of an event, the threads
\* of a connection and the event thread keep in step, and the lists and the
\* threads account for every reply (stub_dev.c, stub_rx.c, stub_tx.c).
THEOREM Invariance == ~ SockfdRaces => (Spec => []Inv)
<1> SUFFICES ASSUME ~ SockfdRaces PROVE Spec => []Inv
  OBVIOUS
<1>1. Init => Inv
  BY TypeInit, ThreadInit, ReplyInit, FailureInit DEF Inv
<1>2. Inv /\ [Next]_vars => Inv'
  BY TypeStep, ThreadStep, ReplyStep, FailureStep DEF Inv, AnyStep
<1>. QED  BY <1>1, <1>2, PTL DEF Spec

\* "NOTE: shutdown must come first" (usbip_event.c): a device that is free for
\* the next connection has no thread, socket or request of a former one,
\* whichever bits of the events get lost.
THEOREM AvailableIsCleanHolds == ~ SockfdRaces => (Spec => []AvailableIsClean)
<1> SUFFICES ASSUME ~ SockfdRaces PROVE Spec => []AvailableIsClean
  OBVIOUS
<1>1. Inv => AvailableIsClean
  BY DEF Inv, ThreadInv, StoppedInv, RxStopped, TxStopped, NoRequests, AvailableIsClean
<1>2. Spec => []Inv
  BY Invariance
<1>. QED  BY <1>1, <1>2, PTL

\* No command gets two replies: a submission whose unlink was accepted is
\* answered under the number of the unlink only, in whatever order the
\* completion, the unlink and the two threads meet (stub_rx.c, stub_tx.c).
THEOREM ReplyAtMostOnceHolds == ~ SockfdRaces => (Spec => []ReplyAtMostOnce)
<1> SUFFICES ASSUME ~ SockfdRaces PROVE Spec => []ReplyAtMostOnce
  OBVIOUS
<1>1. Inv => ReplyAtMostOnce
  BY DEF Inv, ReplyInv
<1>2. Spec => []Inv
  BY Invariance
<1>. QED  BY <1>1, <1>2, PTL

\* No command is forgotten: as long as nothing has gone wrong on the connection
\* every command that was received is on its way to a reply or has had it,
\* because a context that drops one raises a bit that ends the connection, and
\* the event thread loses no such bit before it has (usbip_event.c).
THEOREM NoReplyLostHolds == ~ SockfdRaces => (Spec => []NoReplyLost)
<1> SUFFICES ASSUME ~ SockfdRaces PROVE Spec => []NoReplyLost
  OBVIOUS
<1>1. Inv => NoReplyLost
  BY DEF Inv, FailureInv, InOrder, AllDue, FailurePending, NoReplyLost
<1>2. Spec => []Inv
  BY Invariance
<1>. QED  BY <1>1, <1>2, PTL
=============================================================================
