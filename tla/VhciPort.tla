------------------------------ MODULE VhciPort ------------------------------
(***************************************************************************)
(* One root-hub port of the USB/IP client driver (vhci_hcd.c, vhci_tx.c,   *)
(* vhci_rx.c, vhci_sysfs.c) with its error-handling thread                 *)
(* (usbip_event.c).  The contexts that run concurrently are                *)
(*                                                                         *)
(*   - the USB core, which enqueues and dequeues URBs;                     *)
(*   - a writer of the sysfs files attach and detach, and module unload;   *)
(*   - per connection, one thread vhci_tx and one thread vhci_rx;          *)
(*   - the event thread usbip_eh.                                          *)
(*                                                                         *)
(* A step is one critical section, or the code between two of them that    *)
(* only one context can observe.  the_controller->lock is held from the    *)
(* first to the last step of an enqueue or dequeue: the variable call      *)
(* names that holder, and whoever else takes the lock waits for it to be   *)
(* idle.  Steps that receive a PDU take its content as a parameter, so     *)
(* that this module says nothing of the server: Next lets any PDU arrive.  *)
(***************************************************************************)
EXTENDS Integers, FiniteSets, UsbipEvent

CONSTANTS
  Urbs,       \* the URBs the USB core may hand to this port
  NoUrb,      \* "no URB": a NULL struct urb pointer
  MaxSeqnum,  \* bound: requests numbered on one connection
  MaxAttach,  \* bound: connections given to the port
  AttachRaces \* may store_attach overlap the handling of an event?

ASSUME VhciPortAssumption ==
  /\ NoUrb \notin Urbs
  /\ MaxSeqnum \in Nat
  /\ MaxAttach \in Nat \ {0}
  /\ AttachRaces \in BOOLEAN

VARIABLES
  status,     \* ud.status, without the VDEV_ST_ prefix
  tcp_socket, \* ud.tcp_socket: NULL, open, or shut by kernel_sock_shutdown
  seqnum,     \* vdev->seqnum
  conn,       \* connections attached so far; names the current one
  udev,       \* vdev->udev: the connection whose usb_device owns the port
  addressed,  \* the usb_devices the USB core has given an address
  rh_port,    \* USB_PORT_STAT_CONNECTION: 0, or the connection that set it
  priv,       \* urb->hcpriv with the list it is linked to, for every URB
  unlink_tx, unlink_rx,  \* the lists of struct vhci_unlink
  owed,       \* givebacks the driver still owes for each URB
  unlinked,   \* urb->unlinked of the USB core
  call,       \* the enqueue or dequeue that holds the_controller->lock
  tcp_rx, tcp_tx,        \* ud.tcp_rx, ud.tcp_tx: thread names, 0 is NULL
  rx, tx,     \* the threads started for each connection
  reaped,     \* the URB the event thread's cleanup is giving back
  attach, detach,        \* progress of a write to attach, to detach
  unload      \* progress of vhci_stop

portVars == <<status, tcp_socket, seqnum, conn, udev, addressed, rh_port>>
urbVars  == <<priv, unlink_tx, unlink_rx, owed, unlinked>>
thrVars  == <<tcp_rx, tcp_tx, rx, tx>>
admVars  == <<attach, detach, unload>>
ehVars   == <<event, eh, reaped>>
vars == <<portVars, urbVars, thrVars, admVars, ehVars, call>>

-----------------------------------------------------------------------------
(* Data.                                                                   *)

Conns == 1 .. MaxAttach

Statuses == {"NULL", "NOTASSIGNED", "USED", "ERROR"}

\* struct vhci_priv: linked to priv_tx or priv_rx while it exists.  Both lists
\* are appended in the critical section that numbers the request, or in list
\* order from the other list, so <<conn, seqnum>> is the order of a list.
NoPriv == [list |-> "none", conn |-> 0, seqnum |-> 0]
Priv   == {NoPriv} \cup
            [list: {"tx", "rx"}, conn: Conns, seqnum: 1 .. MaxSeqnum]

\* struct vhci_unlink: a numbered request to cancel the request unlink_seqnum.
Unlink   == [conn: 0 .. MaxAttach, seqnum: 0 .. MaxSeqnum,
             unlink_seqnum: 0 .. MaxSeqnum]
NoUnlink == [conn |-> 0, seqnum |-> 0, unlink_seqnum |-> 0]

Older(a, b) == a.conn < b.conn \/ (a.conn = b.conn /\ a.seqnum < b.seqnum)

priv_tx == {u \in Urbs : priv[u].list = "tx"}
priv_rx == {u \in Urbs : priv[u].list = "rx"}

FirstPriv(u, S)   == u \in S /\ \A v \in S : ~Older(priv[v], priv[u])
FirstUnlink(n, S) == n \in S /\ \A m \in S : ~Older(m, n)

Idle(op) == [op |-> op, urb |-> NoUrb, dev |-> 0, priv |-> NoPriv]
Calls == [op: {"none", "set_address", "get_descriptor", "get_vdev", "push",
               "dequeue"},
          urb: Urbs \cup {NoUrb}, dev: 0 .. MaxAttach, priv: Priv]

RxThread == [pc: {"unborn", "loop", "recv", "xbuff", "giveback", "done"},
             urb: Urbs \cup {NoUrb}]
TxThread == [pc: {"unborn", "submit", "send_submit", "unlink", "send_unlink",
                  "wait", "done"},
             urb: Urbs \cup {NoUrb}, unlink: Unlink]

\* The places of vhci_shutdown_connection and vhci_device_reset.
EhPcs == EhLoopPcs \cup
           {"stop_rx", "stop_tx", "put", "cleanup", "giveback", "cleanup_rx",
            "disconnect"}

TypeOK ==
  /\ status \in Statuses
  /\ tcp_socket \in {"NULL", "open", "shut"}
  /\ event \in SUBSET EventBits
  /\ seqnum \in 0 .. MaxSeqnum
  /\ conn \in 0 .. MaxAttach
  /\ udev \in 0 .. MaxAttach
  /\ addressed \in SUBSET Conns
  /\ rh_port \in 0 .. MaxAttach
  /\ priv \in [Urbs -> Priv]
  /\ unlink_tx \in SUBSET Unlink
  /\ unlink_rx \in SUBSET Unlink
  /\ owed \in [Urbs -> Int]
  /\ unlinked \in [Urbs -> BOOLEAN]
  /\ call \in Calls
  /\ tcp_rx \in 0 .. MaxAttach
  /\ tcp_tx \in 0 .. MaxAttach
  /\ rx \in [Conns -> RxThread]
  /\ tx \in [Conns -> TxThread]
  /\ eh \in [pc: EhPcs, ev: SUBSET EventBits]
  /\ reaped \in Urbs \cup {NoUrb}
  /\ attach \in {"idle", "run_rx", "set_rx", "run_tx", "set_tx", "connect"}
  /\ detach \in {"idle", "checked"}
  /\ unload \in {"no", "event", "done"}

\* vhci_device_init
Init ==
  /\ status = "NULL"
  /\ tcp_socket = "NULL"
  /\ seqnum = 0
  /\ conn = 0
  /\ udev = 0
  /\ addressed = {}
  /\ rh_port = 0
  /\ priv = [u \in Urbs |-> NoPriv]
  /\ unlink_tx = {}
  /\ unlink_rx = {}
  /\ owed = [u \in Urbs |-> 0]
  /\ unlinked = [u \in Urbs |-> FALSE]
  /\ call = Idle("none")
  /\ tcp_rx = 0
  /\ tcp_tx = 0
  /\ rx = [c \in Conns |-> [pc |-> "unborn", urb |-> NoUrb]]
  /\ tx = [c \in Conns |-> [pc |-> "unborn", urb |-> NoUrb,
                            unlink |-> NoUnlink]]
  /\ EhInit
  /\ reaped = NoUrb
  /\ attach = "idle"
  /\ detach = "idle"
  /\ unload = "no"

-----------------------------------------------------------------------------
(* Shared helpers.                                                         *)

\* No enqueue or dequeue holds the_controller->lock.
ControllerFree == call.op = "none"

\* usb_hcd_giveback_urb with usb_hcd_unlink_urb_from_ep.
GiveBack(u) == owed' = [owed EXCEPT ![u] = @ - 1]

\* Mutants of FreePriv: without urb->hcpriv = NULL; without the list_del.
FreePrivDangling(u) == priv' = [priv EXCEPT ![u].list = "none"]
FreePrivLinked(u)   == priv' = [priv EXCEPT ![u] = @]

\* list_del(&priv->list); kfree(priv); urb->hcpriv = NULL
FreePriv(u) == priv' = [priv EXCEPT ![u] = NoPriv]

\* The entry pickup_urb_and_free_priv finds: the first on priv_rx with the
\* number.  Entries a former connection left behind are on the list too.
Picked(u, n) ==
  LET hits == {v \in priv_rx : priv[v].seqnum = n}
  IN  FirstPriv(u, hits)
NotFound(n) == \A v \in priv_rx : priv[v].seqnum # n

-----------------------------------------------------------------------------
(* vhci_urb_enqueue, called by the USB core.                               *)

\* The checks under the_controller->lock and ud.lock, and
\* usb_hcd_link_urb_to_ep.  A URB refused by the checks changes nothing; one
\* that cannot be linked, or is invalid, is outside the model.  Requests to
\* device 0 come from the hub driver, for the device of a connected port;
\* other requests come from drivers of a device that has its address.
vhci_urb_enqueue(u, op, d) ==
  /\ unload = "no"
  /\ ControllerFree
  /\ owed[u] = 0
  /\ status \notin {"NULL", "ERROR"}
  /\ seqnum < MaxSeqnum
  /\ \/ op \in {"set_address", "get_descriptor"} /\ d # 0 /\ d = rh_port
     \/ op = "get_vdev" /\ d \in addressed
  /\ call' = [op |-> op, urb |-> u, dev |-> d, priv |-> NoPriv]
  /\ owed' = [owed EXCEPT ![u] = 1]
  /\ unlinked' = [unlinked EXCEPT ![u] = FALSE]
  /\ UNCHANGED <<portVars, priv, unlink_tx, unlink_rx, thrVars, admVars,
                 ehVars>>

\* SET_ADDRESS never leaves the client: the URB is completed on the spot.
EnqueueSetAddress ==
  /\ call.op = "set_address"
  /\ udev' = call.dev
  /\ status' = "USED"
  /\ addressed' = addressed \cup {call.dev}
  /\ GiveBack(call.urb)
  /\ call' = Idle("none")
  /\ UNCHANGED <<tcp_socket, seqnum, conn, rh_port, priv, unlink_tx, unlink_rx,
                 unlinked, thrVars, admVars, ehVars>>

EnqueueGetDescriptor ==
  /\ call.op = "get_descriptor"
  /\ udev' = call.dev
  /\ call' = [call EXCEPT !.op = "get_vdev"]
  /\ UNCHANGED <<status, tcp_socket, seqnum, conn, addressed, rh_port, urbVars,
                 thrVars, admVars, ehVars>>

\* vhci_tx_urb: get_vdev compares the URB's device with vdev->udev.  If the
\* port has been reset meanwhile the URB is accepted and forgotten.
EnqueueGetVdev ==
  /\ call.op = "get_vdev"
  /\ call' = IF udev = call.dev THEN [call EXCEPT !.op = "push"]
                                ELSE Idle("none")
  /\ UNCHANGED <<portVars, urbVars, thrVars, admVars, ehVars>>

\* vhci_tx_urb: number the request and link it to priv_tx.
EnqueuePush ==
  /\ call.op = "push"
  /\ seqnum' = seqnum + 1
  /\ priv' = [priv EXCEPT ![call.urb] =
                [list |-> "tx", conn |-> conn, seqnum |-> seqnum + 1]]
  /\ call' = Idle("none")
  /\ UNCHANGED <<status, tcp_socket, conn, udev, addressed, rh_port, unlink_tx,
                 unlink_rx, owed, unlinked, thrVars, admVars, ehVars>>

\* vhci_tx_urb: kzalloc of the vhci_priv fails, the URB stays linked.
EnqueueNoMemory ==
  /\ call.op = "push"
  /\ usbip_event_add(VDEV_EVENT_ERROR_MALLOC)
  /\ call' = Idle("none")
  /\ UNCHANGED <<portVars, urbVars, thrVars, admVars, eh, reaped>>

-----------------------------------------------------------------------------
(* vhci_urb_dequeue, called by the USB core.                               *)

\* urb->hcpriv is read without priv_lock; usb_hcd_check_unlink_urb refuses a
\* second unlink of the same URB.
vhci_urb_dequeue(u) ==
  /\ unload = "no"
  /\ ControllerFree
  /\ seqnum < MaxSeqnum
  /\ priv[u].list # "none"
  /\ ~unlinked[u]
  /\ call' = [op |-> "dequeue", urb |-> u, dev |-> 0, priv |-> priv[u]]
  /\ unlinked' = [unlinked EXCEPT ![u] = TRUE]
  /\ UNCHANGED <<portVars, priv, unlink_tx, unlink_rx, owed, thrVars, admVars,
                 ehVars>>

\* Mutant of DequeueLocal: the giveback is left to a receive thread.
DequeueLocalForgets ==
  /\ call.op = "dequeue"
  /\ tcp_socket = "NULL" \/ seqnum = 0
  /\ FreePriv(call.urb)
  /\ call' = Idle("none")
  /\ UNCHANGED <<portVars, unlink_tx, unlink_rx, owed, unlinked, thrVars,
                 admVars, ehVars>>

\* "tcp connection is closed": the URB is given back here.
DequeueLocal ==
  /\ call.op = "dequeue"
  /\ tcp_socket = "NULL" \/ seqnum = 0
  /\ FreePriv(call.urb)
  /\ GiveBack(call.urb)
  /\ call' = Idle("none")
  /\ UNCHANGED <<portVars, unlink_tx, unlink_rx, unlinked, thrVars, admVars,
                 ehVars>>

\* Mutant of DequeueUnlink: it takes the last number instead of the next one.
DequeueUnlinkLastSeqnum ==
  /\ call.op = "dequeue"
  /\ tcp_socket # "NULL" /\ seqnum # 0
  /\ \E target \in {call.priv.seqnum} \cup
                   (IF priv[call.urb].list = "none" THEN {0} ELSE {}) :
       unlink_tx' = unlink_tx \cup
         {[conn |-> conn, seqnum |-> seqnum, unlink_seqnum |-> target]}
  /\ call' = Idle("none")
  /\ UNCHANGED <<status, tcp_socket, seqnum, conn, udev, addressed, rh_port,
                 priv, unlink_rx, owed, unlinked, thrVars, admVars, ehVars>>

\* "tcp connection is alive": queue a CMD_UNLINK.  When vhci_rx has freed the
\* vhci_priv meanwhile, priv->seqnum reads freed memory: the old number, or
\* what the allocator left there, which numbers no request.
DequeueUnlink ==
  /\ call.op = "dequeue"
  /\ tcp_socket # "NULL" /\ seqnum # 0
  /\ seqnum' = seqnum + 1
  /\ \E target \in {call.priv.seqnum} \cup
                   (IF priv[call.urb].list = "none" THEN {0} ELSE {}) :
       unlink_tx' = unlink_tx \cup
         {[conn |-> conn, seqnum |-> seqnum + 1, unlink_seqnum |-> target]}
  /\ call' = Idle("none")
  /\ UNCHANGED <<status, tcp_socket, conn, udev, addressed, rh_port, priv,
                 unlink_rx, owed, unlinked, thrVars, admVars, ehVars>>

\* kzalloc of the vhci_unlink fails; urb->unlinked is already set.
DequeueNoMemory ==
  /\ call.op = "dequeue"
  /\ tcp_socket # "NULL" /\ seqnum # 0
  /\ usbip_event_add(VDEV_EVENT_ERROR_MALLOC)
  /\ call' = Idle("none")
  /\ UNCHANGED <<portVars, urbVars, thrVars, admVars, eh, reaped>>

-----------------------------------------------------------------------------
(* vhci_tx_loop, thread c.                                                 *)

\* kthread_should_stop: the event thread waits in kthread_stop for thread c.
StopRequested(c, phase, ptr) == eh.pc = phase /\ ptr = c

TxTo(c, pc) == tx' = [tx EXCEPT ![c] =
                 [pc |-> pc, urb |-> NoUrb, unlink |-> NoUnlink]]

\* dequeue_from_priv_tx
TxTakeSubmit(c) ==
  /\ tx[c].pc = "submit"
  /\ \/ /\ priv_tx = {}
        /\ TxTo(c, "unlink")
        /\ UNCHANGED priv
     \/ \E u \in Urbs :
          /\ FirstPriv(u, priv_tx)
          /\ priv' = [priv EXCEPT ![u].list = "rx"]
          /\ tx' = [tx EXCEPT ![c] = [pc |-> "send_submit", urb |-> u,
                                      unlink |-> NoUnlink]]
  /\ UNCHANGED <<portVars, unlink_tx, unlink_rx, owed, unlinked, tcp_rx,
                 tcp_tx, rx, admVars, call, ehVars>>

\* setup_cmd_submit_pdu reads urb->hcpriv and kernel_sendmsg the socket.
CanSendSubmit(c) ==
  tx[c].pc = "send_submit" /\ priv[tx[c].urb].list # "none"
    /\ tcp_socket # "NULL"

\* CMD_SUBMIT number n goes out.
TxSendSubmit(c, n) ==
  /\ CanSendSubmit(c)
  /\ n = priv[tx[c].urb].seqnum
  /\ tcp_socket = "open"
  /\ TxTo(c, "submit")
  /\ UNCHANGED <<portVars, urbVars, tcp_rx, tcp_tx, rx, admVars, call, ehVars>>

\* dequeue_from_unlink_tx
TxTakeUnlink(c) ==
  /\ tx[c].pc = "unlink"
  /\ \/ /\ unlink_tx = {}
        /\ TxTo(c, "wait")
        /\ UNCHANGED <<unlink_tx, unlink_rx>>
     \/ \E n \in unlink_tx :
          /\ FirstUnlink(n, unlink_tx)
          /\ unlink_tx' = unlink_tx \ {n}
          /\ unlink_rx' = unlink_rx \cup {n}
          /\ tx' = [tx EXCEPT ![c] = [pc |-> "send_unlink", urb |-> NoUrb,
                                      unlink |-> n]]
  /\ UNCHANGED <<portVars, priv, owed, unlinked, tcp_rx, tcp_tx, rx, admVars,
                 call, ehVars>>

\* CMD_UNLINK: number n cancels number target.
TxSendUnlink(c, n, target) ==
  /\ tx[c].pc = "send_unlink"
  /\ n = tx[c].unlink.seqnum
  /\ target = tx[c].unlink.unlink_seqnum
  /\ tcp_socket = "open"
  /\ TxTo(c, "unlink")
  /\ UNCHANGED <<portVars, urbVars, tcp_rx, tcp_tx, rx, admVars, call, ehVars>>

\* kernel_sendmsg fails, on a live or a shut socket: the loop ends.  Both
\* errors, the socket's and that of the iso descriptors' memory, end it.
TxErrors == {VDEV_EVENT_ERROR_TCP, VDEV_EVENT_ERROR_MALLOC}

TxSendFails(c, mask) ==
  /\ \/ CanSendSubmit(c) /\ mask \in TxErrors
     \/ tx[c].pc = "send_unlink" /\ tcp_socket # "NULL"
          /\ mask = VDEV_EVENT_ERROR_TCP
  /\ usbip_event_add(mask)
  /\ TxTo(c, "done")
  /\ UNCHANGED <<portVars, urbVars, tcp_rx, tcp_tx, rx, admVars, call, eh,
                 reaped>>

\* The thread dereferences a vhci_priv vhci_rx has freed, or a NULL socket:
\* it dies in the kernel without telling the event thread.
TxOops(c) ==
  /\ \/ tx[c].pc = "send_submit" /\ ~CanSendSubmit(c)
     \/ tx[c].pc = "send_unlink" /\ tcp_socket = "NULL"
  /\ TxTo(c, "done")
  /\ UNCHANGED <<portVars, urbVars, tcp_rx, tcp_tx, rx, admVars, call, ehVars>>

\* wait_event_interruptible, and the loop's test of kthread_should_stop.
TxWait(c) ==
  /\ tx[c].pc = "wait"
  /\ IF StopRequested(c, "stop_tx", tcp_tx)
     THEN TxTo(c, "done")
     ELSE (priv_tx # {} \/ unlink_tx # {}) /\ TxTo(c, "submit")
  /\ UNCHANGED <<portVars, urbVars, tcp_rx, tcp_tx, rx, admVars, call, ehVars>>

-----------------------------------------------------------------------------
(* vhci_rx_loop, thread c.                                                 *)

RxTo(c, pc, u) == rx' = [rx EXCEPT ![c] = [pc |-> pc, urb |-> u]]

RxLoop(c) ==
  /\ rx[c].pc = "loop"
  /\ IF event # {} \/ StopRequested(c, "stop_rx", tcp_rx)
     THEN RxTo(c, "done", NoUrb)
     ELSE RxTo(c, "recv", NoUrb)
  /\ UNCHANGED <<portVars, urbVars, tcp_rx, tcp_tx, tx, admVars, call, ehVars>>

\* Mutant of RxDown: a closed connection is taken for an idle one.
RxDownQuiet(c) ==
  /\ rx[c].pc = "recv"
  /\ RxTo(c, "loop", NoUrb)
  /\ UNCHANGED <<portVars, urbVars, tcp_rx, tcp_tx, tx, admVars, call, ehVars>>

\* vhci_rx_pdu without a PDU: the peer closed or sent type 3, or
\* usbip_recv failed (a NULL socket included).
RxDown(c) ==
  /\ rx[c].pc = "recv"
  /\ usbip_event_add(VDEV_EVENT_DOWN)
  /\ RxTo(c, "loop", NoUrb)
  /\ UNCHANGED <<portVars, urbVars, tcp_rx, tcp_tx, tx, admVars, call, eh,
                 reaped>>

\* -EAGAIN while nothing is pending on priv_rx is ignored.
RxIdleTimeout(c) ==
  /\ rx[c].pc = "recv"
  /\ tcp_socket = "open"
  /\ priv_rx = {}
  /\ RxTo(c, "loop", NoUrb)
  /\ UNCHANGED <<portVars, urbVars, tcp_rx, tcp_tx, tx, admVars, call, ehVars>>

\* vhci_recv_ret_submit up to the payload.
RxRetSubmit(c, n) ==
  /\ rx[c].pc = "recv"
  /\ tcp_socket # "NULL"
  /\ \/ /\ NotFound(n)
        /\ usbip_event_add(VDEV_EVENT_ERROR_TCP)
        /\ RxTo(c, "loop", NoUrb)
        /\ UNCHANGED priv
     \/ \E u \in Urbs :
          /\ Picked(u, n)
          /\ FreePriv(u)
          /\ RxTo(c, "xbuff", u)
          /\ UNCHANGED event
  /\ UNCHANGED <<portVars, unlink_tx, unlink_rx, owed, unlinked, tcp_rx,
                 tcp_tx, tx, admVars, call, eh, reaped>>

\* usbip_recv_xbuff and usbip_recv_iso succeed.
RxPayload(c) ==
  /\ rx[c].pc = "xbuff"
  /\ RxTo(c, "giveback", rx[c].urb)
  /\ UNCHANGED <<portVars, urbVars, tcp_rx, tcp_tx, tx, admVars, call, ehVars>>

\* They fail: vhci_recv_ret_submit returns, its priv freed and its URB not
\* given back.  Only -ENOMEM in usbip_recv_iso raises no event.
RxErrors == {VDEV_EVENT_ERROR_TCP, {}}

RxPayloadFails(c, mask) ==
  /\ rx[c].pc = "xbuff"
  /\ mask \in RxErrors
  /\ usbip_event_add(mask)
  /\ RxTo(c, "loop", NoUrb)
  /\ UNCHANGED <<portVars, urbVars, tcp_rx, tcp_tx, tx, admVars, call, eh,
                 reaped>>

\* vhci_recv_ret_unlink: dequeue_pending_unlink and pickup_urb_and_free_priv.
\* The two critical sections are one step: unlink_rx loses entries only here
\* and, after this thread, in the cleanup.
RxRetUnlink(c, n) ==
  LET hits == {m \in unlink_rx : m.seqnum = n}
  IN
  /\ rx[c].pc = "recv"
  /\ tcp_socket # "NULL"
  /\ \/ /\ hits = {}
        /\ RxTo(c, "loop", NoUrb)
        /\ UNCHANGED <<unlink_rx, priv>>
     \/ \E m \in hits :
          /\ FirstUnlink(m, hits)
          /\ unlink_rx' = unlink_rx \ {m}
          /\ \/ /\ NotFound(m.unlink_seqnum)
                /\ RxTo(c, "loop", NoUrb)
                /\ UNCHANGED priv
             \/ \E u \in Urbs :
                  /\ Picked(u, m.unlink_seqnum)
                  /\ FreePriv(u)
                  /\ RxTo(c, "giveback", u)
  /\ UNCHANGED <<portVars, unlink_tx, owed, unlinked, tcp_rx, tcp_tx, tx,
                 admVars, call, ehVars>>

\* usb_hcd_unlink_urb_from_ep under the_controller->lock, then the giveback.
RxGiveBack(c) ==
  /\ rx[c].pc = "giveback"
  /\ ControllerFree
  /\ GiveBack(rx[c].urb)
  /\ RxTo(c, "loop", NoUrb)
  /\ UNCHANGED <<portVars, priv, unlink_tx, unlink_rx, unlinked, tcp_rx,
                 tcp_tx, tx, admVars, call, ehVars>>

-----------------------------------------------------------------------------
(* event_handler_loop and event_handler of usbip_event.c.                  *)

\* The steps of the loop.  With AttachRaces FALSE a round waits for a write to
\* attach to end.
EhLoop ==
  /\ \/ EhRound(unload = "done")
     \/ EhWake(unload = "done") /\ (AttachRaces \/ attach = "idle")
  /\ UNCHANGED <<portVars, urbVars, thrVars, admVars, reaped, call>>

\* Mutant of EhShutdown: the socket is not shut down first.
EhShutdownNoShut ==
  /\ EhHandle("SHUTDOWN", "handle", "stop_rx")
  /\ UNCHANGED <<portVars, urbVars, thrVars, admVars, event, reaped, call>>

\* vhci_shutdown_connection: kernel_sock_shutdown.
EhShutdown ==
  /\ EhHandle("SHUTDOWN", "handle", "stop_rx")
  /\ tcp_socket' = IF tcp_socket = "NULL" THEN "NULL" ELSE "shut"
  /\ UNCHANGED <<status, seqnum, conn, udev, addressed, rh_port, urbVars,
                 thrVars, admVars, event, call, reaped>>

\* kthread_stop_put(tcp_rx), then of tcp_tx: wait for the thread to end.
EhStopRx ==
  /\ eh.pc = "stop_rx"
  /\ tcp_rx # 0 => rx[tcp_rx].pc = "done"
  /\ tcp_rx' = 0
  /\ EhTo("stop_tx")
  /\ UNCHANGED <<portVars, urbVars, tcp_tx, rx, tx, admVars, event, call,
                 reaped>>

\* Mutant of EhStopTx: the thread is told to stop and not waited for.
EhStopTxNoWait ==
  /\ eh.pc = "stop_tx"
  /\ tcp_tx' = 0
  /\ EhTo("put")
  /\ UNCHANGED <<portVars, urbVars, tcp_rx, rx, tx, admVars, event, call,
                 reaped>>

EhStopTx ==
  /\ eh.pc = "stop_tx"
  /\ tcp_tx # 0 => tx[tcp_tx].pc = "done"
  /\ tcp_tx' = 0
  /\ EhTo("put")
  /\ UNCHANGED <<portVars, urbVars, tcp_rx, rx, tx, admVars, event, call,
                 reaped>>

\* fput of the socket.
EhPutSocket ==
  /\ eh.pc = "put"
  /\ tcp_socket' = "NULL"
  /\ EhTo("cleanup")
  /\ UNCHANGED <<status, seqnum, conn, udev, addressed, rh_port, urbVars,
                 thrVars, admVars, event, call, reaped>>

\* vhci_device_unlink_cleanup: unlink_tx is emptied on entry; unlink_rx up to
\* the first request whose URB is still on priv_rx, which is given back with
\* both locks dropped before the loop goes on.
EhCleanup ==
  LET pending == {m \in unlink_rx : ~NotFound(m.unlink_seqnum)}
  IN
  /\ eh.pc \in {"cleanup", "cleanup_rx"}
  /\ ControllerFree
  /\ unlink_tx' = IF eh.pc = "cleanup" THEN {} ELSE unlink_tx
  /\ \/ /\ pending = {}
        /\ unlink_rx' = {}
        /\ EhTo("disconnect")
        /\ UNCHANGED <<priv, reaped>>
     \/ \E m \in pending : \E u \in Urbs :
          /\ FirstUnlink(m, pending)
          /\ Picked(u, m.unlink_seqnum)
          /\ unlink_rx' = {n \in unlink_rx : Older(m, n)}
          /\ FreePriv(u)
          /\ reaped' = u
          /\ EhTo("giveback")
  /\ UNCHANGED <<portVars, owed, unlinked, thrVars, admVars, event, call>>

EhGiveBack ==
  /\ eh.pc = "giveback"
  /\ GiveBack(reaped)
  /\ reaped' = NoUrb
  /\ EhTo("cleanup_rx")
  /\ UNCHANGED <<portVars, priv, unlink_tx, unlink_rx, unlinked, thrVars,
                 admVars, event, call>>

\* rh_port_disconnect
EhDisconnect ==
  /\ eh.pc = "disconnect"
  /\ ControllerFree
  /\ rh_port' = 0
  /\ EhTo("clear_shutdown")
  /\ UNCHANGED <<status, tcp_socket, seqnum, conn, udev, addressed, urbVars,
                 thrVars, admVars, event, call, reaped>>

\* vhci_device_reset
EhReset ==
  /\ EhHandle("RESET", "test_reset", "clear_reset")
  /\ status' = "NULL"
  /\ udev' = 0
  /\ tcp_socket' = "NULL"
  /\ UNCHANGED <<seqnum, conn, addressed, rh_port, urbVars, thrVars, admVars,
                 event, call, reaped>>

\* vhci_device_unusable
EhUnusable ==
  /\ EhHandle("UNUSABLE", "test_unusable", "clear_unusable")
  /\ status' = "ERROR"
  /\ UNCHANGED <<tcp_socket, seqnum, conn, udev, addressed, rh_port, urbVars,
                 thrVars, admVars, event, call, reaped>>

-----------------------------------------------------------------------------
(* vhci_sysfs.c and module unload.                                         *)

\* store_attach under both locks.  One writer at a time.
AttachClaim ==
  /\ unload = "no"
  /\ attach = "idle"
  /\ ControllerFree
  /\ status = "NULL"
  /\ conn < MaxAttach
  /\ AttachRaces \/ (eh.pc = "wait" /\ event = {})
  /\ conn' = conn + 1
  /\ seqnum' = 0
  /\ tcp_socket' = "open"
  /\ status' = "NOTASSIGNED"
  /\ attach' = "run_rx"
  /\ UNCHANGED <<udev, addressed, rh_port, urbVars, thrVars, detach, unload,
                 call, ehVars>>

\* kthread_get_run wakes the thread before its result is assigned.
AttachRunRx ==
  /\ attach = "run_rx"
  /\ RxTo(conn, "loop", NoUrb)
  /\ attach' = "set_rx"
  /\ UNCHANGED <<portVars, urbVars, tcp_rx, tcp_tx, tx, detach, unload, call,
                 ehVars>>

AttachSetRx ==
  /\ attach = "set_rx"
  /\ tcp_rx' = conn
  /\ attach' = "run_tx"
  /\ UNCHANGED <<portVars, urbVars, tcp_tx, rx, tx, detach, unload, call,
                 ehVars>>

AttachRunTx ==
  /\ attach = "run_tx"
  /\ TxTo(conn, "submit")
  /\ attach' = "set_tx"
  /\ UNCHANGED <<portVars, urbVars, tcp_rx, tcp_tx, rx, detach, unload, call,
                 ehVars>>

AttachSetTx ==
  /\ attach = "set_tx"
  /\ tcp_tx' = conn
  /\ attach' = "connect"
  /\ UNCHANGED <<portVars, urbVars, tcp_rx, rx, tx, detach, unload, call,
                 ehVars>>

\* rh_port_connect
AttachConnect ==
  /\ attach = "connect"
  /\ ControllerFree
  /\ rh_port' = conn
  /\ attach' = "idle"
  /\ UNCHANGED <<status, tcp_socket, seqnum, conn, udev, addressed, urbVars,
                 thrVars, detach, unload, call, ehVars>>

\* vhci_port_disconnect checks the status under its locks and raises the
\* event after it has dropped them.
DetachCheck ==
  /\ unload = "no"
  /\ detach = "idle"
  /\ ControllerFree
  /\ status # "NULL"
  /\ detach' = "checked"
  /\ UNCHANGED <<portVars, urbVars, thrVars, attach, unload, call, ehVars>>

DetachEvent ==
  /\ detach = "checked"
  /\ usbip_event_add(VDEV_EVENT_DOWN)
  /\ detach' = "idle"
  /\ UNCHANGED <<portVars, urbVars, thrVars, attach, unload, call, eh, reaped>>

\* vhci_stop: the USB core has taken back every URB, sysfs_remove_group waits
\* for the writers; the port gets REMOVED and its event thread is stopped.
StopBegin ==
  /\ unload = "no"
  /\ attach = "idle" /\ detach = "idle" /\ ControllerFree
  /\ \A u \in Urbs : owed[u] = 0
  /\ unload' = "event"
  /\ UNCHANGED <<portVars, urbVars, thrVars, attach, detach, call, ehVars>>

StopEvent ==
  /\ unload = "event"
  /\ usbip_event_add(VDEV_EVENT_REMOVED)
  /\ unload' = "done"
  /\ UNCHANGED <<portVars, urbVars, thrVars, attach, detach, call, eh, reaped>>

-----------------------------------------------------------------------------
Seqnums == 0 .. MaxSeqnum

UrbCall ==
  \/ \E u \in Urbs, d \in Conns,
        op \in {"set_address", "get_descriptor", "get_vdev"} :
          vhci_urb_enqueue(u, op, d)
  \/ \E u \in Urbs : vhci_urb_dequeue(u)

CallStep ==
  \/ EnqueueSetAddress \/ EnqueueGetDescriptor \/ EnqueueGetVdev
  \/ EnqueuePush \/ EnqueueNoMemory
  \/ DequeueLocal \/ DequeueUnlink \/ DequeueNoMemory

TxSend(c) ==
  \/ \E n \in Seqnums : TxSendSubmit(c, n)
  \/ \E n, m \in Seqnums : TxSendUnlink(c, n, m)

TxStep(c) ==
  \/ TxTakeSubmit(c) \/ TxTakeUnlink(c) \/ TxWait(c) \/ TxOops(c)
  \/ \E mask \in TxErrors : TxSendFails(c, mask)

\* The peer answers only what the port has numbered, in any order and any
\* number of times.
RxPdu(c) == \E n \in 1 .. seqnum : RxRetSubmit(c, n) \/ RxRetUnlink(c, n)

RxStep(c) ==
  \/ RxLoop(c) \/ RxDown(c) \/ RxIdleTimeout(c)
  \/ RxPayload(c) \/ RxGiveBack(c)
  \/ \E mask \in RxErrors : RxPayloadFails(c, mask)

EhStep ==
  \/ EhLoop \/ EhShutdown \/ EhStopRx \/ EhStopTx \/ EhPutSocket
  \/ EhCleanup \/ EhGiveBack \/ EhDisconnect \/ EhReset \/ EhUnusable

AttachStep ==
  \/ AttachRunRx \/ AttachSetRx \/ AttachRunTx \/ AttachSetTx
  \/ AttachConnect

Admin == AttachClaim \/ DetachCheck \/ DetachEvent \/ StopBegin \/ StopEvent

Next ==
  \/ UrbCall \/ CallStep \/ EhStep \/ AttachStep \/ Admin
  \/ \E c \in Conns : TxSend(c) \/ TxStep(c) \/ RxPdu(c) \/ RxStep(c)

Spec == Init /\ [][Next]_vars

(***************************************************************************)
(* Fairness.  Every thread is scheduled, and the ticket spinlocks of the   *)
(* kernel serve every waiter, so a step that takes the_controller->lock is *)
(* strongly fair.  Nothing makes the peer answer or the USB core call: a   *)
(* thread blocked on an open socket may stay there for ever, but a socket  *)
(* that was shut down fails at once.                                       *)
(***************************************************************************)
TxRuns(c) ==
  \/ TxTakeSubmit(c) \/ TxTakeUnlink(c) \/ TxWait(c) \/ TxOops(c)
  \/ tcp_socket # "open" /\ TxSendFails(c, VDEV_EVENT_ERROR_TCP)

RxRuns(c) ==
  \/ RxLoop(c)
  \/ /\ tcp_socket # "open"
     /\ RxDown(c) \/ RxPayloadFails(c, VDEV_EVENT_ERROR_TCP)

FairSpec ==
  /\ Spec
  /\ WF_vars(CallStep) /\ WF_vars(AttachStep) /\ WF_vars(DetachEvent)
  /\ WF_vars(EhStep) /\ SF_vars(EhCleanup) /\ SF_vars(EhDisconnect)
  /\ SF_vars(AttachConnect)
  /\ \A c \in Conns :
       WF_vars(TxRuns(c)) /\ WF_vars(RxRuns(c)) /\ SF_vars(RxGiveBack(c))

-----------------------------------------------------------------------------
(* Properties.                                                             *)

InEnqueue(u) == call.urb = u /\ call.op # "dequeue"
Listed(u)    == priv[u].list # "none"
InRx(c, u)   == rx[c].urb = u
InEh(u)      == reaped = u

\* At any moment one context has custody of an URB: the enqueue that brings
\* it in, one of the lists priv_tx and priv_rx, a receive thread that found
\* its reply, or the cleanup of the event thread; and whoever has it still
\* owes the USB core the giveback.  So no URB is given back twice, whatever
\* replies, unlinks, failures and detaches overlap.
GivebackOnce ==
  \A u \in Urbs :
    /\ owed[u] \in {0, 1}
    /\ InEnqueue(u) => ~Listed(u) /\ owed[u] = 1
    /\ Listed(u) => owed[u] = 1
    /\ InEh(u) => ~InEnqueue(u) /\ ~Listed(u) /\ owed[u] = 1
    /\ \A c \in Conns : InRx(c, u) =>
         /\ ~InEnqueue(u) /\ ~Listed(u) /\ ~InEh(u) /\ owed[u] = 1
         /\ \A d \in Conns : InRx(d, u) => d = c

\* "NOTE: shutdown must come first" (usbip_event.c): a port that is free for
\* the next attach has been shut down completely, so no thread of a former
\* connection runs on it, no socket is left and no cancel request either, and
\* the root hub shows no device on it.
ThreadEnded(pc) == pc \in {"unborn", "done"}
FreePortIsQuiet ==
  status = "NULL" =>
    /\ tcp_socket = "NULL" /\ tcp_rx = 0 /\ tcp_tx = 0
    /\ \A c \in Conns : ThreadEnded(rx[c].pc) /\ ThreadEnded(tx[c].pc)
    /\ unlink_tx = {} /\ unlink_rx = {}
    /\ rh_port = 0

\* The numbers of a connection start again at 1, yet a reply is looked up on
\* a list that outlives the connection: a receive thread completes only URBs
\* that were sent on its own connection.
ReplyMatchesConnection ==
  [][\A c \in Conns, u \in Urbs :
       InRx(c, u)' /\ ~InRx(c, u) => priv[u].conn = c]_vars

\* vhci_shutdown_connection leaves the URBs that are still pushed to the USB
\* core's dequeue.  One that was unlinked before is not dequeued again, so the
\* cleanup must give it back: "give back URB of unanswered unlink request".
NoStrandedUrb ==
  (status = "NULL" /\ ControllerFree) =>
    \A u \in Urbs : ~(Listed(u) /\ unlinked[u])

\* A lost connection is always torn down to the end: the event thread never
\* waits for ever on a thread that waits for it, for a lock or on a socket.
TeardownEnds ==
  VDEV_EVENT_DOWN \subseteq event
    ~> (status \in {"NULL", "ERROR"} \/ unload # "no")

\* "Sysfs entry to shutdown a virtual connection": a write to detach that was
\* accepted frees the port.
DetachFrees ==
  (detach = "checked" /\ status # "NULL")
    ~> (status = "NULL" \/ unload # "no")

\* "shutdown all the ports of vhci_hcd": when the event thread has ended at
\* unload, no thread of a connection is left.
UnloadShutsDown ==
  (unload = "done" /\ eh.pc = "gone") =>
    \A c \in Conns : ThreadEnded(rx[c].pc) /\ ThreadEnded(tx[c].pc)

\* The port keeps the promise of UrbCustody: under this mapping of its state
\* every step of the port moves at most one URB, and only the way UrbCustody
\* allows.  An URB given back twice would be in none of its places.
PlaceOf(u) ==
  CASE owed[u] = 0 -> "core"
    [] owed[u] \notin {0, 1} -> "twice"
    [] OTHER ->
         IF InEnqueue(u) THEN "enqueue"
         ELSE IF Listed(u) THEN "pushed"
         ELSE IF InEh(u) \/ \E c \in Conns : InRx(c, u) THEN "returning"
         ELSE "lost"

UrbSpec == INSTANCE UrbCustody WITH place <- [u \in Urbs |-> PlaceOf(u)]

KeepsCustody == UrbSpec!Custody
=============================================================================
