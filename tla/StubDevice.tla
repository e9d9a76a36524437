----------------------------- MODULE StubDevice -----------------------------
(***************************************************************************)
(* One exported device of the USB/IP server driver (stub_dev.c, stub_rx.c, *)
(* stub_tx.c, stub_main.c) with its event thread (usbip_event.c).  The     *)
(* contexts that run concurrently are the threads stub_rx and stub_tx of   *)
(* each connection, the event thread, the USB core that completes URBs in  *)
(* interrupt context, and the writers of usbip_sockfd and of the driver's  *)
(* unbind.                                                                 *)
(*                                                                         *)
(* A step is one critical section of priv_lock or ud.lock, or the code     *)
(* between two of them.  Undefined behaviour is a choice of its outcomes;  *)
(* a thread that crashes in the kernel is dead, without any event.         *)
(***************************************************************************)
EXTENDS Integers, Sequences, FiniteSets, UsbipEvent

CONSTANTS
  MaxCmd,     \* bound: commands a client sends on one connection
  MaxConn,    \* bound: connections given to the device
  SockfdRaces \* may store_sockfd overlap the handling of an event?

ASSUME StubDeviceAssumption ==
  /\ MaxCmd \in Nat \ {0}
  /\ MaxConn \in Nat \ {0}
  /\ SockfdRaces \in BOOLEAN

VARIABLES
  status,     \* ud.status, without the SDEV_ST_ prefix
  tcp_socket, \* ud.tcp_socket: NULL, open, or shut by kernel_sock_shutdown
  conn,       \* connections so far; names the threads of the current one
  tcp_rx, tcp_tx,          \* ud.tcp_rx, ud.tcp_tx: thread names, 0 is NULL
  rx, tx,     \* the threads started for each connection
  priv_init,  \* stub_privs whose URB is set up or in flight
  priv_tx,    \* stub_privs whose URB has completed, in that order
  priv_free,  \* stub_privs whose result is sent, until they are freed
  unlink_tx,  \* numbers of the RET_UNLINKs to send, in order
  unlink_free,             \* stub_unlinks sent, until they are freed
  sockfd, down,            \* progress of a write to usbip_sockfd, of a "-1"
  unbind,     \* progress of stub_disconnect
  received, answered,      \* history: commands and replies of the connection
  superseded  \* history: submissions whose reply became that of an unlink

devVars  == <<status, tcp_socket, conn>>
thrVars  == <<tcp_rx, tcp_tx, rx, tx>>
privVars == <<priv_init, priv_tx, priv_free>>
unlVars  == <<unlink_tx, unlink_free>>
admVars  == <<sockfd, down, unbind>>
hisVars  == <<received, answered, superseded>>
vars == <<devVars, thrVars, privVars, unlVars, admVars, hisVars, event,
          eh>>

-----------------------------------------------------------------------------
(* Data.                                                                   *)

Conns == 1 .. MaxConn
Cmds  == 1 .. MaxCmd

\* struct stub_priv.  cmd is the number of the CMD_SUBMIT that made it and
\* names it; seqnum is the number its reply will carry.  urb: "none" (NULL),
\* "new" (allocated, not submitted), "flight", "cancelled" (in flight and
\* unlinked) or "done" (completed).
Privs == [cmd: Cmds, seqnum: Cmds, unlinking: BOOLEAN,
          urb: {"none", "new", "flight", "cancelled", "done"}]

InFlight(p) == p.urb \in {"flight", "cancelled"}

RxThread == [pc: {"unborn", "loop", "recv", "alloc", "setup", "unlink",
                  "garbled", "done"}, cmd: 0 .. MaxCmd]
TxThread == [pc: {"unborn", "top", "submit", "send_submit", "unlink",
                  "send_unlink", "wait", "asleep", "done"},
             seqnum: 0 .. MaxCmd]

\* The places of stub_shutdown_connection, and of a crashed event thread.
EhPcs == EhLoopPcs \cup
           {"shut", "stop_rx", "stop_tx", "put", "cleanup", "dead"}

TypeOK ==
  /\ status \in {"AVAILABLE", "USED", "ERROR"}
  /\ tcp_socket \in {"NULL", "open", "shut"}
  /\ conn \in 0 .. MaxConn
  /\ event \in SUBSET EventBits
  /\ eh \in [pc: EhPcs, ev: SUBSET EventBits]
  /\ tcp_rx \in 0 .. MaxConn
  /\ tcp_tx \in 0 .. MaxConn
  /\ rx \in [Conns -> RxThread]
  /\ tx \in [Conns -> TxThread]
  /\ priv_init \in SUBSET Privs
  /\ priv_tx \in Seq(Privs)
  /\ priv_free \in SUBSET Privs
  /\ unlink_tx \in Seq(Cmds)
  /\ unlink_free \in SUBSET Cmds
  /\ sockfd \in {"idle", "run_rx", "set_rx", "run_tx", "set_tx"}
  /\ down \in {"idle", "checked"}
  /\ unbind \in {"no", "event", "done"}
  /\ received \in SUBSET [n: Cmds, target: 0 .. MaxCmd]
  /\ answered \in [Cmds -> Nat]
  /\ superseded \in SUBSET Cmds

\* stub_device_alloc
Init ==
  /\ status = "AVAILABLE"
  /\ tcp_socket = "NULL"
  /\ conn = 0
  /\ EhInit
  /\ tcp_rx = 0
  /\ tcp_tx = 0
  /\ rx = [c \in Conns |-> [pc |-> "unborn", cmd |-> 0]]
  /\ tx = [c \in Conns |-> [pc |-> "unborn", seqnum |-> 0]]
  /\ priv_init = {}
  /\ priv_tx = <<>>
  /\ priv_free = {}
  /\ unlink_tx = <<>>
  /\ unlink_free = {}
  /\ sockfd = "idle"
  /\ down = "idle"
  /\ unbind = "no"
  /\ received = {}
  /\ answered = [n \in Cmds |-> 0]
  /\ superseded = {}

-----------------------------------------------------------------------------
(* Shared helpers.                                                         *)

RxTo(c, pc, n) == rx' = [rx EXCEPT ![c] = [pc |-> pc, cmd |-> n]]
TxTo(c, pc, n) == tx' = [tx EXCEPT ![c] = [pc |-> pc, seqnum |-> n]]

\* wake_up(&sdev->tx_waitq): a sleeping stub_tx evaluates its condition again.
WakeTx == tx' = [c \in Conns |->
            IF tx[c].pc = "asleep" THEN [tx[c] EXCEPT !.pc = "wait"]
                                   ELSE tx[c]]

\* kthread_should_stop: the event thread waits in kthread_stop for thread c.
StopRequested(c, phase, ptr) == eh.pc = phase /\ ptr = c

\* Mutants of stub_enqueue_ret_unlink: the number is never set; a failed
\* kzalloc raises no event.
stub_enqueue_ret_unlinkUnset(n) ==
  \/ unlink_tx' = Append(unlink_tx, 0) /\ UNCHANGED event
  \/ usbip_event_add(VDEV_EVENT_ERROR_MALLOC) /\ UNCHANGED unlink_tx
stub_enqueue_ret_unlinkSilent(n) ==
  UNCHANGED event /\ unlink_tx' \in {Append(unlink_tx, n), unlink_tx}

\* stub_enqueue_ret_unlink: when kzalloc fails the reply is dropped and the
\* connection given up.
stub_enqueue_ret_unlink(n) ==
  \/ unlink_tx' = Append(unlink_tx, n) /\ UNCHANGED event
  \/ usbip_event_add(VDEV_EVENT_ERROR_MALLOC) /\ UNCHANGED unlink_tx

-----------------------------------------------------------------------------
(* stub_rx_loop, thread c.                                                 *)

RxLoop(c) ==
  /\ rx[c].pc = "loop"
  /\ IF event # {} \/ StopRequested(c, "stop_rx", tcp_rx)
     THEN RxTo(c, "done", 0) ELSE RxTo(c, "recv", 0)
  /\ UNCHANGED <<devVars, tcp_rx, tcp_tx, tx, privVars, unlVars, admVars,
                 hisVars, event, eh>>

\* Mutant of RxBad: no event, the loop goes on.
RxBadQuiet(c) ==
  /\ rx[c].pc \in {"recv", "garbled"}
  /\ RxTo(c, "loop", 0)
  /\ UNCHANGED <<devVars, tcp_rx, tcp_tx, tx, privVars, unlVars, admVars,
                 hisVars, event, eh>>

\* stub_rx_pdu: usbip_recv does not return a whole header, or the request is
\* not valid or unknown.
RxBad(c) ==
  /\ rx[c].pc \in {"recv", "garbled"}
  /\ usbip_event_add(SDEV_EVENT_ERROR_TCP)
  /\ RxTo(c, "loop", 0)
  /\ UNCHANGED <<devVars, tcp_rx, tcp_tx, tx, privVars, unlVars, admVars,
                 hisVars, eh>>

\* valid_request
Valid(c, n) == rx[c].pc = "recv" /\ tcp_socket # "NULL" /\ status = "USED"

\* CMD_SUBMIT number n: stub_priv_alloc links a new stub_priv, without a URB,
\* to priv_init.
RxCmdSubmit(c, n) ==
  /\ Valid(c, n)
  /\ \/ /\ priv_init' = priv_init \cup
             {[cmd |-> n, seqnum |-> n, unlinking |-> FALSE, urb |-> "none"]}
        /\ RxTo(c, "alloc", n)
        /\ UNCHANGED event
     \/ /\ usbip_event_add(SDEV_EVENT_ERROR_MALLOC)
        /\ RxTo(c, "loop", 0)
        /\ UNCHANGED priv_init
  /\ received' = received \cup {[n |-> n, target |-> 0]}
  /\ UNCHANGED <<devVars, tcp_rx, tcp_tx, tx, priv_tx, priv_free, unlVars,
                 admVars, answered, superseded, eh>>

\* The stub_priv this thread is setting up gets the given state of its URB.
SetUrb(n, urb) ==
  priv_init' = {IF p.cmd = n THEN [p EXCEPT !.urb = urb] ELSE p :
                  p \in priv_init}

\* usb_alloc_urb, and the allocation of the buffers; a failure leaves what
\* there is on priv_init.
RxAlloc(c) ==
  /\ rx[c].pc = "alloc"
  /\ \/ /\ SetUrb(rx[c].cmd, "new")
        /\ RxTo(c, "setup", rx[c].cmd)
        /\ UNCHANGED event
     \/ \E urb \in {"none", "new"} :
          /\ SetUrb(rx[c].cmd, urb)
          /\ usbip_event_add(SDEV_EVENT_ERROR_MALLOC)
          /\ RxTo(c, "loop", 0)
  /\ UNCHANGED <<devVars, tcp_rx, tcp_tx, tx, priv_tx, priv_free, unlVars,
                 admVars, hisVars, eh>>

\* usbip_recv_xbuff and usbip_recv_iso; usb_submit_urb.  A short read of the
\* buffer raises ERROR_TCP and the URB is submitted all the same.
RxSubmitUrb(c) ==
  /\ rx[c].pc = "setup"
  /\ SetUrb(rx[c].cmd, "flight")
  /\ \E mask \in {{}, SDEV_EVENT_ERROR_TCP} : usbip_event_add(mask)
  /\ RxTo(c, "loop", 0)
  /\ UNCHANGED <<devVars, tcp_rx, tcp_tx, tx, priv_tx, priv_free, unlVars,
                 admVars, hisVars, eh>>

\* They fail, or usb_submit_urb does: the URB stays on priv_init unsubmitted.
RxSetupFails(c) ==
  /\ rx[c].pc = "setup"
  /\ usbip_event_add(SDEV_EVENT_ERROR_SUBMIT)
  /\ RxTo(c, "loop", 0)
  /\ UNCHANGED <<devVars, tcp_rx, tcp_tx, tx, privVars, unlVars, admVars,
                 hisVars, eh>>

\* usbip_recv_iso returns -ENOMEM: no event, and the descriptors it did not
\* read will be taken for the next header.
RxIsoNoMemory(c) ==
  /\ rx[c].pc = "setup"
  /\ RxTo(c, "garbled", 0)
  /\ UNCHANGED <<devVars, tcp_rx, tcp_tx, tx, privVars, unlVars, admVars,
                 hisVars, event, eh>>

\* Mutant of RxCmdUnlink: the reply keeps the number of the submission.
RxCmdUnlinkKeepsSeqnum(c, n, target) ==
  /\ Valid(c, n)
  /\ received' = received \cup {[n |-> n, target |-> target]}
  /\ \/ \E p \in priv_init :
          /\ p.seqnum = target
          /\ priv_init' = (priv_init \ {p}) \cup
                            {[p EXCEPT !.unlinking = TRUE]}
          /\ superseded' = superseded \cup {p.cmd}
          /\ RxTo(c, "unlink", p.cmd)
          /\ UNCHANGED <<unlink_tx, event>>
     \/ /\ \A p \in priv_init : p.seqnum # target
        /\ stub_enqueue_ret_unlink(n)
        /\ RxTo(c, "loop", 0)
        /\ UNCHANGED <<priv_init, superseded>>
  /\ UNCHANGED <<devVars, tcp_rx, tcp_tx, tx, priv_tx, priv_free, unlink_free,
                 admVars, answered, eh>>

\* CMD_UNLINK number n of the submission numbered target: stub_recv_cmd_unlink
\* up to the release of priv_lock.  Nothing wakes stub_tx when the submission
\* is not on priv_init.
RxCmdUnlink(c, n, target) ==
  /\ Valid(c, n)
  /\ received' = received \cup {[n |-> n, target |-> target]}
  /\ \/ \E p \in priv_init :
          /\ p.seqnum = target
          /\ priv_init' = (priv_init \ {p}) \cup
                            {[p EXCEPT !.unlinking = TRUE, !.seqnum = n]}
          /\ superseded' = superseded \cup {p.cmd}
          /\ RxTo(c, "unlink", p.cmd)
          /\ UNCHANGED <<unlink_tx, event>>
     \/ /\ \A p \in priv_init : p.seqnum # target
        /\ stub_enqueue_ret_unlink(n)
        /\ RxTo(c, "loop", 0)
        /\ UNCHANGED <<priv_init, superseded>>
  /\ UNCHANGED <<devVars, tcp_rx, tcp_tx, tx, priv_tx, priv_free, unlink_free,
                 admVars, answered, eh>>

\* usb_unlink_urb(priv->urb).  When stub_complete has freed both meanwhile the
\* call reads freed memory: it fails as a completed URB would, or crashes.
RxUnlinkUrb(c) ==
  /\ rx[c].pc = "unlink"
  /\ \/ \E p \in priv_init :
          /\ p.cmd = rx[c].cmd
          /\ SetUrb(p.cmd, IF p.urb = "flight" THEN "cancelled" ELSE p.urb)
          /\ RxTo(c, "loop", 0)
     \/ /\ \A p \in priv_init : p.cmd # rx[c].cmd
        /\ \E pc \in {"loop", "done"} : RxTo(c, pc, 0)
        /\ UNCHANGED priv_init
  /\ UNCHANGED <<devVars, tcp_rx, tcp_tx, tx, priv_tx, priv_free, unlVars,
                 admVars, hisVars, event, eh>>

-----------------------------------------------------------------------------
(* stub_complete, called by the USB core when a URB ends.  quiet: the status *)
(* is -ENOENT or -EILSEQ, and the function returns before its wake_up.       *)

stub_complete(p, quiet) ==
  /\ p \in priv_init /\ InFlight(p)
  /\ priv_init' = priv_init \ {p}
  /\ IF p.unlinking
     THEN stub_enqueue_ret_unlink(p.seqnum) /\ UNCHANGED priv_tx
     ELSE /\ priv_tx' = Append(priv_tx, [p EXCEPT !.urb = "done"])
          /\ UNCHANGED <<unlink_tx, event>>
  /\ IF quiet THEN UNCHANGED tx ELSE WakeTx
  /\ UNCHANGED <<devVars, tcp_rx, tcp_tx, rx, priv_free, unlink_free, admVars,
                 hisVars, eh>>

-----------------------------------------------------------------------------
(* stub_tx_loop, thread c.                                                 *)

\* The loop's tests of kthread_should_stop and usbip_event_happened.
TxTop(c) ==
  /\ tx[c].pc = "top"
  /\ IF event # {} \/ StopRequested(c, "stop_tx", tcp_tx)
     THEN TxTo(c, "done", 0) ELSE TxTo(c, "submit", 0)
  /\ UNCHANGED <<devVars, tcp_rx, tcp_tx, rx, privVars, unlVars, admVars,
                 hisVars, event, eh>>

\* stub_send_ret_submit: dequeue_from_priv_tx, or, when the list is empty, the
\* release of everything on priv_free.
TxTakeSubmit(c) ==
  /\ tx[c].pc = "submit"
  /\ \/ /\ priv_tx = <<>>
        /\ priv_free' = {}
        /\ TxTo(c, "unlink", 0)
        /\ UNCHANGED priv_tx
     \/ /\ priv_tx # <<>>
        /\ priv_tx' = Tail(priv_tx)
        /\ priv_free' = priv_free \cup {Head(priv_tx)}
        /\ TxTo(c, "send_submit", Head(priv_tx).seqnum)
  /\ UNCHANGED <<devVars, tcp_rx, tcp_tx, rx, priv_init, unlVars, admVars,
                 hisVars, event, eh>>

\* stub_send_ret_unlink: dequeue_from_unlink_tx likewise.
TxTakeUnlink(c) ==
  /\ tx[c].pc = "unlink"
  /\ \/ /\ unlink_tx = <<>>
        /\ unlink_free' = {}
        /\ TxTo(c, "wait", 0)
        /\ UNCHANGED unlink_tx
     \/ /\ unlink_tx # <<>>
        /\ unlink_tx' = Tail(unlink_tx)
        /\ unlink_free' = unlink_free \cup {Head(unlink_tx)}
        /\ TxTo(c, "send_unlink", Head(unlink_tx))
  /\ UNCHANGED <<devVars, tcp_rx, tcp_tx, rx, privVars, admVars, hisVars,
                 event, eh>>

Answer(n) == answered' = [answered EXCEPT ![n] = @ + 1]

\* RET_SUBMIT number n goes out.
TxSendSubmit(c, n) ==
  /\ tx[c] = [pc |-> "send_submit", seqnum |-> n]
  /\ tcp_socket = "open"
  /\ Answer(n)
  /\ TxTo(c, "submit", 0)
  /\ UNCHANGED <<devVars, tcp_rx, tcp_tx, rx, privVars, unlVars, admVars,
                 received, superseded, event, eh>>

\* RET_UNLINK number n goes out.
TxSendUnlink(c, n) ==
  /\ tx[c] = [pc |-> "send_unlink", seqnum |-> n]
  /\ tcp_socket = "open"
  /\ Answer(n)
  /\ TxTo(c, "unlink", 0)
  /\ UNCHANGED <<devVars, tcp_rx, tcp_tx, rx, privVars, unlVars, admVars,
                 received, superseded, event, eh>>

\* kernel_sendmsg fails, or there is no memory for the iso descriptors: the
\* loop ends.
TxErrors == {SDEV_EVENT_ERROR_TCP, SDEV_EVENT_ERROR_MALLOC}

TxSendFails(c, mask) ==
  /\ \/ tx[c].pc = "send_submit" /\ mask \in TxErrors
     \/ tx[c].pc = "send_unlink" /\ mask = SDEV_EVENT_ERROR_TCP
  /\ usbip_event_add(mask)
  /\ TxTo(c, "done", 0)
  /\ UNCHANGED <<devVars, tcp_rx, tcp_tx, rx, privVars, unlVars, admVars,
                 hisVars, eh>>

\* wait_event_interruptible: the condition, and the sleep until a wake_up or
\* kthread_stop.
TxWait(c) ==
  /\ \/ /\ tx[c].pc = "wait"
        /\ IF \/ priv_tx # <<>> \/ unlink_tx # <<>>
              \/ StopRequested(c, "stop_tx", tcp_tx)
           THEN TxTo(c, "top", 0) ELSE TxTo(c, "asleep", 0)
     \/ /\ tx[c].pc = "asleep"
        /\ StopRequested(c, "stop_tx", tcp_tx)
        /\ TxTo(c, "wait", 0)
  /\ UNCHANGED <<devVars, tcp_rx, tcp_tx, rx, privVars, unlVars, admVars,
                 hisVars, event, eh>>

-----------------------------------------------------------------------------
(* The event thread.                                                       *)

\* With SockfdRaces FALSE a round waits for a write to usbip_sockfd to end.
EhLoop ==
  /\ \/ EhRound(unbind = "done")
     \/ EhWake(unbind = "done") /\ (SockfdRaces \/ sockfd = "idle")
  /\ UNCHANGED <<devVars, thrVars, privVars, unlVars, admVars, hisVars>>

\* stub_shutdown_connection: send_disconnect, whose result is ignored.
EhSendDisconnect ==
  /\ EhHandle("SHUTDOWN", "handle", "shut")
  /\ UNCHANGED <<devVars, thrVars, privVars, unlVars, admVars, hisVars, event>>

\* Mutant of EhShutdown: the socket is not shut down.
EhShutdownNoShut ==
  /\ eh.pc = "shut"
  /\ EhTo("stop_rx")
  /\ UNCHANGED <<devVars, thrVars, privVars, unlVars, admVars, hisVars, event>>

\* kernel_sock_shutdown
EhShutdown ==
  /\ eh.pc = "shut"
  /\ tcp_socket' = IF tcp_socket = "NULL" THEN "NULL" ELSE "shut"
  /\ EhTo("stop_rx")
  /\ UNCHANGED <<status, conn, thrVars, privVars, unlVars, admVars, hisVars,
                 event>>

\* kthread_stop_put(tcp_rx), then of tcp_tx: wait for the thread to end.
EhStopRx ==
  /\ eh.pc = "stop_rx"
  /\ tcp_rx # 0 => rx[tcp_rx].pc = "done"
  /\ tcp_rx' = 0
  /\ EhTo("stop_tx")
  /\ UNCHANGED <<devVars, tcp_tx, rx, tx, privVars, unlVars, admVars, hisVars,
                 event>>

EhStopTx ==
  /\ eh.pc = "stop_tx"
  /\ tcp_tx # 0 => tx[tcp_tx].pc = "done"
  /\ tcp_tx' = 0
  /\ EhTo("put")
  /\ UNCHANGED <<devVars, tcp_rx, rx, tx, privVars, unlVars, admVars, hisVars,
                 event>>

\* fput of the socket.
EhPutSocket ==
  /\ eh.pc = "put"
  /\ tcp_socket' = "NULL"
  /\ EhTo("cleanup")
  /\ UNCHANGED <<status, conn, thrVars, privVars, unlVars, admVars, hisVars,
                 event>>

\* Mutant of EhCleanup: priv_tx is not popped.
EhCleanupKeepsTx ==
  /\ eh.pc = "cleanup"
  /\ \A p \in priv_init : p.urb = "new"
  /\ priv_init' = {} /\ priv_free' = {}
  /\ unlink_tx' = <<>> /\ unlink_free' = {}
  /\ EhTo("clear_shutdown")
  /\ UNCHANGED <<devVars, thrVars, priv_tx, admVars, hisVars, event>>

\* stub_device_cleanup_urbs pops every stub_priv with list_del, kills its URB
\* and frees both; the stub_unlinks are freed.  The steps are one because all
\* threads of the connection have ended.  A URB in flight completes while it is
\* killed, and stub_complete unlinks the stub_priv from the list it was just
\* removed from, which writes through LIST_POISON.  A stub_priv without a URB
\* makes this thread dereference NULL.
EhCleanup ==
  /\ eh.pc = "cleanup"
  /\ \/ /\ \A p \in priv_init : p.urb = "new"
        /\ priv_init' = {} /\ priv_tx' = <<>> /\ priv_free' = {}
        /\ unlink_tx' = <<>> /\ unlink_free' = {}
        /\ EhTo("clear_shutdown")
     \/ /\ \E p \in priv_init : InFlight(p) \/ p.urb = "none"
        /\ EhTo("dead")
        /\ UNCHANGED <<privVars, unlVars>>
  /\ UNCHANGED <<devVars, thrVars, admVars, hisVars, event>>

\* stub_device_reset: usb_reset_device succeeds or not.
EhReset ==
  /\ EhHandle("RESET", "test_reset", "clear_reset")
  /\ status' \in {"AVAILABLE", "ERROR"}
  /\ UNCHANGED <<tcp_socket, conn, thrVars, privVars, unlVars, admVars,
                 hisVars, event>>

\* stub_device_unusable
EhUnusable ==
  /\ EhHandle("UNUSABLE", "test_unusable", "clear_unusable")
  /\ status' = "ERROR"
  /\ UNCHANGED <<tcp_socket, conn, thrVars, privVars, unlVars, admVars,
                 hisVars, event>>

-----------------------------------------------------------------------------
(* store_sockfd and stub_disconnect.                                       *)

SockfdClaim ==
  /\ unbind = "no"
  /\ sockfd = "idle"
  /\ status = "AVAILABLE"
  /\ conn < MaxConn
  /\ SockfdRaces \/ (eh.pc = "wait" /\ event = {})
  /\ tcp_socket' = "open"
  /\ status' = "USED"
  /\ conn' = conn + 1
  /\ sockfd' = "run_rx"
  /\ received' = {}
  /\ answered' = [n \in Cmds |-> 0]
  /\ superseded' = {}
  /\ UNCHANGED <<thrVars, privVars, unlVars, down, unbind, event, eh>>

\* kthread_get_run wakes the thread before its result is assigned.
SockfdRunRx ==
  /\ sockfd = "run_rx"
  /\ RxTo(conn, "loop", 0)
  /\ sockfd' = "set_rx"
  /\ UNCHANGED <<devVars, tcp_rx, tcp_tx, tx, privVars, unlVars, down, unbind,
                 hisVars, event, eh>>

SockfdSetRx ==
  /\ sockfd = "set_rx"
  /\ tcp_rx' = conn
  /\ sockfd' = "run_tx"
  /\ UNCHANGED <<devVars, tcp_tx, rx, tx, privVars, unlVars, down, unbind,
                 hisVars, event, eh>>

SockfdRunTx ==
  /\ sockfd = "run_tx"
  /\ TxTo(conn, "top", 0)
  /\ sockfd' = "set_tx"
  /\ UNCHANGED <<devVars, tcp_rx, tcp_tx, rx, privVars, unlVars, down, unbind,
                 hisVars, event, eh>>

SockfdSetTx ==
  /\ sockfd = "set_tx"
  /\ tcp_tx' = conn
  /\ sockfd' = "idle"
  /\ UNCHANGED <<devVars, tcp_rx, rx, tx, privVars, unlVars, down, unbind,
                 hisVars, event, eh>>

\* A write of -1 checks the status under ud.lock and raises the event after.
DownCheck ==
  /\ unbind = "no"
  /\ down = "idle"
  /\ status = "USED"
  /\ down' = "checked"
  /\ UNCHANGED <<devVars, thrVars, privVars, unlVars, sockfd, unbind, hisVars,
                 event, eh>>

DownEvent ==
  /\ down = "checked"
  /\ usbip_event_add(SDEV_EVENT_DOWN)
  /\ down' = "idle"
  /\ UNCHANGED <<devVars, thrVars, privVars, unlVars, sockfd, unbind, hisVars,
                 eh>>

\* stub_disconnect: stub_remove_files waits for the writers; shutdown_busid
\* raises the event and stops the event thread.
UnbindBegin ==
  /\ unbind = "no"
  /\ sockfd = "idle" /\ down = "idle"
  /\ unbind' = "event"
  /\ UNCHANGED <<devVars, thrVars, privVars, unlVars, sockfd, down, hisVars,
                 event, eh>>

UnbindEvent ==
  /\ unbind = "event"
  /\ usbip_event_add(SDEV_EVENT_REMOVED)
  /\ unbind' = "done"
  /\ UNCHANGED <<devVars, thrVars, privVars, unlVars, sockfd, down, hisVars,
                 eh>>

-----------------------------------------------------------------------------
\* The client numbers its commands, cancels a submission at most once and only
\* under a later number; the commands may arrive in any order.
ReceivedNumbers == {r.n : r \in received}
RxPdu(c) ==
  \E n \in Cmds \ ReceivedNumbers :
    \/ RxCmdSubmit(c, n)
    \/ \E target \in 1 .. n - 1 :
         /\ \A r \in received :
              r.target \notin {n, target} /\ (r.n = target => r.target = 0)
         /\ RxCmdUnlink(c, n, target)

RxStep(c) ==
  RxLoop(c) \/ RxAlloc(c) \/ RxSubmitUrb(c) \/ RxSetupFails(c)
    \/ RxIsoNoMemory(c) \/ RxUnlinkUrb(c)

TxSend(c) == \E n \in Cmds : TxSendSubmit(c, n) \/ TxSendUnlink(c, n)

TxStep(c) ==
  \/ TxTop(c) \/ TxTakeSubmit(c) \/ TxTakeUnlink(c) \/ TxWait(c)
  \/ \E mask \in TxErrors : TxSendFails(c, mask)

Complete == \E p \in priv_init, quiet \in BOOLEAN : stub_complete(p, quiet)

EhStep ==
  \/ EhLoop \/ EhShutdown \/ EhStopRx \/ EhStopTx \/ EhPutSocket
  \/ EhCleanup \/ EhReset \/ EhUnusable

SockfdStep == SockfdRunRx \/ SockfdSetRx \/ SockfdRunTx \/ SockfdSetTx

Admin ==
  SockfdClaim \/ DownCheck \/ DownEvent \/ UnbindBegin \/ UnbindEvent

Next ==
  \/ Complete \/ EhSendDisconnect \/ EhStep \/ SockfdStep \/ Admin
  \/ \E c \in Conns :
       RxBad(c) \/ RxPdu(c) \/ RxStep(c) \/ TxSend(c) \/ TxStep(c)

Spec == Init /\ [][Next]_vars

(***************************************************************************)
(* Fairness.  Every thread is scheduled; a socket that was shut down fails *)
(* at once; a cancelled URB ends; sendmsg on an open socket returns, for   *)
(* the tx thread and for send_disconnect.  Nothing makes the client send   *)
(* or another URB complete.                                                *)
(***************************************************************************)
TxRuns(c) ==
  \/ TxTop(c) \/ TxTakeSubmit(c) \/ TxTakeUnlink(c) \/ TxWait(c) \/ TxSend(c)
  \/ tcp_socket # "open" /\ TxSendFails(c, SDEV_EVENT_ERROR_TCP)

RxRuns(c) == RxStep(c) \/ (tcp_socket # "open" /\ RxBad(c))

CancelledEnds == \E p \in priv_init, quiet \in BOOLEAN :
                   p.urb = "cancelled" /\ stub_complete(p, quiet)

FairSpec ==
  /\ Spec
  /\ WF_vars(EhStep \/ EhSendDisconnect)
  /\ WF_vars(SockfdStep) /\ WF_vars(DownEvent) /\ WF_vars(UnbindEvent)
  /\ WF_vars(CancelledEnds)
  /\ \A c \in Conns :
       WF_vars(RxRuns(c)) /\ WF_vars(TxRuns(c))

-----------------------------------------------------------------------------
(* Properties.                                                             *)

\* Of the stub_privs S, of the queue s of numbers, and of the threads t, those
\* that stand for a reply numbered n.
Numbered(n, S) == Cardinality({p \in S : p.seqnum = n})
Copies(n, s)   == Cardinality({i \in DOMAIN s : s[i] = n})
Senders(n, t)  == Cardinality({c \in Conns : t[c].seqnum = n})

Numbers(s) == [i \in DOMAIN s |-> s[i].seqnum]

\* How often command n is due a reply, was replied to, or gave its reply up
\* to an unlink.
Replies(n) ==
  Numbered(n, priv_init) + Copies(n, Numbers(priv_tx)) + Copies(n, unlink_tx)
    + Senders(n, tx) + answered[n] + (IF n \in superseded THEN 1 ELSE 0)

\* No command gets two replies, and no reply is made up: a submission whose
\* unlink was accepted is answered under the number of the unlink only, in
\* whatever order the completion, the unlink and the two threads meet.
ReplyAtMostOnce ==
  \A n \in Cmds : Replies(n) <= (IF n \in ReceivedNumbers THEN 1 ELSE 0)

\* No command is forgotten: as long as nothing has gone wrong on the connection
\* every command is on its way to a reply or has had it.
NoReplyLost ==
  (status = "USED" /\ eh.pc = "wait" /\ event = {}) =>
    \A n \in ReceivedNumbers : Replies(n) = 1

\* "NOTE: shutdown must come first" (usbip_event.c): a device that is free for
\* the next connection has no thread, socket or request of a former one.
ThreadEnded(pc) == pc \in {"unborn", "done"}
AvailableIsClean ==
  status = "AVAILABLE" =>
    /\ tcp_socket = "NULL" /\ tcp_rx = 0 /\ tcp_tx = 0
    /\ \A c \in Conns : ThreadEnded(rx[c].pc) /\ ThreadEnded(tx[c].pc)
    /\ priv_init = {} /\ priv_tx = <<>> /\ unlink_tx = <<>>

\* A lost connection is torn down to the end, unless the cleanup crashes the
\* event thread or the driver is unbound.
TeardownEnds ==
  (SDEV_EVENT_DOWN \subseteq event)
    ~> (status # "USED" \/ eh.pc \in {"dead", "gone"})

\* "After a stub_priv is linked to a list_head, our error handler can free
\* allocated data" (stub_rx.c): the cleanup meets no stub_priv whose URB is
\* missing or still in flight.
CleanupIsSafe ==
  eh.pc = "cleanup" => \A p \in priv_init : p.urb = "new"

\* "If stub_complete() is executed before we call usb_unlink_urb(),
\* usb_unlink_urb() will return an error value" (stub_rx.c): the stub_priv
\* whose URB is about to be unlinked still exists.
UnlinkTargetExists ==
  \A c \in Conns :
    rx[c].pc = "unlink" => \E p \in priv_init : p.cmd = rx[c].cmd

\* "After the unlink is completed, send RET_UNLINK", "may be already completed
\* or never be received: send RET_UNLINK" (vhci_hcd.c): a RET_UNLINK that is
\* queued goes out, unless the connection is given up.
RetUnlinkIsSent ==
  (unlink_tx # <<>> /\ event = {})
    ~> (unlink_tx = <<>> \/ event # {} \/ eh.pc # "wait")

\* "To return the result of a urb, the completed urb is linked to the pending
\* list of returning" (stub_tx.c): a completed URB is returned, unless the
\* connection is given up.
RetSubmitIsSent ==
  (priv_tx # <<>> /\ event = {})
    ~> (priv_tx = <<>> \/ event # {} \/ eh.pc # "wait")

-----------------------------------------------------------------------------
(* Why a free device is clean, no command has two replies and none is      *)
(* forgotten, if store_sockfd does not overlap the handling of an event:   *)
(* the inductive invariant of StubDevice_proofs.                           *)

\* The places of the event thread from the one named on, to the end of the
\* round.
AfterCleanup == {"clear_shutdown", "store_shutdown", "test_reset",
                 "clear_reset", "store_reset", "test_unusable",
                 "clear_unusable", "store_unusable", "test_bye"}
AfterPut    == AfterCleanup \cup {"cleanup"}
AfterStopTx == AfterPut \cup {"put"}
AfterStopRx == AfterStopTx \cup {"stop_tx"}

RxStopped == \A c \in Conns : ThreadEnded(rx[c].pc)
TxStopped == \A c \in Conns : ThreadEnded(tx[c].pc)
NoRequests == priv_init = {} /\ priv_tx = <<>> /\ unlink_tx = <<>>

\* A write to usbip_sockfd runs while the event thread waits.
SockfdInv ==
  /\ sockfd # "idle" => eh.pc = "wait" /\ status # "AVAILABLE"
  /\ sockfd = "run_rx" => RxStopped
  /\ sockfd \in {"run_rx", "set_rx", "run_tx"} => TxStopped

\* A thread that runs is that of the last connection and known to the event
\* thread, unless store_sockfd is about to tell it.
RunningInv ==
  /\ \A c \in Conns : ~ ThreadEnded(rx[c].pc) =>
       c = conn /\ (tcp_rx = c \/ sockfd = "set_rx")
  /\ \A c \in Conns : ~ ThreadEnded(tx[c].pc) =>
       c = conn /\ (tcp_tx = c \/ sockfd = "set_tx")

\* What the steps of a shutdown have done stays done until the next
\* connection.
StoppedInv ==
  /\ eh.pc \in AfterStopRx \/ status = "AVAILABLE" => RxStopped /\ tcp_rx = 0
  /\ eh.pc \in AfterStopTx \/ status = "AVAILABLE" => TxStopped /\ tcp_tx = 0
  /\ eh.pc \in AfterPut \/ status = "AVAILABLE" => tcp_socket = "NULL"
  /\ eh.pc \in AfterCleanup \/ status = "AVAILABLE" => NoRequests

ThreadInv == ShutdownFirst /\ SockfdInv /\ RunningInv /\ StoppedInv

\* A stub_priv has the number of its submission, or of the unlink it was
\* found by; a thread has a number while it sends.
RenumberedInv ==
  \A p \in priv_init :
    IF p.unlinking THEN \E r \in received : r.n = p.seqnum /\ r.target # 0
                   ELSE p.seqnum = p.cmd
SendingInv ==
  \A c \in Conns :
    tx[c].seqnum # 0 => tx[c].pc \in {"send_submit", "send_unlink"}

ReplyInv ==
  IsFiniteSet(priv_init) /\ RenumberedInv /\ SendingInv /\ ReplyAtMostOnce

\* As long as nothing has gone wrong every reply is due or was sent.
AllDue == \A n \in ReceivedNumbers : Replies(n) = 1
InOrder == eh.pc = "wait" /\ event = {} /\ unbind # "done" /\ AllDue

\* When something has gone wrong a bit that ends the connection is pending, and
\* is not lost before it has ended.
Ending == {"RESET", "UNUSABLE"}
FailurePending ==
  \/ eh.pc \in {"dead", "gone"}
  \/ /\ eh.pc \in {"head", "wait", "handle", "shut", "stop_rx", "stop_tx", "put",
                  "cleanup", "clear_shutdown", "test_reset"}
     /\ event \cap Ending # {}
  \/ eh.pc = "store_shutdown" /\ eh.ev \cap Ending # {}
  \/ eh.pc = "test_unusable" /\ "UNUSABLE" \in event

FailureInv == status = "USED" => InOrder \/ FailurePending

Inv == TypeOK /\ ThreadInv /\ ReplyInv /\ FailureInv
=============================================================================
