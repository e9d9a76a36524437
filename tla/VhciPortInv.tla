---------------------------- MODULE VhciPortInv -----------------------------
(***************************************************************************)
(* The inductive invariant of VhciPort from which its safety invariants    *)
(* follow when a write to attach does not overlap the handling of an event *)
(* (AttachRaces is FALSE).  It has three parts, each inductive relative to *)
(* the ones before it.                                                     *)
(***************************************************************************)
EXTENDS VhciPort

-----------------------------------------------------------------------------
(* 1. Types, and what an enqueue or dequeue in progress has established.   *)

\* the_controller->lock is held: no other context numbers a request, attaches
\* or begins a call, so what the call checked at its start still holds.
CallInv ==
  /\ call.op = "none" => call.urb = NoUrb
  /\ call.op # "none" =>
       call.urb \in Urbs /\ seqnum < MaxSeqnum
  /\ call.op \notin {"none", "dequeue"} => call.dev \in Conns /\ conn # 0
  /\ status \in {"NOTASSIGNED", "USED"} => conn # 0
  /\ attach # "idle" => conn # 0

\* A receive thread has an URB between finding its reply and giving it back.
RxShape ==
  \A c \in Conns :
    rx[c].urb # NoUrb <=> rx[c].pc \in {"xbuff", "giveback"}

EhShape == reaped # NoUrb <=> eh.pc = "giveback"

TypeInv == TypeOK /\ CallInv /\ RxShape /\ EhShape

-----------------------------------------------------------------------------
(* 2. The event thread and the threads of the connection.                  *)

\* The places of the event thread from the one named on, to the end of the
\* round.
AfterDisconnect == {"clear_shutdown", "store_shutdown", "test_reset",
                    "clear_reset", "store_reset", "test_unusable",
                    "clear_unusable", "store_unusable", "test_bye"}
AfterCleanup   == AfterDisconnect \cup {"disconnect"}
AfterCleanupTx == AfterCleanup \cup {"giveback", "cleanup_rx"}
AfterPut    == AfterCleanupTx \cup {"cleanup"}
AfterStopTx == AfterPut \cup {"put"}
AfterStopRx == AfterStopTx \cup {"stop_tx"}

RxStopped == \A c \in Conns : ThreadEnded(rx[c].pc)
TxStopped == \A c \in Conns : ThreadEnded(tx[c].pc)

\* A write to attach runs while the event thread waits.
AttachInv ==
  /\ attach # "idle" => eh.pc = "wait" /\ status # "NULL" /\ unload = "no"
  /\ attach = "run_rx" => RxStopped
  /\ attach \in {"run_rx", "set_rx", "run_tx"} => TxStopped

\* A thread that runs is that of the last connection and known to the event
\* thread, unless attach is about to tell it.
RunningInv ==
  /\ \A c \in Conns : ~ThreadEnded(rx[c].pc) =>
       c = conn /\ (tcp_rx = c \/ attach = "set_rx")
  /\ \A c \in Conns : ~ThreadEnded(tx[c].pc) =>
       c = conn /\ (tcp_tx = c \/ attach = "set_tx")

\* What the steps of a shutdown have done stays done until the next attach.
StoppedInv ==
  /\ eh.pc \in AfterStopRx \/ status = "NULL" => RxStopped /\ tcp_rx = 0
  /\ eh.pc \in AfterStopTx \/ status = "NULL" => TxStopped /\ tcp_tx = 0
  /\ eh.pc \in AfterPut \/ status = "NULL" => tcp_socket = "NULL"
  /\ eh.pc \in AfterCleanupTx \/ status = "NULL" => unlink_tx = {}
  /\ eh.pc \in AfterCleanup \/ status = "NULL" => unlink_rx = {}
  /\ eh.pc \in AfterDisconnect \/ status = "NULL" => rh_port = 0

\* At unload the event thread does not end before a shutdown.
UnloadInv ==
  /\ eh.pc \in {"head", "gone"} => RxStopped /\ TxStopped
  /\ eh.pc = "handle" => event # {} \/ (RxStopped /\ TxStopped)
  /\ (eh.pc = "wait" /\ unload = "done") => event # {}

ThreadInv ==
  ShutdownFirst /\ AttachInv /\ RunningInv /\ StoppedInv /\ UnloadInv

-----------------------------------------------------------------------------
(* 3. The custody of the URBs.                                             *)

\* A dequeue in progress on an URB that a receive thread has meanwhile picked
\* up does not give it back: it sees a connection.
DequeueInv ==
  /\ call.op = "dequeue" => owed[call.urb] = 1 /\ ~InEh(call.urb)
  /\ \A c \in Conns : rx[c].urb # NoUrb => tcp_socket # "NULL" /\ seqnum # 0

CustodyInv == GivebackOnce /\ DequeueInv

\* What every step of the port keeps true: the types, the order in which a
\* connection is shut down, and the custody of the URBs.
Inv == TypeInv /\ ThreadInv /\ CustodyInv
=============================================================================
