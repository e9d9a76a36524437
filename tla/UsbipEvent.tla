----------------------------- MODULE UsbipEvent -----------------------------
(***************************************************************************)
(* The event thread usbip_eh of usbip_event.c, which both drivers give to  *)
(* each of their devices.  Any context raises events; only this thread     *)
(* handles them, in event_handler, one round after another, until it is    *)
(* told to end.  This module is the loop; the modules of the two drivers   *)
(* extend it, add the steps of their eh_ops.shutdown, reset and unusable   *)
(* and say what else is unchanged.                                         *)
(***************************************************************************)

VARIABLES
  event, \* ud.event: the pending USBIP_EH_ bits
  eh     \* the event thread: its place in the code, and a register

\* usbip_common.h
EventBits == {"SHUTDOWN", "BYE", "RESET", "UNUSABLE"}

RemovedByeOnly == {"BYE"}  \* mutant of VDEV_EVENT_REMOVED

SDEV_EVENT_REMOVED      == {"SHUTDOWN", "RESET", "BYE"}
SDEV_EVENT_DOWN         == {"SHUTDOWN", "RESET"}
SDEV_EVENT_ERROR_TCP    == {"SHUTDOWN", "RESET"}
SDEV_EVENT_ERROR_SUBMIT == {"SHUTDOWN", "RESET"}
SDEV_EVENT_ERROR_MALLOC == {"SHUTDOWN", "UNUSABLE"}
VDEV_EVENT_REMOVED      == {"SHUTDOWN", "BYE"}
VDEV_EVENT_DOWN         == {"SHUTDOWN", "RESET"}
VDEV_EVENT_ERROR_TCP    == {"SHUTDOWN", "RESET"}
VDEV_EVENT_ERROR_MALLOC == {"SHUTDOWN", "UNUSABLE"}

\* The places of the loop.  A driver adds those of its three handlers, which
\* are entered by EhHandle and leave to "clear_" with the name of the bit.
EhLoopPcs == {"head", "wait", "handle", "clear_shutdown", "store_shutdown",
              "test_reset", "clear_reset", "store_reset", "test_unusable",
              "clear_unusable", "store_unusable", "test_bye", "gone"}

\* eh.ev is the value ud->event is read with in "ud->event &= ~bit".
EhInit == event = {} /\ eh = [pc |-> "head", ev |-> {}]

\* usbip_event_add: the bits are or-ed in under ud->lock.
usbip_event_add(mask) == event' = event \cup mask

EhTo(pc) == eh' = [pc |-> pc, ev |-> {}]

\* A handler starts: the bit is tested without a lock.
EhHandle(bit, from, to) == eh.pc = from /\ bit \in event /\ EhTo(to)

\* The bits are tested in the order SHUTDOWN, RESET, UNUSABLE, BYE, and a bit
\* that is not set is skipped.
EhSkip(bit, from, to) ==
  /\ eh.pc = from
  /\ event # {} \/ from # "handle"
  /\ bit \notin event
  /\ EhTo(to)
  /\ UNCHANGED event

EhSkips ==
  \/ EhSkip("SHUTDOWN", "handle", "test_reset")
  \/ EhSkip("RESET", "test_reset", "test_unusable")
  \/ EhSkip("UNUSABLE", "test_unusable", "test_bye")
  \/ EhSkip("BYE", "test_bye", "handle")

\* "ud->event &= ~bit" takes no lock: load, then store.
EhLoad(bit, from, to) ==
  /\ eh.pc = from
  /\ eh' = [pc |-> to, ev |-> event \ {bit}]
  /\ UNCHANGED event

EhStore(from, to) ==
  /\ eh.pc = from
  /\ event' = eh.ev
  /\ EhTo(to)

EhClears ==
  \/ EhLoad("SHUTDOWN", "clear_shutdown", "store_shutdown")
  \/ EhLoad("RESET", "clear_reset", "store_reset")
  \/ EhLoad("UNUSABLE", "clear_unusable", "store_unusable")
  \/ EhStore("store_shutdown", "test_reset")
  \/ EhStore("store_reset", "test_unusable")
  \/ EhStore("store_unusable", "test_bye")

\* The loop's test of kthread_should_stop, which is stop.
EhHead(stop) ==
  /\ eh.pc = "head"
  /\ EhTo(IF stop THEN "gone" ELSE "wait")
  /\ UNCHANGED event

\* wait_event_interruptible
EhWake(stop) ==
  /\ eh.pc = "wait"
  /\ event # {} \/ stop
  /\ EhTo("handle")
  /\ UNCHANGED event

\* "while (usbip_event_happened(ud))": back to the loop when nothing is left.
EhIdle ==
  /\ eh.pc = "handle"
  /\ event = {}
  /\ EhTo("head")
  /\ UNCHANGED event

\* "Stop the error handler."
EhBye ==
  /\ EhHandle("BYE", "test_bye", "gone")
  /\ UNCHANGED event

EhRound(stop) == EhHead(stop) \/ EhIdle \/ EhSkips \/ EhClears \/ EhBye

-----------------------------------------------------------------------------
(* What both drivers owe the order of the handlers.                        *)

\* The bits that may be set, at a place past the handling of SHUTDOWN, when
\* SHUTDOWN is not.
Rest(pc) ==
  CASE pc \in {"test_reset", "clear_reset", "store_reset"} ->
         {"RESET", "UNUSABLE", "BYE"}
    [] pc \in {"test_unusable", "clear_unusable", "store_unusable"} ->
         {"UNUSABLE", "BYE"}
    [] pc = "test_bye" -> {"BYE"}
    [] OTHER -> {}

\* What the "ud->event &= ~bit" in progress is about to store.
StoredRest(pc) ==
  CASE pc = "store_shutdown" -> {"RESET", "UNUSABLE", "BYE"}
    [] pc = "store_reset"    -> {"UNUSABLE", "BYE"}
    [] pc = "store_unusable" -> {"BYE"}
    [] OTHER -> {}

\* "NOTE: shutdown must come first": whichever bits get lost on the way, at
\* the start of a round nothing is pending that does not come with SHUTDOWN.
ShutdownFirst ==
  /\ eh.pc # "gone" => "SHUTDOWN" \in event \/ event \subseteq Rest(eh.pc)
  /\ eh.pc \in {"store_shutdown", "store_reset", "store_unusable"} =>
       "SHUTDOWN" \in eh.ev \/ eh.ev \subseteq StoredRest(eh.pc)
=============================================================================
