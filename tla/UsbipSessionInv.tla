-------------------------- MODULE UsbipSessionInv ---------------------------
(***************************************************************************)
(* The inductive invariant of UsbipSession: where a request and a cancel   *)
(* request are on their way from one driver to the other and back.  Its    *)
(* first part is the order of the two shutdowns, which the two drivers     *)
(* keep whatever their peer does; each further part is inductive relative  *)
(* to the ones before it.                                                  *)
(***************************************************************************)
EXTENDS UsbipSession

Numbers == 1 .. MaxSeqnum
Targets == 0 .. MaxSeqnum

-----------------------------------------------------------------------------
(* 1. What may still happen while nothing has gone wrong.                  *)

\* Before it is attached a driver has nothing to shut down, and as long as its
\* socket is open its event thread has not gone past the test of SHUTDOWN.
ClientOpenInv ==
  /\ c_unload = "no"
  /\ c_conn = 0 =>
       /\ c_event = {} /\ c_eh.pc \in {"head", "wait"}
       /\ c_tcp_socket # "open" /\ c_status = "NULL" /\ c_detach = "idle"
  /\ (c_conn = 1 /\ c_tcp_socket = "open") =>
       \/ c_eh.pc \in {"head", "wait"}
       \/ c_eh.pc = "handle" /\ "SHUTDOWN" \in c_event

ServerOpenInv ==
  /\ s_unbind = "no"
  /\ s_conn = 0 =>
       /\ s_event = {} /\ s_eh.pc \in {"head", "wait"}
       /\ s_tcp_socket # "open" /\ s_status = "AVAILABLE" /\ s_down = "idle"
  /\ (s_conn = 1 /\ s_tcp_socket = "open") =>
       \/ s_eh.pc \in {"head", "wait"}
       \/ s_eh.pc \in {"handle", "shut"} /\ "SHUTDOWN" \in s_event

\* Nothing has gone wrong: once it is false it stays false.
Fine == ~ Broken /\ c_event = {} /\ s_event = {}

-----------------------------------------------------------------------------
(* 2. Where a number is.                                                   *)

Linked(u)   == c_priv[u].list # "none"
SendsUnlink == c_tx[1].pc = "send_unlink"
Cancels     == c_unlink_tx \cup c_unlink_rx

\* The client has n as the number of a request, or of one to cancel.
ClientSubmit(n) ==
  \/ \E u \in Urbs : Linked(u) /\ c_priv[u].seqnum = n
  \/ c_call.op = "dequeue" /\ c_call.priv.seqnum = n
  \/ \E m \in Cancels : m.unlink_seqnum = n
  \/ SendsUnlink /\ c_tx[1].unlink.unlink_seqnum = n

\* Cancel request k waits to be sent, is being sent, was sent.
Queued(k)  == \E m \in c_unlink_tx : m.seqnum = k
Sends(k)   == SendsUnlink /\ c_tx[1].unlink.seqnum = k
Awaited(k) == \E m \in c_unlink_rx : m.seqnum = k

OutSubmit(n)    == InTransit(CmdSubmit(n), c2s)
OutUnlink(k, t) == InTransit(CmdUnlink(k, t), c2s)
Out(k)          == \E t \in Targets : OutUnlink(k, t)
BackSubmit(n)   == InTransit(RetSubmit(n), s2c)
BackUnlink(k)   == InTransit(RetUnlink(k), s2c)

\* The server will answer n with a RET_SUBMIT.
InitSubmit(n)    == \E p \in s_priv_init : ~ p.unlinking /\ p.seqnum = n
QueuedSubmit(n)  ==
  \E p \in Server!Privs : p.seqnum = n /\ InTransit(p, s_priv_tx)
SendingSubmit(n) == s_tx[1] = [pc |-> "send_submit", seqnum |-> n]
HeldSubmit(n)    == InitSubmit(n) \/ QueuedSubmit(n) \/ SendingSubmit(n)

\* It will answer k with a RET_UNLINK.
InitUnlink(k)    == \E p \in s_priv_init : p.unlinking /\ p.seqnum = k
QueuedUnlink(k)  == InTransit(k, s_unlink_tx)
SendingUnlink(k) == s_tx[1] = [pc |-> "send_unlink", seqnum |-> k]
HeldUnlink(k)    == InitUnlink(k) \/ QueuedUnlink(k) \/ SendingUnlink(k)

\* n is somewhere as the number of a request, k as that of a cancel request.
Submitted(n) ==
  \/ ClientSubmit(n) \/ OutSubmit(n) \/ HeldSubmit(n) \/ BackSubmit(n)
  \/ \E k \in Targets : OutUnlink(k, n)
Cancelling(k) ==
  Queued(k) \/ Sends(k) \/ Awaited(k) \/ Out(k) \/ HeldUnlink(k)
    \/ BackUnlink(k)

-----------------------------------------------------------------------------
(* 3. The numbers.                                                         *)

\* A number is that of a request or of a cancel request, of one of each, and
\* the client has counted it.
NumbersInv ==
  /\ \A n \in Numbers : Submitted(n) => n <= c_seqnum /\ ~ Cancelling(n)
  /\ \A n \in Numbers : Cancelling(n) => n <= c_seqnum
  /\ \A u, v \in Urbs :
       (Linked(u) /\ Linked(v) /\ c_priv[u].seqnum = c_priv[v].seqnum) => u = v
  /\ \A m, k \in Cancels : m.seqnum = k.seqnum => m = k
  /\ c_conn = 0 => c_seqnum = 0

\* vhci_tx sends a request of an URB, and a cancel request that was numbered.
SendShape ==
  /\ c_tx[1].pc = "send_submit" => c_tx[1].urb \in Urbs
  /\ SendsUnlink => c_tx[1].unlink.seqnum # 0
  /\ \A m \in c_unlink_tx : m.seqnum # 0

\* The PDUs of one kind in s have different numbers.
Distinct(s, kind) ==
  \A i, j \in DOMAIN s :
    (s[i].pdu = kind /\ s[j].pdu = kind /\ s[i].seqnum = s[j].seqnum) => i = j

Different(s) == \A i, j \in DOMAIN s : s[i] = s[j] => i = j

\* A cancel request is in one place at a time, and there only once.
ServerOnce ==
  /\ \A k \in Numbers :
       /\ InitUnlink(k) => ~ QueuedUnlink(k) /\ ~ SendingUnlink(k)
       /\ QueuedUnlink(k) => ~ SendingUnlink(k)
  /\ \A p, q \in s_priv_init :
       (p.unlinking /\ q.unlinking /\ p.seqnum = q.seqnum) => p = q
  /\ Different(s_unlink_tx)
  /\ IsFiniteSet(s_priv_init)

OnePlace(k) ==
  /\ Queued(k) => ~ Sends(k) /\ ~ Out(k) /\ ~ HeldUnlink(k) /\ ~ BackUnlink(k)
  /\ Sends(k) => ~ Out(k) /\ ~ HeldUnlink(k) /\ ~ BackUnlink(k)
  /\ Out(k) => ~ HeldUnlink(k) /\ ~ BackUnlink(k)
  /\ HeldUnlink(k) => ~ BackUnlink(k)

StageInv == \A k \in Numbers : OnePlace(k)

OnceInv ==
  StageInv /\ Distinct(c2s, "CMD_UNLINK") /\ Distinct(s2c, "RET_UNLINK")

-----------------------------------------------------------------------------
(* 4. What the client waits for.                                           *)

\* The client waits for cancel request k, which cancels n.
AwaitedFor(k, n) == \E m \in c_unlink_rx : m.seqnum = k /\ m.unlink_seqnum = n

\* Until its cleanup has given up waiting the client waits for every cancel
\* request that is on its way, and knows what it cancels.
AwaitedInv ==
  c_tcp_socket # "NULL" =>
    /\ SendsUnlink => c_tx[1].unlink \in c_unlink_rx
    /\ \A k \in Numbers, t \in Targets :
         OutUnlink(k, t) => AwaitedFor(k, t)
    /\ \A k \in Numbers : HeldUnlink(k) \/ BackUnlink(k) => Awaited(k)

\* Request n will be answered as the cancel request that took its place.
AnsweredAsUnlink(n) ==
  \E k \in Numbers : AwaitedFor(k, n) /\ (HeldUnlink(k) \/ BackUnlink(k))
OnWay(n) ==
  OutSubmit(n) \/ HeldSubmit(n) \/ BackSubmit(n) \/ AnsweredAsUnlink(n)
InHand(u) == c_tx[1].pc = "send_submit" /\ c_tx[1].urb = u

\* While nothing has gone wrong a request the client waits for is on its way.
WayInv ==
  Fine => \A u \in Urbs :
            c_priv[u].list = "rx" => InHand(u) \/ OnWay(c_priv[u].seqnum)

\* The parts of the link; those of the drivers are in VhciPortInv and
\* StubDevice.
LinkInv ==
  /\ ClientOpenInv /\ ServerOpenInv
  /\ SendShape /\ NumbersInv /\ ServerOnce /\ OnceInv /\ AwaitedInv /\ WayInv
=============================================================================
