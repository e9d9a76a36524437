---------------------------- MODULE UsbipSession ----------------------------
(***************************************************************************)
(* One connection between a port of the client driver (VhciPort) and an    *)
(* exported device of the server driver (StubDevice): the two modules side *)
(* by side, with the TCP connection between them.  A step in which a       *)
(* thread sends or receives a PDU is a step of one driver and of the       *)
(* connection.  The server attaches first: the tool on the client writes   *)
(* the socket to attach when the server has answered its import request.   *)
(*                                                                         *)
(* Each driver alone is checked against a peer that may do anything it     *)
(* can; here the peer is the other driver, so a PDU arrives only when the  *)
(* other side sent it.  Memory failures and unload, which need no peer,    *)
(* are left to the modules of the two drivers.                             *)
(***************************************************************************)
EXTENDS Integers, Sequences, FiniteSets

CONSTANTS
  Urbs,        \* the URBs the USB core may hand to the port
  NoUrb,       \* "no URB"
  MaxSeqnum,   \* bound: requests numbered on the connection
  Disturbances \* what may end the connection, one of them in a behaviour

ASSUME UsbipSessionAssumption ==
  /\ NoUrb \notin Urbs
  /\ MaxSeqnum \in Nat \ {0}
  /\ Disturbances \subseteq {"detach", "down", "cut"}

VARIABLES
  \* The port, the variables of VhciPort.
  c_status, c_tcp_socket, c_seqnum, c_conn, c_udev, c_addressed, c_rh_port,
  c_priv, c_unlink_tx, c_unlink_rx, c_owed, c_unlinked, c_call, c_tcp_rx,
  c_tcp_tx, c_rx, c_tx, c_reaped, c_attach, c_detach, c_unload, c_event, c_eh,
  \* The device, the variables of StubDevice.
  s_status, s_tcp_socket, s_conn, s_tcp_rx, s_tcp_tx, s_rx, s_tx, s_priv_init,
  s_priv_tx, s_priv_free, s_unlink_tx, s_unlink_free, s_sockfd, s_down,
  s_unbind, s_received, s_answered, s_superseded, s_event, s_eh,
  \* The connection.
  c2s, s2c,    \* PDUs on their way to the server, to the client
  cut,         \* the network has failed
  disturbance  \* bound: the one disturbance of this behaviour

clientVars ==
  <<c_status, c_tcp_socket, c_seqnum, c_conn, c_udev, c_addressed, c_rh_port,
    c_priv, c_unlink_tx, c_unlink_rx, c_owed, c_unlinked, c_call, c_tcp_rx,
    c_tcp_tx, c_rx, c_tx, c_reaped, c_attach, c_detach, c_unload, c_event,
    c_eh>>
serverVars ==
  <<s_status, s_tcp_socket, s_conn, s_tcp_rx, s_tcp_tx, s_rx, s_tx,
    s_priv_init, s_priv_tx, s_priv_free, s_unlink_tx, s_unlink_free, s_sockfd,
    s_down, s_unbind, s_received, s_answered, s_superseded, s_event, s_eh>>
linkVars == <<c2s, s2c, cut, disturbance>>
vars == <<clientVars, serverVars, linkVars>>

Client == INSTANCE VhciPort WITH
  MaxAttach <- 1, AttachRaces <- FALSE,
  status <- c_status, tcp_socket <- c_tcp_socket, seqnum <- c_seqnum,
  conn <- c_conn, udev <- c_udev, addressed <- c_addressed,
  rh_port <- c_rh_port, priv <- c_priv, unlink_tx <- c_unlink_tx,
  unlink_rx <- c_unlink_rx, owed <- c_owed, unlinked <- c_unlinked,
  call <- c_call, tcp_rx <- c_tcp_rx, tcp_tx <- c_tcp_tx, rx <- c_rx,
  tx <- c_tx, reaped <- c_reaped, attach <- c_attach, detach <- c_detach,
  unload <- c_unload, event <- c_event, eh <- c_eh

Server == INSTANCE StubDevice WITH
  MaxCmd <- MaxSeqnum, MaxConn <- 1, SockfdRaces <- FALSE,
  status <- s_status, tcp_socket <- s_tcp_socket, conn <- s_conn,
  tcp_rx <- s_tcp_rx, tcp_tx <- s_tcp_tx, rx <- s_rx, tx <- s_tx,
  priv_init <- s_priv_init, priv_tx <- s_priv_tx, priv_free <- s_priv_free,
  unlink_tx <- s_unlink_tx, unlink_free <- s_unlink_free, sockfd <- s_sockfd,
  down <- s_down, unbind <- s_unbind, received <- s_received,
  answered <- s_answered, superseded <- s_superseded, event <- s_event,
  eh <- s_eh

\* The PDUs, by the fields the receivers look at.
CmdSubmit(n)         == [pdu |-> "CMD_SUBMIT", seqnum |-> n, target |-> 0]
CmdUnlink(n, target) == [pdu |-> "CMD_UNLINK", seqnum |-> n, target |-> target]
RetSubmit(n)         == [pdu |-> "RET_SUBMIT", seqnum |-> n, target |-> 0]
RetUnlink(n)         == [pdu |-> "RET_UNLINK", seqnum |-> n, target |-> 0]
Disconnect           == [pdu |-> "type 3", seqnum |-> 0, target |-> 0]

Pdus == [pdu: {"CMD_SUBMIT", "CMD_UNLINK", "RET_SUBMIT", "RET_UNLINK",
               "type 3"},
         seqnum: 0 .. MaxSeqnum, target: 0 .. MaxSeqnum]

Init ==
  /\ Client!Init /\ Server!Init
  /\ c2s = <<>> /\ s2c = <<>> /\ cut = FALSE
  /\ disturbance \in IF Disturbances = {} THEN {"none"} ELSE Disturbances

-----------------------------------------------------------------------------
(* The connection.                                                         *)

ClientGone == c_conn = 1 /\ c_tcp_socket # "open"
ServerGone == s_conn = 1 /\ s_tcp_socket # "open"

\* A send or receive can fail once the connection is broken or an end of it
\* was shut down; what was sent before may still arrive.
Broken == cut \/ ClientGone \/ ServerGone

NoMoreToServer == cut \/ ServerGone \/ (ClientGone /\ c2s = <<>>)
NoMoreToClient == cut \/ ClientGone \/ (ServerGone /\ s2c = <<>>)

Cut ==
  /\ disturbance = "cut"
  /\ ~cut /\ s_conn = 1
  /\ cut' = TRUE
  /\ UNCHANGED <<clientVars, serverVars, c2s, s2c, disturbance>>

-----------------------------------------------------------------------------
(* Steps of the client.                                                    *)

\* The USB core submits to endpoints of the device; the control requests of
\* the enumeration are left to VhciPort, except the one that sets vdev->udev.
ClientCall ==
  \E u \in Urbs :
    \/ c_udev = 0 /\ Client!vhci_urb_enqueue(u, "set_address", 1)
    \/ Client!vhci_urb_enqueue(u, "get_vdev", 1)
    \/ Client!vhci_urb_dequeue(u)

ClientCallStep ==
  \/ Client!EnqueueSetAddress \/ Client!EnqueueGetVdev \/ Client!EnqueuePush
  \/ Client!DequeueLocal \/ Client!DequeueUnlink

ClientAdmin ==
  \/ s_conn = 1 /\ s_sockfd = "idle" /\ Client!AttachClaim
  \/ disturbance = "detach" /\ Client!DetachCheck
  \/ Client!DetachEvent

ClientTx ==
  \/ Client!TxTakeSubmit(1) \/ Client!TxTakeUnlink(1) \/ Client!TxWait(1)
  \/ Client!TxOops(1)
  \/ Broken /\ Client!TxSendFails(1, Client!VDEV_EVENT_ERROR_TCP)

ClientRx ==
  \/ Client!RxLoop(1) \/ Client!RxPayload(1) \/ Client!RxGiveBack(1)
  \/ NoMoreToClient /\ Client!RxDown(1)

\* A step of the client that the connection has no part in.
ClientAlone(step) == step /\ UNCHANGED <<serverVars, linkVars>>

ClientSends ==
  /\ \E n, target \in 0 .. MaxSeqnum :
       \/ Client!TxSendSubmit(1, n) /\ c2s' = Append(c2s, CmdSubmit(n))
       \/ Client!TxSendUnlink(1, n, target)
            /\ c2s' = Append(c2s, CmdUnlink(n, target))
  /\ UNCHANGED <<serverVars, s2c, cut, disturbance>>

ClientReceives ==
  /\ s2c # <<>> /\ ~cut
  /\ \/ Head(s2c) = Disconnect /\ Client!RxDown(1)
     \/ \E n \in 1 .. MaxSeqnum :
          \/ Head(s2c) = RetSubmit(n) /\ Client!RxRetSubmit(1, n)
          \/ Head(s2c) = RetUnlink(n) /\ Client!RxRetUnlink(1, n)
  /\ s2c' = Tail(s2c)
  /\ UNCHANGED <<serverVars, c2s, cut, disturbance>>

-----------------------------------------------------------------------------
(* Steps of the server.                                                    *)

ServerAdmin ==
  \/ Server!SockfdClaim
  \/ disturbance = "down" /\ Server!DownCheck
  \/ Server!DownEvent

ServerTx ==
  \/ Server!TxTop(1) \/ Server!TxTakeSubmit(1) \/ Server!TxTakeUnlink(1)
  \/ Server!TxWait(1)
  \/ Broken /\ Server!TxSendFails(1, Server!SDEV_EVENT_ERROR_TCP)

\* RxAlloc and stub_complete without their memory failures.
ServerRx ==
  \/ Server!RxLoop(1) \/ Server!RxUnlinkUrb(1)
  \/ Server!RxAlloc(1) /\ UNCHANGED s_event
  \/ Server!RxSubmitUrb(1) /\ (Broken \/ UNCHANGED s_event)
  \/ NoMoreToServer /\ Server!RxBad(1)

ServerCompletes == Server!Complete /\ UNCHANGED s_event

\* A step of the server that the connection has no part in.
ServerAlone(step) == step /\ UNCHANGED <<clientVars, linkVars>>

ServerSends ==
  /\ \E n \in 1 .. MaxSeqnum :
       \/ Server!TxSendSubmit(1, n) /\ s2c' = Append(s2c, RetSubmit(n))
       \/ Server!TxSendUnlink(1, n) /\ s2c' = Append(s2c, RetUnlink(n))
  /\ UNCHANGED <<clientVars, c2s, cut, disturbance>>

ServerSendsDisconnect ==
  /\ Server!EhSendDisconnect
  /\ s2c' = IF Broken \/ s_conn = 0 THEN s2c ELSE Append(s2c, Disconnect)
  /\ UNCHANGED <<clientVars, c2s, cut, disturbance>>

ServerReceives ==
  /\ c2s # <<>> /\ ~cut
  /\ \E n \in 1 .. MaxSeqnum :
       \/ Head(c2s) = CmdSubmit(n) /\ Server!RxCmdSubmit(1, n)
       \/ \E target \in 0 .. MaxSeqnum :
            Head(c2s) = CmdUnlink(n, target)
              /\ Server!RxCmdUnlink(1, n, target)
  /\ UNCHANGED s_event
  /\ c2s' = Tail(c2s)
  /\ UNCHANGED <<clientVars, s2c, cut, disturbance>>

-----------------------------------------------------------------------------
Next ==
  \/ Cut
  \/ ClientAlone(ClientCall) \/ ClientAlone(ClientCallStep)
  \/ ClientAlone(ClientAdmin) \/ ClientAlone(Client!AttachStep)
  \/ ClientAlone(Client!EhStep) \/ ClientAlone(ClientTx)
  \/ ClientAlone(ClientRx) \/ ClientSends \/ ClientReceives
  \/ ServerAlone(ServerAdmin) \/ ServerAlone(Server!SockfdStep)
  \/ ServerAlone(Server!EhStep) \/ ServerAlone(ServerTx)
  \/ ServerAlone(ServerRx) \/ ServerAlone(ServerCompletes)
  \/ ServerSends \/ ServerSendsDisconnect \/ ServerReceives

Spec == Init /\ [][Next]_vars

(***************************************************************************)
(* Fairness: that of the two drivers, and a connection that delivers what  *)
(* was sent and reports its end.  The two writes that attach the ends come *)
(* one after the other, as one process.  Weak fairness is enough for the   *)
(* steps that take the_controller->lock, which VhciPort makes strongly     *)
(* fair: the bound on the numbers ends the calls of the USB core.          *)
(***************************************************************************)
FairSpec ==
  /\ Spec
  /\ WF_vars(\/ ServerAlone(Server!SockfdStep)
             \/ ClientAlone(Client!AttachStep))
  /\ WF_vars(ClientAlone(ClientCallStep))
  /\ WF_vars(ClientAlone(Client!DetachEvent))
  /\ WF_vars(ClientAlone(Client!EhStep))
  /\ WF_vars(ClientAlone(ClientRx) \/ ClientReceives)
  /\ WF_vars(ClientAlone(ClientTx) \/ ClientSends)
  /\ WF_vars(ServerAlone(Server!DownEvent))
  /\ WF_vars(ServerAlone(Server!EhStep) \/ ServerSendsDisconnect)
  /\ WF_vars(ServerAlone(ServerRx) \/ ServerReceives)
  /\ WF_vars(ServerAlone(ServerTx) \/ ServerSends)
  /\ WF_vars(/\ ServerAlone(Server!CancelledEnds) /\ UNCHANGED s_event)

-----------------------------------------------------------------------------
(* Properties.                                                             *)

TypeOK ==
  /\ Client!TypeOK
  /\ Server!TypeOK
  /\ c2s \in Seq(Pdus)
  /\ s2c \in Seq(Pdus)
  /\ cut \in BOOLEAN /\ disturbance \in Disturbances \cup {"none"}

InTransit(pdu, s) == \E i \in DOMAIN s : s[i] = pdu

\* Nothing has gone wrong on either side.
Healthy ==
  /\ ~Broken
  /\ c_event = {} /\ c_eh.pc = "wait"
  /\ s_event = {} /\ s_eh.pc = "wait"

\* The server has command n, or its reply is on the way.
Pending(n, ret) ==
  Server!Replies(n) > s_answered[n] + (IF n \in s_superseded THEN 1 ELSE 0)
    \/ InTransit(ret, s2c)

\* While nothing has gone wrong, every request the client waits for is on its
\* way: on its way out, held by the server, or coming back as its reply or as
\* that of its unlink, for which the client waits too.
RequestOnItsWay ==
  Healthy =>
    \A u \in Client!priv_rx :
      LET n == c_priv[u].seqnum
      IN  \/ c_tx[1].urb = u
          \/ InTransit(CmdSubmit(n), c2s)
          \/ Pending(n, RetSubmit(n))
          \/ \E m \in c_unlink_rx :
               m.unlink_seqnum = n /\ Pending(m.seqnum, RetUnlink(m.seqnum))

\* However the connection ends, a RET_UNLINK on its way to the client is there
\* once and answers an unlink the client waits for until its cleanup has given
\* up waiting, and a RET_SUBMIT never carries the number of an unlink.  (The
\* same RET_SUBMIT may be there twice: vhci_tx sends a number twice when the
\* URB it is about to send was unlinked and enqueued again.)
AwaitedUnlinks == {m.seqnum : m \in c_unlink_rx}

RepliesMatch ==
  \A n \in 1 .. MaxSeqnum :
    /\ Cardinality({i \in DOMAIN s2c : s2c[i] = RetUnlink(n)}) <= 1
    /\ (InTransit(RetUnlink(n), s2c) /\ c_tcp_socket # "NULL") =>
         n \in AwaitedUnlinks
    /\ InTransit(RetSubmit(n), s2c) => n \notin AwaitedUnlinks

\* "vhci_rx receives the result of the submit request and then receives the
\* result of the unlink request" (stub_tx.c): a RET_SUBMIT that reaches the
\* client while nothing has gone wrong finds its request.
RetSubmitFindsUrb ==
  \A n \in 1 .. MaxSeqnum :
    (Healthy /\ s2c # <<>> /\ Head(s2c) = RetSubmit(n)) => ~Client!NotFound(n)

\* "the urb (seqnum %d) was already given back" (vhci_rx.c): a request whose
\* RET_UNLINK finds it not pending is nowhere in the client.
NotPendingMeansGivenBack ==
  \A m \in c_unlink_rx :
    (Healthy /\ s2c # <<>> /\ Head(s2c) = RetUnlink(m.seqnum)
       /\ Client!NotFound(m.unlink_seqnum)) =>
      \A u \in Client!priv_tx : c_priv[u].seqnum # m.unlink_seqnum

\* An end that lets go of the connection makes the other one let go of it, from
\* the closed socket or the type 3 header: once the client has freed its port
\* the server frees the device, unless its cleanup crashes, and once the server
\* has freed the device the client frees its port.
BothLetGo ==
  (c_conn = 1 /\ (c_status = "NULL" \/ s_status # "USED"))
    ~> (c_status = "NULL" /\ (s_status # "USED" \/ s_eh.pc = "dead"))
=============================================================================
