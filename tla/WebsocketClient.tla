--------------------------- MODULE WebsocketClient ---------------------------
(***************************************************************************)
(* websocketclient: a bridge between a websocket server (vaccess) and the  *)
(* programs of the terminal (vclient), which connect over TCP.  A thread   *)
(* connects and receives, another sends heart beats and closes a           *)
(* connection that does not answer (websocket_interface.cpp); each TCP     *)
(* session is served by one thread of a pool (tcp_session.cpp,             *)
(* io_service_pool.hpp); SIGCHLD clears the process id of the broadcast's  *)
(* player (main.cpp, process_manager.hpp).                                 *)
(*                                                                         *)
(* This is the build as C++11: receive() waits until a message comes or    *)
(* the connection ends.  The websocket library, the server, the network,   *)
(* the vclients and the player are external.                               *)
(*                                                                         *)
(* Left out: the content of messages, the files of terminal_info.cpp (all  *)
(* can be read and written), power off and reboot, reads that end in the   *)
(* middle of a message, an exec of the player that fails.                  *)
(***************************************************************************)
EXTENDS Naturals, Sequences, FiniteSets, SequencesExt

CONSTANTS
  Addresses,   \* of servers
  Address,     \* the one in the configuration
  Asked,       \* what the server asks for
  Said,        \* the messages of vclients
  PoolSize,    \* threads of the pool
  MaxEvents,   \* bound: requests of the server, messages of vclients and
               \* connections that break or go silent, together
  MaxSessions, \* bound: connections of vclients
  MaxTold,     \* bound: messages to vclients that are followed
  MaxPid,      \* bound: processes
  EarlyClient  \* may a vclient connect before the first connection is tried?

ASSUME WebsocketAssumption ==
  /\ Address \in Addresses
  /\ Asked \subseteq {"info", "tell", "start", "end", "update", "other"}
  /\ Said \subseteq [type : {"address"}, ip : Addresses]
                 \cup [type : {"status"}, on : BOOLEAN] \cup [type : {"seat"}]
  /\ PoolSize \in Nat \ {0, 1}
  /\ {MaxEvents, MaxSessions, MaxTold, MaxPid} \subseteq Nat
  /\ EarlyClient \in BOOLEAN

VARIABLES
  ws_client, \* the object: null, deleted or live
  lock,      \* m_ws_client_mutex is held
  ip,        \* m_server_ip
  conn,      \* the connection of the live object, with what waits in it
  rx,        \* the thread that connects and receives: place, request
  hb,        \* the heart beat's thread
  token,     \* m_heart_token
  active,    \* m_session_status
  crashed,   \* how the client ended: "object", it used a null or deleted
             \* object, or "kill", it called kill(0, SIGKILL)
  pool,      \* the next io_service, those whose thread never comes back
  sess,      \* the TCP sessions
  vclient,   \* m_vclient, 0 for none
  vlc_pid,   \* m_vlc_pid
  proc,      \* every process ever started
  sigchld,   \* SIGCHLD is pending
  caught,    \* history: processes reaped between a look at their id and its
             \* use, or between their start and the record of their id
  used       \* how much of the bounds is used up

linkVars == <<ws_client, lock, ip, conn>>
tcpVars == <<pool, sess, vclient>>
procVars == <<vlc_pid, proc, sigchld, caught>>
vars == <<linkVars, rx, hb, token, active, crashed, tcpVars, procVars, used>>

Pids == 1 .. MaxPid
NoConn == [state |-> "none", to |-> Address, silent |-> FALSE, beat |-> FALSE, in |-> <<>>]
RxIdle == [pc |-> "receive", req |-> "none", pid |-> 0]
NewSession(ios) ==
  [pc |-> "listening", ios |-> ios, in |-> <<>>, wbuf |-> 0, writes |-> <<>>]

Init ==
  /\ ws_client = "null" /\ lock = FALSE /\ ip = Address /\ conn = NoConn
  /\ rx = [RxIdle EXCEPT !.pc = "boot"]
  /\ hb = "off" /\ token = 0 /\ active = FALSE /\ crashed = "no"
  /\ pool = [next |-> 2 % PoolSize, taken |-> {}]
  /\ sess = <<NewSession(1)>>
  /\ vclient = 0
  /\ vlc_pid = 0 /\ sigchld = FALSE /\ caught = {}
  /\ proc = [p \in Pids |-> "unborn"]
  /\ used = [events |-> 0, told |-> 0]

-----------------------------------------------------------------------------
(* The sessions of vclients.                                               *)

Sessions == DOMAIN sess

\* tcp_session::write: the message is appended, and the whole buffer sent,
\* with what an earlier write sent and its handler has not yet removed.
Written(s) ==
  IF s.pc = "closed" THEN s
  ELSE [s EXCEPT !.wbuf = @ + 1, !.writes = Append(@, s.wbuf + 1)]

\* tcp_server::send_to_vclient, to the session accepted last.
Tell ==
  IF vclient = 0 \/ used.told = MaxTold THEN UNCHANGED <<sess, used>>
  ELSE /\ sess' = [sess EXCEPT ![vclient] = Written(@)]
       /\ used' = [used EXCEPT !.told = @ + 1]

\* tcp_buffer::consume removes no more than there is.
Consumed(n, size) == IF n > size THEN 0 ELSE size - n

Served(s) == sess[s].ios \notin pool.taken

handle_write(s) ==
  /\ Served(s) /\ sess[s].writes # <<>>
  /\ sess' = [sess EXCEPT ![s].wbuf = Consumed(Head(sess[s].writes), @),
                          ![s].writes = Tail(@)]
  /\ UNCHANGED <<linkVars, rx, hb, token, active, crashed, pool, vclient, procVars, used>>

\* handle_accept: the next session waits for a vclient, this one is served.
handle_accept ==
  /\ EarlyClient \/ rx.pc # "boot"
  /\ Len(sess) <= MaxSessions
  /\ 0 \notin pool.taken
  /\ sess' = Append([sess EXCEPT ![Len(sess)].pc = "connected"], NewSession(pool.next))
  /\ pool' = [pool EXCEPT !.next = (@ + 1) % PoolSize]
  /\ vclient' = Len(sess)
  /\ UNCHANGED <<linkVars, rx, hb, token, active, crashed, procVars, used>>

SessionAt(s, pc) == s \in Sessions /\ sess[s].pc = pc /\ Served(s)
SessionGoto(s, pc) == sess' = [sess EXCEPT ![s].pc = pc]

SessionStart(s) ==
  /\ SessionAt(s, "connected")
  /\ SessionGoto(s, "read")
  /\ UNCHANGED <<linkVars, rx, hb, token, active, crashed, pool, vclient, procVars, used>>

\* handle_read: what was read is taken as one message, the rest is lost.
handle_read(s) ==
  /\ SessionAt(s, "read") /\ sess[s].in # <<>>
  /\ \E n \in 1 .. Len(sess[s].in) :
       LET m == Head(sess[s].in)
           new == m.type = "address" /\ m.ip # ip
       IN  /\ sess' = [sess EXCEPT ![s].in = SubSeq(@, n + 1, Len(@)),
                         ![s].pc = IF new THEN "reconnect"
                                   ELSE IF m.type = "seat" THEN "commit" ELSE @]
           /\ ip' = IF new THEN m.ip ELSE ip
           /\ active' = IF m.type = "status" THEN m.on ELSE active
  /\ UNCHANGED <<ws_client, lock, conn, rx, hb, token, crashed, pool, vclient, procVars, used>>

\* A vclient that ends its connection.
handle_readError(s) ==
  /\ SessionAt(s, "read") /\ sess[s].in = <<>> /\ used.events = MaxEvents
  /\ sess' = [sess EXCEPT ![s].pc = "closed"]
  /\ UNCHANGED <<linkVars, rx, hb, token, active, crashed, pool, vclient, procVars, used>>

-----------------------------------------------------------------------------
(* The websocket, used by whoever gets the mutex.                          *)

\* Mutant of Free: nobody asks for the mutex.
FreeNot == TRUE

\* m_ws_client_mutex.try_lock().
Free == ~ lock

\* ws_client->close() and ws_client->send(): what a call on the object does.
Ended(how) == [conn EXCEPT !.state = how, !.silent = FALSE, !.beat = FALSE]
Closed == IF conn.state = "open" THEN Ended("closed") ELSE conn
Sent(beat) == [conn EXCEPT !.beat = @ \/ (beat /\ conn.state = "open")]
Calls(new) ==
  IF ws_client = "live" THEN conn' = new /\ UNCHANGED crashed
  ELSE crashed' = "object" /\ UNCHANGED conn

\* disconnect_to_vaccess and send_to_vaccess: nothing is done if the mutex
\* is held.
Do(new) == Free /\ lock' = TRUE /\ Calls(new) /\ UNCHANGED <<ws_client, ip>>
Skips == ~ Free /\ UNCHANGED <<linkVars, crashed>>
Unlock == lock' = FALSE /\ UNCHANGED <<ws_client, ip, conn, crashed>>

\* A session that asks for a connection to the new address, or commits the
\* seat's number.
SessionCalls(s) ==
  /\ SessionAt(s, "reconnect") \/ SessionAt(s, "commit")
  /\ \/ /\ Do(IF sess[s].pc = "reconnect" THEN Closed ELSE Sent(FALSE))
        /\ SessionGoto(s, "unlock")
     \/ Skips /\ SessionGoto(s, "read")
  /\ UNCHANGED <<rx, hb, token, active, pool, vclient, procVars, used>>

SessionUnlock(s) ==
  /\ SessionAt(s, "unlock")
  /\ Unlock /\ SessionGoto(s, "read")
  /\ UNCHANGED <<rx, hb, token, active, pool, vclient, procVars, used>>

-----------------------------------------------------------------------------
(* heart_beat_thread.                                                      *)

\* After the sleep: too many beats without an answer, or the next one; none
\* is counted while the mutex is held.
HbTick ==
  /\ hb = "sleep"
  /\ IF token >= 3 THEN token' = 0 /\ hb' = "logoff" /\ UNCHANGED lock
     ELSE /\ hb' = IF Free THEN "probed" ELSE hb
          /\ lock' = TRUE /\ UNCHANGED token
  /\ UNCHANGED <<ws_client, ip, conn, rx, active, crashed, tcpVars, procVars, used>>

\* Mutant of HbProbed: the beat is not counted.
HbProbedNot ==
  /\ hb = "probed"
  /\ Unlock /\ hb' = "beat"
  /\ UNCHANGED <<rx, token, active, tcpVars, procVars, used>>

HbProbed ==
  /\ hb = "probed"
  /\ Unlock /\ hb' = "beat" /\ token' = token + 1
  /\ UNCHANGED <<rx, active, tcpVars, procVars, used>>

HbLogoff ==
  /\ hb = "logoff"
  /\ IF active THEN Tell ELSE UNCHANGED <<sess, used>>
  /\ hb' = "close"
  /\ UNCHANGED <<linkVars, rx, token, active, crashed, pool, vclient, procVars>>

HbCalls ==
  /\ hb \in {"beat", "close"}
  /\ \/ Do(IF hb = "close" THEN Closed ELSE Sent(TRUE)) /\ hb' = "unlock"
     \/ Skips /\ hb' = "sleep"
  /\ UNCHANGED <<rx, token, active, tcpVars, procVars, used>>

HbUnlock ==
  /\ hb = "unlock"
  /\ Unlock /\ hb' = "sleep"
  /\ UNCHANGED <<rx, token, active, tcpVars, procVars, used>>

-----------------------------------------------------------------------------
(* connect_to_vaccess and recv_from_vaccess.                               *)

RxAt(pc) == rx.pc = pc
RxGoto(pc) == rx' = [rx EXCEPT !.pc = pc]

\* The first time in the main thread.
RxLock ==
  /\ RxAt("boot") \/ RxAt("lost")
  /\ Free /\ lock' = TRUE
  /\ RxGoto("delete")
  /\ UNCHANGED <<ws_client, ip, conn, hb, token, active, crashed, tcpVars, procVars, used>>

RxDelete ==
  /\ RxAt("delete")
  /\ ws_client' = "deleted" /\ conn' = NoConn
  /\ RxGoto("connect")
  /\ UNCHANGED <<lock, ip, hb, token, active, crashed, tcpVars, procVars, used>>

\* A new object, for the address as it is now.
RxConnect ==
  /\ RxAt("connect")
  /\ ws_client' = "live" /\ conn' = [NoConn EXCEPT !.to = ip]
  /\ RxGoto("connecting")
  /\ UNCHANGED <<lock, ip, hb, token, active, crashed, tcpVars, procVars, used>>

\* No connection, or global_data_init throws.
RxFails ==
  /\ RxAt("connecting")
  /\ RxGoto("delete")
  /\ UNCHANGED <<linkVars, hb, token, active, crashed, tcpVars, procVars, used>>

\* Mutant of RxConnected: the mutex is not released.
RxConnectedLocked ==
  /\ RxAt("connecting")
  /\ conn' = [conn EXCEPT !.state = "open"]
  /\ RxGoto("hello")
  /\ UNCHANGED <<ws_client, lock, ip, hb, token, active, crashed, tcpVars, procVars, used>>

RxConnected ==
  /\ RxAt("connecting")
  /\ conn' = [conn EXCEPT !.state = "open"]
  /\ lock' = FALSE
  /\ RxGoto("hello")
  /\ UNCHANGED <<ws_client, ip, hb, token, active, crashed, tcpVars, procVars, used>>

\* "Hello", or the answer to GetTerminalInfo.
RxSends ==
  /\ RxAt("hello") \/ RxAt("info")
  /\ \/ Do(Sent(FALSE)) /\ RxGoto("unlock")
     \/ Skips /\ RxGoto("receive")
  /\ UNCHANGED <<hb, token, active, tcpVars, procVars, used>>

RxUnlock ==
  /\ RxAt("unlock")
  /\ Unlock /\ RxGoto("receive")
  /\ UNCHANGED <<hb, token, active, tcpVars, procVars, used>>

\* run(): the two loops take a thread of the pool each, for ever.
RxRun ==
  /\ RxAt("receive") /\ hb = "off"
  /\ LET n == pool.next
         m == (n + 1) % PoolSize
     IN  pool' = [next |-> (m + 1) % PoolSize, taken |-> {n, m}]
  /\ hb' = "sleep"
  /\ UNCHANGED <<linkVars, rx, token, active, crashed, sess, vclient, procVars, used>>

NextPid(p) == proc[p] = "unborn" /\ \A q \in 1 .. p - 1 : proc[q] # "unborn"

Receiving == RxAt("receive") /\ hb # "off"

\* receive() throws when the connection has ended.
RxLost ==
  /\ Receiving /\ conn.state # "open" /\ conn.in = <<>>
  /\ RxGoto("lost")
  /\ UNCHANGED <<linkVars, hb, token, active, crashed, tcpVars, procVars, used>>

\* message_in_handle.
RxMessage ==
  /\ Receiving /\ conn.in # <<>>
  /\ LET m == Head(conn.in)
     IN  /\ conn' = [conn EXCEPT !.in = Tail(@)]
         /\ rx' = [pc |-> CASE m = "info" -> "info"
                            [] m \in {"start", "end"} -> "vlc"
                            [] OTHER -> "receive",
                   req |-> IF m \in {"start", "end"} THEN m ELSE "none", pid |-> 0]
         /\ token' = IF m = "beat" THEN 0 ELSE token
         /\ IF m \in {"tell", "beat error"} THEN Tell ELSE UNCHANGED <<sess, used>>
         /\ IF m = "update" /\ \E p \in Pids : NextPid(p)
              THEN \E p \in Pids : NextPid(p) /\ proc' = [proc EXCEPT ![p] = "update"]
              ELSE UNCHANGED proc
  /\ UNCHANGED <<ws_client, lock, ip, hb, active, crashed, pool, vclient, vlc_pid, sigchld, caught>>

-----------------------------------------------------------------------------
(* The broadcast's player.  StartBroadcastScreen and EndBroadcastScreen    *)
(* look at the process id, and look again to kill it.                      *)

VlcLook ==
  /\ RxAt("vlc")
  /\ RxGoto(IF vlc_pid # 0 THEN "vlc kill" ELSE "vlc killed")
  /\ UNCHANGED <<linkVars, hb, token, active, crashed, tcpVars, procVars, used>>

\* Mutant of VlcKill: the former player is left to itself.
VlcKillNot ==
  /\ RxAt("vlc kill")
  /\ RxGoto("vlc killed")
  /\ UNCHANGED <<linkVars, hb, token, active, crashed, tcpVars, procVars, used>>

\* kill(0, SIGKILL) would end the client and all it started.
VlcKill ==
  /\ RxAt("vlc kill")
  /\ IF vlc_pid = 0 THEN crashed' = "kill" /\ UNCHANGED proc
     ELSE /\ proc' = [proc EXCEPT ![vlc_pid] =
                        CASE @ = "vlc" -> "killed" [] @ = "reaped" -> "foreign" [] OTHER -> @]
          /\ UNCHANGED crashed
  /\ RxGoto("vlc killed")
  /\ UNCHANGED <<linkVars, hb, token, active, tcpVars, vlc_pid, sigchld, caught, used>>

VlcEnd ==
  /\ RxAt("vlc killed") /\ rx.req = "end"
  /\ Tell
  /\ rx' = RxIdle
  /\ UNCHANGED <<linkVars, hb, token, active, crashed, pool, vclient, procVars>>

\* A request without address or port.
VlcBad ==
  /\ RxAt("vlc killed") /\ rx.req = "start"
  /\ rx' = RxIdle
  /\ UNCHANGED <<linkVars, hb, token, active, crashed, tcpVars, procVars, used>>

\* create_process: vfork, which may fail.
VlcStart ==
  /\ RxAt("vlc killed") /\ rx.req = "start"
  /\ \/ \E p \in Pids :
          /\ NextPid(p)
          /\ proc' = [proc EXCEPT ![p] = "vlc"]
          /\ rx' = [rx EXCEPT !.pc = "vlc started", !.pid = p]
     \/ rx' = [rx EXCEPT !.pc = "vlc started", !.pid = 0] /\ UNCHANGED proc
  /\ UNCHANGED <<linkVars, hb, token, active, crashed, tcpVars, vlc_pid, sigchld, caught, used>>

VlcStarted ==
  /\ RxAt("vlc started")
  /\ vlc_pid' = rx.pid
  /\ Tell
  /\ rx' = RxIdle
  /\ UNCHANGED <<linkVars, hb, token, active, crashed, pool, vclient, proc, sigchld, caught>>

InVlc == rx.pc \in {"vlc", "vlc kill", "vlc killed", "vlc started"}

\* Mutant of clear_process_id: whatever process ended.
clear_process_idAny(p) == 0

clear_process_id(p) == IF vlc_pid = p THEN 0 ELSE vlc_pid

\* The request under way has looked at p and is about to kill it, or has
\* started p and is about to record it.
Raced(p) == (RxAt("vlc kill") /\ vlc_pid = p) \/ (RxAt("vlc started") /\ rx.pid = p)

\* In any thread, whatever the others do.  One child is reaped, however many
\* have ended.
sigchld_handler ==
  /\ sigchld
  /\ sigchld' = FALSE
  /\ IF \E p \in Pids : proc[p] = "dead"
       THEN \E p \in Pids : /\ proc[p] = "dead"
                            /\ proc' = [proc EXCEPT ![p] = "reaped"]
                            /\ vlc_pid' = clear_process_id(p)
                            /\ caught' = IF Raced(p) THEN caught \cup {p} ELSE caught
       ELSE UNCHANGED <<proc, vlc_pid, caught>>
  /\ UNCHANGED <<linkVars, rx, hb, token, active, crashed, tcpVars, used>>

-----------------------------------------------------------------------------
(* External: the children, the server, the network, the vclients.          *)

Dies(p) ==
  /\ proc[p] \in {"vlc", "killed", "update"}
  /\ proc' = [proc EXCEPT ![p] = "dead"] /\ sigchld' = TRUE
  /\ UNCHANGED <<linkVars, rx, hb, token, active, crashed, tcpVars, vlc_pid, caught, used>>

OneMore == used.events < MaxEvents /\ used' = [used EXCEPT !.events = @ + 1]

Others == <<rx, hb, token, active, crashed, pool, vclient, procVars>>

\* A message that the server sends.
Comes(m) ==
  /\ conn.state = "open" /\ ~ conn.silent /\ conn.in = <<>>
  /\ conn' = [conn EXCEPT !.in = <<m>>, !.beat = @ /\ m \notin {"beat", "beat error"}]
  /\ UNCHANGED <<ws_client, lock, ip, sess, Others>>

Answer ==
  /\ conn.beat
  /\ Comes("beat") \/ Comes("beat error")
  /\ UNCHANGED used

Request ==
  /\ \E m \in Asked : Comes(m)
  /\ OneMore

Breaks ==
  /\ conn.state = "open"
  /\ \/ conn' = Ended("cut")
     \/ ~ conn.silent /\ conn' = [conn EXCEPT !.silent = TRUE]
  /\ OneMore
  /\ UNCHANGED <<ws_client, lock, ip, sess, Others>>

Says(s) ==
  /\ sess[s].pc \notin {"listening", "closed"}
  /\ Len(sess[s].in) < 2
  /\ \E m \in Said : sess' = [sess EXCEPT ![s].in = Append(@, m)]
  /\ OneMore
  /\ UNCHANGED <<linkVars, Others>>

-----------------------------------------------------------------------------
HbStep == HbTick \/ HbProbed \/ HbLogoff \/ HbCalls \/ HbUnlock

RxStep ==
  \/ RxLock \/ RxDelete \/ RxConnect \/ RxConnected \/ RxSends \/ RxUnlock
  \/ RxRun \/ RxLost \/ RxMessage
  \/ VlcLook \/ VlcKill \/ VlcEnd \/ VlcBad \/ VlcStart \/ VlcStarted

SessionStep(s) == SessionStart(s) \/ handle_read(s) \/ SessionCalls(s) \/ SessionUnlock(s)

Next ==
  /\ crashed = "no"
  /\ \/ HbStep \/ RxStep \/ RxFails \/ handle_accept \/ sigchld_handler
     \/ \E s \in Sessions : SessionStep(s) \/ handle_write(s) \/ handle_readError(s) \/ Says(s)
     \/ \E p \in Pids : Dies(p)
     \/ Answer \/ Request \/ Breaks

\* Threads go on; a connection that is tried again and again is made; who
\* waits for a mutex that is free again and again gets it.
Fairness ==
  /\ WF_vars(HbStep) /\ WF_vars(RxStep)
  /\ SF_vars(RxConnected) /\ SF_vars(RxLock)
  /\ \A s \in 1 .. MaxSessions : WF_vars(SessionStep(s))

Spec == Init /\ [][Next]_vars /\ Fairness

-----------------------------------------------------------------------------
\* The object is never used while it is not there, whoever replaces, closes
\* or sends meanwhile (send_to_vaccess, disconnect_to_vaccess), and no kill
\* hits the client itself, unless a player was reaped between the look at its
\* id and the kill (EndBroadcastScreen).
NoCrash == crashed # "object" /\ (crashed = "kill" => caught # {})

\* The terminal has, again and again, a connection to a server that can be
\* heard: one that has ended is replaced (recv_from_vaccess), one whose server
\* has gone silent is given up first (heart_beat_thread).  A client that has
\* killed itself has none.
LinkRecovers == []<>((conn.state = "open" /\ ~ conn.silent) \/ crashed = "kill")

\* A broadcast that is shown is the one whose process id is known: no start
\* leaves a former player behind, whenever the signal's handler runs.  And no
\* kill hits another's process, unless it has the id of a player that was
\* reaped before its id was recorded (StartBroadcastScreen, clear_process_id).
BroadcastIsKnown ==
  \A p \in Pids :
    /\ proc[p] = "foreign" => p \in caught
    /\ proc[p] = "vlc" => vlc_pid = p \/ InVlc

\* Each message reaches a vclient once (tcp_session::write).
SentOnce == \A s \in Sessions : \A i \in DOMAIN sess[s].writes : sess[s].writes[i] = 1

\* Whoever connects is served (io_service_pool::get).
AllServed == \A s \in Sessions : sess[s].pc # "listening" => Served(s)

\* A client that connected is connected to the address it was told last
\* (SET_ADDRESS, reconnect_to_vaccess).
AddressUsed == \A a \in Addresses : <>[](ip = a) => []<>(conn.state = "open" /\ conn.to = a)
=============================================================================
