----------------------- MODULE WebsocketClient_proofs -----------------------
(***************************************************************************)
(* Proofs, for any number of sessions, messages, addresses and processes,  *)
(* that the websocket is used only while it is there and that the player   *)
(* of a broadcast is known.  Two disciplines make it so: m_ws_client_mutex *)
(* has one holder, and only its holder replaces the object (LockHeld,      *)
(* ObjectThere); outside the handling of a request the only player is the  *)
(* one m_vlc_pid names (PlayerKnown).  The last part is about the encoding *)
(* of the messages (Base64).                                               *)
(***************************************************************************)
EXTENDS WebsocketClient, Base64, TLAPS

-----------------------------------------------------------------------------
(* The inductive invariant.                                                *)

SessionPlaces == {"listening", "connected", "read", "reconnect", "commit", "unlock", "closed"}
Session ==
  [pc : SessionPlaces, ios : Nat, in : Seq(Said), wbuf : Nat, writes : Seq(Nat)]

RxPlaces ==
  {"boot", "lost", "delete", "connect", "connecting", "hello", "info", "unlock",
   "receive", "vlc", "vlc kill", "vlc killed", "vlc started"}

\* How the client may have ended.
Ends == {"no", "object", "kill"}

Messages == Asked \cup {"beat", "beat error"}
Connection ==
  [state : {"none", "open", "closed", "cut"}, to : Addresses,
   silent : BOOLEAN, beat : BOOLEAN, in : Seq(Messages)]

LinkOK ==
  /\ ws_client \in {"null", "deleted", "live"} /\ lock \in BOOLEAN /\ ip \in Addresses
  /\ conn \in Connection

ThreadsOK ==
  /\ rx \in [pc : RxPlaces, req : {"none", "start", "end"}, pid : 0 .. MaxPid]
  /\ hb \in {"off", "sleep", "probed", "beat", "logoff", "close", "unlock"}
  /\ token \in Nat /\ active \in BOOLEAN /\ crashed \in Ends

TcpOK ==
  /\ pool \in [next : 0 .. PoolSize - 1, taken : SUBSET (0 .. PoolSize - 1)]
  /\ sess \in Seq(Session)
  /\ vclient \in 0 .. Len(sess)

ProcOK ==
  /\ vlc_pid \in 0 .. MaxPid /\ sigchld \in BOOLEAN
  /\ proc \in [Pids -> {"unborn", "vlc", "update", "killed", "dead", "reaped", "foreign"}]
  /\ caught \subseteq Pids

UsedOK == used \in [events : 0 .. MaxEvents, told : 0 .. MaxTold]

\* The type invariant.
TypeOK == LinkOK /\ ThreadsOK /\ TcpOK /\ ProcOK /\ UsedOK

RxHolds == rx.pc \in {"delete", "connect", "connecting", "unlock"}
HbHolds == hb \in {"probed", "unlock"}
Holding == {s \in Sessions : sess[s].pc = "unlock"}

\* The mutex is held by one thread, or free.
LockHeld ==
  /\ lock <=> RxHolds \/ HbHolds \/ Holding # {}
  /\ ~ (RxHolds /\ HbHolds)
  /\ Holding # {} => ~ RxHolds /\ ~ HbHolds
  /\ \A s, t \in Holding : s = t

\* Only who holds the mutex replaces the object; before the first connection
\* nobody else runs.
Replacing == {"boot", "delete", "connect"}
Quiet == hb = "off" /\ \A s \in Sessions : sess[s].pc = "listening"
ObjectThere ==
  /\ ws_client # "live" => rx.pc \in Replacing
  /\ rx.pc = "boot" => Quiet

\* The session accepted next waits for a vclient.
Listens == sess # <<>> /\ sess[Len(sess)].pc = "listening"

LinkInv == LockHeld /\ ObjectThere /\ Listens

\* The player is the process that m_vlc_pid names, or that a request has just
\* started; none is left when a request has looked and killed.
PlayerKnown ==
  /\ \A p \in Pids : proc[p] = "vlc" => IF rx.pc = "vlc started" THEN rx.pid = p
                                        ELSE rx.pc # "vlc killed" /\ vlc_pid = p
  /\ rx.pc = "vlc kill" => vlc_pid # 0 \/ caught # {}

\* A process that can be killed has not been reaped, if it was not caught
\* between a look at its id, or its start, and the use or record of the id.
NotReaped ==
  /\ \A p \in Pids : proc[p] = "foreign" => p \in caught
  /\ \A p \in caught : proc[p] \in {"reaped", "foreign"}
  /\ vlc_pid # 0 => proc[vlc_pid] \in {"vlc", "killed", "dead"} \/ vlc_pid \in caught
  /\ rx.pc = "vlc started" /\ rx.pid # 0 =>
       proc[rx.pid] \in {"vlc", "killed", "dead"} \/ rx.pid \in caught

PlayerInv == PlayerKnown /\ NotReaped

\* The two parts of NoCrash.
NoMisuse == crashed # "object"
KillIsCaught == crashed = "kill" => caught # {}

IInv == TypeOK /\ LinkInv /\ PlayerInv /\ NoMisuse /\ KillIsCaught

USE DEF linkVars, tcpVars, procVars, Others

-----------------------------------------------------------------------------
(* The types.                                                              *)

\* A session that is replaced by another leaves the others as they are.
LEMMA OneSession ==
  ASSUME sess \in Seq(Session), NEW s \in Sessions, NEW r \in Session,
         sess' = [sess EXCEPT ![s] = r]
  PROVE  /\ sess' \in Seq(Session) /\ Len(sess') = Len(sess)
         /\ \A t \in Sessions : sess'[t] = IF t = s THEN r ELSE sess[t]
  BY DEF Sessions

\* A message that is written leaves a session.
LEMMA WrittenType ==
  ASSUME NEW s \in Session
  PROVE  Written(s) \in Session /\ Written(s).pc = s.pc
<1>1. CASE s.pc = "closed"
  BY <1>1 DEF Written
<1>2. CASE s.pc # "closed"
  <2>1. Append(s.writes, s.wbuf + 1) \in Seq(Nat) /\ s.wbuf + 1 \in Nat
    BY DEF Session
  <2>2. Written(s) = [s EXCEPT !.wbuf = s.wbuf + 1, !.writes = Append(s.writes, s.wbuf + 1)]
    BY <1>2 DEF Written
  <2> HIDE DEF Written
  <2> QED
    BY <2>1, <2>2 DEF Session
<1> QED
  BY <1>1, <1>2

\* A message to the vclient changes no session's place.
LEMMA TellType ==
  ASSUME TcpOK, UsedOK, MaxTold \in Nat, Tell
  PROVE  /\ sess' \in Seq(Session) /\ Len(sess') = Len(sess)
         /\ \A t \in Sessions : sess'[t].pc = sess[t].pc
         /\ UsedOK'
<1>1. CASE vclient = 0 \/ used.told = MaxTold
  BY <1>1 DEF Tell, TcpOK, UsedOK
<1>2. CASE ~ (vclient = 0 \/ used.told = MaxTold)
  <2>1. /\ sess' = [sess EXCEPT ![vclient] = Written(sess[vclient])]
        /\ used' = [used EXCEPT !.told = used.told + 1]
    BY <1>2 DEF Tell
  <2>2. vclient \in Sessions /\ sess[vclient] \in Session
    BY <1>2 DEF TcpOK, Sessions
  <2>3. /\ sess' \in Seq(Session) /\ Len(sess') = Len(sess)
        /\ \A t \in Sessions : sess'[t] = IF t = vclient THEN Written(sess[vclient]) ELSE sess[t]
    BY <2>1, <2>2, WrittenType, OneSession DEF TcpOK
  <2>4. UsedOK'
    BY <1>2, <2>1 DEF UsedOK
  <2> QED
    BY <2>2, <2>3, <2>4, WrittenType
<1> QED
  BY <1>1, <1>2

\* One more event is counted.
LEMMA MoreType ==
  ASSUME UsedOK, MaxEvents \in Nat, OneMore
  PROVE  UsedOK'
  BY DEF UsedOK, OneMore

\* What a thread that holds the mutex does to the connection.
LEMMA DoType ==
  ASSUME LinkOK, ThreadsOK, NEW beat \in BOOLEAN, NEW c \in {Closed, Sent(beat)}, Do(c) \/ Skips \/ Unlock
  PROVE  LinkOK' /\ crashed' \in Ends
<1>1. Closed \in Connection
  BY DEF LinkOK, Connection, Closed, Ended
<1>2. Sent(beat) \in Connection
  BY DEF LinkOK, Connection, Sent
<1>3. CASE Do(c)
  BY <1>1, <1>2, <1>3 DEF Do, Calls, LinkOK, ThreadsOK, Ends
<1>4. CASE Skips \/ Unlock
  BY <1>4 DEF Skips, Unlock, LinkOK, ThreadsOK
<1> QED
  BY <1>3, <1>4

\* What a step leaves alone keeps its type.
LEMMA Frames ==
  /\ LinkOK /\ UNCHANGED linkVars => LinkOK'
  /\ ThreadsOK /\ UNCHANGED <<rx, hb, token, active, crashed>> => ThreadsOK'
  /\ ProcOK /\ UNCHANGED procVars => ProcOK'
  /\ UsedOK /\ UNCHANGED used => UsedOK'
  /\ TcpOK /\ sess' \in Seq(Session) /\ Len(sess') = Len(sess) /\ UNCHANGED <<pool, vclient>>
       => TcpOK'
<1>1. LinkOK /\ UNCHANGED linkVars => LinkOK'
  BY DEF LinkOK
<1>2. ThreadsOK /\ UNCHANGED <<rx, hb, token, active, crashed>> => ThreadsOK'
  BY DEF ThreadsOK
<1>3. ProcOK /\ UNCHANGED procVars => ProcOK'
  BY DEF ProcOK
<1>4. UsedOK /\ UNCHANGED used => UsedOK'
  BY DEF UsedOK
<1>5. TcpOK /\ sess' \in Seq(Session) /\ Len(sess') = Len(sess) /\ UNCHANGED <<pool, vclient>>
        => TcpOK'
  BY DEF TcpOK
<1> QED
  BY <1>1, <1>2, <1>3, <1>4, <1>5

\* A session's place changes.
LEMMA GotoType ==
  ASSUME TcpOK, NEW s \in Sessions, NEW pc \in SessionPlaces, SessionGoto(s, pc)
  PROVE  /\ sess' \in Seq(Session) /\ Len(sess') = Len(sess)
         /\ \A t \in Sessions : sess'[t].pc = IF t = s THEN pc ELSE sess[t].pc
<1> DEFINE r == [sess[s] EXCEPT !.pc = pc]
<1>1. r \in Session /\ r.pc = pc /\ sess' = [sess EXCEPT ![s] = r]
  <2>1. sess[s] \in Session
    BY DEF TcpOK, Sessions
  <2>2. r \in Session /\ r.pc = pc
    BY <2>1 DEF Session
  <2>3. sess' = [sess EXCEPT ![s] = r]
    BY DEF SessionGoto
  <2> QED
    BY <2>2, <2>3
<1> HIDE DEF r
<1>2. /\ sess' \in Seq(Session) /\ Len(sess') = Len(sess)
      /\ \A t \in Sessions : sess'[t] = IF t = s THEN r ELSE sess[t]
  BY <1>1, OneSession DEF TcpOK
<1> QED
  BY <1>1, <1>2

\* Each step of a session keeps the types.
LEMMA SessionType ==
  ASSUME TypeOK, NEW s \in Sessions,
         SessionStep(s) \/ handle_write(s) \/ handle_readError(s) \/ Says(s)
  PROVE  TypeOK'
<1> USE WebsocketAssumption
<1> USE DEF TypeOK
<1>t. sess[s] \in Session
  BY DEF TcpOK, Sessions
<1>1. CASE SessionStart(s)
  <2>1. sess' \in Seq(Session) /\ Len(sess') = Len(sess)
    BY <1>1, GotoType DEF SessionStart, SessionPlaces
  <2> QED
    BY <1>1, <2>1, Frames DEF SessionStart
<1>2. CASE handle_read(s)
  <2>1. PICK n \in 1 .. Len(sess[s].in) :
          LET m == Head(sess[s].in)
              new == m.type = "address" /\ m.ip # ip
          IN  /\ sess' = [sess EXCEPT ![s].in = SubSeq(@, n + 1, Len(@)),
                            ![s].pc = IF new THEN "reconnect"
                                      ELSE IF m.type = "seat" THEN "commit" ELSE @]
              /\ ip' = IF new THEN m.ip ELSE ip
              /\ active' = IF m.type = "status" THEN m.on ELSE active
    BY <1>2 DEF handle_read
  <2> DEFINE m == Head(sess[s].in)
             new == m.type = "address" /\ m.ip # ip
             r == [sess[s] EXCEPT !.in = SubSeq(sess[s].in, n + 1, Len(sess[s].in)),
                     !.pc = IF new THEN "reconnect"
                            ELSE IF m.type = "seat" THEN "commit" ELSE sess[s].pc]
  <2>2. sess[s].in # <<>> /\ sess[s].in \in Seq(Said) /\ m \in Said
    BY <1>2, <1>t DEF handle_read, Session
  <2>3. m.type = "address" => m.ip \in Addresses
    BY <2>2
  <2>4. m.type = "status" => m.on \in BOOLEAN
    BY <2>2
  <2>5. SubSeq(sess[s].in, n + 1, Len(sess[s].in)) \in Seq(Said)
    BY <2>2
  <2>6. sess' = [sess EXCEPT ![s] = r] /\ ip' = (IF new THEN m.ip ELSE ip)
        /\ active' = (IF m.type = "status" THEN m.on ELSE active)
    BY <2>1 DEF TcpOK, Sessions
  <2> HIDE DEF m
  <2>7. r \in Session
    BY <1>t, <2>5 DEF Session, SessionPlaces
  <2>8. sess' \in Seq(Session) /\ Len(sess') = Len(sess)
    BY <2>6, <2>7, OneSession DEF TcpOK
  <2>9. ip' \in Addresses /\ active' \in BOOLEAN
    BY <2>3, <2>4, <2>6 DEF LinkOK, ThreadsOK
  <2> QED
    BY <1>2, <2>8, <2>9, Frames DEF handle_read, LinkOK, ThreadsOK
<1>3. CASE SessionCalls(s)
  <2>1. LinkOK' /\ crashed' \in Ends
    BY <1>3, DoType DEF SessionCalls
  <2>2. sess' \in Seq(Session) /\ Len(sess') = Len(sess)
    BY <1>3, GotoType DEF SessionCalls, SessionPlaces
  <2> QED
    BY <1>3, <2>1, <2>2 DEF SessionCalls, ThreadsOK, TcpOK, ProcOK, UsedOK
<1>4. CASE SessionUnlock(s)
  <2>1. LinkOK' /\ crashed' \in Ends
    BY <1>4, DoType DEF SessionUnlock
  <2>2. sess' \in Seq(Session) /\ Len(sess') = Len(sess)
    BY <1>4, GotoType DEF SessionUnlock, SessionPlaces
  <2> QED
    BY <1>4, <2>1, <2>2 DEF SessionUnlock, ThreadsOK, TcpOK, ProcOK, UsedOK
<1>5. CASE handle_write(s)
  <2> DEFINE r == [sess[s] EXCEPT !.wbuf = Consumed(Head(sess[s].writes), sess[s].wbuf),
                                  !.writes = Tail(sess[s].writes)]
  <2>1. sess' = [sess EXCEPT ![s] = r] /\ sess[s].writes # <<>>
    BY <1>5 DEF handle_write, TcpOK, Sessions
  <2>2. Head(sess[s].writes) \in Nat /\ Tail(sess[s].writes) \in Seq(Nat) /\ sess[s].wbuf \in Nat
    BY <1>t, <2>1, SMTT(30) DEF Session
  <2>3. Consumed(Head(sess[s].writes), sess[s].wbuf) \in Nat
    <3>1. \A i, j \in Nat : (IF i > j THEN 0 ELSE j - i) \in Nat
      OBVIOUS
    <3> QED
      BY <2>2, <3>1 DEF Consumed
  <2>4. r \in Session
    BY <1>t, <2>2, <2>3 DEF Session
  <2>5. sess' \in Seq(Session) /\ Len(sess') = Len(sess)
    BY <2>1, <2>4, OneSession DEF TcpOK
  <2> QED
    BY <1>5, <2>5, Frames DEF handle_write
<1>6. CASE handle_readError(s)
  <2>1. SessionGoto(s, "closed")
    BY <1>6 DEF handle_readError, SessionGoto
  <2>2. sess' \in Seq(Session) /\ Len(sess') = Len(sess)
    BY <2>1, GotoType DEF SessionPlaces
  <2> QED
    BY <1>6, <2>2, Frames DEF handle_readError
<1>7. CASE Says(s)
  <2>1. PICK m \in Said : sess' = [sess EXCEPT ![s].in = Append(@, m)]
    BY <1>7 DEF Says
  <2> DEFINE r == [sess[s] EXCEPT !.in = Append(sess[s].in, m)]
  <2>2. sess' = [sess EXCEPT ![s] = r] /\ r \in Session
    <3>1. Append(sess[s].in, m) \in Seq(Said)
      BY <1>t DEF Session
    <3>2. r \in Session
      BY <1>t, <3>1 DEF Session
    <3>3. sess' = [sess EXCEPT ![s] = r]
      BY <2>1
    <3> QED
      BY <3>2, <3>3
  <2>3. sess' \in Seq(Session) /\ Len(sess') = Len(sess)
    BY <2>2, OneSession DEF TcpOK
  <2>4. UsedOK'
    BY <1>7, MoreType DEF Says
  <2> QED
    BY <1>7, <2>3, <2>4, Frames DEF Says
<1> QED
  BY <1>1, <1>2, <1>3, <1>4, <1>5, <1>6, <1>7 DEF SessionStep

\* One more vclient.
LEMMA AcceptType ==
  ASSUME TypeOK, handle_accept
  PROVE  TypeOK' /\ Len(sess') = Len(sess) + 1
         /\ sess'[Len(sess')].pc = "listening"
         /\ \A t \in Sessions : sess'[t].pc = IF t = Len(sess) THEN "connected" ELSE sess[t].pc
<1> USE WebsocketAssumption
<1> USE DEF TypeOK
<1>1. /\ sess' = Append([sess EXCEPT ![Len(sess)].pc = "connected"], NewSession(pool.next))
      /\ pool' = [pool EXCEPT !.next = (pool.next + 1) % PoolSize]
      /\ vclient' = Len(sess)
  BY DEF handle_accept
<1>2. NewSession(pool.next) \in Session /\ NewSession(pool.next).pc = "listening"
  BY DEF NewSession, Session, SessionPlaces, TcpOK
<1> DEFINE c == [sess EXCEPT ![Len(sess)].pc = "connected"]
<1>3. /\ c \in Seq(Session) /\ Len(c) = Len(sess)
      /\ \A t \in Sessions : c[t].pc = IF t = Len(sess) THEN "connected" ELSE sess[t].pc
  <2>1. sess \in Seq(Session)
    BY DEF TcpOK
  <2>2. ASSUME NEW t \in Sessions
        PROVE  [sess[t] EXCEPT !.pc = "connected"] \in Session
    <3>1. sess[t] \in Session
      BY <2>1 DEF Sessions
    <3> QED
      BY <3>1 DEF Session, SessionPlaces
  <2>3. c = [t \in Sessions |-> IF t = Len(sess) THEN [sess[t] EXCEPT !.pc = "connected"] ELSE sess[t]]
    BY <2>1 DEF Sessions
  <2> HIDE DEF c
  <2>4. \A t \in Sessions : c[t] \in Session
    BY <2>1, <2>2, <2>3 DEF Sessions
  <2>5. c \in Seq(Session) /\ Len(c) = Len(sess)
    BY <2>1, <2>3, <2>4 DEF Sessions
  <2>6. ASSUME NEW t \in Sessions
        PROVE  c[t].pc = IF t = Len(sess) THEN "connected" ELSE sess[t].pc
    <3>1. sess[t] \in Session
      BY <2>1 DEF Sessions
    <3> QED
      BY <2>3, <3>1 DEF Session
  <2> QED
    BY <2>5, <2>6
<1> HIDE DEF c
<1>4. /\ sess' \in Seq(Session) /\ Len(sess') = Len(sess) + 1
      /\ sess'[Len(sess) + 1] = NewSession(pool.next)
      /\ \A t \in Sessions : sess'[t] = c[t]
  <2>1. sess' = Append(c, NewSession(pool.next))
    BY <1>1 DEF c
  <2> QED
    BY <1>2, <1>3, <2>1 DEF Sessions, TcpOK
<1>5. pool' \in [next : 0 .. PoolSize - 1, taken : SUBSET (0 .. PoolSize - 1)]
  <2>1. (pool.next + 1) % PoolSize \in 0 .. PoolSize - 1
    BY DEF TcpOK
  <2> QED
    BY <1>1, <2>1 DEF TcpOK
<1>6. vclient' \in 0 .. Len(sess')
  BY <1>1, <1>4 DEF TcpOK
<1>7. TcpOK'
  BY <1>4, <1>5, <1>6 DEF TcpOK
<1>8. LinkOK' /\ ThreadsOK' /\ ProcOK' /\ UsedOK'
  BY Frames DEF handle_accept
<1> QED
  BY <1>2, <1>3, <1>4, <1>7, <1>8

\* Each step of the heart beat keeps the types.
LEMMA HbType ==
  ASSUME TypeOK, HbStep
  PROVE  TypeOK'
<1> USE WebsocketAssumption
<1> USE DEF TypeOK
<1>1. CASE HbTick
  <2>1. LinkOK'
    BY <1>1 DEF HbTick, LinkOK
  <2>2. ThreadsOK'
    BY <1>1 DEF HbTick, ThreadsOK
  <2> QED
    BY <1>1, <2>1, <2>2, Frames DEF HbTick, TcpOK
<1>2. CASE HbProbed
  <2>1. LinkOK' /\ crashed' \in Ends
    BY <1>2, DoType DEF HbProbed
  <2> QED
    BY <1>2, <2>1, Frames DEF HbProbed, ThreadsOK, TcpOK
<1>3. CASE HbLogoff
  <2>1. sess' \in Seq(Session) /\ Len(sess') = Len(sess) /\ UsedOK'
    BY <1>3, TellType, Frames DEF HbLogoff, TcpOK
  <2> QED
    BY <1>3, <2>1, Frames DEF HbLogoff, ThreadsOK
<1>4. CASE HbCalls
  <2>1. LinkOK' /\ crashed' \in Ends
    BY <1>4, DoType DEF HbCalls
  <2> QED
    BY <1>4, <2>1, Frames DEF HbCalls, ThreadsOK, TcpOK
<1>5. CASE HbUnlock
  <2>1. LinkOK' /\ crashed' \in Ends
    BY <1>5, DoType DEF HbUnlock
  <2> QED
    BY <1>5, <2>1, Frames DEF HbUnlock, ThreadsOK, TcpOK
<1> QED
  BY <1>1, <1>2, <1>3, <1>4, <1>5 DEF HbStep

\* No connection, to an address.
LEMMA NoConnType ==
  ASSUME NEW a \in Addresses
  PROVE  NoConn \in Connection /\ [NoConn EXCEPT !.to = a] \in Connection
<1>1. <<>> \in Seq(Messages) /\ Address \in Addresses
  BY WebsocketAssumption
<1>2. NoConn \in Connection
  BY <1>1 DEF NoConn, Connection
<1> QED
  BY <1>2 DEF Connection

\* A process id, or 0.
LEMMA Zero == MaxPid \in Nat /\ 0 \in 0 .. MaxPid /\ Pids \subseteq 0 .. MaxPid
<1>1. MaxPid \in Nat
  BY WebsocketAssumption
<1> QED
  BY <1>1 DEF Pids

\* The receiving thread comes to another place.
LEMMA RxGotoType ==
  ASSUME ThreadsOK, NEW pc \in RxPlaces, RxGoto(pc),
         UNCHANGED <<hb, token, active>>, crashed' \in Ends
  PROVE  ThreadsOK'
  BY DEF ThreadsOK, RxGoto

\* Each step that connects or receives keeps the types.
LEMMA RxLinkType ==
  ASSUME TypeOK,
         RxLock \/ RxDelete \/ RxConnect \/ RxConnected \/ RxFails \/ RxSends \/ RxUnlock
         \/ RxRun \/ RxLost
  PROVE  TypeOK'
<1> USE WebsocketAssumption
<1> USE DEF TypeOK, RxPlaces, Ends
<1>t. TcpOK /\ UNCHANGED <<sess, pool, vclient>> => TcpOK'
  BY DEF TcpOK
<1>c. crashed' = crashed => crashed' \in Ends
  BY DEF ThreadsOK
<1>1. CASE RxLock
  <2>1. ThreadsOK'
    BY <1>1, <1>c, RxGotoType DEF RxLock
  <2>2. LinkOK'
    BY <1>1 DEF RxLock, LinkOK
  <2> QED
    BY <1>1, <1>t, <2>1, <2>2, Frames DEF RxLock
<1>2. CASE RxDelete
  <2>1. ThreadsOK'
    BY <1>2, <1>c, RxGotoType DEF RxDelete
  <2>2. LinkOK'
    BY <1>2, NoConnType DEF RxDelete, LinkOK
  <2> QED
    BY <1>2, <1>t, <2>1, <2>2, Frames DEF RxDelete
<1>3. CASE RxConnect
  <2>1. ThreadsOK'
    BY <1>3, <1>c, RxGotoType DEF RxConnect
  <2>2. LinkOK'
    BY <1>3, NoConnType DEF RxConnect, LinkOK
  <2> QED
    BY <1>3, <1>t, <2>1, <2>2, Frames DEF RxConnect
<1>4. CASE RxConnected
  <2>1. ThreadsOK'
    BY <1>4, <1>c, RxGotoType DEF RxConnected
  <2>2. LinkOK'
    BY <1>4 DEF RxConnected, LinkOK, Connection
  <2> QED
    BY <1>4, <1>t, <2>1, <2>2, Frames DEF RxConnected
<1>5. CASE RxFails
  <2>1. ThreadsOK'
    BY <1>5, <1>c, RxGotoType DEF RxFails
  <2> QED
    BY <1>5, <1>t, <2>1, Frames DEF RxFails
<1>6. CASE RxSends
  <2>1. LinkOK' /\ crashed' \in Ends
    BY <1>6, DoType DEF RxSends
  <2>2. ThreadsOK'
    BY <1>6, <2>1, RxGotoType DEF RxSends
  <2> QED
    BY <1>6, <1>t, <2>1, <2>2, Frames DEF RxSends
<1>7. CASE RxUnlock
  <2>1. LinkOK' /\ crashed' \in Ends
    BY <1>7, DoType DEF RxUnlock
  <2>2. ThreadsOK'
    BY <1>7, <2>1, RxGotoType DEF RxUnlock
  <2> QED
    BY <1>7, <1>t, <2>1, <2>2, Frames DEF RxUnlock
<1>8. CASE RxRun
  <2>1. /\ pool.next \in Nat
        /\ \A n \in Nat : n % PoolSize \in 0 .. PoolSize - 1
    BY DEF TcpOK
  <2>2. /\ (pool.next + 1) % PoolSize \in 0 .. PoolSize - 1
        /\ (((pool.next + 1) % PoolSize) + 1) % PoolSize \in 0 .. PoolSize - 1
    BY <2>1
  <2>3. pool' \in [next : 0 .. PoolSize - 1, taken : SUBSET (0 .. PoolSize - 1)]
    BY <1>8, <2>2 DEF RxRun, TcpOK
  <2>4. TcpOK'
    BY <1>8, <2>3 DEF RxRun, TcpOK
  <2> QED
    BY <1>8, <2>4, Frames DEF RxRun, ThreadsOK
<1>9. CASE RxLost
  <2>1. ThreadsOK'
    BY <1>9, <1>c, RxGotoType DEF RxLost
  <2> QED
    BY <1>9, <1>t, <2>1, Frames DEF RxLost
<1> QED
  BY <1>1, <1>2, <1>3, <1>4, <1>5, <1>6, <1>7, <1>8, <1>9

\* So does each step that handles a message.
LEMMA RxMessageType ==
  ASSUME TypeOK,
         RxMessage \/ VlcLook \/ VlcKill \/ VlcEnd \/ VlcBad \/ VlcStart \/ VlcStarted
  PROVE  TypeOK'
<1> USE WebsocketAssumption
<1> USE DEF TypeOK, RxPlaces, Ends
<1>t. TcpOK /\ UNCHANGED <<sess, pool, vclient>> => TcpOK'
  BY DEF TcpOK
<1>c. crashed' = crashed => crashed' \in Ends
  BY DEF ThreadsOK
<1>r. RxIdle \in [pc : RxPlaces, req : {"none", "start", "end"}, pid : 0 .. MaxPid]
  BY DEF RxIdle
<1>1. CASE RxMessage
  <2> DEFINE m == Head(conn.in)
  <2>1. conn.in # <<>> /\ conn.in \in Seq(Messages)
    BY <1>1 DEF RxMessage, LinkOK, Connection
  <2>2. conn' = [conn EXCEPT !.in = Tail(conn.in)]
    BY <1>1 DEF RxMessage
  <2>3. Tail(conn.in) \in Seq(Messages)
    BY <2>1
  <2>4. LinkOK'
    BY <1>1, <2>2, <2>3 DEF RxMessage, LinkOK, Connection
  <2>5. ThreadsOK'
    <3>1. token' \in Nat
      BY <1>1 DEF RxMessage, ThreadsOK
    <3>2. rx' \in [pc : RxPlaces, req : {"none", "start", "end"}, pid : 0 .. MaxPid]
      <4>1. rx' = [pc |-> CASE m = "info" -> "info"
                            [] m \in {"start", "end"} -> "vlc"
                            [] OTHER -> "receive",
                   req |-> IF m \in {"start", "end"} THEN m ELSE "none", pid |-> 0]
        BY <1>1 DEF RxMessage
      <4> HIDE DEF m
      <4>2. rx'.pc \in RxPlaces /\ rx'.req \in {"none", "start", "end"} /\ rx'.pid = 0
        BY <4>1
      <4> QED
        BY <4>1, <4>2
    <3> QED
      BY <1>1, <3>1, <3>2 DEF RxMessage, ThreadsOK
  <2>6. sess' \in Seq(Session) /\ Len(sess') = Len(sess) /\ UsedOK'
    <3>1. Tell \/ UNCHANGED <<sess, used>>
      BY <1>1 DEF RxMessage
    <3> QED
      BY <3>1, TellType, Frames DEF TcpOK
  <2>7. ProcOK'
    BY <1>1 DEF RxMessage, ProcOK
  <2> QED
    BY <1>1, <2>4, <2>5, <2>6, <2>7, Frames DEF RxMessage
<1>2. CASE VlcLook
  <2>1. ThreadsOK'
    BY <1>2, <1>c, RxGotoType DEF VlcLook
  <2> QED
    BY <1>2, <1>t, <2>1, Frames DEF VlcLook
<1>3. CASE VlcKill
  <2>1. ThreadsOK'
    BY <1>3, <1>c, RxGotoType DEF VlcKill
  <2>2. ProcOK'
    BY <1>3 DEF VlcKill, ProcOK
  <2> QED
    BY <1>3, <1>t, <2>1, <2>2, Frames DEF VlcKill
<1>4. CASE VlcEnd
  <2>1. sess' \in Seq(Session) /\ Len(sess') = Len(sess) /\ UsedOK'
    BY <1>4, TellType DEF VlcEnd
  <2> QED
    BY <1>4, <1>r, <2>1, Frames DEF VlcEnd, ThreadsOK
<1>5. CASE VlcBad
  BY <1>5, <1>t, <1>r, Frames DEF VlcBad, ThreadsOK
<1>6. CASE VlcStart
  <2>1. ProcOK'
    BY <1>6 DEF VlcStart, ProcOK
  <2>2. PICK p \in 0 .. MaxPid : rx' = [rx EXCEPT !.pc = "vlc started", !.pid = p]
    BY <1>6, Zero DEF VlcStart
  <2>3. ThreadsOK'
    BY <1>6, <2>2 DEF VlcStart, ThreadsOK
  <2> QED
    BY <1>6, <1>t, <2>1, <2>3, Frames DEF VlcStart
<1>7. CASE VlcStarted
  <2>1. sess' \in Seq(Session) /\ Len(sess') = Len(sess) /\ UsedOK'
    BY <1>7, TellType DEF VlcStarted
  <2>2. ProcOK'
    BY <1>7 DEF VlcStarted, ProcOK, ThreadsOK
  <2> QED
    BY <1>7, <1>r, <2>1, <2>2, Frames DEF VlcStarted, ThreadsOK
<1> QED
  BY <1>1, <1>2, <1>3, <1>4, <1>5, <1>6, <1>7

\* And what is external.
LEMMA ExternalType ==
  ASSUME TypeOK,
         sigchld_handler \/ (\E p \in Pids : Dies(p)) \/ Answer \/ Request \/ Breaks
  PROVE  TypeOK'
<1> USE WebsocketAssumption
<1> USE DEF TypeOK
<1>t. TcpOK /\ UNCHANGED <<sess, pool, vclient>> => TcpOK'
  BY DEF TcpOK
<1>m. ASSUME NEW m \in Messages, Comes(m)
      PROVE  LinkOK' /\ ThreadsOK' /\ TcpOK' /\ ProcOK'
  <2>1. LinkOK'
    <3>1. <<m>> \in Seq(Messages)
      BY <1>m
    <3> QED
      BY <1>m, <3>1 DEF Comes, LinkOK, Connection
  <2> QED
    BY <1>m, <1>t, <2>1, Frames DEF Comes
<1>1. CASE sigchld_handler
  <2>1. ProcOK'
    <3>1. vlc_pid' \in {0, vlc_pid}
      BY <1>1 DEF sigchld_handler, clear_process_id
    <3>2. \/ proc' = proc
          \/ \E p \in Pids : proc' = [proc EXCEPT ![p] = "reaped"]
      BY <1>1 DEF sigchld_handler
    <3>3. caught' = caught \/ \E p \in Pids : caught' = caught \cup {p}
      BY <1>1 DEF sigchld_handler
    <3> QED
      BY <1>1, <3>1, <3>2, <3>3, Zero DEF sigchld_handler, ProcOK
  <2> QED
    BY <1>1, <1>t, <2>1, Frames DEF sigchld_handler
<1>2. ASSUME NEW p \in Pids, Dies(p)
      PROVE  TypeOK'
  <2>1. ProcOK'
    BY <1>2 DEF Dies, ProcOK
  <2> QED
    BY <1>2, <1>t, <2>1, Frames DEF Dies
<1>3. CASE Answer
  BY <1>3, <1>m, Frames DEF Answer, Messages
<1>4. CASE Request
  BY <1>4, <1>m, MoreType DEF Request, Messages
<1>5. CASE Breaks
  <2>1. LinkOK'
    BY <1>5 DEF Breaks, Ended, LinkOK, Connection
  <2>2. UsedOK'
    BY <1>5, MoreType DEF Breaks
  <2> QED
    BY <1>5, <1>t, <2>1, <2>2, Frames DEF Breaks
<1> QED
  BY <1>1, <1>2, <1>3, <1>4, <1>5

\* What is there when the program starts.
LEMMA InitType == Init => TypeOK
<1> SUFFICES ASSUME Init
             PROVE  TypeOK
  OBVIOUS
<1> USE WebsocketAssumption
<1>1. LinkOK
  BY NoConnType DEF Init, LinkOK
<1>2. ThreadsOK
  <2>1. rx = [pc |-> "boot", req |-> "none", pid |-> 0]
    BY DEF Init, RxIdle
  <2>2. hb = "off" /\ token = 0 /\ active = FALSE /\ crashed = "no"
    BY DEF Init
  <2> QED
    BY <2>1, <2>2, Zero DEF ThreadsOK, RxPlaces, Ends
<1>3. TcpOK
  <2>1. NewSession(1) \in Session
    BY DEF NewSession, Session, SessionPlaces
  <2>2. 2 % PoolSize \in 0 .. PoolSize - 1
    OBVIOUS
  <2>3. sess = <<NewSession(1)>> /\ pool = [next |-> 2 % PoolSize, taken |-> {}] /\ vclient = 0
    BY DEF Init
  <2> HIDE DEF Init
  <2> QED
    BY <2>1, <2>2, <2>3 DEF TcpOK
<1>4. ProcOK
  <2>1. vlc_pid = 0 /\ sigchld = FALSE /\ proc = [p \in Pids |-> "unborn"] /\ caught = {}
    BY DEF Init
  <2> QED
    BY <2>1, Zero DEF ProcOK
<1>5. UsedOK
  BY DEF Init, UsedOK
<1> QED
  BY <1>1, <1>2, <1>3, <1>4, <1>5 DEF TypeOK

\* Every step keeps the types.
LEMMA NextType == TypeOK /\ [Next]_vars => TypeOK'
<1> SUFFICES ASSUME TypeOK, [Next]_vars
             PROVE  TypeOK'
  OBVIOUS
<1>1. CASE UNCHANGED vars
  BY <1>1, Frames DEF TypeOK, TcpOK, vars
<1>2. CASE Next
  BY <1>2, HbType, RxLinkType, RxMessageType, AcceptType, SessionType, ExternalType
     DEF Next, RxStep
<1> QED
  BY <1>1, <1>2

\* Every variable keeps its type, whatever comes and whenever.
THEOREM TypeCorrect == Spec => []TypeOK
  BY InitType, NextType, PTL DEF Spec

-----------------------------------------------------------------------------
(* The mutex and the object.                                               *)

\* A step that changes no holder and does not touch the object.
LEMMA LinkFrame ==
  ASSUME LinkInv, lock' = lock, ws_client' = ws_client,
         RxHolds' <=> RxHolds, HbHolds' <=> HbHolds, Holding' = Holding,
         rx.pc \in Replacing => rx'.pc = rx.pc,
         rx'.pc = "boot" => rx.pc = "boot" /\ (Quiet => Quiet'),
         Listens'
  PROVE  LinkInv'
  BY DEF LinkInv, LockHeld, ObjectThere, Replacing

\* A step that moves no session.
LEMMA SessionsStay ==
  ASSUME sess \in Seq(Session), sess' \in Seq(Session), Len(sess') = Len(sess),
         \A t \in Sessions : sess'[t].pc = sess[t].pc
  PROVE  /\ Holding' = Holding /\ (Quiet /\ hb' = hb => Quiet')
         /\ Listens => Listens'
<1>1. Sessions' = Sessions
  BY DEF Sessions
<1>2. Holding' = Holding
  BY <1>1 DEF Holding
<1> QED
  BY <1>1, <1>2 DEF Quiet, Listens, Sessions

\* A session that comes to another place takes the mutex, gives it back or
\* does neither.
LEMMA SessionMoves ==
  ASSUME TcpOK, NEW s \in Sessions, NEW pc \in SessionPlaces, SessionGoto(s, pc)
  PROVE  /\ Holding' = IF pc = "unlock" THEN Holding \cup {s} ELSE Holding \ {s}
         /\ sess[s].pc # "listening" /\ Listens => Listens'
<1>1. /\ Sessions' = Sessions
      /\ \A t \in Sessions : sess'[t].pc = IF t = s THEN pc ELSE sess[t].pc
      /\ Len(sess') = Len(sess) /\ sess' \in Seq(Session) /\ sess \in Seq(Session)
  BY GotoType DEF Sessions, TcpOK
<1>2. Holding' = IF pc = "unlock" THEN Holding \cup {s} ELSE Holding \ {s}
  BY <1>1 DEF Holding
<1>3. sess[s].pc # "listening" /\ Listens => Listens'
  BY <1>1 DEF Listens, Sessions
<1> QED
  BY <1>2, <1>3

\* Who is not the thread that replaces the object finds it, when the mutex is
\* free.
LEMMA Found ==
  ASSUME LinkInv, Free, rx.pc # "boot" \/ ~ Quiet
  PROVE  ws_client = "live"
  BY DEF LinkInv, LockHeld, ObjectThere, Free, RxHolds, Replacing

\* The steps of a session keep the link in order.
LEMMA SessionLink ==
  ASSUME TypeOK, LinkInv, NoMisuse, NEW s \in Sessions,
         SessionStep(s) \/ handle_write(s) \/ handle_readError(s) \/ Says(s)
  PROVE  LinkInv' /\ NoMisuse'
<1>t. TcpOK /\ TcpOK' /\ sess[s] \in Session
  BY SessionType DEF TypeOK, TcpOK, Sessions
<1>s. sess \in Seq(Session) /\ sess' \in Seq(Session)
  BY <1>t DEF TcpOK
<1>q. sess[s].pc # "listening" => ~ Quiet
  BY DEF Quiet
<1>f. ASSUME NEW pc \in SessionPlaces \ {"unlock"}, SessionGoto(s, pc),
             sess[s].pc \notin {"listening", "unlock"},
             UNCHANGED <<ws_client, lock, rx, hb>>
      PROVE  LinkInv'
  <2>1. Holding' = Holding /\ Listens'
    BY <1>f, <1>t, SessionMoves DEF Holding, LinkInv
  <2>2. RxHolds' = RxHolds /\ HbHolds' = HbHolds /\ rx'.pc = rx.pc
    BY <1>f DEF RxHolds, HbHolds
  <2>3. ~ Quiet
    BY <1>f, <1>q
  <2> QED
    BY <1>f, <2>1, <2>2, <2>3, LinkFrame
<1>g. ASSUME Len(sess') = Len(sess), \A t \in Sessions : sess'[t].pc = sess[t].pc,
             UNCHANGED <<ws_client, lock, rx, hb>>
      PROVE  LinkInv'
  <2>1. Holding' = Holding /\ (Quiet => Quiet') /\ Listens'
    BY <1>g, <1>s, SessionsStay DEF LinkInv
  <2>2. RxHolds' = RxHolds /\ HbHolds' = HbHolds /\ rx'.pc = rx.pc
    BY <1>g DEF RxHolds, HbHolds
  <2> QED
    BY <1>g, <2>1, <2>2, LinkFrame
<1>1. CASE SessionStart(s)
  BY <1>1, <1>f DEF SessionStart, SessionAt, SessionPlaces, NoMisuse
<1>2. CASE handle_read(s)
  <2> DEFINE m == Head(sess[s].in)
             new == m.type = "address" /\ m.ip # ip
  <2>1. PICK n \in 1 .. Len(sess[s].in) :
          sess' = [sess EXCEPT ![s].in = SubSeq(@, n + 1, Len(@)),
                               ![s].pc = IF new THEN "reconnect"
                                         ELSE IF m.type = "seat" THEN "commit" ELSE @]
    BY <1>2 DEF handle_read
  <2>2. Len(sess') = Len(sess) /\ \A t \in Sessions \ {s} : sess'[t] = sess[t]
    BY <1>s, <2>1 DEF Sessions
  <2>3. sess[s].pc = "read" /\ sess'[s].pc \in {"read", "reconnect", "commit"}
    BY <1>2, <1>t, <1>s, <2>1 DEF handle_read, SessionAt, Session, Sessions
  <2>4. Holding' = Holding /\ ~ Quiet
    BY <1>q, <2>2, <2>3, <1>s DEF Holding, Sessions
  <2>7. Listens'
    BY <2>2, <2>3, <1>s DEF LinkInv, Listens, Sessions
  <2>5. RxHolds' = RxHolds /\ HbHolds' = HbHolds /\ rx'.pc = rx.pc
    BY <1>2 DEF RxHolds, HbHolds, handle_read
  <2>6. lock' = lock /\ ws_client' = ws_client /\ crashed' = crashed
    BY <1>2 DEF handle_read
  <2> QED
    BY <2>4, <2>5, <2>6, <2>7, LinkFrame DEF NoMisuse
<1>3. CASE SessionCalls(s)
  <2>1. sess[s].pc \in {"reconnect", "commit"}
    BY <1>3 DEF SessionCalls, SessionAt
  <2>2. CASE Skips /\ SessionGoto(s, "read")
    BY <1>3, <1>f, <2>1, <2>2 DEF SessionCalls, Skips, SessionPlaces, NoMisuse
  <2>3. ASSUME NEW c \in {Closed, Sent(FALSE)}, Do(c), SessionGoto(s, "unlock")
        PROVE  LinkInv' /\ NoMisuse'
    <3>1. ws_client = "live"
      BY <1>q, <2>1, <2>3, Found DEF Do
    <3>2. NoMisuse' /\ ws_client' = "live" /\ ~ lock /\ lock' = TRUE
      BY <2>3, <3>1 DEF Do, Calls, Free, NoMisuse
    <3>3. Holding = {} /\ ~ RxHolds /\ ~ HbHolds
      BY <3>2 DEF LinkInv, LockHeld
    <3>4. Holding' = {s} /\ Listens'
      BY <1>t, <2>1, <2>3, <3>3, SessionMoves DEF SessionPlaces, LinkInv
    <3>5. ~ RxHolds' /\ ~ HbHolds' /\ rx'.pc = rx.pc
      BY <1>3, <3>3 DEF SessionCalls, RxHolds, HbHolds
    <3>6. rx.pc # "boot"
      BY <1>q, <2>1 DEF LinkInv, ObjectThere
    <3> QED
      BY <3>2, <3>4, <3>5, <3>6 DEF LinkInv, LockHeld, ObjectThere
  <2> QED
    BY <1>3, <2>2, <2>3 DEF SessionCalls
<1>4. CASE SessionUnlock(s)
  <2>1. s \in Holding /\ ~ Quiet
    BY <1>4, <1>q DEF SessionUnlock, SessionAt, Holding
  <2>2. Holding = {s} /\ ~ RxHolds /\ ~ HbHolds
    BY <2>1 DEF LinkInv, LockHeld
  <2>3. Holding' = {} /\ Listens'
    BY <1>4, <1>t, <2>1, <2>2, SessionMoves DEF SessionUnlock, SessionPlaces, LinkInv, Holding
  <2>4. ~ RxHolds' /\ ~ HbHolds' /\ rx'.pc = rx.pc
    BY <1>4, <2>2 DEF SessionUnlock, RxHolds, HbHolds
  <2>5. lock' = FALSE /\ ws_client' = ws_client /\ crashed' = crashed
    BY <1>4 DEF SessionUnlock, Unlock
  <2> QED
    BY <2>1, <2>3, <2>4, <2>5 DEF LinkInv, LockHeld, ObjectThere, NoMisuse
<1>5. CASE handle_write(s)
  <2>1. /\ Len(sess') = Len(sess)
        /\ \A t \in Sessions \ {s} : sess'[t] = sess[t]
        /\ sess'[s].pc = sess[s].pc
    <3>1. sess' = [sess EXCEPT ![s].wbuf = Consumed(Head(sess[s].writes), @),
                               ![s].writes = Tail(@)]
      BY <1>5 DEF handle_write
    <3> DEFINE r == [sess[s] EXCEPT !.wbuf = Consumed(Head(sess[s].writes), sess[s].wbuf),
                                    !.writes = Tail(sess[s].writes)]
    <3>2. sess' = [sess EXCEPT ![s] = r] /\ r.pc = sess[s].pc
      BY <3>1, <1>t DEF Session
    <3> HIDE DEF r
    <3> QED
      BY <3>2, <1>s DEF Sessions
  <2> QED
    BY <1>5, <1>g, <2>1 DEF handle_write, NoMisuse
<1>6. CASE handle_readError(s)
  BY <1>6, <1>f DEF handle_readError, SessionAt, SessionGoto, SessionPlaces, NoMisuse
<1>7. CASE Says(s)
  <2>1. /\ Len(sess') = Len(sess)
        /\ \A t \in Sessions \ {s} : sess'[t] = sess[t]
        /\ sess'[s].pc = sess[s].pc
    <3>1. PICK m \in Said : sess' = [sess EXCEPT ![s].in = Append(@, m)]
      BY <1>7 DEF Says
    <3> DEFINE r == [sess[s] EXCEPT !.in = Append(sess[s].in, m)]
    <3>2. sess' = [sess EXCEPT ![s] = r] /\ r.pc = sess[s].pc
      BY <3>1, <1>t DEF Session
    <3> HIDE DEF r
    <3> QED
      BY <3>2, <1>s DEF Sessions
  <2> QED
    BY <1>7, <1>g, <2>1 DEF Says, NoMisuse
<1> QED
  BY <1>1, <1>2, <1>3, <1>4, <1>5, <1>6, <1>7 DEF SessionStep

\* A session that is accepted, too.
LEMMA AcceptLink ==
  ASSUME TypeOK, LinkInv, NoMisuse, handle_accept, ~ EarlyClient
  PROVE  LinkInv' /\ NoMisuse'
<1>1. /\ sess \in Seq(Session) /\ sess' \in Seq(Session) /\ Len(sess') = Len(sess) + 1
      /\ sess'[Len(sess')].pc = "listening"
      /\ \A t \in Sessions : sess'[t].pc = IF t = Len(sess) THEN "connected" ELSE sess[t].pc
  BY AcceptType DEF TypeOK, TcpOK
<1>2. Sessions' = Sessions \cup {Len(sess')}
  BY <1>1 DEF Sessions
<1>3. Len(sess) \in Sessions /\ Len(sess) \notin Holding /\ Len(sess') \notin Sessions
  BY <1>1 DEF Holding, Sessions, LinkInv, Listens
<1>4. Holding' = Holding
  BY <1>1, <1>2, <1>3 DEF Holding
<1>5. Listens'
  BY <1>1 DEF Listens
<1>6. UNCHANGED <<ws_client, lock, rx, hb, crashed>> /\ rx.pc # "boot"
  BY DEF handle_accept
<1>7. RxHolds' = RxHolds /\ HbHolds' = HbHolds
  BY <1>6 DEF RxHolds, HbHolds
<1> QED
  BY <1>4, <1>5, <1>6, <1>7, LinkFrame DEF NoMisuse

\* The steps of the heart beat thread, too.
LEMMA HbLink ==
  ASSUME TypeOK, LinkInv, NoMisuse, HbStep
  PROVE  LinkInv' /\ NoMisuse'
<1>q. hb # "off" /\ ~ Quiet /\ rx.pc # "boot"
  BY DEF HbStep, HbTick, HbProbed, HbLogoff, HbCalls, HbUnlock, Quiet, LinkInv, ObjectThere
<1>t. sess \in Seq(Session) /\ sess' \in Seq(Session)
  BY HbType DEF TypeOK, TcpOK
<1>h. sess' = sess => Holding' = Holding /\ Listens'
  BY DEF Holding, Sessions, LinkInv, Listens
<1>r. rx' = rx => RxHolds' = RxHolds /\ rx'.pc = rx.pc
  BY DEF RxHolds
<1>1. CASE HbTick
  <2>1. UNCHANGED <<ws_client, rx, crashed, sess>>
    BY <1>1 DEF HbTick
  <2>2. CASE hb' = "probed"
    <3>1. lock' = TRUE /\ ~ lock /\ hb = "sleep"
      BY <1>1, <2>2 DEF HbTick, Free
    <3>2. ~ RxHolds /\ ~ HbHolds /\ Holding = {}
      BY <3>1 DEF LinkInv, LockHeld
    <3> QED
      BY <1>h, <1>q, <1>r, <2>1, <2>2, <3>1, <3>2 DEF LinkInv, LockHeld, ObjectThere, HbHolds, NoMisuse
  <2>3. CASE hb' # "probed"
    <3>1. lock' = lock /\ ~ HbHolds /\ ~ HbHolds'
      BY <1>1, <2>3 DEF HbTick, Free, HbHolds, TypeOK, LinkOK
    <3> QED
      BY <1>h, <1>q, <1>r, <2>1, <3>1, LinkFrame DEF NoMisuse
  <2> QED
    BY <2>2, <2>3
<1>2. CASE HbProbed \/ HbUnlock
  <2>1. HbHolds /\ ~ HbHolds' /\ UNCHANGED <<ws_client, rx, crashed, sess>> /\ lock' = FALSE
    BY <1>2 DEF HbProbed, HbUnlock, HbHolds, Unlock
  <2>2. ~ RxHolds /\ Holding = {}
    BY <2>1 DEF LinkInv, LockHeld
  <2> QED
    BY <1>h, <1>q, <1>r, <2>1, <2>2 DEF LinkInv, LockHeld, ObjectThere, NoMisuse
<1>3. CASE HbLogoff
  <2>1. UNCHANGED <<ws_client, lock, rx, crashed>> /\ ~ HbHolds /\ ~ HbHolds'
    BY <1>3 DEF HbLogoff, HbHolds
  <2>2. Len(sess') = Len(sess) /\ \A t \in Sessions : sess'[t].pc = sess[t].pc
    BY <1>3, TellType, WebsocketAssumption DEF HbLogoff, TypeOK
  <2>3. Holding' = Holding /\ Listens'
    BY <1>t, <2>2, SessionsStay DEF LinkInv
  <2> QED
    BY <1>q, <1>r, <2>1, <2>3, LinkFrame DEF NoMisuse
<1>4. CASE HbCalls
  <2>1. UNCHANGED <<rx, sess>> /\ ~ HbHolds
    BY <1>4 DEF HbCalls, HbHolds
  <2>2. ASSUME NEW c \in {Closed, Sent(TRUE)}, Do(c), hb' = "unlock"
        PROVE  LinkInv' /\ NoMisuse'
    <3>1. ws_client = "live"
      BY <1>q, <2>2, Found DEF Do
    <3>2. NoMisuse' /\ ws_client' = "live" /\ ~ lock /\ lock' = TRUE /\ HbHolds'
      BY <2>2, <3>1 DEF Do, Calls, Free, NoMisuse, HbHolds
    <3>3. Holding = {} /\ ~ RxHolds
      BY <3>2 DEF LinkInv, LockHeld
    <3> QED
      BY <1>h, <1>q, <1>r, <2>1, <3>2, <3>3 DEF LinkInv, LockHeld, ObjectThere
  <2>3. CASE Skips /\ hb' = "sleep"
    <3>1. UNCHANGED <<ws_client, lock, crashed>> /\ ~ HbHolds'
      BY <2>3 DEF Skips, HbHolds
    <3> QED
      BY <1>h, <1>q, <1>r, <2>1, <3>1, LinkFrame DEF NoMisuse
  <2> QED
    BY <1>4, <2>2, <2>3 DEF HbCalls
<1> QED
  BY <1>1, <1>2, <1>3, <1>4 DEF HbStep

\* The steps of the receiving thread, too.
LEMMA RxLink ==
  ASSUME TypeOK, LinkInv, NoMisuse,
         RxLock \/ RxDelete \/ RxConnect \/ RxConnected \/ RxFails \/ RxSends \/ RxUnlock
         \/ RxRun \/ RxLost
  PROVE  LinkInv' /\ NoMisuse'
<1>h. sess' = sess => Holding' = Holding /\ Listens'
  BY DEF Holding, Sessions, LinkInv, Listens
<1>b. hb' = hb => HbHolds' = HbHolds
  BY DEF HbHolds
<1>p. ASSUME NEW pc, RxGoto(pc)
      PROVE  rx'.pc = pc
  BY <1>p DEF RxGoto, TypeOK, ThreadsOK
<1>1. CASE RxLock
  <2>1. UNCHANGED <<ws_client, hb, crashed, sess>> /\ ~ lock /\ lock' = TRUE /\ rx'.pc = "delete"
    BY <1>1, <1>p DEF RxLock, Free
  <2>2. Holding = {} /\ ~ HbHolds /\ RxHolds'
    BY <2>1 DEF LinkInv, LockHeld, RxHolds
  <2> QED
    BY <1>h, <1>b, <2>1, <2>2 DEF LinkInv, LockHeld, ObjectThere, Replacing, NoMisuse
<1>2. CASE RxDelete \/ RxConnect \/ RxFails
  <2>1. /\ UNCHANGED <<lock, hb, crashed, sess>> /\ RxHolds
        /\ rx'.pc \in {"connect", "connecting", "delete"}
        /\ rx'.pc = "connecting" => ws_client' = "live"
    BY <1>2, <1>p DEF RxDelete, RxConnect, RxFails, RxAt, RxHolds
  <2>2. RxHolds'
    BY <2>1 DEF RxHolds
  <2> QED
    BY <1>h, <1>b, <2>1, <2>2 DEF LinkInv, LockHeld, ObjectThere, Replacing, NoMisuse
<1>3. CASE RxConnected \/ RxUnlock
  <2>1. /\ UNCHANGED <<ws_client, hb, crashed, sess>> /\ RxHolds /\ lock' = FALSE
        /\ rx.pc \notin Replacing /\ rx'.pc \in {"hello", "receive"}
    BY <1>3, <1>p DEF RxConnected, RxUnlock, Unlock, RxAt, RxHolds, Replacing
  <2>2. Holding = {} /\ ~ HbHolds /\ ~ RxHolds'
    BY <2>1 DEF LinkInv, LockHeld, RxHolds
  <2> QED
    BY <1>h, <1>b, <2>1, <2>2 DEF LinkInv, LockHeld, ObjectThere, NoMisuse
<1>4. CASE RxSends
  <2>1. UNCHANGED <<hb, sess>> /\ rx.pc \in {"hello", "info"} /\ ~ RxHolds
    BY <1>4 DEF RxSends, RxAt, RxHolds
  <2>2. CASE Do(Sent(FALSE)) /\ RxGoto("unlock")
    <3>1. ws_client = "live"
      BY <2>1, <2>2, Found DEF Do
    <3>2. NoMisuse' /\ ws_client' = "live" /\ ~ lock /\ lock' = TRUE /\ rx'.pc = "unlock"
      BY <2>2, <1>p, <3>1 DEF Do, Calls, Free, NoMisuse
    <3>3. Holding = {} /\ ~ HbHolds /\ RxHolds'
      BY <3>2 DEF LinkInv, LockHeld, RxHolds
    <3> QED
      BY <1>h, <1>b, <2>1, <3>2, <3>3 DEF LinkInv, LockHeld, ObjectThere
  <2>3. CASE Skips /\ RxGoto("receive")
    <3>1. UNCHANGED <<ws_client, lock, crashed>> /\ rx'.pc = "receive" /\ ~ RxHolds'
      BY <2>3, <1>p DEF Skips, RxHolds
    <3> QED
      BY <1>h, <1>b, <2>1, <3>1, LinkFrame DEF Replacing, NoMisuse
  <2> QED
    BY <1>4, <2>2, <2>3 DEF RxSends
<1>5. CASE RxRun
  <2>1. UNCHANGED <<ws_client, lock, rx, crashed, sess>> /\ rx.pc = "receive"
        /\ ~ HbHolds /\ ~ HbHolds'
    BY <1>5 DEF RxRun, RxAt, HbHolds
  <2>2. RxHolds' = RxHolds
    BY <2>1 DEF RxHolds
  <2> QED
    BY <1>h, <2>1, <2>2, LinkFrame DEF NoMisuse
<1>6. CASE RxLost
  <2>1. UNCHANGED <<ws_client, lock, hb, crashed, sess>> /\ rx.pc = "receive" /\ rx'.pc = "lost"
    BY <1>6, <1>p DEF RxLost, Receiving, RxAt
  <2>2. RxHolds' = RxHolds
    BY <2>1 DEF RxHolds
  <2> QED
    BY <1>h, <1>b, <2>1, <2>2, LinkFrame DEF Replacing, NoMisuse
<1> QED
  BY <1>1, <1>2, <1>3, <1>4, <1>5, <1>6

\* Neither a message nor what is external touches the mutex or the object.
LEMMA OthersLink ==
  ASSUME TypeOK, LinkInv, TypeOK', UNCHANGED <<ws_client, lock, hb>>,
         rx' = rx \/ (rx.pc \in {"receive", "vlc", "vlc kill", "vlc killed", "vlc started"}
                      /\ rx'.pc \in {"receive", "info", "vlc", "vlc kill", "vlc killed", "vlc started"}),
         Len(sess') = Len(sess), \A t \in Sessions : sess'[t].pc = sess[t].pc
  PROVE  LinkInv'
<1>1. Holding' = Holding /\ (Quiet => Quiet') /\ Listens'
  BY SessionsStay DEF TypeOK, TcpOK, LinkInv
<1>2. (RxHolds' <=> RxHolds) /\ (HbHolds' <=> HbHolds)
  BY DEF RxHolds, HbHolds
<1>3. rx'.pc = "boot" => rx' = rx
  OBVIOUS
<1>4. rx.pc \in Replacing => rx' = rx
  BY DEF Replacing
<1> QED
  BY <1>1, <1>2, <1>3, <1>4, LinkFrame

-----------------------------------------------------------------------------
(* The player.                                                             *)

\* A step that leaves processes and m_vlc_pid alone and does not look for a
\* player.
LEMMA PlayerFrame ==
  ASSUME PlayerInv, UNCHANGED <<proc, vlc_pid, caught>>,
         rx' = rx \/ {rx.pc, rx'.pc} \cap {"vlc kill", "vlc killed", "vlc started"} = {}
  PROVE  PlayerInv'
<1>1. (rx.pc = "vlc started" <=> rx'.pc = "vlc started")
      /\ (rx.pc = "vlc killed" <=> rx'.pc = "vlc killed")
      /\ (rx.pc = "vlc kill" <=> rx'.pc = "vlc kill")
      /\ (rx.pc = "vlc started" => rx'.pid = rx.pid)
  OBVIOUS
<1> QED
  BY <1>1 DEF PlayerInv, PlayerKnown, NotReaped

\* A request that looks for the player, ends it and starts another.
LEMMA VlcPlayer ==
  ASSUME TypeOK, PlayerInv,
         VlcLook \/ VlcKill \/ VlcEnd \/ VlcBad \/ VlcStart \/ VlcStarted
  PROVE  PlayerInv' /\ (crashed' = crashed \/ (crashed' = "kill" /\ caught' # {}))
<1>r. rx \in [pc : RxPlaces, req : {"none", "start", "end"}, pid : 0 .. MaxPid]
  BY DEF TypeOK, ThreadsOK
<1>v. vlc_pid \in 0 .. MaxPid /\ (vlc_pid # 0 => vlc_pid \in Pids)
      /\ \A p \in Pids : p # 0 /\ p \in 0 .. MaxPid
  <2>1. MaxPid \in Nat /\ vlc_pid \in 0 .. MaxPid
    BY Zero DEF TypeOK, ProcOK
  <2> QED
    BY <2>1 DEF Pids
<1>f. /\ proc \in [Pids -> {"unborn", "vlc", "update", "killed", "dead", "reaped", "foreign"}]
      /\ caught \subseteq Pids
  BY DEF TypeOK, ProcOK
<1>i. RxIdle.pc = "receive"
  BY DEF RxIdle
<1>c. caught' = caught
  BY DEF VlcLook, VlcKill, VlcEnd, VlcBad, VlcStart, VlcStarted
<1> USE DEF PlayerInv, PlayerKnown, NotReaped
<1>1. CASE VlcLook
  <2>1. UNCHANGED <<proc, vlc_pid, crashed>> /\ rx.pc = "vlc"
        /\ rx'.pc = (IF vlc_pid # 0 THEN "vlc kill" ELSE "vlc killed")
    BY <1>1, <1>r DEF VlcLook, RxAt, RxGoto
  <2> QED
    BY <1>c, <1>v, <2>1
<1>2. CASE VlcKill
  <2>1. /\ rx.pc = "vlc kill" /\ vlc_pid' = vlc_pid
        /\ rx'.pc = "vlc killed"
    BY <1>2, <1>r, <1>v DEF VlcKill, RxAt, RxGoto
  <2>2. CASE vlc_pid = 0
    <3>1. proc' = proc /\ crashed' = "kill"
      BY <1>2, <2>2 DEF VlcKill
    <3>2. caught # {}
      BY <2>1, <2>2
    <3>3. \A p \in Pids : proc[p] # "vlc"
      BY <1>v, <2>1, <2>2
    <3> QED
      BY <1>c, <2>1, <2>2, <3>1, <3>2, <3>3
  <2>3. CASE vlc_pid # 0
    <3>1. /\ vlc_pid \in Pids /\ crashed' = crashed
          /\ proc' = [proc EXCEPT ![vlc_pid] =
               CASE @ = "vlc" -> "killed" [] @ = "reaped" -> "foreign" [] OTHER -> @]
      BY <1>2, <1>v, <2>3 DEF VlcKill
    <3>2. \/ proc[vlc_pid] \in {"vlc", "killed", "dead"} /\ vlc_pid \notin caught
          \/ proc[vlc_pid] \in {"reaped", "foreign"} /\ vlc_pid \in caught
      BY <2>3
    <3>3. \A p \in Pids \ {vlc_pid} : proc'[p] = proc[p]
      BY <1>f, <3>1
    <3>4. \/ proc'[vlc_pid] \in {"killed", "dead"} /\ vlc_pid \notin caught
          \/ proc'[vlc_pid] = "foreign" /\ vlc_pid \in caught
      BY <1>f, <3>1, <3>2
    <3>5. \A p \in Pids \ {vlc_pid} : proc[p] # "vlc"
      BY <2>1
    <3>6. PlayerKnown'
      BY <1>c, <2>1, <3>3, <3>4, <3>5
    <3>7. NotReaped'
      BY <1>c, <1>f, <2>1, <3>1, <3>3, <3>4
    <3> QED
      BY <3>1, <3>6, <3>7
  <2> QED
    BY <2>2, <2>3
<1>3. CASE VlcEnd \/ VlcBad
  <2>1. UNCHANGED <<proc, vlc_pid, crashed>> /\ rx.pc = "vlc killed" /\ rx'.pc = "receive"
    BY <1>3, <1>i DEF VlcEnd, VlcBad, RxAt
  <2> QED
    BY <1>c, <2>1
<1>4. CASE VlcStart
  <2>1. vlc_pid' = vlc_pid /\ crashed' = crashed /\ rx.pc = "vlc killed" /\ rx'.pc = "vlc started"
    BY <1>4, <1>r DEF VlcStart, RxAt
  <2>2. \A p \in Pids : proc[p] # "vlc"
    BY <2>1
  <2>3. CASE rx' = [rx EXCEPT !.pc = "vlc started", !.pid = 0] /\ UNCHANGED proc
    BY <1>c, <1>r, <1>v, <2>1, <2>2, <2>3
  <2>4. ASSUME NEW p \in Pids, NextPid(p), proc' = [proc EXCEPT ![p] = "vlc"],
               rx' = [rx EXCEPT !.pc = "vlc started", !.pid = p]
        PROVE  PlayerInv' /\ crashed' = crashed
    <3>1. rx'.pid = p /\ proc'[p] = "vlc" /\ \A q \in Pids \ {p} : proc'[q] = proc[q]
      BY <1>f, <1>r, <2>4
    <3>2. proc[p] = "unborn" /\ p \notin caught
      BY <2>4 DEF NextPid
    <3>3. vlc_pid # 0 => vlc_pid \in Pids \ {p}
      BY <1>v, <3>2
    <3> QED
      BY <1>c, <1>f, <2>1, <2>2, <3>1, <3>2, <3>3
  <2> QED
    BY <1>4, <2>3, <2>4 DEF VlcStart
<1>5. CASE VlcStarted
  <2>1. rx.pc = "vlc started" /\ vlc_pid' = rx.pid /\ rx'.pc = "receive" /\ UNCHANGED <<proc, crashed>>
    BY <1>5, <1>i DEF VlcStarted, RxAt
  <2> QED
    BY <1>c, <2>1
<1> QED
  BY <1>1, <1>2, <1>3, <1>4, <1>5

\* A process started for an update is no player, and its id is new.
LEMMA MessagePlayer ==
  ASSUME TypeOK, PlayerInv, RxMessage
  PROVE  PlayerInv' /\ rx.pc = "receive" /\ rx'.pc \in {"receive", "info", "vlc"}
<1>1. vlc_pid' = vlc_pid /\ caught' = caught /\ rx.pc = "receive" /\ rx'.pc \in {"receive", "info", "vlc"}
  BY DEF RxMessage, Receiving, RxAt
<1>2. CASE proc' = proc
  BY <1>1, <1>2, PlayerFrame
<1>3. ASSUME NEW p \in Pids, NextPid(p), proc' = [proc EXCEPT ![p] = "update"]
      PROVE  PlayerInv'
  <2>1. proc \in [Pids -> {"unborn", "vlc", "update", "killed", "dead", "reaped", "foreign"}]
        /\ vlc_pid \in 0 .. MaxPid /\ MaxPid \in Nat /\ caught \subseteq Pids
    BY Zero DEF TypeOK, ProcOK
  <2>2. proc[p] = "unborn" /\ proc'[p] = "update" /\ \A q \in Pids \ {p} : proc'[q] = proc[q]
    BY <1>3, <2>1 DEF NextPid
  <2>c. p \notin caught
    BY <2>2 DEF PlayerInv, NotReaped
  <2>3. vlc_pid # 0 => vlc_pid \in Pids \ {p} /\ proc'[vlc_pid] = proc[vlc_pid]
    <3>1. vlc_pid # 0 => vlc_pid \in Pids
      BY <2>1 DEF Pids
    <3>2. vlc_pid # 0 => proc[vlc_pid] # "unborn"
      BY DEF PlayerInv, NotReaped
    <3> QED
      BY <2>2, <3>1, <3>2
  <2> QED
    BY <1>1, <2>1, <2>2, <2>c, <2>3 DEF PlayerInv, PlayerKnown, NotReaped
<1>4. proc' = proc \/ \E p \in Pids : NextPid(p) /\ proc' = [proc EXCEPT ![p] = "update"]
  BY DEF RxMessage
<1> QED
  BY <1>1, <1>2, <1>3, <1>4

\* Children end and are reaped.
LEMMA ChildPlayer ==
  ASSUME TypeOK, PlayerInv, sigchld_handler \/ \E p \in Pids : Dies(p)
  PROVE  PlayerInv'
<1>1. /\ proc \in [Pids -> {"unborn", "vlc", "update", "killed", "dead", "reaped", "foreign"}]
      /\ vlc_pid \in 0 .. MaxPid /\ MaxPid \in Nat
      /\ rx.pid \in 0 .. MaxPid /\ caught \subseteq Pids
      /\ \A n \in 0 .. MaxPid : n # 0 => n \in Pids
  <2>1. MaxPid \in Nat /\ vlc_pid \in 0 .. MaxPid /\ rx.pid \in 0 .. MaxPid
    BY Zero DEF TypeOK, ProcOK, ThreadsOK
  <2> QED
    BY <2>1 DEF Pids, TypeOK, ProcOK
<1>2. CASE sigchld_handler
  <2>1. rx' = rx
    BY <1>2 DEF sigchld_handler
  <2>2. CASE UNCHANGED <<proc, vlc_pid, caught>>
    BY <2>1, <2>2, PlayerFrame
  <2>3. ASSUME NEW p \in Pids, proc[p] = "dead", proc' = [proc EXCEPT ![p] = "reaped"],
               vlc_pid' = clear_process_id(p),
               caught' = IF Raced(p) THEN caught \cup {p} ELSE caught
        PROVE  PlayerInv'
    <3>1. proc'[p] = "reaped" /\ \A q \in Pids \ {p} : proc'[q] = proc[q]
      BY <1>1, <2>3
    <3>2. vlc_pid' = (IF vlc_pid = p THEN 0 ELSE vlc_pid) /\ p # 0
      BY <2>3 DEF clear_process_id, Pids
    <3>3. /\ caught \subseteq caught' /\ caught' \subseteq caught \cup {p}
          /\ rx.pc = "vlc kill" /\ vlc_pid = p => p \in caught'
          /\ rx.pc = "vlc started" /\ rx.pid = p => p \in caught'
      BY <2>3 DEF Raced, RxAt
    <3>4. PlayerKnown'
      BY <1>1, <2>1, <2>3, <3>1, <3>2, <3>3 DEF PlayerInv, PlayerKnown
    <3>5. NotReaped'
      <4>1. \A q \in Pids : proc'[q] = "foreign" => q \in caught'
        BY <3>1, <3>3 DEF PlayerInv, NotReaped
      <4>2. \A q \in caught' : proc'[q] \in {"reaped", "foreign"}
        BY <1>1, <2>3, <3>1, <3>3 DEF PlayerInv, NotReaped
      <4>3. vlc_pid' # 0 => proc'[vlc_pid'] \in {"vlc", "killed", "dead"} \/ vlc_pid' \in caught'
        BY <1>1, <3>1, <3>2, <3>3 DEF PlayerInv, NotReaped
      <4>4. rx.pc = "vlc started" /\ rx.pid # 0 =>
              proc'[rx.pid] \in {"vlc", "killed", "dead"} \/ rx.pid \in caught'
        BY <1>1, <3>1, <3>3 DEF PlayerInv, NotReaped
      <4> QED
        BY <2>1, <4>1, <4>2, <4>3, <4>4 DEF NotReaped
    <3> QED
      BY <3>4, <3>5 DEF PlayerInv
  <2> QED
    BY <1>2, <2>2, <2>3 DEF sigchld_handler
<1>3. ASSUME NEW p \in Pids, Dies(p)
      PROVE  PlayerInv'
  <2>1. rx' = rx /\ vlc_pid' = vlc_pid /\ caught' = caught /\ proc'[p] = "dead"
        /\ (\A q \in Pids \ {p} : proc'[q] = proc[q]) /\ proc[p] \in {"vlc", "killed", "update"}
    BY <1>1, <1>3 DEF Dies
  <2>2. p \notin caught
    BY <2>1 DEF PlayerInv, NotReaped
  <2> QED
    BY <1>1, <2>1, <2>2 DEF PlayerInv, PlayerKnown, NotReaped
<1> QED
  BY <1>2, <1>3

-----------------------------------------------------------------------------
(* The invariant.                                                          *)

\* When the program starts, nobody has the mutex and no player runs.
LEMMA InitInv == Init => IInv
<1> SUFFICES ASSUME Init
             PROVE  IInv
  OBVIOUS
<1>1. /\ ws_client = "null" /\ lock = FALSE /\ hb = "off" /\ crashed = "no"
      /\ rx.pc = "boot" /\ sess = <<NewSession(1)>> /\ vlc_pid = 0
      /\ caught = {} /\ \A p \in Pids : proc[p] = "unborn"
  BY DEF Init, RxIdle
<1>2. Sessions = {1} /\ sess[1].pc = "listening" /\ Len(sess) = 1
  BY <1>1 DEF Sessions, NewSession
<1>3. Holding = {} /\ ~ RxHolds /\ ~ HbHolds /\ Quiet /\ Listens
  BY <1>1, <1>2 DEF Holding, RxHolds, HbHolds, Quiet, Listens
<1>4. LinkInv
  BY <1>1, <1>3 DEF LinkInv, LockHeld, ObjectThere, Replacing
<1>5. PlayerInv
  BY <1>1 DEF PlayerInv, PlayerKnown, NotReaped
<1> QED
  BY <1>1, <1>4, <1>5, InitType DEF IInv, NoMisuse, KillIsCaught

\* What the player is does not depend on who connects when.
LEMMA NextPlayer ==
  ASSUME TypeOK, PlayerInv, [Next]_vars
  PROVE  PlayerInv'
<1>p. UNCHANGED procVars /\ rx' = rx => PlayerInv'
  BY PlayerFrame
<1>1. CASE UNCHANGED vars \/ HbStep \/ handle_accept \/ Answer \/ Request \/ Breaks
  BY <1>1, <1>p DEF vars, HbStep, HbTick, HbProbed, HbLogoff, HbCalls, HbUnlock, handle_accept,
     Answer, Request, Breaks, Comes
<1>2. CASE RxLock \/ RxDelete \/ RxConnect \/ RxConnected \/ RxFails \/ RxSends \/ RxUnlock
           \/ RxRun \/ RxLost
  <2>1. /\ UNCHANGED procVars
        /\ rx.pc \notin {"vlc kill", "vlc killed", "vlc started"}
        /\ rx' = rx \/ rx'.pc \notin {"vlc kill", "vlc killed", "vlc started"}
    BY <1>2 DEF RxLock, RxDelete, RxConnect, RxConnected, RxFails, RxSends, RxUnlock, RxRun, RxLost,
         Receiving, RxAt, RxGoto, TypeOK, ThreadsOK
  <2> QED
    BY <2>1, PlayerFrame
<1>3. ASSUME NEW s \in Sessions,
             SessionStep(s) \/ handle_write(s) \/ handle_readError(s) \/ Says(s)
      PROVE  PlayerInv'
  BY <1>3, <1>p DEF SessionStep, SessionStart, handle_read, SessionCalls, SessionUnlock,
     handle_write, handle_readError, Says
<1> QED
  BY <1>1, <1>2, <1>3, MessagePlayer, VlcPlayer, ChildPlayer DEF Next, RxStep

\* Every step keeps the link in order, if no vclient comes too early.
LEMMA NextLink ==
  ASSUME ~ EarlyClient, TypeOK, LinkInv, PlayerInv, NoMisuse, [Next]_vars
  PROVE  LinkInv' /\ NoMisuse'
<1>t. TypeOK' /\ sess \in Seq(Session)
  BY NextType DEF TypeOK, TcpOK
<1>1. CASE UNCHANGED vars
  <2>1. LinkInv'
    BY <1>1, <1>t, OthersLink DEF vars
  <2> QED
    BY <1>1, <2>1 DEF vars, NoMisuse
<1>2. CASE HbStep
  BY <1>2, HbLink
<1>3. CASE RxLock \/ RxDelete \/ RxConnect \/ RxConnected \/ RxFails \/ RxSends \/ RxUnlock
           \/ RxRun \/ RxLost
  BY <1>3, RxLink
<1>4. CASE RxMessage
  <2>1. UNCHANGED <<ws_client, lock, hb, crashed>> /\ (Tell \/ UNCHANGED sess)
    BY <1>4 DEF RxMessage
  <2>2. Len(sess') = Len(sess) /\ \A t \in Sessions : sess'[t].pc = sess[t].pc
    BY <2>1, TellType, WebsocketAssumption DEF TypeOK
  <2>3. LinkInv'
    BY <1>4, <1>t, <2>1, <2>2, MessagePlayer, OthersLink
  <2> QED
    BY <2>1, <2>3 DEF NoMisuse
<1>5. CASE VlcLook \/ VlcKill \/ VlcEnd \/ VlcBad \/ VlcStart \/ VlcStarted
  <2>1. UNCHANGED <<ws_client, lock, hb>> /\ (Tell \/ UNCHANGED sess)
    BY <1>5 DEF VlcLook, VlcKill, VlcEnd, VlcBad, VlcStart, VlcStarted
  <2>2. Len(sess') = Len(sess) /\ \A t \in Sessions : sess'[t].pc = sess[t].pc
    BY <2>1, TellType, WebsocketAssumption DEF TypeOK
  <2>3. /\ rx.pc \in {"vlc", "vlc kill", "vlc killed", "vlc started"}
        /\ rx'.pc \in {"receive", "vlc kill", "vlc killed", "vlc started"}
    <3>1. rx \in [pc : RxPlaces, req : {"none", "start", "end"}, pid : 0 .. MaxPid]
          /\ RxIdle.pc = "receive"
      BY DEF TypeOK, ThreadsOK, RxIdle
    <3>2. CASE VlcLook \/ VlcKill
      BY <3>1, <3>2 DEF VlcLook, VlcKill, RxAt, RxGoto
    <3>3. CASE VlcEnd \/ VlcBad \/ VlcStarted
      BY <3>1, <3>3 DEF VlcEnd, VlcBad, VlcStarted, RxAt
    <3>4. CASE VlcStart
      BY <3>1, <3>4 DEF VlcStart, RxAt
    <3> QED
      BY <1>5, <3>2, <3>3, <3>4
  <2>4. LinkInv'
    BY <1>t, <2>1, <2>2, <2>3, OthersLink
  <2> QED
    BY <1>5, <2>4, VlcPlayer DEF NoMisuse
<1>6. CASE handle_accept
  BY <1>6, AcceptLink
<1>7. CASE sigchld_handler \/ \E p \in Pids : Dies(p)
  <2>1. UNCHANGED <<ws_client, lock, hb, rx, sess, crashed>>
    BY <1>7 DEF sigchld_handler, Dies
  <2>2. LinkInv'
    BY <1>t, <2>1, OthersLink
  <2> QED
    BY <2>1, <2>2 DEF NoMisuse
<1>8. CASE Answer \/ Request \/ Breaks
  <2>1. UNCHANGED <<ws_client, lock, hb, rx, sess, crashed, procVars>>
    BY <1>8 DEF Answer, Request, Breaks, Comes
  <2>2. LinkInv'
    BY <1>t, <2>1, OthersLink
  <2> QED
    BY <2>1, <2>2 DEF NoMisuse
<1>9. ASSUME NEW s \in Sessions,
             SessionStep(s) \/ handle_write(s) \/ handle_readError(s) \/ Says(s)
      PROVE  LinkInv' /\ NoMisuse'
  BY <1>9, SessionLink
<1> QED
  BY <1>1, <1>2, <1>3, <1>4, <1>5, <1>6, <1>7, <1>8, <1>9 DEF Next, RxStep

\* The client kills itself only when a player was caught.
LEMMA NextKill ==
  ASSUME TypeOK, PlayerInv, KillIsCaught, [Next]_vars
  PROVE  KillIsCaught'
<1>1. CASE UNCHANGED vars
  BY <1>1 DEF vars, KillIsCaught
<1>2. CASE VlcLook \/ VlcKill \/ VlcEnd \/ VlcBad \/ VlcStart \/ VlcStarted
  <2>1. crashed' = crashed \/ (crashed' = "kill" /\ caught' # {})
    BY <1>2, VlcPlayer
  <2>2. caught' = caught
    BY <1>2 DEF VlcLook, VlcKill, VlcEnd, VlcBad, VlcStart, VlcStarted
  <2> QED
    BY <2>1, <2>2 DEF KillIsCaught
<1>3. CASE Next /\ ~ (VlcLook \/ VlcKill \/ VlcEnd \/ VlcBad \/ VlcStart \/ VlcStarted)
  <2>1. crashed = "no"
    BY <1>3 DEF Next
  <2>2. crashed' \in {crashed, "object"}
    <3>1. CASE HbStep
      BY <3>1 DEF HbStep, HbTick, HbProbed, HbLogoff, HbCalls, HbUnlock, Do, Calls, Skips, Unlock
    <3>2. CASE RxLock \/ RxDelete \/ RxConnect \/ RxConnected \/ RxFails \/ RxSends \/ RxUnlock
               \/ RxRun \/ RxLost \/ RxMessage
      BY <3>2 DEF RxLock, RxDelete, RxConnect, RxConnected, RxFails, RxSends, RxUnlock, RxRun,
         RxLost, RxMessage, Do, Calls, Skips, Unlock
    <3>3. ASSUME NEW s \in Sessions,
                 SessionStep(s) \/ handle_write(s) \/ handle_readError(s) \/ Says(s)
          PROVE  crashed' \in {crashed, "object"}
      BY <3>3 DEF SessionStep, SessionStart, handle_read, SessionCalls, SessionUnlock, Do, Calls,
         Skips, Unlock, handle_write, handle_readError, Says
    <3>4. CASE handle_accept \/ sigchld_handler \/ (\E p \in Pids : Dies(p))
               \/ Answer \/ Request \/ Breaks
      BY <3>4 DEF handle_accept, sigchld_handler, Dies, Answer, Request, Breaks, Comes
    <3> QED
      BY <1>3, <3>1, <3>2, <3>3, <3>4 DEF Next, RxStep
  <2> QED
    BY <2>1, <2>2 DEF KillIsCaught
<1> QED
  BY <1>1, <1>2, <1>3

\* A player that runs is the one whose process id is known, whoever connects,
\* whenever a player ends and whenever SIGCHLD is handled; and a kill hits a
\* process of others only by the id of a player that was reaped between its
\* start and the record of its id (clear_process_id, StartBroadcastScreen).
THEOREM BroadcastIsKnownHolds == Spec => []BroadcastIsKnown
<1>1. Init => TypeOK /\ PlayerInv
  BY InitInv DEF IInv
<1>2. TypeOK /\ PlayerInv /\ [Next]_vars => (TypeOK /\ PlayerInv)'
  BY NextType, NextPlayer
<1>3. PlayerInv => BroadcastIsKnown
  BY DEF PlayerInv, PlayerKnown, NotReaped, BroadcastIsKnown, InVlc
<1> QED
  BY <1>1, <1>2, <1>3, PTL DEF Spec

\* If no vclient connects before the first connection is tried, the object is
\* used only while it is there, and a kill hits the client itself only when a
\* player was reaped between the look at its id and the kill (send_to_vaccess,
\* connect_to_vaccess, EndBroadcastScreen).
THEOREM NoCrashHolds ==
  ASSUME ~ EarlyClient
  PROVE  Spec => []NoCrash
<1>1. IInv /\ [Next]_vars => IInv'
  BY NextType, NextPlayer, NextLink, NextKill DEF IInv
<1>2. IInv => NoCrash
  BY DEF IInv, NoCrash, NoMisuse, KillIsCaught
<1> QED
  BY <1>1, <1>2, InitInv, PTL DEF Spec

-----------------------------------------------------------------------------
(* The encoding.  What one side encodes the other decodes to the same text, *)
(* for texts of any length and any bytes.  The proof is by groups: three    *)
(* bytes and the four characters made of them (Chars), where each byte      *)
(* comes back (GroupBack); the number of pads tells how many bytes the last *)
(* has (Pads).                                                              *)

Byte == 1 .. 255
Groups(data) == (Len(data) + Padnum(data)) \div 3

-----------------------------------------------------------------------------
\* The bytes of a text fill all groups but the last, which has one to three.
LEMMA Shape ==
  ASSUME NEW d \in Seq(Byte), d # <<>>
  PROVE  /\ Groups(d) \in Nat \ {0}
         /\ Len(d) \in 3 * Groups(d) - 2 .. 3 * Groups(d)
         /\ Padnum(d) = 3 * Groups(d) - Len(d)
         /\ DOMAIN encode(d) = 1 .. 4 * Groups(d)
<1>1. Len(d) \in Nat \ {0}
  OBVIOUS
<1>2. /\ Groups(d) \in Nat \ {0}
      /\ Len(d) \in 3 * Groups(d) - 2 .. 3 * Groups(d)
      /\ Padnum(d) = 3 * Groups(d) - Len(d)
  <2>1. ASSUME NEW n \in Nat \ {0}, NEW p \in Nat, p = IF n % 3 # 0 THEN 3 - (n % 3) ELSE 0
        PROVE  /\ (n + p) \div 3 \in Nat \ {0}
               /\ n \in 3 * ((n + p) \div 3) - 2 .. 3 * ((n + p) \div 3)
               /\ p = 3 * ((n + p) \div 3) - n
    BY <2>1
  <2>2. Padnum(d) \in Nat /\ Padnum(d) = IF Len(d) % 3 # 0 THEN 3 - (Len(d) % 3) ELSE 0
    BY <1>1 DEF Padnum
  <2> QED
    BY <1>1, <2>1, <2>2 DEF Groups
<1>3. DOMAIN encode(d) = 1 .. 4 * Groups(d)
  BY DEF encode, Groups
<1> QED
  BY <1>2, <1>3

\* A byte, or the zero after the last.
LEMMA AtIsByte ==
  ASSUME NEW d \in Seq(Byte), NEW i \in Nat \ {0}
  PROVE  /\ At(d, i) \in 0 .. 255
         /\ i > Len(d) => At(d, i) = 0
<1>1. Len(d) \in Nat
  OBVIOUS
<1>2. i <= Len(d) => d[i] \in Byte
  BY <1>1
<1>3. \A b \in Byte : b \in 0 .. 255
  BY DEF Byte
<1> QED
  BY <1>1, <1>2, <1>3 DEF At

\* The four characters of group q.
LEMMA Chars ==
  ASSUME NEW d \in Seq(Byte), d # <<>>, NEW q \in 0 .. Groups(d) - 1, NEW k \in 0 .. 3
  PROVE  /\ 4 * q + 1 + k \in DOMAIN encode(d)
         /\ encode(d)[4 * q + 1 + k] = Sextet(d, 3 * q, k)
<1>1. Groups(d) \in Nat
  BY Shape
<1>2. 4 * q + 1 + k \in 1 .. 4 * Groups(d)
  BY <1>1
<1>3. ((4 * q + 1 + k) - 1) \div 4 = q /\ ((4 * q + 1 + k) - 1) % 4 = k
  OBVIOUS
<1> QED
  BY <1>2, <1>3, Shape DEF encode, Groups

\* What the shifts of encode and decode do to v.
Shifted(v) ==
  /\ cmove_bits(v, 0, 2) = v \div 4
  /\ cmove_bits(v, 0, 4) = v \div 16
  /\ cmove_bits(v, 0, 6) = v \div 64
  /\ cmove_bits(v, 4, 2) = ((v * 16) % 256) \div 4
  /\ cmove_bits(v, 6, 2) = ((v * 64) % 256) \div 4
  /\ cmove_bits(v, 2, 0) = (v * 4) % 256
  /\ cmove_bits(v, 4, 0) = (v * 16) % 256
  /\ cmove_bits(v, 6, 0) = (v * 64) % 256

\* The shifts of a byte.
LEMMA Shifts ==
  ASSUME NEW v \in 0 .. 255
  PROVE  Shifted(v)
BY DEF cmove_bits, Shifted

\* The characters of the group after m are the bits of its bytes.
Mixed(d, m) ==
  /\ Sextet(d, m, 0) = At(d, m + 1) \div 4
  /\ Sextet(d, m, 1) = (((At(d, m + 1) * 64) % 256) \div 4) + At(d, m + 2) \div 16
  /\ Sextet(d, m, 2) = IF m + 2 > Len(d) THEN Pad
                       ELSE (((At(d, m + 2) * 16) % 256) \div 4) + At(d, m + 3) \div 64
  /\ Sextet(d, m, 3) = IF m + 3 > Len(d) THEN Pad ELSE At(d, m + 3) % 64

\* The characters of the group after m, as the bits of its bytes.
LEMMA SextetIs ==
  ASSUME NEW d \in Seq(Byte), NEW m \in Nat
  PROVE  Mixed(d, m)
<1> DEFINE a == At(d, m + 1)
           b == At(d, m + 2)
           c == At(d, m + 3)
<1>1. a \in 0 .. 255 /\ b \in 0 .. 255 /\ c \in 0 .. 255
  BY AtIsByte
<1>2. /\ Sextet(d, m, 0) = cmove_bits(a, 0, 2)
      /\ Sextet(d, m, 1) = cmove_bits(a, 6, 2) + cmove_bits(b, 0, 4)
      /\ Sextet(d, m, 2) = IF m + 2 > Len(d) THEN Pad
                           ELSE cmove_bits(b, 4, 2) + cmove_bits(c, 0, 6)
      /\ Sextet(d, m, 3) = IF m + 3 > Len(d) THEN Pad ELSE c % 64
  BY DEF Sextet
<1> HIDE DEF a, b, c
<1>3. /\ Sextet(d, m, 0) = a \div 4
      /\ Sextet(d, m, 1) = (((a * 64) % 256) \div 4) + b \div 16
      /\ Sextet(d, m, 2) = IF m + 2 > Len(d) THEN Pad
                           ELSE (((b * 16) % 256) \div 4) + c \div 64
      /\ Sextet(d, m, 3) = IF m + 3 > Len(d) THEN Pad ELSE c % 64
  <2> Shifted(a) /\ Shifted(b) /\ Shifted(c)
    BY <1>1, Shifts, Zenon
  <2>1. cmove_bits(a, 0, 2) = a \div 4 /\ cmove_bits(a, 6, 2) = ((a * 64) % 256) \div 4
    BY Zenon DEF Shifted
  <2>2. cmove_bits(b, 0, 4) = b \div 16 /\ cmove_bits(b, 4, 2) = ((b * 16) % 256) \div 4
    BY Zenon DEF Shifted
  <2>3. cmove_bits(c, 0, 6) = c \div 64
    BY Zenon DEF Shifted
  <2> QED
    BY <1>2, <2>1, <2>2, <2>3, Zenon
<1> QED
  BY <1>3, Zenon DEF Mixed, a, b, c

\* A character is a letter or a pad; a pad stands for a byte that is not there.
LEMMA Letters ==
  ASSUME NEW d \in Seq(Byte), NEW m \in Nat, m + 1 <= Len(d), NEW k \in 0 .. 3
  PROVE  /\ Sextet(d, m, k) \in 0 .. 64
         /\ (Sextet(d, m, k) = Pad) <=> (m + k > Len(d))
<1> DEFINE a == At(d, m + 1)
           b == At(d, m + 2)
           c == At(d, m + 3)
           w == a \div 4
           x == (((a * 64) % 256) \div 4) + b \div 16
           y == (((b * 16) % 256) \div 4) + c \div 64
           z == c % 64
<1>1. a \in 0 .. 255 /\ b \in 0 .. 255 /\ c \in 0 .. 255
  BY AtIsByte
<1>2. /\ Sextet(d, m, 0) = w
      /\ Sextet(d, m, 1) = x
      /\ Sextet(d, m, 2) = IF m + 2 > Len(d) THEN Pad ELSE y
      /\ Sextet(d, m, 3) = IF m + 3 > Len(d) THEN Pad ELSE z
  <2>1. Mixed(d, m)
    BY SextetIs, Zenon
  <2> QED
    BY <2>1, Zenon DEF Mixed
<1> HIDE DEF a, b, c
<1>3. w \in 0 .. 63 /\ x \in 0 .. 63 /\ y \in 0 .. 63 /\ z \in 0 .. 63
  BY <1>1
<1> HIDE DEF w, x, y, z
<1>4. Len(d) \in Nat
  OBVIOUS
<1> DEFINE gone == m + k > Len(d)
<1> SUFFICES /\ Sextet(d, m, k) \in 0 .. 64
             /\ (Sextet(d, m, k) = Pad) <=> gone
  BY Zenon
<1> HIDE DEF gone
<1>5. \A v \in 0 .. 63 : v \in 0 .. 64 /\ v # Pad
  BY DEF Pad
<1>6. Pad \in 0 .. 64
  BY DEF Pad
<1>7. CASE k \in {0, 1}
  <2>1. Sextet(d, m, k) \in 0 .. 63
    BY <1>2, <1>3, <1>7
  <2>2. ~ gone
    BY <1>4, <1>7 DEF gone
  <2> QED
    BY <2>1, <2>2, <1>5, Zenon
<1>8. CASE k = 2
  <2>1. gone => Sextet(d, m, k) = Pad
    BY <1>2, <1>8, Zenon DEF gone
  <2>2. ~ gone => Sextet(d, m, k) = y
    BY <1>2, <1>8, Zenon DEF gone
  <2> QED
    BY <1>3, <1>5, <1>6, <2>1, <2>2, Zenon
<1>9. CASE k = 3
  <2>1. gone => Sextet(d, m, k) = Pad
    BY <1>2, <1>9, Zenon DEF gone
  <2>2. ~ gone => Sextet(d, m, k) = z
    BY <1>2, <1>9, Zenon DEF gone
  <2> QED
    BY <1>3, <1>5, <1>6, <2>1, <2>2, Zenon
<1> QED
  BY <1>7, <1>8, <1>9

\* Each byte of group q comes back.
LEMMA GroupBack ==
  ASSUME NEW d \in Seq(Byte), d # <<>>, NEW q \in 0 .. Groups(d) - 1, NEW k \in 0 .. 2,
         3 * q + 1 + k <= Len(d)
  PROVE  Octet(encode(d), 4 * q, k) = d[3 * q + 1 + k]
<1> DEFINE m == 3 * q
           a == At(d, m + 1)
           b == At(d, m + 2)
           c == At(d, m + 3)
           w == a \div 4
           x == (((a * 64) % 256) \div 4) + b \div 16
           y == (((b * 16) % 256) \div 4) + c \div 64
           z == c % 64
<1>1. a \in 0 .. 255 /\ b \in 0 .. 255 /\ c \in 0 .. 255
  BY AtIsByte
<1>2. Len(d) \in Nat /\ q \in Nat /\ m \in Nat /\ m + 1 <= Len(d)
  BY Shape
<1>3. /\ encode(d)[4 * q + 1] = Sextet(d, m, 0)
      /\ encode(d)[4 * q + 2] = Sextet(d, m, 1)
      /\ encode(d)[4 * q + 3] = Sextet(d, m, 2)
      /\ encode(d)[4 * q + 4] = Sextet(d, m, 3)
  <2>1. \A j \in 0 .. 3 : encode(d)[4 * q + 1 + j] = Sextet(d, m, j)
    BY Chars
  <2>2. 4 * q + 1 + 0 = 4 * q + 1 /\ 4 * q + 1 + 1 = 4 * q + 2
        /\ 4 * q + 1 + 2 = 4 * q + 3 /\ 4 * q + 1 + 3 = 4 * q + 4
    OBVIOUS
  <2> QED
    BY <2>1, <2>2
<1>4. /\ Sextet(d, m, 0) = w
      /\ Sextet(d, m, 1) = x
      /\ m + 2 <= Len(d) => Sextet(d, m, 2) = y
      /\ m + 3 <= Len(d) => Sextet(d, m, 3) = z
  <2>1. (m + 2 <= Len(d) => ~ m + 2 > Len(d)) /\ (m + 3 <= Len(d) => ~ m + 3 > Len(d))
    BY <1>2
  <2> HIDE DEF m
  <2>2. Mixed(d, m)
    BY <1>2, SextetIs, Zenon
  <2>3. /\ Sextet(d, m, 0) = w
        /\ Sextet(d, m, 1) = x
        /\ Sextet(d, m, 2) = IF m + 2 > Len(d) THEN Pad ELSE y
        /\ Sextet(d, m, 3) = IF m + 3 > Len(d) THEN Pad ELSE z
    BY <2>2, Zenon DEF Mixed
  <2> QED
    BY <2>1, <2>3
<1>5. d[3 * q + 1 + k] = CASE k = 0 -> a [] k = 1 -> b [] k = 2 -> c
  <2>1. /\ k = 0 => d[3 * q + 1 + k] = a
        /\ k = 1 => d[3 * q + 1 + k] = b
        /\ k = 2 => d[3 * q + 1 + k] = c
    BY <1>2 DEF At
  <2> QED
    BY <2>1
<1> HIDE DEF a, b, c
<1>6. /\ w \in 0 .. 63 /\ x \in 0 .. 63 /\ y \in 0 .. 63 /\ z \in 0 .. 63
      /\ (((w * 4) % 256) + x \div 16) % 256 = a
      /\ (((x * 16) % 256) + y \div 4) % 256 = b
      /\ (((y * 64) % 256) + z) % 256 = c
  <2>1. w \in 0 .. 63 /\ x \in 0 .. 63 /\ y \in 0 .. 63 /\ z \in 0 .. 63
    BY <1>1
  <2>2. (((w * 4) % 256) + x \div 16) % 256 = a
    BY <1>1
  <2>3. (((x * 16) % 256) + y \div 4) % 256 = b
    BY <1>1
  <2>4. (((y * 64) % 256) + z) % 256 = c
    BY <1>1
  <2> QED
    BY <2>1, <2>2, <2>3, <2>4
<1> HIDE DEF w, x, y, z
<1>7. /\ Suffix(w) = w /\ Suffix(x) = x /\ Suffix(y) = y /\ Suffix(z) = z
  BY <1>6 DEF Suffix, Pad
<1>8. /\ cmove_bits(w, 2, 0) = (w * 4) % 256
      /\ cmove_bits(x, 0, 4) = x \div 16
      /\ cmove_bits(x, 4, 0) = (x * 16) % 256
      /\ cmove_bits(y, 0, 2) = y \div 4
      /\ cmove_bits(y, 6, 0) = (y * 64) % 256
  BY <1>6 DEF cmove_bits
<1>9. CASE k = 0
  <2>1. Octet(encode(d), 4 * q, 0) = (cmove_bits(w, 2, 0) + cmove_bits(x, 0, 4)) % 256
    BY <1>3, <1>4, <1>7 DEF Octet
  <2> QED
    BY <2>1, <1>5, <1>6, <1>8, <1>9
<1>10. CASE k = 1
  <2>1. m + 2 <= Len(d)
    BY <1>2, <1>10
  <2>2. Octet(encode(d), 4 * q, 1) = (cmove_bits(x, 4, 0) + cmove_bits(y, 0, 2)) % 256
    BY <1>3, <1>4, <1>7, <2>1 DEF Octet
  <2> QED
    BY <2>2, <1>5, <1>6, <1>8, <1>10
<1>11. CASE k = 2
  <2>1. m + 3 <= Len(d) /\ m + 2 <= Len(d)
    BY <1>2, <1>11
  <2>2. Octet(encode(d), 4 * q, 2) = (cmove_bits(y, 6, 0) + z) % 256
    BY <1>3, <1>4, <1>7, <2>1 DEF Octet
  <2> QED
    BY <2>2, <1>5, <1>6, <1>8, <1>11
<1> QED
  BY <1>9, <1>10, <1>11

-----------------------------------------------------------------------------
\* What is encoded is a code: it is not empty, its characters are known and
\* come in groups.
LEMMA IsCode ==
  ASSUME NEW d \in Seq(Byte), d # <<>>
  PROVE  Valid(encode(d)) /\ Len(encode(d)) = 4 * Groups(d)
<1>1. Groups(d) \in Nat \ {0} /\ Len(d) \in Nat /\ Len(d) >= 3 * Groups(d) - 2
  BY Shape
<1>2. Len(encode(d)) = 4 * Groups(d) /\ DOMAIN encode(d) = 1 .. 4 * Groups(d)
  BY <1>1, Shape DEF encode
<1>3. ASSUME NEW i \in 1 .. 4 * Groups(d)
      PROVE  encode(d)[i] \in 0 .. 64
  <2> DEFINE q == (i - 1) \div 4
             k == (i - 1) % 4
  <2>1. q \in 0 .. Groups(d) - 1 /\ k \in 0 .. 3 /\ i = 4 * q + 1 + k
    <3>1. ASSUME NEW g \in Nat, i <= 4 * g
          PROVE  q \in 0 .. g - 1
      BY <3>1
    <3> QED
      BY <1>1, <3>1
  <2>2. 3 * q \in Nat /\ 3 * q + 1 <= Len(d)
    BY <1>1, <2>1
  <2> HIDE DEF q, k
  <2>3. encode(d)[i] = Sextet(d, 3 * q, k)
    BY <2>1, Chars
  <2> QED
    BY <2>1, <2>2, <2>3, Letters
<1>4. encode(d) # <<>> /\ Len(encode(d)) % 4 = 0
  BY <1>1, <1>2
<1>5. \A i \in DOMAIN encode(d) : encode(d)[i] # Other
  <2>1. \A x \in 0 .. 64 : x # Other
    BY DEF Other
  <2> QED
    BY <1>2, <1>3, <2>1
<1> QED
  BY <1>2, <1>4, <1>5 DEF Valid

\* The pads of the code are those that the text needs.
LEMMA Pads ==
  ASSUME NEW d \in Seq(Byte), d # <<>>
  PROVE  PadsOf(encode(d)) = Padnum(d)
<1> DEFINE q == Groups(d) - 1
<1>1. /\ q \in 0 .. Groups(d) - 1
      /\ Len(d) \in Nat
      /\ Len(d) \in 3 * q + 1 .. 3 * q + 3
      /\ Padnum(d) = 3 * q + 3 - Len(d)
      /\ Len(encode(d)) = 4 * q + 4
  BY Shape, IsCode, SMTT(30)
<1> HIDE DEF q
<1>2. \A k \in 0 .. 3 : encode(d)[4 * q + 1 + k] = Sextet(d, 3 * q, k)
  BY <1>1, Chars
<1>3. \A k \in 0 .. 3 : Sextet(d, 3 * q, k) = Pad <=> 3 * q + k > Len(d)
  BY <1>1, Letters
<1>4. /\ encode(d)[Len(encode(d))] = Pad <=> 3 * q + 3 > Len(d)
      /\ encode(d)[Len(encode(d)) - 1] = Pad <=> 3 * q + 2 > Len(d)
  <2>1. Len(encode(d)) = 4 * q + 1 + 3 /\ Len(encode(d)) - 1 = 4 * q + 1 + 2
    BY <1>1
  <2> QED
    BY <1>2, <1>3, <2>1
<1> QED
  BY <1>1, <1>4 DEF PadsOf

\* What decode writes is the text, byte for byte.
LEMMA OctetsBack ==
  ASSUME NEW d \in Seq(Byte), d # <<>>
  PROVE  Octets(encode(d)) = d
<1>1. Groups(d) \in Nat \ {0} /\ Len(d) \in 3 * Groups(d) - 2 .. 3 * Groups(d)
  BY Shape
<1>2. 3 * (Len(encode(d)) \div 4) - PadsOf(encode(d)) = Len(d)
  BY <1>1, IsCode, Pads, Shape
<1>3. ASSUME NEW i \in 1 .. Len(d)
      PROVE  Octet(encode(d), 4 * ((i - 1) \div 3), (i - 1) % 3) = d[i]
  <2> DEFINE q == (i - 1) \div 3
             k == (i - 1) % 3
  <2>1. q \in 0 .. Groups(d) - 1 /\ k \in 0 .. 2 /\ i = 3 * q + 1 + k
    BY <1>1
  <2> HIDE DEF q, k
  <2>2. 3 * q + 1 + k <= Len(d)
    BY <2>1
  <2>3. Octet(encode(d), 4 * q, k) = d[3 * q + 1 + k]
    BY <2>1, <2>2, GroupBack, Zenon
  <2>4. Octet(encode(d), 4 * q, k) = d[i]
    BY <2>1, <2>3
  <2> QED
    BY <2>4 DEF q, k
<1>4. Octets(encode(d)) = [i \in 1 .. Len(d) |-> d[i]]
  BY <1>2, <1>3 DEF Octets
<1> QED
  BY <1>4

\* No byte of a text is zero, so that std::string takes all of it.
LEMMA NotCut ==
  ASSUME NEW d \in Seq(Byte)
  PROVE  Terminated(d) = d
<1>1. \A i \in DOMAIN d : d[i] # 0
  <2> SUFFICES ASSUME NEW i \in DOMAIN d
               PROVE  d[i] # 0
    OBVIOUS
  <2>1. d[i] \in Byte
    OBVIOUS
  <2>2. \A b \in Byte : b # 0
    BY DEF Byte
  <2> QED
    BY <2>1, <2>2
<1> QED
  BY <1>1 DEF Terminated

\* Decoding gives back the bytes that were encoded.
LEMMA DecodeEncode ==
  ASSUME NEW d \in Seq(Byte), d # <<>>
  PROVE  decode(encode(d)) = d
BY IsCode, OctetsBack, NotCut DEF decode

-----------------------------------------------------------------------------
\* A message is a sequence of bytes that are not zero.
THEOREM TextTypeCorrect == Texts => []TextOK
<1>1. NoText => TextOK
  BY DEF NoText, TextOK
<1>2. TextOK /\ [Grow]_text => TextOK'
  <2> SUFFICES ASSUME text \in Seq(Byte), Grow \/ UNCHANGED text
               PROVE  text' \in Seq(Byte)
    BY DEF TextOK, Byte
  <2>1. Values \subseteq Byte
    BY Base64Assumption DEF Byte
  <2> QED
    BY <2>1 DEF Grow
<1> QED
  BY <1>1, <1>2, PTL DEF Texts

\* Whatever is sent through encode comes out of decode unchanged: for texts of
\* every length and all bytes (base64_encode, base64_decode).
THEOREM RoundTripHolds == Texts => []RoundTrip
<1>1. TextOK => RoundTrip
  BY DecodeEncode DEF TextOK, RoundTrip, Byte
<1> QED
  BY <1>1, TextTypeCorrect, PTL
-----------------------------------------------------------------------------
(* The code of RFC 4648.                                                   *)

\* The bits of the byte after 3 * q + r, in a text of groups of 24 bits.
LEMMA BitsOfByte ==
  ASSUME NEW q \in Nat, NEW r \in 0 .. 2, NEW n, n = 24 * q + 8 * r, NEW a,
         a = At(text, 3 * q + r + 1)
  PROVE  /\ Bit(n) = (a \div 128) % 2 /\ Bit(n + 1) = (a \div 64) % 2
         /\ Bit(n + 2) = (a \div 32) % 2 /\ Bit(n + 3) = (a \div 16) % 2
         /\ Bit(n + 4) = (a \div 8) % 2 /\ Bit(n + 5) = (a \div 4) % 2
         /\ Bit(n + 6) = (a \div 2) % 2 /\ Bit(n + 7) = (a \div 1) % 2
<1>1. ASSUME NEW t \in 0 .. 7
      PROVE  Bit(n + t) = (a \div 2 ^ (7 - t)) % 2
  <2>1. (n + t) \div 8 = 3 * q + r /\ (n + t) % 8 = t
    OBVIOUS
  <2>2. (n + t) \div 8 + 1 = 3 * q + r + 1
    BY <2>1
  <2> QED
    BY <2>1, <2>2, Zenon DEF Bit
<1>2. /\ 7 - 0 = 7 /\ 7 - 1 = 6 /\ 7 - 2 = 5 /\ 7 - 3 = 4 /\ 7 - 4 = 3 /\ 7 - 5 = 2
      /\ 7 - 6 = 1 /\ 7 - 7 = 0
  OBVIOUS
<1>3. /\ 2 ^ 7 = 128 /\ 2 ^ 6 = 64 /\ 2 ^ 5 = 32 /\ 2 ^ 4 = 16 /\ 2 ^ 3 = 8 /\ 2 ^ 2 = 4
      /\ 2 ^ 1 = 2 /\ 2 ^ 0 = 1
  OBVIOUS
<1>4. n + 0 = n
  OBVIOUS
<1>5. {0, 1, 2, 3, 4, 5, 6, 7} \subseteq 0 .. 7
  OBVIOUS
<1>6. Bit(n + 0) = (a \div 2 ^ (7 - 0)) % 2 /\ Bit(n + 1) = (a \div 2 ^ (7 - 1)) % 2
      /\ Bit(n + 2) = (a \div 2 ^ (7 - 2)) % 2 /\ Bit(n + 3) = (a \div 2 ^ (7 - 3)) % 2
      /\ Bit(n + 4) = (a \div 2 ^ (7 - 4)) % 2 /\ Bit(n + 5) = (a \div 2 ^ (7 - 5)) % 2
      /\ Bit(n + 6) = (a \div 2 ^ (7 - 6)) % 2 /\ Bit(n + 7) = (a \div 2 ^ (7 - 7)) % 2
  BY <1>1, <1>5, Zenon
<1> QED
  BY <1>2, <1>3, <1>4, <1>6, ZenonT(60)

\* A number is twice its half, and its last bit.
LEMMA Half ==
  ASSUME NEW x \in Nat
  PROVE  x = 2 * (x \div 2) + (x % 2)
  OBVIOUS

\* The bits of a byte that go into one character: each quotient by a power of
\* two is twice the next one and a bit.
LEMMA Halves ==
  ASSUME NEW v \in 0 .. 255
  PROVE  /\ v = 2 * (v \div 2) + ((v \div 1) % 2)
         /\ v \div 2 = 2 * (v \div 4) + ((v \div 2) % 2)
         /\ v \div 4 = 2 * (v \div 8) + ((v \div 4) % 2)
         /\ v \div 8 = 2 * (v \div 16) + ((v \div 8) % 2)
         /\ v \div 16 = 2 * (v \div 32) + ((v \div 16) % 2)
         /\ v \div 32 = 2 * (v \div 64) + ((v \div 32) % 2)
         /\ v \div 64 = 2 * (v \div 128) + ((v \div 64) % 2)
         /\ v \div 128 = (v \div 128) % 2
<1>1. /\ v \div 4 = (v \div 2) \div 2 /\ v \div 8 = (v \div 4) \div 2
      /\ v \div 16 = (v \div 8) \div 2 /\ v \div 32 = (v \div 16) \div 2
      /\ v \div 64 = (v \div 32) \div 2 /\ v \div 128 = (v \div 64) \div 2
  OBVIOUS
<1>2. /\ v \div 2 \in Nat /\ v \div 4 \in Nat /\ v \div 8 \in Nat /\ v \div 16 \in Nat
      /\ v \div 32 \in Nat /\ v \div 64 \in Nat /\ v \div 128 \in 0 .. 1 /\ v \div 1 = v
      /\ v \in Nat
  OBVIOUS
<1>3. \A x \in Nat : x = 2 * (x \div 2) + (x % 2)
  BY Half
<1>4. \A x \in 0 .. 1 : x = x % 2
  <2>1. 0 = 0 % 2 /\ 1 = 1 % 2
    OBVIOUS
  <2>2. \A x \in 0 .. 1 : x = 0 \/ x = 1
    OBVIOUS
  <2> QED
    BY <2>1, <2>2, Zenon
<1>5. v = 2 * (v \div 2) + ((v \div 1) % 2)
  BY <1>2, <1>3, Zenon
<1>6. v \div 2 = 2 * (v \div 4) + ((v \div 2) % 2)
  BY <1>1, <1>2, <1>3, Zenon
<1>7. v \div 4 = 2 * (v \div 8) + ((v \div 4) % 2)
  BY <1>1, <1>2, <1>3, Zenon
<1>8. v \div 8 = 2 * (v \div 16) + ((v \div 8) % 2)
  BY <1>1, <1>2, <1>3, Zenon
<1>9. v \div 16 = 2 * (v \div 32) + ((v \div 16) % 2)
  BY <1>1, <1>2, <1>3, Zenon
<1>10. v \div 32 = 2 * (v \div 64) + ((v \div 32) % 2)
  BY <1>1, <1>2, <1>3, Zenon
<1>11. v \div 64 = 2 * (v \div 128) + ((v \div 64) % 2)
  BY <1>1, <1>2, <1>3, ZenonT(60)
<1>12. v \div 128 = (v \div 128) % 2
  BY <1>2, <1>4, Zenon
<1> QED
  BY <1>5, <1>6, <1>7, <1>8, <1>9, <1>10, <1>11, <1>12

\* What is left of a byte when its higher bits are shifted out.
LEMMA Rests ==
  ASSUME NEW v \in 0 .. 255
  PROVE  /\ ((v * 64) % 256) \div 4 = 16 * v - 64 * (v \div 4)
         /\ ((v * 16) % 256) \div 4 = 4 * v - 64 * (v \div 16)
         /\ v % 64 = v - 64 * (v \div 64)
<1>1. ((v * 64) % 256) \div 4 = 16 * v - 64 * (v \div 4)
  OBVIOUS
<1>2. ((v * 16) % 256) \div 4 = 4 * v - 64 * (v \div 16)
  OBVIOUS
<1>3. v % 64 = v - 64 * (v \div 64)
  OBVIOUS
<1> QED
  BY <1>1, <1>2, <1>3

\* What the characters take of a byte, from its bits.
Parts(v, b0, b1, b2, b3, b4, b5, b6, b7) ==
  /\ v \div 4 = 32 * b0 + 16 * b1 + 8 * b2 + 4 * b3 + 2 * b4 + b5
  /\ ((v * 64) % 256) \div 4 = 32 * b6 + 16 * b7
  /\ v \div 16 = 8 * b0 + 4 * b1 + 2 * b2 + b3
  /\ ((v * 16) % 256) \div 4 = 32 * b4 + 16 * b5 + 8 * b6 + 4 * b7
  /\ v \div 64 = 2 * b0 + b1
  /\ v % 64 = 32 * b2 + 16 * b3 + 8 * b4 + 4 * b5 + 2 * b6 + b7

\* The bits of a byte that a character takes of it.
LEMMA CharBits ==
  ASSUME NEW v \in 0 .. 255
  PROVE  Parts(v, (v \div 128) % 2, (v \div 64) % 2, (v \div 32) % 2, (v \div 16) % 2,
               (v \div 8) % 2, (v \div 4) % 2, (v \div 2) % 2, (v \div 1) % 2)
<1> DEFINE x1 == v \div 2
           x2 == v \div 4
           x3 == v \div 8
           x4 == v \div 16
           x5 == v \div 32
           x6 == v \div 64
           x7 == v \div 128
           b0 == (v \div 128) % 2
           b1 == (v \div 64) % 2
           b2 == (v \div 32) % 2
           b3 == (v \div 16) % 2
           b4 == (v \div 8) % 2
           b5 == (v \div 4) % 2
           b6 == (v \div 2) % 2
           b7 == (v \div 1) % 2
           r64 == ((v * 64) % 256) \div 4
           r16 == ((v * 16) % 256) \div 4
           r == v % 64
<1>1. /\ v \in Nat /\ x1 \in Nat /\ x2 \in Nat /\ x3 \in Nat /\ x4 \in Nat /\ x5 \in Nat
      /\ x6 \in Nat /\ x7 \in Nat /\ b0 \in Nat /\ b1 \in Nat /\ b2 \in Nat /\ b3 \in Nat
      /\ b4 \in Nat /\ b5 \in Nat /\ b6 \in Nat /\ b7 \in Nat
  OBVIOUS
<1>2. /\ v = 2 * x1 + b7 /\ x1 = 2 * x2 + b6 /\ x2 = 2 * x3 + b5 /\ x3 = 2 * x4 + b4
      /\ x4 = 2 * x5 + b3 /\ x5 = 2 * x6 + b2 /\ x6 = 2 * x7 + b1 /\ x7 = b0
  BY Halves, ZenonT(60)
<1>3. r64 = 16 * v - 64 * x2 /\ r16 = 4 * v - 64 * x4 /\ r = v - 64 * x6
  BY Rests, ZenonT(60)
<1> HIDE DEF x1, x2, x3, x4, x5, x6, x7, b0, b1, b2, b3, b4, b5, b6, b7, r64, r16, r
<1>4. /\ x2 = 32 * b0 + 16 * b1 + 8 * b2 + 4 * b3 + 2 * b4 + b5
      /\ r64 = 32 * b6 + 16 * b7
      /\ x4 = 8 * b0 + 4 * b1 + 2 * b2 + b3
      /\ r16 = 32 * b4 + 16 * b5 + 8 * b6 + 4 * b7
      /\ x6 = 2 * b0 + b1
      /\ r = 32 * b2 + 16 * b3 + 8 * b4 + 4 * b5 + 2 * b6 + b7
  BY <1>1, <1>2, <1>3
<1> QED
  BY <1>4, Zenon DEF Parts, x2, x4, x6, b0, b1, b2, b3, b4, b5, b6, b7, r64, r16, r

\* Each character of group q is its six bits, or a pad.
LEMMA SixBits ==
  ASSUME text \in Seq(Byte), NEW q \in Nat, NEW n, n = 24 * q, NEW m, m = 3 * q
  PROVE  /\ Sextet(text, m, 0) = 32 * Bit(n) + 16 * Bit(n + 1) + 8 * Bit(n + 2)
                                    + 4 * Bit(n + 3) + 2 * Bit(n + 4) + Bit(n + 5)
         /\ Sextet(text, m, 1) = 32 * Bit(n + 6) + 16 * Bit(n + 7) + 8 * Bit(n + 8)
                                    + 4 * Bit(n + 9) + 2 * Bit(n + 10) + Bit(n + 11)
         /\ Sextet(text, m, 2) = IF m + 2 > Len(text) THEN Pad
                                  ELSE 32 * Bit(n + 12) + 16 * Bit(n + 13) + 8 * Bit(n + 14)
                                         + 4 * Bit(n + 15) + 2 * Bit(n + 16) + Bit(n + 17)
         /\ Sextet(text, m, 3) = IF m + 3 > Len(text) THEN Pad
                                  ELSE 32 * Bit(n + 18) + 16 * Bit(n + 19) + 8 * Bit(n + 20)
                                         + 4 * Bit(n + 21) + 2 * Bit(n + 22) + Bit(n + 23)
<1> DEFINE a == At(text, m + 1)
           b == At(text, m + 2)
           c == At(text, m + 3)
<1>1. m \in Nat /\ n \in Nat
  OBVIOUS
<1>2. a \in 0 .. 255 /\ b \in 0 .. 255 /\ c \in 0 .. 255
  BY <1>1, AtIsByte
<1>3. /\ Sextet(text, m, 0) = a \div 4
      /\ Sextet(text, m, 1) = (((a * 64) % 256) \div 4) + b \div 16
      /\ Sextet(text, m, 2) = IF m + 2 > Len(text) THEN Pad
                              ELSE (((b * 16) % 256) \div 4) + c \div 64
      /\ Sextet(text, m, 3) = IF m + 3 > Len(text) THEN Pad ELSE c % 64
  <2>1. Mixed(text, m)
    BY <1>1, SextetIs, Zenon
  <2> QED
    BY <2>1, Zenon DEF Mixed
<1>4. /\ Bit(n) = (a \div 128) % 2 /\ Bit(n + 1) = (a \div 64) % 2
      /\ Bit(n + 2) = (a \div 32) % 2 /\ Bit(n + 3) = (a \div 16) % 2
      /\ Bit(n + 4) = (a \div 8) % 2 /\ Bit(n + 5) = (a \div 4) % 2
      /\ Bit(n + 6) = (a \div 2) % 2 /\ Bit(n + 7) = (a \div 1) % 2
  <2>1. n = 24 * q + 8 * 0 /\ 3 * q + 0 + 1 = m + 1 /\ 0 \in 0 .. 2
    BY <1>1
  <2> QED
    BY <2>1, BitsOfByte
<1>5. /\ Bit(n + 8) = (b \div 128) % 2 /\ Bit(n + 9) = (b \div 64) % 2
      /\ Bit(n + 10) = (b \div 32) % 2 /\ Bit(n + 11) = (b \div 16) % 2
      /\ Bit(n + 12) = (b \div 8) % 2 /\ Bit(n + 13) = (b \div 4) % 2
      /\ Bit(n + 14) = (b \div 2) % 2 /\ Bit(n + 15) = (b \div 1) % 2
  <2>1. n + 8 = 24 * q + 8 * 1 /\ 3 * q + 1 + 1 = m + 2 /\ 1 \in 0 .. 2
    BY <1>1
  <2>2. /\ (n + 8) + 1 = n + 9 /\ (n + 8) + 2 = n + 10 /\ (n + 8) + 3 = n + 11
        /\ (n + 8) + 4 = n + 12 /\ (n + 8) + 5 = n + 13 /\ (n + 8) + 6 = n + 14
        /\ (n + 8) + 7 = n + 15
    BY <1>1
  <2> HIDE DEF b
  <2>3. b = At(text, 3 * q + 1 + 1)
    BY <2>1 DEF b
  <2> QED
    BY <2>1, <2>2, <2>3, BitsOfByte
<1>6. /\ Bit(n + 16) = (c \div 128) % 2 /\ Bit(n + 17) = (c \div 64) % 2
      /\ Bit(n + 18) = (c \div 32) % 2 /\ Bit(n + 19) = (c \div 16) % 2
      /\ Bit(n + 20) = (c \div 8) % 2 /\ Bit(n + 21) = (c \div 4) % 2
      /\ Bit(n + 22) = (c \div 2) % 2 /\ Bit(n + 23) = (c \div 1) % 2
  <2>1. n + 16 = 24 * q + 8 * 2 /\ 3 * q + 2 + 1 = m + 3 /\ 2 \in 0 .. 2
    BY <1>1
  <2>2. /\ (n + 16) + 1 = n + 17 /\ (n + 16) + 2 = n + 18 /\ (n + 16) + 3 = n + 19
        /\ (n + 16) + 4 = n + 20 /\ (n + 16) + 5 = n + 21 /\ (n + 16) + 6 = n + 22
        /\ (n + 16) + 7 = n + 23
    BY <1>1
  <2> HIDE DEF c
  <2>3. c = At(text, 3 * q + 2 + 1)
    BY <2>1 DEF c
  <2> QED
    BY <2>1, <2>2, <2>3, BitsOfByte
<1> HIDE DEF a, b, c
<1>7. \A i \in Nat : Bit(i) \in Nat
  <2> SUFFICES ASSUME NEW i \in Nat
               PROVE  Bit(i) \in Nat
    OBVIOUS
  <2>1. i \div 8 + 1 \in Nat \ {0} /\ 7 - (i % 8) \in Nat
    OBVIOUS
  <2>2. At(text, i \div 8 + 1) \in 0 .. 255
    BY <2>1, AtIsByte
  <2>3. 2 ^ (7 - (i % 8)) \in Nat \ {0}
    <3> DEFINE e == 7 - (i % 8)
    <3>1. /\ 2 ^ 7 \in Nat \ {0} /\ 2 ^ 6 \in Nat \ {0} /\ 2 ^ 5 \in Nat \ {0}
          /\ 2 ^ 4 \in Nat \ {0} /\ 2 ^ 3 \in Nat \ {0} /\ 2 ^ 2 \in Nat \ {0}
          /\ 2 ^ 1 \in Nat \ {0} /\ 2 ^ 0 \in Nat \ {0}
      OBVIOUS
    <3>2. e = 0 \/ e = 1 \/ e = 2 \/ e = 3 \/ e = 4 \/ e = 5 \/ e = 6 \/ e = 7
      OBVIOUS
    <3> SUFFICES 2 ^ e \in Nat \ {0}
      BY Zenon
    <3> HIDE DEF e
    <3> QED
      BY <3>1, <3>2, Zenon
  <2>4. \A x \in 0 .. 255, y \in Nat \ {0} : (x \div y) % 2 \in Nat
    OBVIOUS
  <2> QED
    BY <2>2, <2>3, <2>4, Zenon DEF Bit
<1>8. /\ Bit(n + 6) \in Nat /\ Bit(n + 7) \in Nat /\ Bit(n + 8) \in Nat
       /\ Bit(n + 9) \in Nat /\ Bit(n + 10) \in Nat /\ Bit(n + 11) \in Nat
       /\ Bit(n + 12) \in Nat /\ Bit(n + 13) \in Nat /\ Bit(n + 14) \in Nat
       /\ Bit(n + 15) \in Nat /\ Bit(n + 16) \in Nat /\ Bit(n + 17) \in Nat
  <2>1. \A i \in 1 .. 23 : n + i \in Nat
    BY <1>1
  <2> QED
    BY <2>1, <1>7
<1>9. Parts(a, Bit(n), Bit(n + 1), Bit(n + 2), Bit(n + 3),
              Bit(n + 4), Bit(n + 5), Bit(n + 6), Bit(n + 7))
  <2>1. Parts(a, (a \div 128) % 2, (a \div 64) % 2, (a \div 32) % 2, (a \div 16) % 2,
               (a \div 8) % 2, (a \div 4) % 2, (a \div 2) % 2, (a \div 1) % 2)
    BY <1>2, CharBits
  <2> QED
    BY <1>4, <2>1
<1>10. Parts(b, Bit(n + 8), Bit(n + 9), Bit(n + 10), Bit(n + 11),
              Bit(n + 12), Bit(n + 13), Bit(n + 14), Bit(n + 15))
  <2>1. Parts(b, (b \div 128) % 2, (b \div 64) % 2, (b \div 32) % 2, (b \div 16) % 2,
               (b \div 8) % 2, (b \div 4) % 2, (b \div 2) % 2, (b \div 1) % 2)
    BY <1>2, CharBits
  <2> QED
    BY <1>5, <2>1
<1>11. Parts(c, Bit(n + 16), Bit(n + 17), Bit(n + 18), Bit(n + 19),
              Bit(n + 20), Bit(n + 21), Bit(n + 22), Bit(n + 23))
  <2>1. Parts(c, (c \div 128) % 2, (c \div 64) % 2, (c \div 32) % 2, (c \div 16) % 2,
               (c \div 8) % 2, (c \div 4) % 2, (c \div 2) % 2, (c \div 1) % 2)
    BY <1>2, CharBits
  <2> QED
    BY <1>6, <2>1
<1>12. a \div 4 = 32 * Bit(n) + 16 * Bit(n + 1) + 8 * Bit(n + 2) + 4 * Bit(n + 3)
                    + 2 * Bit(n + 4) + Bit(n + 5)
  BY <1>9, Zenon DEF Parts
<1>13. (((a * 64) % 256) \div 4) + b \div 16
        = 32 * Bit(n + 6) + 16 * Bit(n + 7) + 8 * Bit(n + 8) + 4 * Bit(n + 9)
            + 2 * Bit(n + 10) + Bit(n + 11)
  <2> DEFINE x == ((a * 64) % 256) \div 4
             y == b \div 16
  <2>1. x = 32 * Bit(n + 6) + 16 * Bit(n + 7)
    BY <1>9, Zenon DEF Parts
  <2>2. y = 8 * Bit(n + 8) + 4 * Bit(n + 9) + 2 * Bit(n + 10) + Bit(n + 11)
    BY <1>10, Zenon DEF Parts
  <2> DEFINE p1 == Bit(n + 6)
             q1 == Bit(n + 7)
             r1 == Bit(n + 8)
             s1 == Bit(n + 9)
             t1 == Bit(n + 10)
             u1 == Bit(n + 11)
  <2>3. /\ p1 \in Nat /\ q1 \in Nat /\ r1 \in Nat /\ s1 \in Nat /\ t1 \in Nat /\ u1 \in Nat
    BY <1>8, Zenon
  <2>4. x = 32 * p1 + 16 * q1 /\ y = 8 * r1 + 4 * s1 + 2 * t1 + u1
    BY <2>1, <2>2, Zenon
  <2> HIDE DEF x, y, p1, q1, r1, s1, t1, u1
  <2>5. x + y = 32 * p1 + 16 * q1 + 8 * r1 + 4 * s1 + 2 * t1 + u1
    BY <2>3, <2>4
  <2> QED
    BY <2>5, Zenon DEF x, y, p1, q1, r1, s1, t1, u1
<1>14. (((b * 16) % 256) \div 4) + c \div 64
        = 32 * Bit(n + 12) + 16 * Bit(n + 13) + 8 * Bit(n + 14) + 4 * Bit(n + 15)
            + 2 * Bit(n + 16) + Bit(n + 17)
  <2> DEFINE x == ((b * 16) % 256) \div 4
             y == c \div 64
  <2>1. x = 32 * Bit(n + 12) + 16 * Bit(n + 13)
                                    + 8 * Bit(n + 14) + 4 * Bit(n + 15)
    BY <1>10, Zenon DEF Parts
  <2>2. y = 2 * Bit(n + 16) + Bit(n + 17)
    BY <1>11, Zenon DEF Parts
  <2> DEFINE p1 == Bit(n + 12)
             q1 == Bit(n + 13)
             r1 == Bit(n + 14)
             s1 == Bit(n + 15)
             t1 == Bit(n + 16)
             u1 == Bit(n + 17)
  <2>3. /\ p1 \in Nat /\ q1 \in Nat /\ r1 \in Nat /\ s1 \in Nat /\ t1 \in Nat /\ u1 \in Nat
    BY <1>8, Zenon
  <2>4. x = 32 * p1 + 16 * q1 + 8 * r1 + 4 * s1 /\ y = 2 * t1 + u1
    BY <2>1, <2>2, Zenon
  <2> HIDE DEF x, y, p1, q1, r1, s1, t1, u1
  <2>5. x + y = 32 * p1 + 16 * q1 + 8 * r1 + 4 * s1 + 2 * t1 + u1
    BY <2>3, <2>4
  <2> QED
    BY <2>5, Zenon DEF x, y, p1, q1, r1, s1, t1, u1
<1>15. c % 64 = 32 * Bit(n + 18) + 16 * Bit(n + 19) + 8 * Bit(n + 20) + 4 * Bit(n + 21)
                  + 2 * Bit(n + 22) + Bit(n + 23)
  BY <1>11, Zenon DEF Parts
<1>16. Sextet(text, m, 2) = IF m + 2 > Len(text) THEN Pad
                            ELSE 32 * Bit(n + 12) + 16 * Bit(n + 13) + 8 * Bit(n + 14)
                                   + 4 * Bit(n + 15) + 2 * Bit(n + 16) + Bit(n + 17)
  BY <1>3, <1>14, Zenon
<1>17. Sextet(text, m, 3) = IF m + 3 > Len(text) THEN Pad
                            ELSE 32 * Bit(n + 18) + 16 * Bit(n + 19) + 8 * Bit(n + 20)
                                   + 4 * Bit(n + 21) + 2 * Bit(n + 22) + Bit(n + 23)
  BY <1>3, <1>15, Zenon
<1> QED
  BY <1>3, <1>12, <1>13, <1>16, <1>17, Zenon

\* The code has the characters of the standard, the pads included.
LEMMA IsStandard ==
  ASSUME text \in Seq(Byte), text # <<>>
  PROVE  encode(text) = Standard
<1> DEFINE filled == (8 * Len(text) + 5) \div 6
           six(j) == IF j > filled THEN Pad
                     ELSE 32 * Bit(6 * j - 6) + 16 * Bit(6 * j - 5) + 8 * Bit(6 * j - 4)
                            + 4 * Bit(6 * j - 3) + 2 * Bit(6 * j - 2) + Bit(6 * j - 1)
           G == Groups(text)
<1>1. G \in Nat \ {0} /\ Len(text) \in 3 * G - 2 .. 3 * G
  BY Shape
<1>2. filled \in 4 * G - 2 .. 4 * G /\ filled - 4 * G = Len(text) - 3 * G
  BY <1>1
<1>3. 4 * ((filled + 3) \div 4) = 4 * G
  BY <1>1, <1>2
<1>4. ASSUME NEW j \in 1 .. 4 * G
      PROVE  Sextet(text, 3 * ((j - 1) \div 4), (j - 1) % 4) = six(j)
  <2> DEFINE q == (j - 1) \div 4
             k == (j - 1) % 4
             m == 3 * q
             n == 24 * q
  <2>1. q \in 0 .. G - 1 /\ k \in 0 .. 3 /\ j = 4 * q + 1 + k
    BY <1>1
  <2>2. m = 3 * q /\ n = 24 * q
    OBVIOUS
  <2> SUFFICES Sextet(text, m, k) = six(j)
    BY Zenon
  <2> HIDE DEF q, k, m, n, filled, G
  <2>3. q \in Nat
    BY <1>1, <2>1
  <2>4. Sextet(text, m, 2) = IF m + 2 > Len(text) THEN Pad
                             ELSE 32 * Bit(n + 12) + 16 * Bit(n + 13) + 8 * Bit(n + 14)
                                    + 4 * Bit(n + 15) + 2 * Bit(n + 16) + Bit(n + 17)
    BY <2>2, <2>3, SixBits, ZenonT(60)
  <2>5. Sextet(text, m, 3) = IF m + 3 > Len(text) THEN Pad
                             ELSE 32 * Bit(n + 18) + 16 * Bit(n + 19) + 8 * Bit(n + 20)
                                    + 4 * Bit(n + 21) + 2 * Bit(n + 22) + Bit(n + 23)
    BY <2>2, <2>3, SixBits, ZenonT(60)
  <2>6. CASE k = 0
    <3>1. /\ 6 * j - 6 = n /\ 6 * j - 5 = n + 1 /\ 6 * j - 4 = n + 2 /\ 6 * j - 3 = n + 3
          /\ 6 * j - 2 = n + 4 /\ 6 * j - 1 = n + 5 /\ ~ j > filled
      BY <1>1, <1>2, <2>1, <2>2, <2>6
    <3> QED
      BY <2>1, <2>2, <2>6, <3>1, SixBits
  <2>7. CASE k = 1
    <3>1. /\ 6 * j - 6 = n + 6 /\ 6 * j - 5 = n + 7 /\ 6 * j - 4 = n + 8 /\ 6 * j - 3 = n + 9
          /\ 6 * j - 2 = n + 10 /\ 6 * j - 1 = n + 11 /\ ~ j > filled
      BY <1>1, <1>2, <2>1, <2>2, <2>7
    <3> QED
      BY <2>1, <2>2, <2>7, <3>1, SixBits
  <2>8. CASE k = 2
    <3>1. /\ 6 * j - 6 = n + 12 /\ 6 * j - 5 = n + 13 /\ 6 * j - 4 = n + 14
          /\ 6 * j - 3 = n + 15 /\ 6 * j - 2 = n + 16 /\ 6 * j - 1 = n + 17
          /\ j > filled <=> m + 2 > Len(text)
      BY <1>1, <1>2, <2>1, <2>2, <2>8
    <3>2. six(j) = IF m + 2 > Len(text) THEN Pad
                   ELSE 32 * Bit(n + 12) + 16 * Bit(n + 13) + 8 * Bit(n + 14)
                          + 4 * Bit(n + 15) + 2 * Bit(n + 16) + Bit(n + 17)
      BY <3>1, Zenon
    <3>3. Sextet(text, m, k) = IF m + 2 > Len(text) THEN Pad
                               ELSE 32 * Bit(n + 12) + 16 * Bit(n + 13) + 8 * Bit(n + 14)
                                      + 4 * Bit(n + 15) + 2 * Bit(n + 16) + Bit(n + 17)
      <4>1. Sextet(text, m, 2) = IF m + 2 > Len(text) THEN Pad
                                  ELSE 32 * Bit(n + 12) + 16 * Bit(n + 13) + 8 * Bit(n + 14)
                                         + 4 * Bit(n + 15) + 2 * Bit(n + 16) + Bit(n + 17)
        BY <2>4, Zenon
      <4> QED
        BY <4>1, <2>8, Zenon
    <3> QED
      BY <3>2, <3>3, Zenon
  <2>9. CASE k = 3
    <3>1. /\ 6 * j - 6 = n + 18 /\ 6 * j - 5 = n + 19 /\ 6 * j - 4 = n + 20
          /\ 6 * j - 3 = n + 21 /\ 6 * j - 2 = n + 22 /\ 6 * j - 1 = n + 23
          /\ j > filled <=> m + 3 > Len(text)
      BY <1>1, <1>2, <2>1, <2>2, <2>9
    <3>2. six(j) = IF m + 3 > Len(text) THEN Pad
                   ELSE 32 * Bit(n + 18) + 16 * Bit(n + 19) + 8 * Bit(n + 20)
                          + 4 * Bit(n + 21) + 2 * Bit(n + 22) + Bit(n + 23)
      BY <3>1, Zenon
    <3>3. Sextet(text, m, k) = IF m + 3 > Len(text) THEN Pad
                               ELSE 32 * Bit(n + 18) + 16 * Bit(n + 19) + 8 * Bit(n + 20)
                                      + 4 * Bit(n + 21) + 2 * Bit(n + 22) + Bit(n + 23)
      <4>1. Sextet(text, m, 3) = IF m + 3 > Len(text) THEN Pad
                                  ELSE 32 * Bit(n + 18) + 16 * Bit(n + 19) + 8 * Bit(n + 20)
                                         + 4 * Bit(n + 21) + 2 * Bit(n + 22) + Bit(n + 23)
        BY <2>5, Zenon
      <4> QED
        BY <4>1, <2>9, Zenon
    <3> QED
      BY <3>2, <3>3, Zenon
  <2> QED
    BY <2>1, <2>6, <2>7, <2>8, <2>9
<1>5. encode(text) = [j \in 1 .. 4 * G |-> Sextet(text, 3 * ((j - 1) \div 4), (j - 1) % 4)]
  BY DEF encode, Groups
<1>6. Standard = [j \in 1 .. 4 * ((filled + 3) \div 4) |-> six(j)]
  BY Zenon DEF Standard
<1> HIDE DEF six, filled, G
<1> QED
  BY <1>3, <1>4, <1>5, <1>6

\* Every other implementation of RFC 4648 reads the same text out of the code
\* of a text, whatever its length and its bytes, none of them zero (encode).
THEOREM EncodesStandardHolds == Texts => []EncodesStandard
<1>1. TextOK => EncodesStandard
  BY IsStandard DEF TextOK, EncodesStandard, Byte
<1> QED
  BY <1>1, TextTypeCorrect, PTL
=============================================================================
