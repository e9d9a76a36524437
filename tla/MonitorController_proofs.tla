---------------------- MODULE MonitorController_proofs ----------------------
(***************************************************************************)
(* Proofs about Monitor-controller, for any number of clients, monitors,   *)
(* viewers and controllers, and signals at any step.                       *)
(*                                                                         *)
(* Inv is inductive.  Most steps leave the tables alone and are not within *)
(* a request that starts a viewer (Elsewhere).  The others change the      *)
(* entry of the request's monitor or one process.  A signal may change the *)
(* entry in the middle of a request; what it can spoil there is a pid that *)
(* was looked at (caught) or a viewer that is being started (torn).        *)
(***************************************************************************)
EXTENDS MonitorController, FiniteSetTheorems, TLAPS

USE DEF histVars

\* The numbers the model is given.
LEMMA Bounds == MonitorNum \in Nat /\ MaxPid \in Nat /\ MaxLevel \in Nat \ {0}
BY MonitorAssumption

\* A request for a viewer has one of the modes.
LEMMA RequestMode ==
  ASSUME NEW r \in Asked \cup {NoRequest}, r.act = "connect"
  PROVE  r.mode \in {"fap", "vnc", "camera"}
BY MonitorAssumption DEF NoRequest

\* A step that leaves the connections alone keeps what is said of them.
LEMMA SameConn ==
  ASSUME ConnType, BatchInv, UNCHANGED <<batch, connVars, dropped, histVars>>
  PROVE  ConnType' /\ BatchInv'
BY DEF ConnType, BatchInv, connVars

\* A step that leaves the tables alone, and does not start a viewer.
LEMMA Elsewhere ==
  ASSUME Inv, ~ down, UNCHANGED <<tableVars, down, histVars>>, main' \in Mains, ConnType', BatchInv',
         ~ At("record"), main'.pc \in {"wait", "loop", "handle", "reply"}
  PROVE  Inv'
<1>1. TableType' /\ TypeOK'
  BY DEF Inv, TypeOK, TableType, tableVars, Procs
<1>2. PidsKnown' /\ ExitEndsViewers'
  BY DEF Inv, PidsKnown, Usable, ExitEndsViewers, tableVars
<1>3. AliveOwned'
  BY DEF Inv, AliveOwned, Alive, Owned, At, tableVars
<1>4. PlaceInv'
  BY DEF PlaceInv, At
<1>. QED  BY <1>1, <1>2, <1>3, <1>4 DEF Inv

\* The empty wall.
LEMMA InitInv == Init => Inv
<1> SUFFICES ASSUME Init PROVE Inv
  OBVIOUS
<1>1. TableType
  <2>1. [status |-> "FREE", mode |-> "fap", pid |-> 0]
          \in [status : {"FREE", "USED"}, mode : {"fap", "vnc", "camera"}, pid : 0 .. MaxPid]
    BY Bounds
  <2>2. [life |-> "unborn", by |-> 0, mon |-> 0, mode |-> "fap", hit |-> FALSE] \in Procs
    BY Bounds DEF Procs
  <2>. QED  BY <2>1, <2>2, Bounds DEF Init, TableType
<1>2. main \in Mains
  BY Bounds DEF Init, Idle, Mains
<1>3. ConnType /\ BatchInv
  BY DEF Init, ConnType, BatchInv
<1>4. down = FALSE
  BY DEF Init
<1>5. PidsKnown /\ AliveOwned /\ PlaceInv /\ ExitEndsViewers
  BY Bounds DEF Init, PidsKnown, AliveOwned, Alive, PlaceInv, ExitEndsViewers, At, Idle
<1>. QED  BY <1>1, <1>2, <1>3, <1>4, <1>5 DEF Inv, TypeOK

-----------------------------------------------------------------------------
(* The clients.                                                            *)

\* A client connects.
LEMMA ConnectInv == ASSUME Inv, ~ down, NEW c \in Clients, Connect(c) PROVE Inv'
<1>1. main.pc \in {"wait", "loop", "reply"} /\ UNCHANGED <<tableVars, main, down, histVars>>
  BY DEF Connect, ClientsStep
<1>2. ConnType' /\ BatchInv'
  <2>1. backlog' \in Seq(Clients) /\ backlog' # <<>>
    BY DEF Inv, TypeOK, ConnType, Connect
  <2>. QED  BY <2>1 DEF Inv, TypeOK, ConnType, BatchInv, Connect
<1>. QED  BY <1>1, <1>2, Elsewhere DEF Inv, TypeOK, At

\* A client sends a request.
LEMMA SendInv ==
  ASSUME Inv, ~ down, NEW c \in Clients, NEW r \in Asked, Send(c, r)
  PROVE  Inv'
<1>1. main.pc \in {"wait", "loop", "reply"} /\ UNCHANGED <<tableVars, main, down, histVars>>
  BY DEF Send, ClientsStep
<1>2. ConnType' /\ BatchInv'
  BY DEF Inv, TypeOK, ConnType, BatchInv, Send, Notify
<1>. QED  BY <1>1, <1>2, Elsewhere DEF Inv, TypeOK, At

\* A client closes its connection.
LEMMA HangUpInv == ASSUME Inv, ~ down, NEW c \in Clients, HangUp(c) PROVE Inv'
<1>1. main.pc \in {"wait", "loop", "reply"} /\ UNCHANGED <<tableVars, main, down, histVars>>
  BY DEF HangUp, ClientsStep
<1>2. ConnType' /\ BatchInv'
  BY DEF Inv, TypeOK, ConnType, BatchInv, HangUp, Notify
<1>. QED  BY <1>1, <1>2, Elsewhere DEF Inv, TypeOK, At

-----------------------------------------------------------------------------
(* The loop.                                                               *)

\* Whatever the order of a batch, it has every event once.
LEMMA EpollWaitInv == ASSUME Inv, ~ down, EpollWait PROVE Inv'
<1> DEFINE events == {c \in ready : HasEvent(c)}
                       \cup (IF backlog = <<>> THEN {} ELSE {Listener})
<1>1. /\ At("wait") /\ UNCHANGED <<tableVars, backlog, sock, inbox, hung, client, down, dropped, histVars>>
      /\ batch' \in SetToSeqs(events) /\ ready' = {} /\ Goto("loop")
  BY DEF EpollWait
<1>2. events \subseteq Clients \cup {Listener} /\ (Listener \in events => backlog # <<>>)
  BY MonitorAssumption DEF Listener, Inv, TypeOK, ConnType
<1>3. Cardinality(events) \in Nat
  <2>1. IsFiniteSet(Clients \cup {Listener})
    BY MonitorAssumption, FS_Singleton, FS_Union
  <2>2. IsFiniteSet(events)
    BY <1>2, <2>1, FS_Subset
  <2>. QED  BY <2>2, FS_CardinalityType
<1>4. /\ batch' \in [1 .. Cardinality(events) -> events]
      /\ \A i, j \in 1 .. Cardinality(events) : i # j => batch'[i] # batch'[j]
  BY <1>1 DEF SetToSeqs
<1>5. batch' \in Seq(Clients \cup {Listener}) /\ DOMAIN batch' = 1 .. Cardinality(events)
  BY <1>2, <1>3, <1>4
<1>6. main' \in Mains /\ main'.pc = "loop"
  BY <1>1 DEF Inv, TypeOK, Goto, Mains
<1>7. ConnType'
  BY <1>1, <1>5 DEF Inv, TypeOK, ConnType
<1>8. BatchInv'
  BY <1>1, <1>2, <1>4, <1>5 DEF BatchInv
<1>. QED  BY <1>1, <1>6, <1>7, <1>8, Elsewhere DEF At

\* The events of one epoll_wait are handled.
LEMMA BatchDoneInv == ASSUME Inv, ~ down, BatchDone PROVE Inv'
<1>1. At("loop") /\ UNCHANGED <<tableVars, batch, connVars, down, dropped, histVars>> /\ main' = Idle
  BY DEF BatchDone
<1>2. main' \in Mains /\ main'.pc = "wait"
  BY <1>1, Bounds DEF Idle, Mains
<1>. QED  BY <1>1, <1>2, SameConn, Elsewhere DEF Inv, TypeOK, At

\* What a batch is after its first event.
LEMMA TailOfBatch ==
  ASSUME Inv, batch # <<>>
  PROVE  /\ Tail(batch) \in Seq(Clients \cup {Listener})
         /\ Head(batch) \in Clients \cup {Listener}
         /\ \A i \in DOMAIN Tail(batch) :
              Tail(batch)[i] = batch[i + 1] /\ i + 1 \in DOMAIN batch
         /\ \A i, j \in DOMAIN Tail(batch) : Tail(batch)[i] = Tail(batch)[j] => i = j
         /\ \A i \in DOMAIN Tail(batch) : Tail(batch)[i] # Head(batch)
<1>1. batch \in Seq(Clients \cup {Listener})
  BY DEF Inv, TypeOK, ConnType
<1>2. /\ Tail(batch) \in Seq(Clients \cup {Listener})
      /\ Head(batch) \in Clients \cup {Listener} /\ Head(batch) = batch[1] /\ 1 \in DOMAIN batch
      /\ \A i \in DOMAIN Tail(batch) :
           Tail(batch)[i] = batch[i + 1] /\ i + 1 \in DOMAIN batch /\ i \in Nat \ {0}
  BY <1>1
<1>3. \A i, j \in DOMAIN batch : batch[i] = batch[j] => i = j
  BY DEF Inv, BatchInv
<1>4. \A i, j \in DOMAIN Tail(batch) : Tail(batch)[i] = Tail(batch)[j] => i = j
  BY <1>2, <1>3
<1>5. \A i \in DOMAIN Tail(batch) : Tail(batch)[i] # Head(batch)
  BY <1>2, <1>3
<1>. QED  BY <1>2, <1>4, <1>5

\* A connection is accepted.
LEMMA AcceptInv == ASSUME Inv, ~ down, Accept PROVE Inv'
<1> DEFINE c == Head(backlog)
<1>1. /\ At("loop") /\ batch # <<>> /\ Head(batch) = Listener
      /\ UNCHANGED <<tableVars, main, inbox, hung, client, down, dropped, histVars>>
      /\ batch' = Tail(batch) /\ backlog' = Tail(backlog)
      /\ sock' = [sock EXCEPT ![c] = "open"]
      /\ ready' = IF HasEvent(c) THEN ready \cup {c} ELSE ready
  BY DEF Accept
<1>2. backlog # <<>> /\ backlog \in Seq(Clients)
  <2>1. batch[1] = Listener /\ 1 \in DOMAIN batch
    BY <1>1 DEF Inv, TypeOK, ConnType
  <2>. QED  BY <2>1 DEF Inv, TypeOK, ConnType, BatchInv
<1>3. c \in Clients /\ backlog' \in Seq(Clients)
  BY <1>1, <1>2
<1> HIDE DEF c
<1>4. ConnType'
  BY <1>1, <1>3, TailOfBatch DEF Inv, TypeOK, ConnType
<1>5. BatchInv'
  BY <1>1, TailOfBatch DEF BatchInv
<1>. QED  BY <1>1, <1>4, <1>5, Elsewhere DEF Inv, TypeOK, At

\* A request is received.
LEMMA RecvInv == ASSUME Inv, ~ down, Recv PROVE Inv'
<1> DEFINE c == Head(batch)
<1>1. /\ At("loop") /\ batch # <<>> /\ c # Listener
      /\ main' = [pc |-> "handle", c |-> c, req |-> inbox[c], pid |-> 0, cut |-> FALSE]
      /\ inbox' = [inbox EXCEPT ![c] = NoRequest] /\ batch' = Tail(batch)
      /\ UNCHANGED <<tableVars, backlog, ready, sock, hung, client, down, dropped, histVars>>
  BY DEF Recv
<1>2. c \in Clients
  BY <1>1, TailOfBatch
<1> HIDE DEF c
<1>3. main' \in Mains /\ main'.pc = "handle"
  BY <1>1, <1>2, Bounds DEF Inv, TypeOK, ConnType, Mains
<1>4. ConnType'
  BY <1>1, <1>2, TailOfBatch DEF Inv, TypeOK, ConnType
<1>5. BatchInv'
  BY <1>1, TailOfBatch DEF Inv, BatchInv
<1>. QED  BY <1>1, <1>3, <1>4, <1>5, Elsewhere DEF At

\* The end of a connection is received.
LEMMA RecvClosedInv == ASSUME Inv, ~ down, RecvClosed PROVE Inv'
<1> DEFINE c == Head(batch)
<1>1. /\ At("loop") /\ batch # <<>> /\ c # Listener
      /\ sock' = [sock EXCEPT ![c] = "closed"] /\ ready' = ready \ {c} /\ batch' = <<>>
      /\ dropped' = dropped \cup (Range(Tail(batch)) \ {Listener})
      /\ UNCHANGED <<tableVars, main, backlog, inbox, hung, client, down, histVars>>
  BY DEF RecvClosed
<1>2. c \in Clients
  BY <1>1, TailOfBatch
<1>3. Range(Tail(batch)) \subseteq Clients \cup {Listener}
  BY <1>1, TailOfBatch DEF Range
<1> HIDE DEF c
<1>4. ConnType'
  BY <1>1, <1>2, <1>3 DEF Inv, TypeOK, ConnType
<1>5. BatchInv'
  BY <1>1 DEF BatchInv
<1>. QED  BY <1>1, <1>4, <1>5, Elsewhere DEF Inv, TypeOK, At

-----------------------------------------------------------------------------
(* Requests that start no viewer.                                          *)

\* What is not a request is dropped.
LEMMA HandleGarbageInv == ASSUME Inv, ~ down, HandleGarbage PROVE Inv'
<1>1. /\ At("handle") /\ UNCHANGED <<tableVars, batch, connVars, down, dropped, histVars>>
      /\ main' = [Idle EXCEPT !.pc = "loop"]
  BY DEF HandleGarbage
<1>2. main' \in Mains /\ main'.pc = "loop"
  <2>1. main' = [pc |-> "loop", c |-> Listener, req |-> NoRequest, pid |-> 0, cut |-> FALSE]
    BY <1>1 DEF Idle
  <2>. QED  BY <2>1, Bounds DEF Mains
<1>. QED  BY <1>1, <1>2, SameConn, Elsewhere DEF Inv, TypeOK, At

\* A request without a viewer is handled.
LEMMA HandleOtherInv == ASSUME Inv, ~ down, HandleOther PROVE Inv'
<1>1. /\ At("handle") /\ UNCHANGED <<tableVars, batch, connVars, down, dropped, histVars>>
      /\ main' = [main EXCEPT !.pc = "reply"]
  BY DEF HandleOther, Goto
<1>2. main' \in Mains /\ main'.pc = "reply"
  BY <1>1 DEF Inv, TypeOK, Mains
<1>. QED  BY <1>1, <1>2, SameConn, Elsewhere DEF Inv, TypeOK, At

\* The request is answered.
LEMMA ReplyInv == ASSUME Inv, ~ down, Reply PROVE Inv'
<1>1. /\ At("reply") /\ UNCHANGED <<tableVars, batch, backlog, inbox, hung, down, dropped, histVars>>
      /\ main' = [Idle EXCEPT !.pc = "loop"]
      /\ client' = [client EXCEPT ![main.c] = "idle"]
      /\ \/ UNCHANGED <<sock, ready>>
         \/ /\ sock' = [sock EXCEPT ![main.c] = "deaf"]
            /\ ready' = ready \ {main.c}
  BY DEF Reply
<1>2. main' \in Mains /\ main'.pc = "loop"
  <2>1. main' = [pc |-> "loop", c |-> Listener, req |-> NoRequest, pid |-> 0, cut |-> FALSE]
    BY <1>1 DEF Idle
  <2>. QED  BY <2>1, Bounds DEF Mains
<1>3. ConnType'
  BY <1>1 DEF Inv, TypeOK, ConnType
<1>4. BatchInv'
  BY <1>1 DEF Inv, BatchInv
<1>. QED  BY <1>1, <1>2, <1>3, <1>4, Elsewhere DEF At

-----------------------------------------------------------------------------
(* Requests that kill or start a viewer.                                   *)

\* What kill changes: those it hits are told to end, or are not ours.
LEMMA KillEffect ==
  ASSUME Inv, NEW ps, Kill(ps), torn \subseteq torn'
  PROVE  /\ proc' \in [Pids -> Procs]
         /\ \A p \in Pids :
              /\ proc'[p].life = IF p \in ps /\ proc[p].life = "reaped" THEN "foreign" ELSE proc[p].life
              /\ proc'[p].mon = proc[p].mon
              /\ Alive(p)' => Alive(p) /\ p \notin ps
<1>1. proc \in [Pids -> Procs]
  BY DEF Inv, TypeOK, TableType
<1>2. proc' = [p \in Pids |-> IF p \in ps THEN Hit(proc[p]) ELSE proc[p]]
  BY DEF Kill
<1>3. ASSUME NEW r \in Procs
      PROVE  /\ Hit(r) \in Procs
             /\ Hit(r).life = IF r.life = "reaped" THEN "foreign" ELSE r.life
             /\ Hit(r).mon = r.mon /\ Hit(r).hit = TRUE
  BY DEF Procs, Hit
<1>4. \A p \in Pids : proc'[p] = IF p \in ps THEN Hit(proc[p]) ELSE proc[p]
  BY <1>2
<1>5. \A p \in Pids : p \in ps =>
        /\ proc'[p] \in Procs
        /\ proc'[p].life = IF proc[p].life = "reaped" THEN "foreign" ELSE proc[p].life
        /\ proc'[p].mon = proc[p].mon /\ proc'[p].hit = TRUE
  BY <1>1, <1>3, <1>4
<1>6. \A p \in Pids : p \notin ps => proc'[p] = proc[p] /\ proc'[p] \in Procs
  BY <1>1, <1>4
<1>7. proc' \in [Pids -> Procs]
  BY <1>2, <1>5, <1>6
<1>8. ASSUME NEW p \in Pids
      PROVE  /\ proc'[p].life = IF p \in ps /\ proc[p].life = "reaped" THEN "foreign" ELSE proc[p].life
             /\ proc'[p].mon = proc[p].mon
             /\ Alive(p)' => Alive(p) /\ p \notin ps
  <2>1. CASE p \in ps
    BY <2>1, <1>5 DEF Alive
  <2>2. CASE p \notin ps
    BY <2>2, <1>6 DEF Alive
  <2>. QED  BY <2>1, <2>2
<1>. QED  BY <1>7, <1>8

\* An entry names a process, if it names any.
LEMMA EntryPids ==
  ASSUME Inv
  PROVE  \A n \in Monitors : monitor[n].pid > 0 => monitor[n].pid \in Pids
BY Bounds DEF Inv, TypeOK, TableType, Pids

\* A kill that hits only pids that may be used hits no other process, unless
\* it was caught.
LEMMA KillKnown ==
  ASSUME Inv, NEW ps, Kill(ps), torn \subseteq torn', \A p \in Pids : p \in ps => Usable(p),
         UNCHANGED <<monitor, level, sigchld, caught>>
  PROVE  TableType' /\ PidsKnown' /\ \A p \in Pids : Usable(p) => Usable(p)'
<1>1. /\ proc' \in [Pids -> Procs]
      /\ \A p \in Pids :
           /\ proc'[p].life = IF p \in ps /\ proc[p].life = "reaped" THEN "foreign" ELSE proc[p].life
           /\ proc'[p].mon = proc[p].mon
  BY KillEffect
<1>2. TableType'
  BY <1>1 DEF Inv, TypeOK, TableType
<1>3. ASSUME NEW p \in Pids, Usable(p) PROVE Usable(p)'
  BY <1>1, <1>3 DEF Usable
<1>4. \A p \in Pids : proc'[p].life = "foreign" => p \in caught
  BY <1>1 DEF Inv, PidsKnown, Usable
<1>5. \A p \in caught : proc'[p].life \in {"reaped", "foreign"}
  BY <1>1 DEF Inv, PidsKnown, TypeOK, ConnType
<1>6. PidsKnown'
  BY <1>1, <1>3, <1>4, <1>5, EntryPids DEF Inv, PidsKnown
<1>. QED  BY <1>2, <1>3, <1>6

\* A monitor that exists is disconnected: its viewer is looked at.
LEMMA DisconnectInv == ASSUME Inv, ~ down, disconnect_monitor PROVE Inv'
<1>1. /\ At("handle") /\ main' = [main EXCEPT !.pc = IF Exists THEN "look" ELSE "reply"]
      /\ UNCHANGED <<monitor, proc, level, sigchld>>
      /\ UNCHANGED <<batch, connVars, down, dropped, histVars>>
  BY DEF disconnect_monitor, Goto, tableVars
<1>2. /\ main' \in Mains /\ main'.pc \in {"look", "reply"} /\ main'.req = main.req
      /\ main'.pc = "look" => N \in Monitors
  BY <1>1 DEF Inv, TypeOK, Mains, Exists
<1>3. TableType' /\ PidsKnown' /\ ExitEndsViewers'
  BY <1>1 DEF Inv, TypeOK, TableType, PidsKnown, Usable, ExitEndsViewers
<1>4. AliveOwned'
  BY <1>1 DEF Inv, AliveOwned, Alive, Owned, At
<1>5. PlaceInv'
  BY <1>1, <1>2 DEF PlaceInv, N, At
<1>6. ConnType' /\ BatchInv'
  BY <1>1, SameConn DEF Inv, TypeOK
<1>. QED  BY <1>1, <1>2, <1>3, <1>4, <1>5, <1>6 DEF Inv, TypeOK

\* The mode that a request asks for is stored.
LEMMA ConnectToMonitorInv == ASSUME Inv, ~ down, connect_to_monitor PROVE Inv'
<1>1. /\ At("handle") /\ main.req.act = "connect"
      /\ main' = [main EXCEPT !.pc = IF Exists /\ main.req.full THEN "look" ELSE "reply"]
      /\ UNCHANGED <<proc, level, sigchld, batch, connVars, down, dropped, histVars>>
      /\ IF Exists THEN monitor' = [monitor EXCEPT ![N].mode = main.req.mode]
                   ELSE UNCHANGED monitor
  BY DEF connect_to_monitor, Goto
<1>2. /\ main' \in Mains /\ main'.pc \in {"look", "reply"} /\ main'.req = main.req
      /\ main'.pc = "look" => N \in Monitors
  BY <1>1 DEF Inv, TypeOK, Mains, Exists
<1>3. main.req.mode \in {"fap", "vnc", "camera"}
  BY <1>1, RequestMode DEF Inv, TypeOK, Mains
<1>4. /\ TableType'
      /\ \A n \in Monitors : monitor'[n].status = monitor[n].status /\ monitor'[n].pid = monitor[n].pid
  <2>1. CASE Exists
    <3>1. /\ monitor' = [monitor EXCEPT ![N].mode = main.req.mode]
          /\ UNCHANGED <<proc, level, sigchld>>
      BY <1>1, <2>1
    <3>2. TableType'
      BY <1>3, <3>1 DEF Inv, TypeOK, TableType
    <3>3. \A n \in Monitors : monitor'[n].status = monitor[n].status /\ monitor'[n].pid = monitor[n].pid
      BY <3>1 DEF Inv, TypeOK, TableType
    <3>. QED  BY <3>2, <3>3
  <2>2. CASE ~ Exists
    BY <1>1, <2>2 DEF Inv, TypeOK, TableType
  <2>. QED  BY <2>1, <2>2
<1>5. PidsKnown' /\ ExitEndsViewers'
  BY <1>1, <1>4 DEF Inv, PidsKnown, Usable, ExitEndsViewers
<1>6. AliveOwned'
  BY <1>1, <1>4 DEF Inv, AliveOwned, Alive, Owned, At
<1>7. PlaceInv'
  BY <1>1, <1>2 DEF PlaceInv, N, At
<1>8. ConnType' /\ BatchInv'
  BY <1>1, SameConn DEF Inv, TypeOK
<1>. QED  BY <1>1, <1>2, <1>4, <1>5, <1>6, <1>7, <1>8 DEF Inv, TypeOK

\* A viewer that goes on is the one that was looked at.
LEMMA LookInv == ASSUME Inv, ~ down, Look PROVE Inv'
<1>1. /\ At("look") /\ N \in Monitors
      /\ UNCHANGED <<monitor, proc, level, sigchld>>
      /\ UNCHANGED <<batch, connVars, down, dropped, histVars>>
      /\ main' = IF monitor[N].status = "USED" /\ monitor[N].pid > 0
                   THEN [main EXCEPT !.pc = "kill", !.pid = monitor[N].pid]
                   ELSE [main EXCEPT !.pc = AfterKill]
  BY DEF Look, tableVars, Inv, PlaceInv, At
<1>2. TableType' /\ PidsKnown' /\ ExitEndsViewers'
  BY <1>1 DEF Inv, TypeOK, TableType, PidsKnown, Usable, ExitEndsViewers
<1>3. \A p \in Pids : Alive(p) => Owned(p)
  BY <1>1 DEF Inv, AliveOwned, At
<1>4. ConnType' /\ BatchInv'
  BY <1>1, SameConn DEF Inv, TypeOK
<1>5. CASE monitor[N].status = "USED" /\ monitor[N].pid > 0
  <2>1. monitor[N].pid \in Pids /\ Usable(monitor[N].pid) /\ monitor[N].pid \in 0 .. MaxPid
    BY <1>1, <1>5, EntryPids DEF Inv, PidsKnown, TypeOK, TableType
  <2>2. /\ main' \in Mains /\ main'.pc = "kill" /\ main'.req = main.req
        /\ main'.pid = monitor[N].pid
    BY <1>1, <1>5, <2>1 DEF Inv, TypeOK, Mains
  <2>3. AliveOwned'
    BY <1>1, <1>3, <2>2 DEF AliveOwned, Alive, Owned
  <2>4. PlaceInv'
    BY <1>1, <2>1, <2>2 DEF PlaceInv, Usable, N, At
  <2>. QED  BY <1>1, <1>2, <1>4, <2>2, <2>3, <2>4 DEF Inv, TypeOK
<1>6. CASE ~ (monitor[N].status = "USED" /\ monitor[N].pid > 0)
  <2>1. /\ main' \in Mains /\ main'.pc = AfterKill /\ main'.req = main.req
        /\ main'.pc \in {"use", "reply"} /\ (main'.pc = "use" => main.req.act = "connect")
    BY <1>1, <1>6 DEF Inv, TypeOK, Mains, AfterKill
  <2>2. \A p \in Pids : Alive(p) => proc[p].mon # N
    BY <1>3, <1>6, Bounds DEF Owned, Pids
  <2>3. AliveOwned'
    BY <1>1, <1>3 DEF AliveOwned, Alive, Owned
  <2>4. PlaceInv'
    BY <1>1, <2>1, <2>2 DEF PlaceInv, Alive, N, At
  <2>. QED  BY <1>1, <1>2, <1>4, <2>1, <2>3, <2>4 DEF Inv, TypeOK
<1>. QED  BY <1>5, <1>6

\* No viewer that goes on is left on the monitor, whichever pid is killed.
LEMMA KillViewerInv == ASSUME Inv, ~ down, KillViewer PROVE Inv'
<1>1. /\ At("kill") /\ N \in Monitors /\ main.pid \in Pids /\ Usable(main.pid)
      /\ monitor[N].pid \in {0, main.pid}
      /\ main' = [main EXCEPT !.pc = AfterKill]
      /\ UNCHANGED <<monitor, level, sigchld, batch, connVars, down, dropped, histVars>>
  BY DEF KillViewer, Goto, Inv, PlaceInv, At
<1>2. Kill({main.pid})
  BY <1>1 DEF KillViewer
<1>3. /\ main' \in Mains /\ main'.pc = AfterKill /\ main'.req = main.req
      /\ main'.pc \in {"use", "reply"} /\ (main'.pc = "use" => main.req.act = "connect")
  BY <1>1 DEF Inv, TypeOK, Mains, AfterKill
<1>4. /\ TableType' /\ PidsKnown'
      /\ \A p \in Pids : Alive(p)' => Alive(p) /\ p # main.pid /\ proc'[p].mon = proc[p].mon
  BY <1>1, <1>2, KillKnown, KillEffect
<1>5. ASSUME NEW p \in Pids, Alive(p)' PROVE Owned(p)' /\ proc'[p].mon # N
  <2>1. Owned(p)
    BY <1>1, <1>4, <1>5 DEF Inv, AliveOwned, At
  <2>2. proc[p].mon # N
    BY <1>1, <1>4, <1>5, <2>1 DEF Owned, Pids
  <2>. QED  BY <1>1, <1>4, <1>5, <2>1, <2>2 DEF Owned
<1>6. AliveOwned' /\ ExitEndsViewers'
  BY <1>1, <1>5 DEF AliveOwned, ExitEndsViewers
<1>7. PlaceInv'
  BY <1>1, <1>3, <1>5 DEF PlaceInv, N, At
<1>8. ConnType' /\ BatchInv'
  BY <1>1, SameConn DEF Inv, TypeOK
<1>. QED  BY <1>1, <1>3, <1>4, <1>6, <1>7, <1>8 DEF Inv, TypeOK

\* The monitor is marked as used.
LEMMA UseMonitorInv == ASSUME Inv, ~ down, UseMonitor PROVE Inv'
<1>1. /\ At("use") /\ main' = [main EXCEPT !.pc = "vfork"]
      /\ UNCHANGED <<proc, level, sigchld, batch, connVars, down, dropped, histVars>>
      /\ monitor' = [monitor EXCEPT ![N].status = "USED"]
  BY DEF UseMonitor, Goto
<1>2. /\ main' \in Mains /\ main'.pc = "vfork" /\ main'.req = main.req
      /\ main.req.act = "connect" /\ N \in Monitors
  BY <1>1 DEF Inv, TypeOK, Mains, PlaceInv, At
<1>3. /\ TableType' /\ monitor'[N].status = "USED"
      /\ \A n \in Monitors : /\ monitor'[n].pid = monitor[n].pid
                             /\ monitor[n].status = "USED" => monitor'[n].status = "USED"
  BY <1>1, <1>2 DEF Inv, TypeOK, TableType
<1>4. PidsKnown' /\ ExitEndsViewers'
  BY <1>1, <1>3 DEF Inv, PidsKnown, Usable, ExitEndsViewers
<1>5. AliveOwned'
  BY <1>1, <1>3 DEF Inv, AliveOwned, Alive, Owned, At
<1>6. PlaceInv'
  BY <1>1, <1>2, <1>3 DEF Inv, PlaceInv, Alive, N, At
<1>7. ConnType' /\ BatchInv'
  BY <1>1, SameConn DEF Inv, TypeOK
<1>. QED  BY <1>1, <1>2, <1>3, <1>4, <1>5, <1>6, <1>7 DEF Inv, TypeOK

\* No viewer can be started.
LEMMA VforkFailsInv == ASSUME Inv, ~ down, VforkFails PROVE Inv'
<1>1. /\ At("vfork") /\ main' = [main EXCEPT !.pc = "reply"]
      /\ UNCHANGED <<proc, level, sigchld, batch, connVars, down, dropped, histVars>>
      /\ monitor' = [monitor EXCEPT ![N].status = "FREE"]
  BY DEF VforkFails, Goto
<1>2. main' \in Mains /\ main'.pc = "reply" /\ N \in Monitors
  BY <1>1 DEF Inv, TypeOK, Mains, PlaceInv, At
<1>3. /\ TableType'
      /\ \A n \in Monitors : /\ monitor'[n].pid = monitor[n].pid
                             /\ n # N => monitor'[n] = monitor[n]
  BY <1>1, <1>2 DEF Inv, TypeOK, TableType
<1>4. PidsKnown' /\ ExitEndsViewers'
  BY <1>1, <1>3 DEF Inv, PidsKnown, Usable, ExitEndsViewers
<1>5. AliveOwned'
  BY <1>1, <1>3 DEF Inv, AliveOwned, PlaceInv, Alive, Owned, At
<1>6. PlaceInv'
  BY <1>2 DEF PlaceInv, At
<1>7. ConnType' /\ BatchInv'
  BY <1>1, SameConn DEF Inv, TypeOK
<1>. QED  BY <1>1, <1>2, <1>3, <1>4, <1>5, <1>6, <1>7 DEF Inv, TypeOK

\* A process that starts, or a viewer that ends, is not one that was caught.
LEMMA KnownAfterLife ==
  ASSUME Inv, NEW p \in Pids, UNCHANGED caught,
         \A n \in Monitors : monitor'[n].pid = monitor[n].pid,
         \A q \in Pids : q # p => proc'[q] = proc[q],
         proc'[p].life \in {"child", "runs", "zombie", "controller"},
         \/ proc[p].life \in {"unborn", "child"}
         \/ proc[p].life = "runs" /\ proc'[p].life = "zombie" /\ proc'[p].mon = proc[p].mon
  PROVE  PidsKnown' /\ p \notin caught
<1>1. caught \subseteq Pids
  BY DEF Inv, TypeOK, ConnType
<1>2. p \notin caught
  BY DEF Inv, PidsKnown
<1>3. ASSUME NEW n \in Monitors, monitor[n].pid > 0
      PROVE  Usable(monitor[n].pid)' /\ proc'[monitor[n].pid].mon = n
  <2>1. monitor[n].pid \in Pids /\ Usable(monitor[n].pid) /\ proc[monitor[n].pid].mon = n
    BY <1>3, EntryPids DEF Inv, PidsKnown
  <2>2. CASE monitor[n].pid = p
    BY <1>2, <2>1, <2>2 DEF Usable
  <2>3. CASE monitor[n].pid # p
    BY <2>1, <2>3 DEF Usable
  <2>. QED  BY <2>2, <2>3
<1>4. \A q \in Pids : proc'[q].life = "foreign" => q \in caught
  BY DEF Inv, PidsKnown
<1>5. \A q \in caught : proc'[q].life \in {"reaped", "foreign"}
  BY <1>1, <1>2 DEF Inv, PidsKnown
<1>6. \A n \in Monitors : monitor'[n].pid > 0 =>
        /\ proc'[monitor'[n].pid].life \in {"runs", "zombie"} \/ monitor'[n].pid \in caught'
        /\ proc'[monitor'[n].pid].mon = n
  BY <1>3 DEF Usable
<1>. QED  BY <1>2, <1>4, <1>5, <1>6 DEF PidsKnown, Usable

\* A viewer is started: its process id is one that nothing else has.
LEMMA VforkInv == ASSUME Inv, ~ down, Vfork PROVE Inv'
<1>1. PICK p \in Pids :
        /\ At("vfork") /\ proc[p].life = "unborn"
        /\ proc' = [proc EXCEPT ![p] = [life |-> "child", by |-> level, mon |-> N,
                                        mode |-> monitor[N].mode, hit |-> FALSE]]
        /\ main' = [main EXCEPT !.pc = "child", !.pid = p]
        /\ UNCHANGED <<monitor, level, sigchld, batch, connVars, down, dropped, histVars>>
  BY DEF Vfork
<1>2. /\ main.req.act = "connect" /\ N \in Monitors /\ (monitor[N].status = "USED" \/ main.cut)
      /\ \A q \in Pids : Alive(q) => proc[q].mon # N
  BY <1>1 DEF Inv, PlaceInv, At
<1>3. /\ main' \in Mains /\ main'.pc = "child" /\ main'.req = main.req /\ main'.pid = p
      /\ main'.cut = main.cut
  <2>1. main \in Mains /\ p \in 0 .. MaxPid
    BY Bounds DEF Inv, TypeOK, Pids
  <2>. QED  BY <1>1, <2>1 DEF Mains
<1>4. [life |-> "child", by |-> level, mon |-> N, mode |-> monitor[N].mode, hit |-> FALSE] \in Procs
  <2>1. monitor[N].mode \in {"fap", "vnc", "camera"} /\ level \in 1 .. MaxLevel
    BY <1>2 DEF Inv, TypeOK, TableType
  <2>2. N \in 0 .. MonitorNum /\ level \in 0 .. MaxLevel
    BY <1>2, <2>1, Bounds DEF Monitors
  <2>. QED  BY <2>1, <2>2 DEF Procs
<1>5. /\ TableType' /\ proc'[p].life = "child" /\ proc'[p].mon = N
      /\ \A q \in Pids : q # p => proc'[q] = proc[q]
  BY <1>1, <1>4 DEF Inv, TypeOK, TableType
<1>6. ASSUME NEW q \in Pids, Alive(q)' PROVE q # p /\ Alive(q)
  BY <1>1, <1>5, <1>6 DEF Alive
<1>7. PidsKnown'
  BY <1>1, <1>5, KnownAfterLife
<1>8. AliveOwned' /\ ExitEndsViewers'
  BY <1>1, <1>5, <1>6 DEF Inv, AliveOwned, Owned, ExitEndsViewers, At
<1>9. PlaceInv'
  BY <1>1, <1>2, <1>3, <1>5, <1>6 DEF PlaceInv, N, At
<1>10. ConnType' /\ BatchInv'
  BY <1>1, SameConn DEF Inv, TypeOK
<1>. QED  BY <1>1, <1>3, <1>5, <1>7, <1>8, <1>9, <1>10 DEF Inv, TypeOK

\* What a change of one process's life changes.
LEMMA LifeChange ==
  ASSUME Inv, NEW p \in Pids,
         NEW l \in {"unborn", "child", "runs", "zombie", "reaped", "foreign", "controller"},
         proc' = [proc EXCEPT ![p].life = l]
  PROVE  /\ proc' \in [Pids -> Procs]
         /\ proc'[p].life = l /\ proc'[p].mon = proc[p].mon
         /\ \A q \in Pids : q # p => proc'[q] = proc[q]
<1> DEFINE r == [proc[p] EXCEPT !.life = l]
<1>1. proc \in [Pids -> Procs]
  BY DEF Inv, TypeOK, TableType
<1>2. r \in Procs /\ r.life = l /\ r.mon = proc[p].mon
  BY <1>1 DEF Procs
<1>3. proc' = [proc EXCEPT ![p] = r]
  BY <1>1
<1> HIDE DEF r
<1>. QED  BY <1>1, <1>2, <1>3

\* The viewer runs, and its monitor's entry does not name it yet.
LEMMA ChildExecsInv == ASSUME Inv, ~ down, ChildExecs PROVE Inv'
<1>1. /\ At("child") /\ main' = [main EXCEPT !.pc = "record"]
      /\ UNCHANGED <<monitor, level, sigchld, batch, connVars, down, dropped, histVars>>
      /\ proc' = [proc EXCEPT ![main.pid].life = "runs"]
  BY DEF ChildExecs, Goto
<1>2. /\ main.req.act = "connect" /\ N \in Monitors /\ (monitor[N].status = "USED" \/ main.cut)
      /\ main.pid \in Pids /\ proc[main.pid].mon = N
      /\ proc[main.pid].life = "child"
      /\ \A q \in Pids : Alive(q) => proc[q].mon # N
  BY <1>1 DEF Inv, PlaceInv, At
<1>3. /\ main' \in Mains /\ main'.pc = "record" /\ main'.req = main.req /\ main'.pid = main.pid
      /\ main'.cut = main.cut
  BY <1>1 DEF Inv, TypeOK, Mains
<1>4. /\ proc' \in [Pids -> Procs]
      /\ proc'[main.pid].life = "runs" /\ proc'[main.pid].mon = N
      /\ \A q \in Pids : q # main.pid => proc'[q] = proc[q]
  BY <1>1, <1>2, LifeChange
<1>5. TableType'
  BY <1>1, <1>4 DEF Inv, TypeOK, TableType
<1>6. ASSUME NEW q \in Pids, Alive(q)', q # main.pid
      PROVE  Owned(q)' /\ proc'[q].mon # N
  <2>1. Alive(q) /\ proc'[q] = proc[q]
    BY <1>1, <1>4, <1>6 DEF Alive
  <2>. QED  BY <1>1, <1>2, <2>1 DEF Inv, AliveOwned, Owned, At
<1>7. PidsKnown'
  BY <1>1, <1>2, <1>4, KnownAfterLife
<1>8. AliveOwned' /\ ExitEndsViewers'
  BY <1>1, <1>3, <1>6 DEF AliveOwned, ExitEndsViewers, At
<1>9. PlaceInv'
  BY <1>1, <1>2, <1>3, <1>4, <1>6 DEF PlaceInv, Usable, N, At
<1>10. ConnType' /\ BatchInv'
  BY <1>1, SameConn DEF Inv, TypeOK
<1>. QED  BY <1>1, <1>3, <1>5, <1>7, <1>8, <1>9, <1>10 DEF Inv, TypeOK

\* The child is the controller now, with the tables of its parent.
LEMMA ChildReturnsInv == ASSUME Inv, ~ down, ChildReturns PROVE Inv'
<1>1. /\ At("child") /\ level < MaxLevel /\ level' = level + 1
      /\ main' = [main EXCEPT !.pc = "reply"]
      /\ UNCHANGED <<sigchld, batch, connVars, down, dropped, histVars>>
      /\ proc' = [proc EXCEPT ![main.pid].life = "controller"]
      /\ \/ monitor' = [monitor EXCEPT ![N].status = "FREE"]
         \/ monitor' = monitor
  BY DEF ChildReturns, Goto
<1>2. /\ N \in Monitors /\ main.pid \in Pids /\ proc[main.pid].life = "child"
      /\ \A q \in Pids : Alive(q) => proc[q].mon # N
  BY <1>1 DEF Inv, PlaceInv, At
<1>3. main' \in Mains /\ main'.pc = "reply"
  BY <1>1 DEF Inv, TypeOK, Mains
<1>4. /\ proc' \in [Pids -> Procs] /\ proc'[main.pid].life = "controller"
      /\ \A q \in Pids : q # main.pid => proc'[q] = proc[q]
  BY <1>1, <1>2, LifeChange
<1>5. /\ monitor' \in [Monitors -> [status : {"FREE", "USED"},
                                    mode : {"fap", "vnc", "camera"}, pid : 0 .. MaxPid]]
      /\ \A n \in Monitors : /\ monitor'[n].pid = monitor[n].pid
                             /\ n # N => monitor'[n] = monitor[n]
  <2>1. CASE monitor' = [monitor EXCEPT ![N].status = "FREE"]
    BY <1>2, <2>1 DEF Inv, TypeOK, TableType
  <2>2. CASE monitor' = monitor
    BY <2>2 DEF Inv, TypeOK, TableType
  <2>. QED  BY <1>1, <2>1, <2>2
<1>6. TableType'
  <2>1. level' \in 1 .. MaxLevel
    BY <1>1, Bounds DEF Inv, TypeOK, TableType
  <2>. QED  BY <1>1, <1>4, <1>5, <2>1 DEF Inv, TypeOK, TableType
<1>7. ASSUME NEW q \in Pids, Alive(q)' PROVE Owned(q)'
  <2>1. Alive(q) /\ q # main.pid /\ proc'[q] = proc[q]
    BY <1>1, <1>4, <1>7 DEF Alive
  <2>2. Owned(q) /\ proc[q].mon # N
    BY <1>1, <1>2, <2>1 DEF Inv, AliveOwned, At
  <2>. QED  BY <1>5, <2>1, <2>2 DEF Owned
<1>8. PidsKnown'
  BY <1>1, <1>2, <1>4, <1>5, KnownAfterLife
<1>9. AliveOwned' /\ PlaceInv' /\ ExitEndsViewers'
  BY <1>1, <1>3, <1>7 DEF AliveOwned, PlaceInv, ExitEndsViewers, At
<1>10. ConnType' /\ BatchInv'
  BY <1>1, SameConn DEF Inv, TypeOK
<1>. QED  BY <1>1, <1>3, <1>6, <1>8, <1>9, <1>10 DEF Inv, TypeOK

\* The entry names the new viewer: the former one was told to end.
LEMMA RecordInv == ASSUME Inv, ~ down, Record PROVE Inv'
<1>1. /\ At("record") /\ main' = [main EXCEPT !.pc = "reply"]
      /\ UNCHANGED <<proc, level, sigchld, batch, connVars, down, dropped, caught>>
      /\ monitor' = [monitor EXCEPT ![N].pid = main.pid]
      /\ torn' = IF main.cut THEN torn \cup {main.pid} ELSE torn
  BY DEF Record, Goto
<1>2. /\ N \in Monitors /\ (monitor[N].status = "USED" \/ main.cut)
      /\ main.pid \in Pids /\ proc[main.pid].mon = N /\ Usable(main.pid)
      /\ \A q \in Pids : Alive(q) /\ proc[q].mon = N => q = main.pid
  BY <1>1 DEF Inv, PlaceInv, At
<1>3. main' \in Mains /\ main'.pc = "reply"
  BY <1>1 DEF Inv, TypeOK, Mains
<1>4. /\ TableType' /\ monitor'[N].pid = main.pid /\ monitor'[N].status = monitor[N].status
      /\ \A n \in Monitors : n # N => monitor'[n] = monitor[n]
  <2>1. main.pid \in 0 .. MaxPid
    BY <1>2, Bounds DEF Pids
  <2>. QED  BY <1>1, <1>2, <2>1 DEF Inv, TypeOK, TableType
<1>5. PidsKnown'
  BY <1>1, <1>2, <1>4 DEF Inv, PidsKnown, Usable
<1>6. AliveOwned'
  <2> SUFFICES ASSUME NEW q \in Pids, Alive(q)' PROVE Owned(q)'
    BY DEF AliveOwned
  <2>1. Alive(q) /\ (q = main.pid => ~ main.cut)
    BY <1>1 DEF Alive
  <2>2. CASE q = main.pid
    BY <1>1, <1>2, <1>4, <2>1, <2>2 DEF Owned
  <2>3. CASE q # main.pid
    BY <1>1, <1>2, <1>4, <2>1, <2>3 DEF Inv, AliveOwned, Owned
  <2>. QED  BY <2>2, <2>3
<1>7. PlaceInv' /\ ExitEndsViewers'
  BY <1>1, <1>3 DEF PlaceInv, ExitEndsViewers, At
<1>8. ConnType' /\ BatchInv'
  BY <1>1, <1>2 DEF Inv, TypeOK, ConnType, BatchInv, connVars
<1>. QED  BY <1>1, <1>3, <1>4, <1>5, <1>6, <1>7, <1>8 DEF Inv, TypeOK

-----------------------------------------------------------------------------
(* Viewers that end, and the signal handlers.                              *)

\* A viewer ends.
LEMMA DiesInv == ASSUME Inv, ~ down, NEW p \in Pids, Dies(p) PROVE Inv'
<1>1. /\ proc[p].life = "runs" /\ proc' = [proc EXCEPT ![p].life = "zombie"]
      /\ sigchld' = [sigchld EXCEPT ![proc[p].by] = TRUE]
      /\ UNCHANGED <<monitor, level, main, batch, connVars, down, dropped, histVars>>
  BY DEF Dies
<1>2. /\ proc' \in [Pids -> Procs]
      /\ proc'[p].life = "zombie" /\ proc'[p].mon = proc[p].mon
      /\ \A q \in Pids : q # p => proc'[q] = proc[q]
  BY <1>1, LifeChange
<1>3. TableType'
  <2>1. sigchld' \in [1 .. MaxLevel -> BOOLEAN]
    BY <1>1 DEF Inv, TypeOK, TableType
  <2>. QED  BY <1>1, <1>2, <2>1 DEF Inv, TypeOK, TableType
<1>4. \A q \in Pids : Alive(q)' => Alive(q) /\ q # p
  BY <1>1, <1>2 DEF Alive
<1>5. \A q \in Pids : proc'[q].mon = proc[q].mon
  BY <1>2
<1>6. PidsKnown'
  BY <1>1, <1>2, KnownAfterLife
<1>7. AliveOwned' /\ ExitEndsViewers'
  BY <1>1, <1>4, <1>5 DEF Inv, AliveOwned, Owned, ExitEndsViewers, At
<1>8. PlaceInv'
  <2>1. /\ main.pid \in Pids /\ proc[main.pid].life = "child" => proc'[main.pid].life = "child"
        /\ main.pid \in Pids /\ Usable(main.pid) => Usable(main.pid)'
    BY <1>1, <1>2 DEF Usable
  <2>. QED  BY <1>1, <1>4, <1>5, <2>1 DEF Inv, PlaceInv, N, At
<1>9. ConnType' /\ BatchInv'
  BY <1>1, SameConn DEF Inv, TypeOK
<1>. QED  BY <1>1, <1>3, <1>6, <1>7, <1>8, <1>9 DEF Inv, TypeOK

\* An entry names a child of its own monitor, so that at most one entry
\* names the child that was waited for, and it is the one that is freed.
LEMMA FreedEntry ==
  ASSUME Inv, NEW p \in Pids, proc[p].life = "zombie",
         monitor' = [n \in Monitors |-> IF n \in Found(p) THEN free_monitor(n) ELSE monitor[n]]
  PROVE  /\ Found(p) = {n \in Monitors : monitor[n].pid = p}
         /\ monitor' \in [Monitors -> [status : {"FREE", "USED"},
                                       mode : {"fap", "vnc", "camera"}, pid : 0 .. MaxPid]]
         /\ \A n \in Monitors : IF monitor[n].pid = p THEN monitor'[n].pid = 0
                                                      ELSE monitor'[n] = monitor[n]
<1>1. \A n \in Monitors : monitor[n].pid = p => n = proc[p].mon
  BY Bounds DEF Inv, PidsKnown, Pids
<1>2. Found(p) = {n \in Monitors : monitor[n].pid = p}
  <2>1. ASSUME NEW n \in Monitors, monitor[n].pid = p, NEW k \in 1 .. n - 1
        PROVE  monitor[k].pid # p
    <3>1. k \in Monitors /\ k # n
      BY Bounds DEF Monitors
    <3>. QED  BY <1>1, <2>1, <3>1
  <2>. QED  BY <2>1 DEF Found
<1>3. \A n \in Monitors : monitor'[n] = IF monitor[n].pid = p THEN free_monitor(n) ELSE monitor[n]
  BY <1>2
<1>4. ASSUME NEW n \in Monitors
      PROVE  /\ free_monitor(n) \in [status : {"FREE", "USED"},
                                     mode : {"fap", "vnc", "camera"}, pid : 0 .. MaxPid]
             /\ free_monitor(n).pid = 0
  <2> DEFINE Entries == [status : {"FREE", "USED"}, mode : {"fap", "vnc", "camera"},
                         pid : 0 .. MaxPid]
  <2> DEFINE r == [monitor[n] EXCEPT !.status = "FREE"]
  <2>1. r \in Entries
    BY DEF Inv, TypeOK, TableType
  <2>2. free_monitor(n) = [r EXCEPT !.pid = 0]
    BY DEF free_monitor
  <2> HIDE DEF r
  <2>. QED  BY <2>1, <2>2, Bounds
<1>5. monitor' \in [Monitors -> [status : {"FREE", "USED"},
                                 mode : {"fap", "vnc", "camera"}, pid : 0 .. MaxPid]]
  BY <1>4 DEF Inv, TypeOK, TableType
<1>. QED  BY <1>2, <1>3, <1>4, <1>5

\* A child is waited for at any step: the entry that named it is free, and a
\* request that had its pid in hand is remembered.
LEMMA SigchldInv == ASSUME Inv, ~ down, sigchld_handler PROVE Inv'
<1>1. /\ ~ At("child") /\ sigchld' = [sigchld EXCEPT ![level] = FALSE]
      /\ UNCHANGED <<level, batch, connVars, down, dropped, torn>>
  BY DEF sigchld_handler, Interruptible
<1>3. sigchld' \in [1 .. MaxLevel -> BOOLEAN]
  BY <1>1 DEF Inv, TypeOK, TableType
<1>4. CASE UNCHANGED <<monitor, proc, main, caught>>
  <2>1. TableType' /\ PidsKnown'
    BY <1>1, <1>3, <1>4 DEF Inv, TypeOK, TableType, PidsKnown, Usable
  <2>2. AliveOwned' /\ ExitEndsViewers'
    BY <1>1, <1>4 DEF Inv, AliveOwned, Alive, Owned, At, ExitEndsViewers
  <2>3. PlaceInv'
    BY <1>1, <1>4 DEF Inv, PlaceInv, Alive, Usable, N, At
  <2>4. ConnType' /\ BatchInv'
    BY <1>1, <1>4, SameConn DEF Inv, TypeOK
  <2>. QED  BY <1>1, <1>4, <2>1, <2>2, <2>3, <2>4 DEF Inv, TypeOK
<1>5. ASSUME NEW p \in Zombies, proc' = [proc EXCEPT ![p].life = "reaped"],
             monitor' = [n \in Monitors |-> IF n \in Found(p) THEN free_monitor(n) ELSE monitor[n]],
             caught' = IF Raced(p) THEN caught \cup {p} ELSE caught,
             main' = IF main.pc \in {"vfork", "record"} /\ N \in Found(p)
                       THEN [main EXCEPT !.cut = TRUE] ELSE main
      PROVE  Inv'
  <2>1. p \in Pids /\ proc[p].life = "zombie"
    BY DEF Zombies
  <2>2. /\ proc' \in [Pids -> Procs]
        /\ \A q \in Pids : q # p => proc'[q] = proc[q]
        /\ proc'[p].life = "reaped" /\ proc'[p].mon = proc[p].mon
    BY <1>5, <2>1, LifeChange
  <2>3. /\ Found(p) = {n \in Monitors : monitor[n].pid = p}
        /\ monitor' \in [Monitors -> [status : {"FREE", "USED"},
                                      mode : {"fap", "vnc", "camera"}, pid : 0 .. MaxPid]]
        /\ \A n \in Monitors : IF monitor[n].pid = p THEN monitor'[n].pid = 0
                                                     ELSE monitor'[n] = monitor[n]
    BY <1>5, <2>1, FreedEntry
  <2>4. /\ main' \in Mains /\ main'.pc = main.pc /\ main'.req = main.req /\ main'.pid = main.pid
        /\ main.cut => main'.cut
        /\ main.pc \in {"vfork", "record"} /\ N \in Found(p) => main'.cut
    BY <1>5 DEF Inv, TypeOK, Mains
  <2>5. /\ caught \subseteq caught' /\ caught' \subseteq caught \cup {p}
        /\ main.pc \in {"kill", "record"} /\ main.pid = p => p \in caught'
    BY <1>5 DEF Raced
  <2>6. TableType'
    BY <1>1, <1>3, <2>2, <2>3 DEF Inv, TypeOK, TableType
  <2>7. ConnType' /\ BatchInv'
    BY <1>1, <2>1, <2>5 DEF Inv, TypeOK, ConnType, BatchInv, connVars
  <2>8. \A q \in Pids : Usable(q) /\ q # p => Usable(q)'
    BY <2>2, <2>5 DEF Usable
  <2>9. PidsKnown'
    <3>1. ASSUME NEW n \in Monitors, monitor'[n].pid > 0
          PROVE  /\ \/ proc'[monitor'[n].pid].life \in {"runs", "zombie"}
                    \/ monitor'[n].pid \in caught'
                 /\ proc'[monitor'[n].pid].mon = n
      <4>1. monitor[n].pid # p /\ monitor'[n] = monitor[n]
        BY <2>3, <3>1
      <4>2. monitor[n].pid \in Pids /\ Usable(monitor[n].pid) /\ proc[monitor[n].pid].mon = n
        BY <3>1, <4>1, EntryPids DEF Inv, PidsKnown
      <4>3. /\ proc'[monitor[n].pid].life \in {"runs", "zombie"} \/ monitor[n].pid \in caught'
            /\ proc'[monitor[n].pid].mon = n
        BY <2>2, <2>5, <4>1, <4>2 DEF Usable
      <4>. QED  BY <4>1, <4>3
    <3>2. \A q \in Pids : proc'[q].life = "foreign" => q \in caught'
      BY <2>2, <2>5 DEF Inv, PidsKnown
    <3>3. \A q \in caught' : proc'[q].life \in {"reaped", "foreign"}
      BY <2>1, <2>2, <2>5 DEF Inv, PidsKnown, TypeOK, ConnType
    <3>. QED  BY <3>1, <3>2, <3>3 DEF PidsKnown, Usable
  <2>10. \A q \in Pids : Alive(q)' => Alive(q) /\ q # p /\ proc'[q] = proc[q]
    BY <1>1, <2>2 DEF Alive
  <2>11. AliveOwned'
    <3> SUFFICES ASSUME NEW q \in Pids, Alive(q)'
                 PROVE  Owned(q)' \/ (At("record")' /\ q = main'.pid)
      BY DEF AliveOwned
    <3>1. q # p /\ proc'[q] = proc[q] /\ Alive(q)
      BY <2>10
    <3>2. CASE Owned(q)
      BY <2>3, <3>1, <3>2 DEF Owned
    <3>3. CASE At("record") /\ q = main.pid
      BY <2>4, <3>3 DEF At
    <3>. QED  BY <3>1, <3>2, <3>3 DEF Inv, AliveOwned
  <2>12. PlaceInv'
    <3> DEFINE M == main.req.n
    <3>0. N = M /\ N' = M
      BY <2>4 DEF N
    <3>1. main.pc \in {"look", "kill"} => M \in Monitors
      BY <3>0 DEF Inv, PlaceInv
    <3>2. main.pc = "kill" => /\ main.pid \in Pids /\ Usable(main.pid)'
                              /\ monitor'[M].pid \in {0, main.pid}
      <4> SUFFICES ASSUME main.pc = "kill"
                   PROVE  /\ main.pid \in Pids /\ Usable(main.pid)'
                          /\ monitor'[M].pid \in {0, main.pid}
        OBVIOUS
      <4>1. /\ main.pid \in Pids /\ Usable(main.pid) /\ M \in Monitors
            /\ monitor[M].pid \in {0, main.pid}
        BY <3>0 DEF Inv, PlaceInv, At
      <4>2. Usable(main.pid)'
        BY <2>2, <2>4, <2>5, <4>1 DEF Usable
      <4>. QED  BY <2>3, <4>1, <4>2
    <3>3. main.pc \in {"use", "vfork", "child", "record"} =>
            /\ main.req.act = "connect" /\ M \in Monitors
            /\ \A q \in Pids : Alive(q)' /\ proc'[q].mon = M => main.pc = "record" /\ q = main.pid
      BY <2>10, <3>0 DEF Inv, PlaceInv, At
    <3>4. main.pc \in {"vfork", "record"} => monitor'[M].status = "USED" \/ main'.cut
      <4> SUFFICES ASSUME main.pc \in {"vfork", "record"}
                   PROVE  monitor'[M].status = "USED" \/ main'.cut
        OBVIOUS
      <4>1. M \in Monitors /\ (monitor[M].status = "USED" \/ main.cut)
        BY <3>0 DEF Inv, PlaceInv
      <4>. QED  BY <2>3, <2>4, <3>0, <4>1
    <3>5. main.pc = "record" => main.pid \in Pids /\ proc'[main.pid].mon = M /\ Usable(main.pid)'
      <4> SUFFICES ASSUME main.pc = "record"
                   PROVE  main.pid \in Pids /\ proc'[main.pid].mon = M /\ Usable(main.pid)'
        OBVIOUS
      <4>1. main.pid \in Pids /\ proc[main.pid].mon = M /\ Usable(main.pid)
        BY <3>0 DEF Inv, PlaceInv, At
      <4>2. Usable(main.pid)'
        BY <2>2, <2>4, <2>5, <4>1 DEF Usable
      <4>. QED  BY <2>2, <4>1, <4>2
    <3>6. main.pc # "child"
      BY <1>1 DEF At
    <3> HIDE DEF M
    <3>. QED  BY <2>4, <3>0, <3>1, <3>2, <3>3, <3>4, <3>5, <3>6 DEF PlaceInv, At, Usable
  <2>13. ExitEndsViewers'
    BY <1>1 DEF ExitEndsViewers
  <2>. QED  BY <1>1, <2>4, <2>6, <2>7, <2>9, <2>11, <2>12, <2>13 DEF Inv, TypeOK
<1>. QED  BY <1>4, <1>5 DEF sigchld_handler

\* Every viewer is owned, or being started: the shutdown tells each of them
\* to end, but one that is being started.
LEMMA ExitInv ==
  ASSUME Inv, NEW ps, Kill(ps), Exit, ToDestroy \subseteq ps,
         \A p \in Pids : p \in ps => Usable(p)
  PROVE  Inv'
<1>1. /\ down' = TRUE
      /\ main' = Idle /\ batch' = <<>> /\ backlog' = <<>> /\ ready' = {}
      /\ sock' = [c \in Clients |-> "closed"]
      /\ inbox' = [c \in Clients |-> NoRequest]
      /\ client' = [c \in Clients |-> "leaving"]
      /\ torn' = IF At("record") THEN torn \cup {main.pid} ELSE torn
      /\ UNCHANGED <<monitor, level, sigchld, hung, dropped, caught>>
  BY DEF Exit
<1>2. main' \in Mains /\ main'.pc = "wait"
  BY <1>1, Bounds DEF Idle, Mains
<1>3. torn \subseteq torn' /\ torn' \subseteq Pids /\ (At("record") => main.pid \in torn')
  BY <1>1 DEF Inv, PlaceInv, At, TypeOK, ConnType
<1>4. ConnType' /\ BatchInv'
  BY <1>1, <1>3 DEF Inv, TypeOK, ConnType, BatchInv
<1>5. TableType' /\ PidsKnown'
  BY <1>1, <1>3, KillKnown
<1>6. \A p \in Pids : Alive(p)' => Alive(p) /\ p \notin ps
  BY <1>3, KillEffect
<1>7. ASSUME NEW p \in Pids PROVE ~ Alive(p)'
  <2>1. SUFFICES ASSUME Alive(p)' PROVE FALSE
    OBVIOUS
  <2>2. Alive(p) /\ p \notin ps
    BY <1>6, <2>1
  <2>3. ~ (At("record") /\ p = main.pid)
    BY <1>3, <2>1 DEF Alive
  <2>4. Owned(p)
    BY <2>2, <2>3 DEF Inv, AliveOwned
  <2>5. p # 0
    BY DEF Pids
  <2>6. p \in ToDestroy
    BY <2>4, <2>5 DEF Owned, ToDestroy
  <2>. QED  BY <2>2, <2>6
<1>8. AliveOwned' /\ ExitEndsViewers'
  BY <1>7 DEF AliveOwned, ExitEndsViewers, Alive
<1>9. PlaceInv'
  BY <1>2 DEF PlaceInv, At
<1>. QED  BY <1>1, <1>2, <1>4, <1>5, <1>8, <1>9 DEF Inv, TypeOK

\* The entries name pids that may be used.
LEMMA ToDestroyUsable == ASSUME Inv PROVE \A p \in ToDestroy : Usable(p)
<1>1. \A n \in Monitors : monitor[n].pid # 0 => monitor[n].pid > 0
  BY Bounds DEF Inv, TypeOK, TableType
<1>. QED  BY <1>1 DEF ToDestroy, Inv, PidsKnown

\* The controller is told to end, or told itself.
LEMMA SigintInv == ASSUME Inv, ~ down, sigint_handler \/ KillGroup PROVE Inv'
<1>1. CASE sigint_handler
  BY <1>1, ExitInv, ToDestroyUsable DEF sigint_handler
<1>2. CASE KillGroup
  <2> DEFINE ps == Group \cup ToDestroy
  <2>1. Kill(ps) /\ Exit /\ ToDestroy \subseteq ps
    BY <1>2 DEF KillGroup
  <2>2. \A p \in Pids : p \in ps => Usable(p)
    BY ToDestroyUsable DEF Group, Usable
  <2> HIDE DEF ps
  <2>. QED  BY <2>1, <2>2, ExitInv
<1>. QED  BY <1>1, <1>2

-----------------------------------------------------------------------------
\* Nothing happens.
LEMMA StutterInv == Inv /\ UNCHANGED vars => Inv'
<1> SUFFICES ASSUME Inv, UNCHANGED vars PROVE Inv'
  OBVIOUS
<1>1. /\ UNCHANGED <<monitor, proc, level, sigchld, main, down>>
      /\ UNCHANGED <<batch, connVars, dropped, histVars>>
  BY DEF vars, tableVars
<1>2. TypeOK' /\ BatchInv'
  BY <1>1, SameConn DEF Inv, TypeOK, TableType
<1>3. PidsKnown' /\ AliveOwned' /\ ExitEndsViewers'
  BY <1>1 DEF Inv, PidsKnown, Usable, AliveOwned, Alive, Owned, ExitEndsViewers, At
<1>4. PlaceInv'
  BY <1>1 DEF Inv, PlaceInv, Alive, Usable, N, At
<1>. QED  BY <1>2, <1>3, <1>4 DEF Inv

\* Every step keeps the invariant.
LEMMA StepInv == Inv /\ [Next]_vars => Inv'
<1> SUFFICES ASSUME Inv, [Next]_vars PROVE Inv'
  OBVIOUS
<1>1. CASE UNCHANGED vars
  BY <1>1, StutterInv
<1>2. CASE ~ down /\ Loop
  BY <1>2, EpollWaitInv, BatchDoneInv, AcceptInv, RecvInv, RecvClosedInv DEF Loop
<1>3. CASE ~ down /\ Handle
  <2>1. CASE \/ HandleGarbage \/ HandleOther \/ disconnect_monitor \/ connect_to_monitor
             \/ Look \/ KillViewer \/ Reply
    BY <1>3, <2>1, HandleGarbageInv, HandleOtherInv, DisconnectInv, ConnectToMonitorInv,
       LookInv, KillViewerInv, ReplyInv
  <2>2. CASE \/ UseMonitor \/ VforkFails \/ Vfork \/ ChildExecs \/ ChildReturns \/ Record
    BY <1>3, <2>2, UseMonitorInv, VforkFailsInv, VforkInv, ChildExecsInv, ChildReturnsInv,
       RecordInv
  <2>. QED  BY <1>3, <2>1, <2>2 DEF Handle
<1>4. CASE ~ down /\ (sigchld_handler \/ sigint_handler \/ KillGroup)
  BY <1>4, SigchldInv, SigintInv
<1>5. ASSUME ~ down, NEW c \in Clients,
             Connect(c) \/ HangUp(c) \/ \E r \in Asked : Send(c, r)
      PROVE  Inv'
  BY <1>5, ConnectInv, HangUpInv, SendInv
<1>6. ASSUME ~ down, NEW p \in Pids, Dies(p) PROVE Inv'
  BY <1>6, DiesInv
<1>. QED  BY <1>1, <1>2, <1>3, <1>4, <1>5, <1>6 DEF Next

\* The tables of monitors and processes agree with each other and with the
\* place of the loop, whenever signals come (vaccess_api.c, monitor.c,
\* controller.c).
THEOREM Invariance == Spec => []Inv
<1>1. Init => Inv
  BY InitInv
<1>2. Inv /\ [Next]_vars => Inv'
  BY StepInv
<1>. QED  BY <1>1, <1>2, PTL DEF Spec

\* While the loop waits, every viewer that was not told to end is the one
\* its monitor's entry names: none is started over another, and none is lost
\* but one during whose start the end of the former viewer was handled.
THEOREM ViewerOwnedHolds == Spec => []ViewerOwned
<1>1. Inv => ViewerOwned
  BY DEF Inv, AliveOwned, Alive, Owned, ViewerOwned, At
<1>2. Spec => []Inv
  BY Invariance
<1>. QED  BY <1>1, <1>2, PTL

\* The pid that a request or the shutdown kills is that of a child which was
\* not waited for yet, or one that was waited for between the look and the
\* kill or before its pid was recorded: no other process is hit
\* (vaccess_api.c, monitor.c).
THEOREM PidIsOursHolds == Spec => []PidIsOurs
<1>1. Inv => PidIsOurs
  BY DEF Inv, PidsKnown, Usable, PidIsOurs
<1>2. Spec => []Inv
  BY Invariance
<1>. QED  BY <1>1, <1>2, PTL

\* After the shutdown every viewer that still runs was told to end, but one
\* whose start a signal interrupted (controller.c, monitor_destroy).
THEOREM ExitEndsViewersHolds == Spec => []ExitEndsViewers
<1>1. Inv => ExitEndsViewers
  BY DEF Inv
<1>2. Spec => []Inv
  BY Invariance
<1>. QED  BY <1>1, <1>2, PTL
=============================================================================
