-------------------------- MODULE MonitorController --------------------------
(***************************************************************************)
(* Monitor-controller: one process that starts a viewer on each monitor of *)
(* a wall when a client asks for it.  Its loop (ev_epoll.c) serves clients *)
(* with edge-triggered epoll, the requests (vaccess_api.c) start and stop  *)
(* viewers (monitor.c) with vfork and kill, and signal handlers            *)
(* (controller.c) free the monitor of a viewer that ended and shut down.   *)
(*                                                                         *)
(* A step of the loop is the code between two points where a signal or the *)
(* memory shared with a vforked child can make a difference.  The kernel's *)
(* epoll, the clients (as in test/controller-test.c: a request is sent     *)
(* when the last one is answered) and the viewers are external.            *)
(*                                                                         *)
(* A vforked child whose exec fails, or that has nothing to execute        *)
(* (CONNECT_BY_CAMERA), returns from use_monitor in the memory of its      *)
(* parent, which stays suspended: the child goes on as the controller.     *)
(* "level" counts these controllers; one that is not the last handles no   *)
(* signal.  Signals come at any step of a request, the start of a viewer   *)
(* included; "caught" and "torn" remember where they did harm.             *)
(*                                                                         *)
(* Left out: geometry, addresses and ports, the text of messages (cJSON),  *)
(* failures of accept and epoll_ctl, messages cut or joined by TCP.        *)
(***************************************************************************)
EXTENDS Integers, Sequences, FiniteSets, SequencesExt

CONSTANTS
  Clients,    \* the clients, each with one connection
  MonitorNum, \* controller->monitor_num
  Asked,      \* the requests that clients make
  MaxPid,     \* bound: vforks that succeed
  MaxLevel,   \* bound: controllers
  MaxHangUps  \* bound: clients that hang up

\* "other" is every request answered without a change: Ready,
\* GetMonitorsInfo and actions that are not supported.  "garbage" is no JSON
\* or has no Action.  A ConnectToMonitor that is not full has no TargetIp.
\* The monitor MonitorNum + 1 does not exist.
ASSUME MonitorAssumption ==
  /\ IsFiniteSet(Clients) /\ "listener" \notin Clients
  /\ MonitorNum \in Nat /\ MaxPid \in Nat /\ MaxLevel \in Nat \ {0}
  /\ MaxHangUps \in Nat
  /\ Asked \subseteq
       [act : {"connect"}, n : 1 .. MonitorNum + 1, mode : {"fap", "vnc", "camera"},
        full : BOOLEAN]
       \cup [act : {"disconnect"}, n : 1 .. MonitorNum + 1]
       \cup [act : {"other", "garbage"}]

VARIABLES
  monitor,  \* the table of monitors
  proc,     \* every process ever vforked
  level,    \* the controllers; the last of them runs
  sigchld,  \* SIGCHLD is pending, for each controller
  main,     \* place of the loop, the client and request it works on
  batch,    \* what epoll_wait reported and the loop has not come to
  backlog,  \* connections to accept
  ready,    \* connections with a new event: epoll's ready list
  sock,     \* the controller's end of each connection
  inbox,    \* the request that waits in the socket
  hung,     \* clients that closed their end
  client,   \* what each client waits for
  down,     \* sigint_handler has run
  dropped,  \* history: clients whose event was reported and not looked at
  caught,   \* history: viewers that were waited for between the look at their
            \* pid and its use, or between their start and its record
  torn      \* history: viewers during whose start a signal changed the entry,
            \* or ended the controller

tableVars == <<monitor, proc, level, sigchld>>
histVars == <<caught, torn>>
connVars == <<backlog, ready, sock, inbox, hung, client>>
vars == <<tableVars, main, batch, connVars, down, dropped, histVars>>

Monitors == 1 .. MonitorNum
Pids == 1 .. MaxPid
Listener == "listener"

NoRequest == [act |-> "nothing"]

At(pc) == main.pc = pc
Idle == [pc |-> "wait", c |-> Listener, req |-> NoRequest, pid |-> 0, cut |-> FALSE]
Goto(pc) == main' = [main EXCEPT !.pc = pc]
IsCamera(r) == r.act = "connect" /\ r.mode = "camera"

NoCamera == \A c \in Clients : ~ IsCamera(inbox[c])

Init ==
  /\ monitor = [n \in Monitors |-> [status |-> "FREE", mode |-> "fap", pid |-> 0]]
  /\ proc = [p \in Pids |-> [life |-> "unborn", by |-> 0, mon |-> 0,
                             mode |-> "fap", hit |-> FALSE]]
  /\ level = 1
  /\ sigchld = [l \in 1 .. MaxLevel |-> FALSE]
  /\ main = Idle
  /\ batch = <<>> /\ backlog = <<>> /\ ready = {}
  /\ sock = [c \in Clients |-> "none"]
  /\ inbox = [c \in Clients |-> NoRequest]
  /\ hung = {} /\ dropped = {} /\ caught = {} /\ torn = {}
  /\ client = [c \in Clients |-> "idle"]
  /\ down = FALSE

-----------------------------------------------------------------------------
(* The clients (external).  A handler does not look at the connections     *)
(* until it replies: what a client does meanwhile is done before or after. *)

ClientsStep == main.pc \in {"wait", "loop", "reply"}

Connect(c) ==
  /\ ClientsStep
  /\ sock[c] = "none"
  /\ sock' = [sock EXCEPT ![c] = "backlog"]
  /\ backlog' = Append(backlog, c)
  /\ UNCHANGED <<tableVars, main, batch, ready, inbox, hung, client, down, dropped, histVars>>

\* A new event of a connection that epoll watches.
Notify(c) == ready' = IF sock[c] = "open" THEN ready \cup {c} ELSE ready

\* The bound on controllers also bounds the camera requests under way.
Send(c, r) ==
  /\ ClientsStep
  /\ sock[c] \notin {"none", "closed"} /\ c \notin hung
  /\ client[c] = "idle"
  /\ IsCamera(r) =>
       /\ level < MaxLevel
       /\ NoCamera
       /\ ~ IsCamera(main.req)
  /\ inbox' = [inbox EXCEPT ![c] = r]
  /\ client' = [client EXCEPT ![c] = IF r.act = "garbage" THEN "leaving" ELSE "waiting"]
  /\ Notify(c)
  /\ UNCHANGED <<tableVars, main, batch, backlog, sock, hung, down, dropped, histVars>>

HangUp(c) ==
  /\ ClientsStep
  /\ sock[c] \notin {"none", "closed"} /\ c \notin hung
  /\ Cardinality(hung) < MaxHangUps
  /\ hung' = hung \cup {c}
  /\ Notify(c)
  /\ UNCHANGED <<tableVars, main, batch, backlog, sock, inbox, client, down, dropped, histVars>>

-----------------------------------------------------------------------------
(* wait_for_connect: the loop.                                             *)

HasEvent(c) == inbox[c] # NoRequest \/ c \in hung

\* epoll_wait.  Connections are edge-triggered: reported once for an event;
\* the listener is reported as long as there is something to accept.
EpollWait ==
  LET events == {c \in ready : HasEvent(c)}
                \cup (IF backlog = <<>> THEN {} ELSE {Listener})
  IN  /\ At("wait")
      /\ events # {}
      /\ batch' \in SetToSeqs(events)
      /\ ready' = {}
      /\ Goto("loop")
      /\ UNCHANGED <<tableVars, backlog, sock, inbox, hung, client, down, dropped, histVars>>

BatchDone ==
  /\ At("loop") /\ batch = <<>>
  /\ main' = Idle
  /\ UNCHANGED <<tableVars, batch, connVars, down, dropped, histVars>>

Accept ==
  LET c == Head(backlog)
  IN  /\ At("loop") /\ batch # <<>> /\ Head(batch) = Listener
      /\ sock' = [sock EXCEPT ![c] = "open"]
      /\ backlog' = Tail(backlog)
      /\ ready' = IF HasEvent(c) THEN ready \cup {c} ELSE ready
      /\ batch' = Tail(batch)
      /\ UNCHANGED <<tableVars, main, inbox, hung, client, down, dropped, histVars>>

\* Mutant of Recv: every request leaves the batch.
RecvBreaks ==
  LET c == Head(batch)
  IN  /\ At("loop") /\ batch # <<>> /\ c # Listener /\ inbox[c] # NoRequest
      /\ main' = [pc |-> "handle", c |-> c, req |-> inbox[c], pid |-> 0, cut |-> FALSE]
      /\ inbox' = [inbox EXCEPT ![c] = NoRequest]
      /\ batch' = <<>>
      /\ UNCHANGED <<tableVars, backlog, ready, sock, hung, client, down, dropped, histVars>>

\* recv returns what there is, once.
Recv ==
  LET c == Head(batch)
  IN  /\ At("loop") /\ batch # <<>> /\ c # Listener /\ inbox[c] # NoRequest
      /\ main' = [pc |-> "handle", c |-> c, req |-> inbox[c], pid |-> 0, cut |-> FALSE]
      /\ inbox' = [inbox EXCEPT ![c] = NoRequest]
      /\ batch' = Tail(batch)
      /\ UNCHANGED <<tableVars, backlog, ready, sock, hung, client, down, dropped, histVars>>

\* recv returns 0: the connection is closed, and "break" leaves the batch.
RecvClosed ==
  LET c == Head(batch)
  IN  /\ At("loop") /\ batch # <<>> /\ c # Listener /\ inbox[c] = NoRequest
      /\ sock' = [sock EXCEPT ![c] = "closed"]
      /\ ready' = ready \ {c}
      /\ batch' = <<>>
      /\ dropped' = dropped \cup (Range(Tail(batch)) \ {Listener})
      /\ UNCHANGED <<tableVars, main, backlog, inbox, hung, client, down, histVars>>

-----------------------------------------------------------------------------
(* vaccess_handle and use_monitor.                                         *)

N == main.req.n
Exists == N \in Monitors

\* kill(pid, SIGINT): a viewer that runs will end, a zombie does not mind, and
\* the pid of one that was waited for may be another's by now.
Hit(r) == [r EXCEPT !.hit = TRUE, !.life = IF @ = "reaped" THEN "foreign" ELSE @]
Kill(ps) == proc' = [p \in Pids |-> IF p \in ps THEN Hit(proc[p]) ELSE proc[p]]

\* Not JSON, or no Action: no answer.
HandleGarbage ==
  /\ At("handle") /\ main.req.act = "garbage"
  /\ main' = [Idle EXCEPT !.pc = "loop"]
  /\ UNCHANGED <<tableVars, batch, connVars, down, dropped, histVars>>

HandleOther ==
  /\ At("handle") /\ main.req.act = "other"
  /\ Goto("reply")
  /\ UNCHANGED <<tableVars, batch, connVars, down, dropped, histVars>>

disconnect_monitor ==
  /\ At("handle") /\ main.req.act = "disconnect"
  /\ Goto(IF Exists THEN "look" ELSE "reply")
  /\ UNCHANGED <<tableVars, batch, connVars, down, dropped, histVars>>

\* The fields are stored as they are found: a request that lacks a later one
\* is refused, but has changed the mode.
connect_to_monitor ==
  /\ At("handle") /\ main.req.act = "connect"
  /\ IF Exists THEN monitor' = [monitor EXCEPT ![N].mode = main.req.mode]
               ELSE UNCHANGED monitor
  /\ Goto(IF Exists /\ main.req.full THEN "look" ELSE "reply")
  /\ UNCHANGED <<proc, level, sigchld, batch, connVars, down, dropped, histVars>>

\* The test of the viewer that is there, of both requests.
AfterKill == IF main.req.act = "connect" THEN "use" ELSE "reply"
Look ==
  /\ At("look")
  /\ main' = IF monitor[N].status = "USED" /\ monitor[N].pid > 0
               THEN [main EXCEPT !.pc = "kill", !.pid = monitor[N].pid]
               ELSE [main EXCEPT !.pc = AfterKill]
  /\ UNCHANGED <<tableVars, batch, connVars, down, dropped, histVars>>

\* Mutant of KillViewer: the viewer that is there is left alone.
KillViewerNot ==
  /\ At("kill")
  /\ Goto(AfterKill)
  /\ UNCHANGED <<tableVars, batch, connVars, down, dropped, histVars>>

\* The kill, of the pid that was tested or of the one that is there now, as
\* the compiler chose.
KillViewer ==
  /\ At("kill")
  /\ \E p \in {main.pid, monitor[N].pid} \ {0} : Kill({p})
  /\ Goto(AfterKill)
  /\ UNCHANGED <<monitor, level, sigchld, batch, connVars, down, dropped, histVars>>

UseMonitor ==
  /\ At("use")
  /\ monitor' = [monitor EXCEPT ![N].status = "USED"]
  /\ Goto("vfork")
  /\ UNCHANGED <<proc, level, sigchld, batch, connVars, down, dropped, histVars>>

VforkFails ==
  /\ At("vfork")
  /\ monitor' = [monitor EXCEPT ![N].status = "FREE"]
  /\ Goto("reply")
  /\ UNCHANGED <<proc, level, sigchld, batch, connVars, down, dropped, histVars>>

Vfork ==
  \E p \in Pids :
    /\ At("vfork")
    /\ proc[p].life = "unborn" /\ \A q \in 1 .. p - 1 : proc[q].life # "unborn"
    /\ proc' = [proc EXCEPT ![p] = [life |-> "child", by |-> level, mon |-> N,
                                    mode |-> monitor[N].mode, hit |-> FALSE]]
    /\ main' = [main EXCEPT !.pc = "child", !.pid = p]
    /\ UNCHANGED <<monitor, level, sigchld, batch, connVars, down, dropped, histVars>>

\* The child executes the viewer; the parent goes on.
ChildExecs ==
  /\ At("child") /\ monitor[N].mode # "camera"
  /\ proc' = [proc EXCEPT ![main.pid].life = "runs"]
  /\ Goto("record")
  /\ UNCHANGED <<monitor, level, sigchld, batch, connVars, down, dropped, histVars>>

\* No viewer to execute, or exec failed: the child returns from use_monitor.
ChildReturns ==
  /\ At("child") /\ level < MaxLevel
  /\ monitor[N].mode = "camera" \/ NoCamera
  /\ IF monitor[N].mode = "camera"
       THEN monitor' = [monitor EXCEPT ![N].status = "FREE"]
       ELSE UNCHANGED monitor
  /\ proc' = [proc EXCEPT ![main.pid].life = "controller"]
  /\ level' = level + 1
  /\ Goto("reply")
  /\ UNCHANGED <<sigchld, batch, connVars, down, dropped, histVars>>

Record ==
  /\ At("record")
  /\ monitor' = [monitor EXCEPT ![N].pid = main.pid]
  /\ torn' = IF main.cut THEN torn \cup {main.pid} ELSE torn
  /\ Goto("reply")
  /\ UNCHANGED <<proc, level, sigchld, batch, connVars, down, dropped, caught>>

\* _send.  It may fail when the client is gone: the connection is then no
\* longer watched, and not closed.
Reply ==
  /\ At("reply")
  /\ client' = [client EXCEPT ![main.c] = "idle"]
  /\ \/ UNCHANGED <<sock, ready>>
     \/ /\ main.c \in hung
        /\ sock' = [sock EXCEPT ![main.c] = "deaf"]
        /\ ready' = ready \ {main.c}
  /\ main' = [Idle EXCEPT !.pc = "loop"]
  /\ UNCHANGED <<tableVars, batch, backlog, inbox, hung, down, dropped, histVars>>

-----------------------------------------------------------------------------
(* The viewers (external) and the signal handlers.                         *)

\* A viewer ends, by itself or after SIGINT.
Dies(p) ==
  /\ proc[p].life = "runs"
  /\ proc' = [proc EXCEPT ![p].life = "zombie"]
  /\ sigchld' = [sigchld EXCEPT ![proc[p].by] = TRUE]
  /\ UNCHANGED <<monitor, level, main, batch, connVars, down, dropped, histVars>>

\* Before its exec a child has no signals to handle, and its parent is
\* suspended.
Interruptible == ~ At("child")

Zombies == {p \in Pids : proc[p].life = "zombie" /\ proc[p].by = level}

\* find_monitor_by_pid, as a set of at most one monitor.
Found(p) == {n \in Monitors : monitor[n].pid = p /\ \A k \in 1 .. n - 1 : monitor[k].pid # p}

\* Mutant of free_monitor: the pid goes, the status stays.
free_monitorStatus(n) == [monitor[n] EXCEPT !.status = "FREE"]

free_monitor(n) == [monitor[n] EXCEPT !.status = "FREE", !.pid = 0]

\* The request under way has looked at p and is about to kill it, or has
\* started p and is about to record it.
Raced(p) == main.pc \in {"kill", "record"} /\ main.pid = p

\* One waitpid for however many SIGCHLDs were joined into one.  An entry may
\* be freed that a request has just put in use.
sigchld_handler ==
  /\ Interruptible /\ sigchld[level]
  /\ sigchld' = [sigchld EXCEPT ![level] = FALSE]
  /\ \/ Zombies = {} /\ UNCHANGED <<monitor, proc, main, caught>>
     \/ \E p \in Zombies :
          /\ proc' = [proc EXCEPT ![p].life = "reaped"]
          /\ monitor' = [n \in Monitors |-> IF n \in Found(p) THEN free_monitor(n)
                                                              ELSE monitor[n]]
          /\ caught' = IF Raced(p) THEN caught \cup {p} ELSE caught
          /\ main' = IF main.pc \in {"vfork", "record"} /\ N \in Found(p)
                       THEN [main EXCEPT !.cut = TRUE] ELSE main
  /\ UNCHANGED <<level, batch, connVars, down, dropped, torn>>

\* Mutant of ToDestroy: the loop over the monitors starts at 1.
ToDestroyTail ==
  {monitor[n].pid : n \in {k \in Monitors : k > 1 /\ monitor[k].status = "USED"}} \ {0}

\* monitor_destroy.
ToDestroy == {monitor[n].pid : n \in {k \in Monitors : monitor[k].status = "USED"}} \ {0}

\* exit closes the connections.  A suspended parent then goes on in memory
\* that is freed, and crashes.
Exit ==
  /\ down' = TRUE
  /\ main' = Idle /\ batch' = <<>> /\ backlog' = <<>> /\ ready' = {}
  /\ sock' = [c \in Clients |-> "closed"]
  /\ inbox' = [c \in Clients |-> NoRequest]
  /\ client' = [c \in Clients |-> "leaving"]
  /\ torn' = IF At("record") THEN torn \cup {main.pid} ELSE torn
  /\ UNCHANGED <<monitor, level, sigchld, hung, dropped, caught>>

sigint_handler ==
  /\ Interruptible
  /\ Kill(ToDestroy)
  /\ Exit

\* kill(0, SIGINT), when the pid is read again: it hits the viewers and the
\* controller itself, whose handler does the rest.
Group == {p \in Pids : proc[p].life \in {"runs", "zombie"}}
KillGroup ==
  /\ At("kill") /\ monitor[N].pid = 0
  /\ Kill(Group \cup ToDestroy)
  /\ Exit

-----------------------------------------------------------------------------
Loop == EpollWait \/ BatchDone \/ Accept \/ Recv \/ RecvClosed
Handle ==
  \/ HandleGarbage \/ HandleOther \/ disconnect_monitor \/ connect_to_monitor
  \/ Look \/ KillViewer \/ UseMonitor \/ VforkFails \/ Vfork \/ ChildExecs
  \/ ChildReturns \/ Record \/ Reply

Next ==
  /\ ~ down
  /\ \/ Loop
     \/ Handle
     \/ sigchld_handler
     \/ sigint_handler
     \/ KillGroup
     \/ \E c \in Clients :
          \/ Connect(c) \/ HangUp(c)
          \/ \E r \in Asked : Send(c, r)
     \/ \E p \in Pids : Dies(p)

\* The loop runs, signals are delivered, a viewer that gets SIGINT ends.
Fairness ==
  /\ WF_vars(~ down /\ (Loop \/ Handle))
  /\ WF_vars(~ down /\ sigchld_handler)
  /\ \A p \in Pids : WF_vars(~ down /\ proc[p].hit /\ Dies(p))

Spec == Init /\ [][Next]_vars /\ Fairness

-----------------------------------------------------------------------------
Procs ==
  [life : {"unborn", "child", "runs", "zombie", "reaped", "foreign", "controller"},
   by : 0 .. MaxLevel, mon : 0 .. MonitorNum,
   mode : {"fap", "vnc", "camera"}, hit : BOOLEAN]

Mains ==
  [pc : {"wait", "loop", "handle", "look", "kill", "use", "vfork", "child", "record", "reply"},
   c : Clients \cup {Listener}, req : Asked \cup {NoRequest}, pid : 0 .. MaxPid,
   cut : BOOLEAN]

TableType ==
  /\ monitor \in [Monitors -> [status : {"FREE", "USED"},
                               mode : {"fap", "vnc", "camera"}, pid : 0 .. MaxPid]]
  /\ proc \in [Pids -> Procs]
  /\ level \in 1 .. MaxLevel
  /\ sigchld \in [1 .. MaxLevel -> BOOLEAN]

ConnType ==
  /\ batch \in Seq(Clients \cup {Listener}) /\ backlog \in Seq(Clients)
  /\ sock \in [Clients -> {"none", "backlog", "open", "closed", "deaf"}]
  /\ inbox \in [Clients -> Asked \cup {NoRequest}]
  /\ client \in [Clients -> {"idle", "waiting", "leaving"}]
  /\ ready \subseteq {c \in Clients : sock[c] = "open"}
  /\ hung \subseteq Clients /\ dropped \subseteq Clients
  /\ caught \subseteq Pids /\ torn \subseteq Pids

TypeOK == TableType /\ main \in Mains /\ ConnType /\ down \in BOOLEAN

\* While no request is being handled, every viewer that was not told to end
\* is the one its monitor's entry names, and that entry is in use: no viewer
\* is started over another, and none is lost (vaccess_api.c, monitor.c).  Only
\* a viewer may be lost during whose start the end of the former one was
\* handled.
ViewerOwned ==
  At("wait") =>
    \A p \in Pids :
      proc[p].life = "runs" /\ ~ proc[p].hit
        => \/ p \in torn
           \/ \E n \in Monitors :
                n = proc[p].mon /\ monitor[n].status = "USED" /\ monitor[n].pid = p

\* The pid of a monitor in use names a child of that monitor that was not
\* waited for yet, and the kill of a request or of the shutdown hits no other
\* process, whenever signals come, unless the viewer was waited for between
\* the look and the kill or before its pid was recorded.
PidIsOurs ==
  /\ \A n \in Monitors :
       monitor[n].status = "USED" /\ monitor[n].pid > 0
         => /\ proc[monitor[n].pid].life \in {"runs", "zombie"} \/ monitor[n].pid \in caught
            /\ proc[monitor[n].pid].mon = n
  /\ \A p \in Pids : proc[p].life = "foreign" => p \in caught

\* After the shutdown no viewer runs on (monitor_destroy), but one whose start
\* a signal interrupted.
ExitEndsViewers ==
  down => \A p \in Pids : proc[p].life = "runs" => proc[p].hit \/ p \in torn

\* Every request is answered, unless a hang-up of another client, reported
\* together with it, made the loop drop it.
RequestAnswered ==
  \A c \in Clients :
    client[c] = "waiting" ~> \/ client[c] # "waiting" \/ c \in hung
                             \/ c \in dropped \/ down

\* Every request is answered: violated, see above (ev_epoll.c:156).
AllAnswered ==
  \A c \in Clients :
    client[c] = "waiting" ~> client[c] # "waiting" \/ c \in hung \/ down

\* A monitor whose viewer has ended becomes free: violated, since SIGCHLDs
\* are joined and each makes one waitpid (controller.c:27).
EndedIsFreed ==
  \A n \in Monitors :
    LET Ended == \E p \in Pids : /\ monitor[n].status = "USED" /\ monitor[n].pid = p
                                 /\ proc[p].life = "zombie" /\ proc[p].by = level
    IN  Ended ~> ~ Ended \/ down

\* The mode that GetMonitorsInfo reports for a monitor is that of the viewer
\* on it: violated by a request that is refused for a missing field.
ModeIsTrue ==
  At("wait") =>
    \A n \in Monitors :
      monitor[n].status = "USED" /\ monitor[n].pid > 0
        => proc[monitor[n].pid].mode = monitor[n].mode

-----------------------------------------------------------------------------
(* Why viewers are owned.                                                  *)

\* A batch has every event once, that of the listener if someone waits.
BatchInv ==
  /\ \A i, j \in DOMAIN batch : batch[i] = batch[j] => i = j
  /\ \A i \in DOMAIN batch : batch[i] = Listener => backlog # <<>>

\* A pid that may be used: of a child that was not waited for, or was caught.
Usable(p) == proc[p].life \in {"runs", "zombie"} \/ p \in caught

\* An entry names a child of its monitor, and no other pid was ever killed.
PidsKnown ==
  /\ \A n \in Monitors :
       monitor[n].pid > 0 => Usable(monitor[n].pid) /\ proc[monitor[n].pid].mon = n
  /\ \A p \in Pids : proc[p].life = "foreign" => p \in caught
  /\ \A p \in caught : proc[p].life \in {"reaped", "foreign"}

Alive(p) == proc[p].life = "runs" /\ ~ proc[p].hit /\ p \notin torn

Owned(p) ==
  /\ proc[p].mon \in Monitors
  /\ monitor[proc[p].mon].status = "USED" /\ monitor[proc[p].mon].pid = p

\* All that run are owned, but one that was just started.
AliveOwned == \A p \in Pids : Alive(p) => Owned(p) \/ (At("record") /\ p = main.pid)

\* What the handling of a request knows of its monitor.
PlaceInv ==
  /\ main.pc \in {"look", "kill"} => N \in Monitors
  /\ At("kill") => /\ main.pid \in Pids /\ Usable(main.pid)
                   /\ monitor[N].pid \in {0, main.pid}
  /\ main.pc \in {"use", "vfork", "child", "record"} =>
       main.req.act = "connect" /\ N \in Monitors
  /\ main.pc \in {"vfork", "child", "record"} => monitor[N].status = "USED" \/ main.cut
  /\ main.pc \in {"use", "vfork", "child", "record"} =>
       \A p \in Pids : Alive(p) /\ proc[p].mon = N => At("record") /\ p = main.pid
  /\ main.pc \in {"child", "record"} => main.pid \in Pids /\ proc[main.pid].mon = N
  /\ At("child") => proc[main.pid].life = "child"
  /\ At("record") => Usable(main.pid)

Inv == TypeOK /\ BatchInv /\ PidsKnown /\ AliveOwned /\ PlaceInv /\ ExitEndsViewers
=============================================================================
