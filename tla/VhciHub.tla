------------------------------ MODULE VhciHub -------------------------------
(***************************************************************************)
(* The virtual root hub of the USB/IP client driver (vhci_hcd.c): the word *)
(* port_status of every port and the two fields re_timeout and resuming    *)
(* that all ports share.  Its callers are                                  *)
(*                                                                         *)
(*   - the attach and the teardown of a port (VhciPort), which connect and *)
(*     disconnect it and then have the USB core poll the hub; an attach is *)
(*     over before its teardown begins (VhciPort with AttachRaces FALSE);  *)
(*   - the USB core's hub driver, which reads and clears what changed, and *)
(*     resets ports.  Its code is not part of the repository; this module  *)
(*     has what the driver relies on: it reads the status of a port until  *)
(*     no connection change is left, and any thread may send requests.     *)
(*                                                                         *)
(* Every request is one critical section of the_controller->lock, the word *)
(* status of a port is under a lock of its own, ud.lock.  SET_ADDRESS      *)
(* takes the second twice within the first.  Time is counted in ticks, as  *)
(* far as the two time-outs tell it apart.                                 *)
(*                                                                         *)
(* Left out: the unload of the driver, which takes the root hub away       *)
(* first, and an event that is added to a port already reset, after which  *)
(* the port is disconnected once more (VhciPort has both).                 *)
(***************************************************************************)
EXTENDS Integers

CONSTANTS
  Ports,      \* the root-hub ports
  ResetTime,  \* "50msec reset signaling", in ticks
  ResumeTime, \* "20msec signaling", in ticks
  SetFeatures, ClearFeatures, \* the port features the USB core sets, clears
  Hotplug     \* bound: the ports that devices are attached to

ASSUME VhciHubAssumption ==
  /\ Hotplug \subseteq Ports
  /\ ResetTime \in Nat
  /\ ResumeTime \in Nat
  /\ SetFeatures \subseteq {"POWER", "RESET", "SUSPEND"}
  /\ ClearFeatures \subseteq {"ENABLE", "SUSPEND", "POWER", "C_CONNECTION",
                              "C_ENABLE", "C_SUSPEND", "C_RESET"}

VARIABLES
  status,      \* vdev[p].ud.status
  link,        \* progress of the attach or teardown of a port
  addressing,  \* the port whose SET_ADDRESS holds the_controller->lock
  port_status, \* the bits set in port_status[p], without the speed
  resuming,
  timer,       \* re_timeout - jiffies; -1 when re_timeout has passed or is 0
  poll,        \* a usb_hcd_poll_rh_status is due
  hub,         \* what the hub driver does next about a port
  view,        \* whether the hub driver knows of a device on a port
  since        \* ghost: ticks since the reset that a port signals began

portVars == <<port_status, resuming, timer>>
hubVars == <<status, link, addressing, portVars, poll, hub, view, since>>

PortBits == {"CONNECTION", "ENABLE", "SUSPEND", "RESET", "POWER",
             "C_CONNECTION", "C_ENABLE", "C_SUSPEND", "C_RESET"}

\* PORT_C_MASK
ChangeBits == {"C_CONNECTION", "C_ENABLE", "C_SUSPEND", "C_RESET"}

\* time_after(jiffies, re_timeout) is timer = Passed.
Passed == -1
Later(t) == IF t = Passed THEN Passed ELSE t - 1

Statuses == {"NULL", "NOTASSIGNED", "USED", "ERROR"}

\* "down" is the rest of an event round that ended a connection, "failed" one
\* with USBIP_EH_UNUSABLE still to come, "again" that of a later detach.
Links == {"free", "attaching", "up", "down", "failed", "again"}

HubTypeOK ==
  /\ status \in [Ports -> Statuses]
  /\ link \in [Ports -> Links]
  /\ addressing \in SUBSET Ports
  /\ port_status \in [Ports -> SUBSET PortBits]
  /\ resuming \in BOOLEAN
  /\ timer \in Int /\ timer >= Passed
  /\ poll \in BOOLEAN
  /\ hub \in [Ports -> {"idle", "read", "clear"}]
  /\ view \in [Ports -> BOOLEAN]
  /\ since \in [Ports -> 0 .. ResetTime + 1]

HubInit ==
  /\ status = [p \in Ports |-> "NULL"]
  /\ link = [p \in Ports |-> "free"]
  /\ addressing = {}
  /\ port_status = [p \in Ports |-> {}]
  /\ resuming = FALSE
  /\ timer = Passed
  /\ poll = FALSE
  /\ hub = [p \in Ports |-> "idle"]
  /\ view = [p \in Ports |-> FALSE]
  /\ since = [p \in Ports |-> 0]

-----------------------------------------------------------------------------
(* Attach and teardown.                                                    *)

\* Nobody holds the_controller->lock.
Unlocked == addressing = {}

\* store_attach claims the port,
Attach(p) ==
  /\ Unlocked
  /\ p \in Hotplug
  /\ status[p] = "NULL" /\ link[p] = "free"
  /\ status' = [status EXCEPT ![p] = "NOTASSIGNED"]
  /\ link' = [link EXCEPT ![p] = "attaching"]
  /\ UNCHANGED <<addressing, portVars, poll, hub, view, since>>

\* Mutant of rh_port_connect: no change is reported.
rh_port_connectQuiet(p) ==
  /\ Unlocked
  /\ link[p] = "attaching"
  /\ port_status' = [port_status EXCEPT ![p] = @ \cup {"CONNECTION"}]
  /\ poll' = TRUE
  /\ link' = [link EXCEPT ![p] = "up"]
  /\ UNCHANGED <<status, addressing, resuming, timer, hub, view, since>>

\* and tells the hub when its threads run.
rh_port_connect(p) ==
  /\ Unlocked
  /\ link[p] = "attaching"
  /\ port_status' = [port_status EXCEPT ![p] =
                       @ \cup {"CONNECTION", "C_CONNECTION"}]
  /\ poll' = TRUE
  /\ link' = [link EXCEPT ![p] = "up"]
  /\ UNCHANGED <<status, addressing, resuming, timer, hub, view, since>>

\* vhci_urb_enqueue of SET_ADDRESS, which the USB core sends when the port is
\* enabled; it does not ask the hub again, so the device may be gone.  The
\* status is looked at,
SetAddress(p) ==
  /\ Unlocked
  /\ "ENABLE" \in port_status[p]
  /\ status[p] \notin {"NULL", "ERROR"}
  /\ addressing' = {p}
  /\ UNCHANGED <<status, link, portVars, poll, hub, view, since>>

\* and then set, whatever it has become: ud.lock was free in between.
SetUsed(p) ==
  /\ p \in addressing
  /\ addressing' = {}
  /\ status' = [status EXCEPT ![p] = "USED"]
  /\ UNCHANGED <<link, portVars, poll, hub, view, since>>

\* The end of vhci_shutdown_connection.  A detach has it run for a port that
\* has no connection too, as long as its status is not NULL.
rh_port_disconnect(p) ==
  /\ Unlocked
  /\ link[p] = "up" \/ (link[p] = "free" /\ status[p] # "NULL")
  /\ port_status' = [port_status EXCEPT ![p] =
                       (@ \ {"CONNECTION"}) \cup {"C_CONNECTION"}]
  /\ poll' = TRUE
  /\ link' = [link EXCEPT ![p] = IF @ = "up" THEN "down" ELSE "again"]
  /\ UNCHANGED <<status, addressing, resuming, timer, hub, view, since>>

\* What the event thread calls next takes ud.lock alone.  The threads of the
\* connection may have asked for both.
vhci_device_reset(p) ==
  /\ link[p] \in {"down", "again"}
  /\ status' = [status EXCEPT ![p] = "NULL"]
  /\ \/ link' = [link EXCEPT ![p] = "free"]
     \/ link[p] = "down" /\ link' = [link EXCEPT ![p] = "failed"]
  /\ UNCHANGED <<addressing, portVars, poll, hub, view, since>>

vhci_device_unusable(p) ==
  /\ link[p] \in {"down", "failed"}
  /\ status' = [status EXCEPT ![p] = "ERROR"]
  /\ link' = [link EXCEPT ![p] = "free"]
  /\ UNCHANGED <<addressing, portVars, poll, hub, view, since>>

-----------------------------------------------------------------------------
(* vhci_hub_status and vhci_hub_control.                                   *)

\* usb_hcd_poll_rh_status: vhci_hub_status reports the ports with a change
\* bit, and the hub driver will look at them.
vhci_hub_status ==
  /\ Unlocked
  /\ poll
  /\ poll' = FALSE
  /\ hub' = [p \in Ports |->
               IF port_status[p] \cap ChangeBits # {} /\ hub[p] = "idle"
               THEN "read" ELSE hub[p]]
  /\ UNCHANGED <<status, link, addressing, portVars, view, since>>

\* What GetPortStatus does before it returns the word: a resume that is over
\* is completed on whichever port is asked for, a reset on the port itself,
\* which is enabled if its device has no address yet.
ResumeOver == resuming /\ timer = Passed
ResetOver(p) ==
  "RESET" \in port_status[p] /\ (timer = Passed \/ ResumeOver)

StatusRead(p) ==
  LET resumed == IF ResumeOver
                 THEN (port_status[p] \ {"SUSPEND"}) \cup {"C_SUSPEND"}
                 ELSE port_status[p]
      enabled == IF status[p] = "NOTASSIGNED" THEN {"ENABLE"} ELSE {}
  IN  IF ResetOver(p) THEN (resumed \ {"RESET"}) \cup {"C_RESET"} \cup enabled
      ELSE resumed

GetPortStatus(p) ==
  /\ port_status' = [port_status EXCEPT ![p] = StatusRead(p)]
  /\ resuming' = (resuming /\ ~ResumeOver)
  /\ timer' = IF ResumeOver \/ ResetOver(p) THEN Passed ELSE timer
  /\ since' = IF ResetOver(p) THEN [since EXCEPT ![p] = 0] ELSE since

\* A resume arms the time-out, but no port has the SUSPEND bit: the request
\* that should set it does nothing.
ClearPortFeature(p, feature) ==
  /\ CASE feature = "SUSPEND" ->
            /\ IF "SUSPEND" \in port_status[p]
               THEN resuming' = TRUE /\ timer' = ResumeTime
               ELSE UNCHANGED <<resuming, timer>>
            /\ UNCHANGED port_status
       [] feature = "POWER" ->
            /\ port_status' = [port_status EXCEPT ![p] = {}]
            /\ resuming' = FALSE
            /\ UNCHANGED timer
       [] OTHER ->
            /\ port_status' = [port_status EXCEPT ![p] = @ \ {feature}]
            /\ UNCHANGED <<resuming, timer>>
  /\ since' = IF feature = "POWER" THEN [since EXCEPT ![p] = 0] ELSE since

\* Mutant of SetPortFeature: a reset leaves a running port enabled ("FIXME
\* test that code path!").
SetPortFeatureKeepsEnable(p, feature) ==
  CASE feature = "RESET" ->
         /\ port_status' = [port_status EXCEPT ![p] = @ \cup {"RESET"}]
         /\ timer' = ResetTime
         /\ since' = [since EXCEPT ![p] = 0]
         /\ UNCHANGED resuming
    [] feature = "SUSPEND" -> UNCHANGED <<portVars, since>>
    [] OTHER ->
         /\ port_status' = [port_status EXCEPT ![p] = @ \cup {feature}]
         /\ UNCHANGED <<resuming, timer, since>>

\* Mutant of SetPortFeature: a time-out that runs already is not restarted.
SetPortFeatureSharesTimeout(p, feature) ==
  CASE feature = "RESET" ->
         /\ port_status' = [port_status EXCEPT ![p] =
                              (@ \ {"ENABLE"}) \cup {"RESET"}]
         /\ timer' = IF timer = Passed THEN ResetTime ELSE timer
         /\ since' = [since EXCEPT ![p] = 0]
         /\ UNCHANGED resuming
    [] feature = "SUSPEND" -> UNCHANGED <<portVars, since>>
    [] OTHER ->
         /\ port_status' = [port_status EXCEPT ![p] = @ \cup {feature}]
         /\ UNCHANGED <<resuming, timer, since>>

SetPortFeature(p, feature) ==
  CASE feature = "RESET" ->
         /\ port_status' = [port_status EXCEPT ![p] =
                              (@ \ {"ENABLE"}) \cup {"RESET"}]
         /\ timer' = ResetTime
         /\ since' = [since EXCEPT ![p] = 0]
         /\ UNCHANGED resuming
    [] feature = "SUSPEND" -> UNCHANGED <<portVars, since>>
    [] OTHER ->
         /\ port_status' = [port_status EXCEPT ![p] = @ \cup {feature}]
         /\ UNCHANGED <<resuming, timer, since>>

-----------------------------------------------------------------------------
(* The callers of vhci_hub_control.                                        *)

\* The hub driver reads a reported port, and takes a status without a
\* connection change for the truth.
HubReads(p) ==
  /\ Unlocked
  /\ hub[p] = "read"
  /\ GetPortStatus(p)
  /\ IF "C_CONNECTION" \in port_status'[p]
     THEN hub' = [hub EXCEPT ![p] = "clear"] /\ UNCHANGED view
     ELSE /\ hub' = [hub EXCEPT ![p] = "idle"]
          /\ view' = [view EXCEPT ![p] = "CONNECTION" \in port_status'[p]]
  /\ UNCHANGED <<status, link, addressing, poll>>

\* Before that it clears the change and reads again.
HubClears(p) ==
  /\ Unlocked
  /\ hub[p] = "clear"
  /\ ClearPortFeature(p, "C_CONNECTION")
  /\ hub' = [hub EXCEPT ![p] = "read"]
  /\ UNCHANGED <<status, link, addressing, poll, view>>

\* Whoever waits for a reset reads the port too.
PollReset(p) ==
  /\ Unlocked
  /\ GetPortStatus(p)
  /\ UNCHANGED <<status, link, addressing, poll, hub, view>>

\* A port that is powered off has no device for the hub driver.
HubRequest(p) ==
  /\ Unlocked
  /\ \/ \E f \in SetFeatures : SetPortFeature(p, f) /\ UNCHANGED view
     \/ \E f \in ClearFeatures \ {"C_CONNECTION"} :
          /\ ClearPortFeature(p, f)
          /\ view' = IF f = "POWER" THEN [view EXCEPT ![p] = FALSE] ELSE view
  /\ UNCHANGED <<status, link, addressing, poll, hub>>

Tick ==
  /\ timer' = Later(timer)
  /\ since' = [p \in Ports |->
                 IF "RESET" \in port_status[p] /\ since[p] <= ResetTime
                 THEN since[p] + 1 ELSE since[p]]
  /\ UNCHANGED <<status, link, addressing, port_status, resuming, poll, hub,
                 view>>

HubNext ==
  \/ vhci_hub_status \/ Tick
  \/ \E p \in Ports :
       \/ Attach(p) \/ rh_port_connect(p) \/ SetAddress(p) \/ SetUsed(p)
       \/ rh_port_disconnect(p)
       \/ vhci_device_reset(p) \/ vhci_device_unusable(p)
       \/ HubReads(p) \/ HubClears(p) \/ PollReset(p) \/ HubRequest(p)

HubSpec == HubInit /\ [][HubNext]_hubVars

\* The poll follows the change, and the hub driver looks at what it is told.
\* Both wait for the_controller->lock, which its holder gives back and which
\* is a ticket spinlock: a SET_ADDRESS that comes again and again does not
\* keep them out.
FairHubSpec ==
  /\ HubSpec
  /\ SF_hubVars(vhci_hub_status)
  /\ \A p \in Ports :
       /\ SF_hubVars(HubReads(p)) /\ SF_hubVars(HubClears(p))
       /\ WF_hubVars(SetUsed(p))

-----------------------------------------------------------------------------
(* Properties.                                                             *)

\* "50msec reset signaling": all ports share one time-out, and still no reset
\* of a port, whatever is reset, resumed or powered off beside it, is over
\* before that port has signalled it for the whole time.
ResetSignalled ==
  [][\A p \in Ports :
       ("RESET" \in port_status[p] /\ "RESET" \notin port_status'[p]
          /\ "C_RESET" \in port_status'[p])
       => since[p] > ResetTime]_hubVars

\* "if it's already running, disconnect first": a port is never enabled while
\* it is being reset, so that no request gets through before the reset ends.
NotEnabledInReset ==
  \A p \in Ports : ~({"ENABLE", "RESET"} \subseteq port_status[p])

\* Nothing suspends a port, so nothing resumes one.
NeverResumes == ~resuming /\ \A p \in Ports : "SUSPEND" \notin port_status[p]

\* What is left of the shared time-out is never less than what any port in
\* reset has still to signal: whoever restarts it makes it longer.
TimeoutCovers ==
  \A p \in Ports :
    "RESET" \in port_status[p]
      => since[p] > ResetTime \/ timer >= ResetTime - since[p]

\* Why a reset lasts its time: the invariant behind ResetSignalled and
\* NotEnabledInReset, which every request, attach, teardown and tick keeps.
HubInv ==
  HubTypeOK /\ NeverResumes /\ NotEnabledInReset /\ TimeoutCovers

\* "refuse enqueue for dead connection": SET_ADDRESS makes no port used that
\* has been reset or given up.  It does (MCVhciHubDead.cfg): the
\* teardown may come between the look at the status and its change, and the
\* port then counts as used, with nobody behind it, until it is detached.
RefusesDead ==
  [][\A p \in Ports :
       status[p] \in {"NULL", "ERROR"} => status'[p] # "USED"]_hubVars

\* What is attached or torn down while the hub driver is busy with an earlier
\* change, of this port or of another, comes to its knowledge in the end,
\* unless the dead port is made used, and detached, over and over again.
ChangeIsSeen ==
  \A p \in Ports :
    \/ []<><<status[p] \in {"NULL", "ERROR"} /\ status'[p] = "USED">>_hubVars
    \/ ("CONNECTION" \in port_status[p]) # view[p]
         ~> (("CONNECTION" \in port_status[p]) = view[p])
=============================================================================
