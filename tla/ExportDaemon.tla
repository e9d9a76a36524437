---------------------------- MODULE ExportDaemon ----------------------------
(***************************************************************************)
(* The export daemon (tcp-usbip): it takes the USB devices on its list     *)
(* from their drivers, binds them to the usbip driver, tells a server      *)
(* about each over a TCP connection and hands that connection to the       *)
(* kernel.  It does so for the devices it finds when it starts, then for   *)
(* each uevent the kernel reports (fusb_linux.c), and gives the devices    *)
(* back when it is told to end (fusb_main.c).                              *)
(*                                                                         *)
(* A step of the daemon is the code between two looks at sysfs: devices    *)
(* come and go between them.  External: the USB bus, its uevents, the      *)
(* drivers' probing, the server.  In this build FRONVIEW is defined.       *)
(*                                                                         *)
(* Left out: interfaces (a device has at least one, all have one driver),  *)
(* libsysfs, failures of sysfs other than for an absent device, the split  *)
(* of a packet over two send()s, memory that is not freed.                 *)
(***************************************************************************)
EXTENDS Naturals, Sequences, FiniteSets, SequencesExt

CONSTANTS
  BusIds,
  Names,      \* vid:pid of devices
  Listed,     \* those given by --usbip (plugin->pUSBTypeList)
  Kept,       \* those whose driver is hub or usbhid
  ListFlag,   \* plugin->listflag
  Longer,   \* pairs of bus ids, the first has the second as a substring
  Hub,        \* the bus id of the hub that a device is behind, or itself
  MaxMatch,   \* the size of the kernel's match_busid table
  UsbipFirst, \* is usbip asked before a device's own driver?
  SignalRaces,\* may SIGINT interrupt the handling of an event?
  MaxPlugs    \* bound: plugs

NoName == "none"

ASSUME ExportAssumption ==
  /\ BusIds # {} /\ NoName \notin Names
  /\ Listed \subseteq Names /\ Kept \subseteq Names
  /\ ListFlag \in {"WHITELIST", "BLACKLIST"}
  /\ Longer \subseteq BusIds \X BusIds
  /\ Hub \in [BusIds -> BusIds]
  /\ MaxMatch \in Nat /\ MaxPlugs \in Nat
  /\ UsbipFirst \in BOOLEAN /\ SignalRaces \in BOOLEAN

VARIABLES
  bus,       \* what sysfs shows at each bus id
  matched,   \* bus ids in match_busid
  uevents,   \* bus ids got from the uevents in the hotplug socket
  maplist,   \* plugin->maplist
  edev_list, \* stub_driver->edev_list: the status of each bus id
  hotplug,   \* hotplug_flag, and the hotplug socket is bound
  at,        \* place of the daemon, the device it works on
  todo,      \* bus ids of the first scan still to look at
  down,      \* how the daemon ended
  plugs,     \* number of plugs
  failed,    \* history: bus ids whose device could not be taken or told, or
             \* whose connection the server ended
  missed     \* history: bus ids whose device came or went unseen

env == <<bus, uevents, plugs, missed>>
vars == <<bus, matched, uevents, maplist, edev_list, hotplug, at, todo, down,
          plugs, failed, missed>>

Absent == [name |-> NoName, driver |-> "absent", used |-> FALSE]
Device(n, driver) == [name |-> n, driver |-> driver, used |-> FALSE]

Present(b) == bus[b] # Absent
At(pc) == down = "no" /\ at.pc = pc
Goto(pc) == at' = [at EXCEPT !.pc = pc]
B == at.b

\* Before usbip is asked, and after it has refused.
Drivers(n, b, m) ==
  IF n \in Kept THEN {"kept"}
  ELSE IF b \in m /\ UsbipFirst THEN {"usbip"} ELSE {"own"}

Init ==
  /\ \E on \in SUBSET BusIds, name \in [BusIds -> Names] :
       bus = [b \in BusIds |-> IF b \in on
                THEN Device(name[b], IF name[b] \in Kept THEN "kept" ELSE "own")
                ELSE Absent]
  /\ matched = {} /\ uevents = <<>> /\ maplist = <<>>
  /\ edev_list = [b \in BusIds |-> "absent"]
  /\ hotplug = FALSE
  /\ at = [pc |-> "scan", b |-> CHOOSE b \in BusIds : TRUE, name |-> NoName, i |-> 0]
  /\ todo = {} /\ down = "no" /\ plugs = 0 /\ failed = {} /\ missed = {}

-----------------------------------------------------------------------------
(* The bus (external).                                                     *)

\* get_busid_from_uevent: the uevent of an interface names its device, that
\* of a device behind a hub is taken for the hub's.
InterfaceEvent(b) == IF hotplug THEN Append(uevents, b) ELSE uevents
DeviceEvent(b) == IF hotplug THEN Append(uevents, Hub[b]) ELSE uevents

\* What a careful user waits for: the daemon listens and has done with what
\* went before.  Otherwise it may take the new device for the old one.
Seen(b) == hotplug /\ b \notin ToSet(uevents) /\ (at.pc = "wait" \/ at.b # b)
Missed(b, seen) == missed' = IF seen THEN missed ELSE missed \cup {b}

Plug(b) ==
  /\ ~ Present(b) /\ plugs < MaxPlugs
  /\ Missed(b, Seen(b))
  /\ \E n \in Names : \E driver \in Drivers(n, b, matched) :
       bus' = [bus EXCEPT ![b] = Device(n, driver)]
  /\ uevents' = IF hotplug THEN uevents \o <<Hub[b], b>> ELSE uevents
  /\ plugs' = plugs + 1
  /\ failed' = failed \ {b}
  /\ UNCHANGED <<matched, maplist, edev_list, hotplug, at, todo, down>>

\* The interfaces go first, with their driver; the name can still be read.
Leave(b) ==
  /\ Present(b) /\ bus[b].driver # "leaving"
  /\ Missed(b, hotplug)
  /\ bus' = [bus EXCEPT ![b] = Device(@.name, "leaving")]
  /\ uevents' = InterfaceEvent(b)
  /\ UNCHANGED <<matched, maplist, edev_list, hotplug, at, todo, down, plugs, failed>>

Unplug(b) ==
  /\ bus[b].driver = "leaving"
  /\ bus' = [bus EXCEPT ![b] = Absent]
  /\ uevents' = DeviceEvent(b)
  /\ Missed(b, Hub[b] = b)
  /\ UNCHANGED <<matched, maplist, edev_list, hotplug, at, todo, down, plugs, failed>>

\* The server ends the connection; the kernel resets the device.
ServerCloses(b) ==
  /\ bus[b].used
  /\ bus' = [bus EXCEPT ![b].used = FALSE]
  /\ failed' = failed \cup {b}
  /\ UNCHANGED <<matched, uevents, maplist, edev_list, hotplug, at, todo, down, plugs, missed>>

-----------------------------------------------------------------------------
(* The list of devices.                                                    *)

Entry(b, n) == [bus |-> b, name |-> n, besend |-> FALSE]

\* strstr on bus ids and on names; the name of an absent device is empty.
SubBus(a, b) == a = b \/ <<a, b>> \in Longer
\* Mutant of has_the_dev: a known device is not recognised.
has_the_devName(n, b) ==
  {i \in DOMAIN maplist : n = NoName /\ SubBus(maplist[i].bus, b)}

has_the_dev(n, b) ==
  {i \in DOMAIN maplist :
     \/ SubBus(maplist[i].bus, b) /\ n \in {NoName, maplist[i].name}
     \/ SubBus(b, maplist[i].bus) /\ n = maplist[i].name}

dev_can_load(n) == n \in Listed

\* Mutant of CanLoad: the list is not asked.
CanLoadAny(n) == n \in Names

CanLoad(n) == ListFlag = "WHITELIST" => dev_can_load(n)

\* add_map_to_list is done with the device: the scan or the loop goes on.
Back == IF hotplug THEN Goto("wait") ELSE Goto("next")

-----------------------------------------------------------------------------
(* usbip_hotplug: the start, send_all_usb_info and the loop.               *)

\* add_busid_list.
Scan ==
  /\ At("scan")
  /\ todo' = {b \in BusIds : Present(b)}
  /\ Goto("next")
  /\ UNCHANGED <<env, matched, maplist, edev_list, hotplug, down, failed>>

\* find_usb_device.
NextBusId ==
  /\ At("next")
  /\ \E b \in todo :
       /\ todo' = todo \ {b}
       /\ at' = [at EXCEPT !.b = b, !.name = bus[b].name,
                           !.pc = IF CanLoad(bus[b].name) THEN "load" ELSE "next"]
  /\ UNCHANGED <<env, matched, maplist, edev_list, hotplug, down, failed>>

ScanDone ==
  /\ At("next") /\ todo = {}
  /\ at' = [at EXCEPT !.pc = "sendall", !.i = 1]
  /\ UNCHANGED <<env, matched, maplist, edev_list, hotplug, todo, down, failed>>

\* For each entry its status in the last edev_list; without one "idev" is
\* what the search ended with, and is used.
SendNext ==
  /\ At("sendall") /\ at.i \in DOMAIN maplist
  /\ LET e == maplist[at.i]
     IN  IF edev_list[e.bus] = "absent"
           THEN down' = "crash" /\ UNCHANGED at
           ELSE /\ at' = [at EXCEPT !.b = e.bus,
                            !.i = IF edev_list[e.bus] = "available" THEN @ ELSE @ + 1,
                            !.pc = IF edev_list[e.bus] = "available" THEN "connect" ELSE @]
                /\ UNCHANGED down
  /\ UNCHANGED <<env, matched, maplist, edev_list, hotplug, todo, failed>>

\* init_hotplug_sock.
Listen ==
  /\ At("sendall") /\ at.i \notin DOMAIN maplist
  /\ hotplug' = TRUE
  /\ Goto("wait")
  /\ UNCHANGED <<env, matched, maplist, edev_list, todo, down, failed>>

\* Mutant of Receive: a device that goes is not looked for.
ReceiveKeeps ==
  /\ At("wait") /\ uevents # <<>>
  /\ uevents' = Tail(uevents)
  /\ LET b == Head(uevents)
         n == bus[b].name
     IN  at' = IF n # NoName /\ has_the_dev(n, b) = {} /\ CanLoad(n)
                 THEN [at EXCEPT !.b = b, !.name = n, !.pc = "load"]
                 ELSE at
  /\ UNCHANGED <<bus, matched, maplist, edev_list, hotplug, todo, down, plugs, failed, missed>>

\* A uevent: whether it says add or remove is not looked at, but whether the
\* device has a name now.
Receive ==
  /\ At("wait") /\ uevents # <<>>
  /\ uevents' = Tail(uevents)
  /\ LET b == Head(uevents)
         n == bus[b].name
         known == has_the_dev(n, b)
     IN  IF n = NoName
           THEN /\ maplist' = IF known = {} THEN maplist
                              ELSE RemoveAt(maplist, CHOOSE i \in known : \A k \in known : i <= k)
                /\ UNCHANGED at
           ELSE /\ at' = IF known = {} /\ CanLoad(n)
                           THEN [at EXCEPT !.b = b, !.name = n, !.pc = "load"]
                           ELSE at
                /\ UNCHANGED maplist
  /\ UNCHANGED <<bus, matched, edev_list, hotplug, todo, down, plugs, failed, missed>>

-----------------------------------------------------------------------------
(* add_map_to_list: load_inf_file, use_device_by_usbip.                    *)

\* The number of interfaces of an absent device is read as -1: nothing to do,
\* and no failure.
load_inf_file ==
  /\ At("load")
  /\ CASE bus[B].driver \in {"usbip", "absent"} -> Goto("refresh")
       [] bus[B].driver = "kept" -> Back
       [] OTHER -> Goto(IF hotplug THEN "unbind" ELSE "reprobe")
  /\ UNCHANGED <<env, matched, maplist, edev_list, hotplug, todo, down, failed>>

\* bConfigurationValue is written: the drivers are asked again.
Probed(b, driver) == [bus[b] EXCEPT !.driver = driver, !.used = FALSE]

\* use_device_by_other.
Reprobe ==
  /\ At("reprobe")
  /\ IF Present(B) /\ bus[B].driver # "leaving"
       THEN /\ \E driver \in Drivers(bus[B].name, B, matched) :
                 bus' = [bus EXCEPT ![B] = Probed(B, driver)]
            /\ Goto("unbind")
       ELSE Back /\ UNCHANGED bus
  /\ UNCHANGED <<matched, uevents, maplist, edev_list, hotplug, todo, down, plugs, failed, missed>>

Bound(b) == bus[b].driver \notin {"absent", "leaving", "none"}

Unbind ==
  /\ At("unbind")
  /\ IF Bound(B) THEN bus' = [bus EXCEPT ![B] = Probed(B, "none")]
                 ELSE UNCHANGED bus
  /\ IF Present(B) THEN Goto("match") ELSE Back
  /\ UNCHANGED <<matched, uevents, maplist, edev_list, hotplug, todo, down, plugs, failed, missed>>

\* When the table is full the device is left as it is.
modify_match_busid ==
  /\ At("match")
  /\ IF B \in matched \/ Cardinality(matched) < MaxMatch
       THEN matched' = matched \cup {B} /\ Goto("bind") /\ UNCHANGED failed
       ELSE failed' = failed \cup {B} /\ Back /\ UNCHANGED matched
  /\ UNCHANGED <<env, maplist, edev_list, hotplug, todo, down>>

bind_to_usbip ==
  /\ At("bind") /\ bus[B].driver = "none"
  /\ bus' = [bus EXCEPT ![B] = Probed(B, "usbip")]
  /\ Goto("refresh")
  /\ UNCHANGED <<matched, uevents, maplist, edev_list, hotplug, todo, down, plugs, failed, missed>>

\* Mutant of BindFails: the device is not given back.
BindFailsNot ==
  /\ At("bind")
  /\ failed' = failed \cup {B}
  /\ Back
  /\ UNCHANGED <<env, matched, maplist, edev_list, hotplug, todo, down>>

\* It fails: unbind again and use_device_by_other, if it is still there.
BindFails ==
  /\ At("bind")
  /\ IF Bound(B) \/ bus[B].driver = "none"
       THEN \E driver \in Drivers(bus[B].name, B, matched) :
              bus' = [bus EXCEPT ![B] = Probed(B, driver)]
       ELSE UNCHANGED bus
  /\ failed' = failed \cup {B}
  /\ Back
  /\ UNCHANGED <<matched, uevents, maplist, edev_list, hotplug, todo, down, plugs, missed>>

StatusOf(b) ==
  IF bus[b].driver # "usbip" THEN "absent"
  ELSE IF bus[b].used THEN "used" ELSE "available"

\* Mutant of Refresh: the device is taken, its entry is not made.
RefreshNoEntry ==
  /\ At("refresh")
  /\ edev_list' = [b \in BusIds |-> StatusOf(b)]
  /\ Back
  /\ UNCHANGED <<env, matched, maplist, hotplug, todo, down, failed>>

\* Mutant of Refresh: the list is made anew with the new device only.
RefreshOne ==
  /\ At("refresh")
  /\ edev_list' = [b \in BusIds |-> IF b = B THEN StatusOf(b) ELSE "absent"]
  /\ IF StatusOf(B) = "absent"
       THEN Back /\ UNCHANGED maplist
       ELSE /\ maplist' = Append(maplist, Entry(B, at.name))
            /\ at' = [at EXCEPT
                 !.i = Len(maplist) + 1,
                 !.pc = IF ~ hotplug THEN "next"
                        ELSE IF StatusOf(B) = "available" THEN "connect" ELSE "skip"]
  /\ UNCHANGED <<env, matched, hotplug, todo, down, failed>>

\* usbip_stub_refresh_device_list, and the new entry.  A new device is then
\* told to the server at once (send_one_usb_info), or by send_all_usb_info.
Refresh ==
  /\ At("refresh")
  /\ edev_list' = [b \in BusIds |-> StatusOf(b)]
  /\ IF StatusOf(B) = "absent"
       THEN Back /\ UNCHANGED maplist
       ELSE /\ maplist' = Append(maplist, Entry(B, at.name))
            /\ at' = [at EXCEPT
                 !.i = Len(maplist) + 1,
                 !.pc = IF ~ hotplug THEN "next"
                        ELSE IF StatusOf(B) = "available" THEN "connect" ELSE "skip"]
  /\ UNCHANGED <<env, matched, hotplug, todo, down, failed>>

-----------------------------------------------------------------------------
(* send_one_usb_info and the body of send_all_usb_info.                    *)

\* In the loop besend is set whether the device was told or not.
Skip ==
  /\ At("skip")
  /\ maplist' = [maplist EXCEPT ![at.i].besend = TRUE]
  /\ failed' = failed \cup {B}
  /\ Goto("wait")
  /\ UNCHANGED <<env, matched, edev_list, hotplug, todo, down>>

\* usbip_tcp_client; then recv waits for the server's header, without end.
Connect ==
  /\ At("connect")
  /\ Goto("ready")
  /\ UNCHANGED <<env, matched, maplist, edev_list, hotplug, todo, down, failed>>

\* The server is ready, usb_send_packet with its retries.
Tell ==
  /\ At("ready")
  /\ Goto("export")
  /\ UNCHANGED <<env, matched, maplist, edev_list, hotplug, todo, down, failed>>

\* No connection, or the server ends it, or the packet cannot be sent.
\* send_all_usb_info gives up the entries that are left as well.
TellFails ==
  /\ At("connect") \/ At("ready")
  /\ failed' = failed \cup {maplist[i].bus : i \in at.i .. Len(maplist)}
  /\ IF hotplug
       THEN maplist' = [maplist EXCEPT ![at.i].besend = TRUE] /\ Goto("wait")
       ELSE at' = [at EXCEPT !.pc = "sendall", !.i = Len(maplist) + 1] /\ UNCHANGED maplist
  /\ UNCHANGED <<env, matched, edev_list, hotplug, todo, down>>

\* Mutant of Export: the connection goes to the first device of the list.
ExportFirst ==
  /\ At("export")
  /\ LET b == maplist[1].bus
     IN  bus' = IF bus[b].driver = "usbip" THEN [bus EXCEPT ![b].used = TRUE] ELSE bus
  /\ maplist' = [maplist EXCEPT ![at.i].besend = TRUE]
  /\ at' = [at EXCEPT !.i = @ + 1, !.pc = IF hotplug THEN "wait" ELSE "sendall"]
  /\ UNCHANGED <<matched, uevents, edev_list, hotplug, todo, down, plugs, failed, missed>>

\* usbip_stub_export_device: its failure is not looked at.
Export ==
  /\ At("export")
  /\ bus' = IF bus[B].driver = "usbip" THEN [bus EXCEPT ![B].used = TRUE] ELSE bus
  /\ maplist' = [maplist EXCEPT ![at.i].besend = TRUE]
  /\ at' = [at EXCEPT !.i = @ + 1, !.pc = IF hotplug THEN "wait" ELSE "sendall"]
  /\ UNCHANGED <<matched, uevents, edev_list, hotplug, todo, down, plugs, failed, missed>>

-----------------------------------------------------------------------------
\* disconnect_signal_process and device_free: every entry's device is
\* unbound, and its drivers are asked again.  match_busid stays.

\* Mutant of Mapped: only devices that were told.
MappedSent == {maplist[i].bus : i \in {k \in DOMAIN maplist : maplist[k].besend}}

Mapped == {maplist[i].bus : i \in DOMAIN maplist}

disconnect_signal_process ==
  /\ down = "no" /\ (At("wait") \/ SignalRaces)
  /\ \E driver \in [Mapped -> {"own", "usbip", "kept"}] :
       /\ \A b \in Mapped : driver[b] \in Drivers(bus[b].name, b, matched)
       /\ bus' = [b \in BusIds |->
                    IF b \in Mapped /\ Present(b) /\ bus[b].driver # "leaving"
                      THEN Probed(b, driver[b]) ELSE bus[b]]
  /\ down' = "exit"
  /\ UNCHANGED <<matched, uevents, maplist, edev_list, hotplug, at, todo, plugs, failed, missed>>

Daemon ==
  \/ Scan \/ NextBusId \/ ScanDone \/ SendNext \/ Listen \/ Receive
  \/ load_inf_file \/ Reprobe \/ Unbind \/ modify_match_busid
  \/ bind_to_usbip \/ BindFails \/ Refresh
  \/ Skip \/ Connect \/ Tell \/ TellFails \/ Export

Bus == \E b \in BusIds : Plug(b) \/ Leave(b) \/ Unplug(b) \/ ServerCloses(b)

Next == down = "no" /\ (Bus \/ Daemon \/ disconnect_signal_process)

\* The daemon runs, but for where it waits for the server, and a device that
\* is pulled out goes.
Fairness ==
  /\ WF_vars(~ At("ready") /\ down = "no" /\ Daemon)
  /\ \A b \in BusIds : WF_vars(down = "no" /\ Unplug(b))

Spec == Init /\ [][Next]_vars /\ Fairness

-----------------------------------------------------------------------------
Places ==
  {"scan", "next", "sendall", "wait", "load", "reprobe", "unbind", "match", "bind",
   "refresh", "skip", "connect", "ready", "export"}

Slots == [name : Names \cup {NoName},
          driver : {"absent", "own", "kept", "none", "usbip", "leaving"},
          used : BOOLEAN]
Entries == [bus : BusIds, name : Names \cup {NoName}, besend : BOOLEAN]

TypeOK ==
  /\ bus \in [BusIds -> Slots]
  /\ matched \subseteq BusIds /\ todo \subseteq BusIds /\ failed \subseteq BusIds
  /\ missed \subseteq BusIds
  /\ uevents \in Seq(BusIds)
  /\ maplist \in Seq(Entries)
  /\ edev_list \in [BusIds -> {"absent", "available", "used"}]
  /\ hotplug \in BOOLEAN
  /\ at \in [pc : Places, b : BusIds, name : Names \cup {NoName}, i : Nat]
  /\ down \in {"no", "exit", "crash"} /\ plugs \in 0 .. MaxPlugs

\* When the daemon has looked at all that happened, each device that usbip
\* has is on its list; and the list holds it once, by its name, and no device
\* that usbip has not, but for bus ids whose device came or went unseen.
Settled ==
  /\ At("wait") /\ uevents = <<>>
  /\ \A b \in BusIds : bus[b].driver # "leaving"

MapIsTrue ==
  Settled =>
    \A b \in BusIds :
      LET Own == {i \in DOMAIN maplist : maplist[i].bus = b}
      IN  /\ bus[b].driver = "usbip" => Own # {}
          /\ b \notin missed =>
               \A i \in Own : /\ bus[b].driver = "usbip" /\ bus[b].name = maplist[i].name
                            /\ Own = {i}

\* A device is without a driver only while the daemon works on it, and after
\* the end none is left to usbip.
DriverGivenBack ==
  \A b \in BusIds :
    /\ bus[b].driver = "none" => down = "no" /\ ~ At("wait") /\ B = b
    /\ down = "exit" => bus[b].driver # "usbip"

\* Only what may be loaded is taken, unless the device was changed for
\* another while the daemon worked on it.
TakenIsListed ==
  \A b \in BusIds :
    bus[b].driver = "usbip" /\ b \notin missed
      => /\ ListFlag = "WHITELIST" => bus[b].name \in Listed
         /\ bus[b].name \notin Kept

\* The daemon uses the result of a search that failed only for an entry
\* whose device has left usbip meanwhile.
CrashIsGone ==
  down = "crash" => at.i \in DOMAIN maplist /\ bus[maplist[at.i].bus].driver # "usbip"

\* If no server keeps the daemon waiting for ever, a device on the list that
\* stays is handed to the kernel with a connection, unless binding it or
\* telling the server failed, the server ended the connection (it is then
\* not exported again), or the device came or went unseen.
PluggedIsExported ==
  []<> ~ At("ready") =>
    \A b \in BusIds :
      LET Wanted == Present(b) /\ bus[b].name \in Listed \ Kept
      IN  Wanted ~> bus[b].used \/ ~ Wanted \/ b \in failed \cup missed \/ down # "no"
=============================================================================
