# A TLA+ model of the systems in this repository

The repository is a collection. Its original system code is the work done for
Fronware: a USB/IP implementation, `C/Fronware/tcp-channel`, with two Linux
drivers (`usbip-driver/`) that carry USB requests over a TCP connection and a
userspace daemon (`tcp-usbip/`); the controller of a wall of monitors
(`C/Fronware/Monitor-controller`); a bridge between a websocket server and the
programs of a terminal (`C++/Fronware/websocketclient`); and the terminal's
updater (`Python/Fronware/system-update`). This project models all of these.
The drivers come first and go deepest: they have the most concurrency, the most
failure paths and the fewest tests. The rest of the repository is exercises from
textbooks. Paths below are relative to `src/`, those of the drivers to
`src/C/Fronware/tcp-channel/usbip-driver/`.

## 1. The system

### Components, their state, and what makes them correct

| component | state | operations | correct when |
|---|---|---|---|
| **Event thread** `usbip_eh` (`usbip_event.c`), one per port and per exported device | `ud->event` (bits SHUTDOWN, RESET, UNUSABLE, BYE) | `usbip_event_add` from any context; `event_handler` tests and clears the bits in that order, calling `eh_ops` | a reset never comes without its shutdown; an event that was raised has its effect |
| **Client port** (`vhci_hcd.c`, `vhci_rx.c`, `vhci_tx.c`, `vhci_sysfs.c`) | `ud.status`, socket, `seqnum`, lists `priv_tx`, `priv_rx`, `unlink_tx`, `unlink_rx`, two threads | enqueue, dequeue, send, receive, attach, detach, teardown, unload | a URB is given back at most once; a free port has nothing left of a former connection; teardown ends |
| **Virtual root hub** (`vhci_hub_status`, `vhci_hub_control`) | `port_status[]`, `resuming`, `re_timeout` shared by all ports | port requests of the USB core, connect and disconnect of a port | a reset lasts its time; changes are noticed |
| **Server device** (`stub_dev.c`, `stub_rx.c`, `stub_tx.c`, `stub_main.c`) | `ud.status`, socket, `priv_init`, `priv_tx`, `priv_free`, `unlink_tx`, `unlink_free`, two threads | receive commands, submit and unlink URBs, completion, send replies, `usbip_sockfd`, teardown, unbind | each command has at most one reply, and one unless the connection is lost; an available device is clean |
| **Bus id table** (`stub_main.c`), probe and disconnect (`stub_dev.c`) | `busid_table[16]`, one `stub_device` per device, shared by its interfaces | `match_busid` add, del; `stub_probe`, `stub_disconnect` | all interfaces of a device share one `stub_device`, the last one frees it |
| **Session** | the two drivers and the bytes in transit | | requests and replies correspond; each end follows the other |
| **PDU conversion** (`usbip_common.c`, the sending and receiving functions of `vhci_tx.c`, `stub_rx.c`, `stub_tx.c`, `vhci_rx.c`) | a URB at each end, the PDU between them | pack and unpack the header, byte order, isochronous descriptors, packing and padding of their data | the data arrives as it was sent; both ends agree on every length |
| **Export daemon** (`C/Fronware/tcp-channel/tcp-usbip`) | `maplist` of devices taken, `edev_list`, `match_busid`, hotplug socket; sysfs | first scan, uevents, take a device from its driver, tell the server, export, give back on SIGINT | its list is what the bus has; only listed devices are taken, all are given back |
| **Monitor-controller** (`C/Fronware/Monitor-controller`) | table of monitors with mode and pid, connections | epoll loop, requests that start (`vfork`) and stop (`kill`) viewers, SIGCHLD, SIGINT | the viewer that runs is the one its monitor names; a kill hits no other process; requests are answered |
| **websocketclient** (`C++/Fronware/websocketclient`) | the connection object, TCP sessions and their pool, the player's pid, two heart beat flags | threads that receive, beat and serve; start and end of a broadcast; SIGCHLD | no thread uses an object that is gone; a lost or silent connection is replaced |
| **system-update** (`Python/Fronware/system-update`) | installed files, stored packages, unpacked folders | make a package; find, unpack, install, clear | success means that the release is installed; what was cut off can be finished |

Not part of a system, and left aside: `C++/c++_primer`, `C++/stl`,
`C++/base_test`, `C/algorithm`, `C/huawei`, `C/network-programming`,
`Python/python3` (exercises) and the vendored cJSON.

### How they interact

*The drivers.* The USB core calls `vhci_urb_enqueue`, which numbers the request
and links a `vhci_priv` to `priv_tx`; the thread `vhci_tx` moves it to `priv_rx`
and sends CMD_SUBMIT. On the server `stub_rx` makes a `stub_priv` on `priv_init`
and submits a URB; `stub_complete`, in interrupt context, moves it to `priv_tx`;
`stub_tx` sends RET_SUBMIT. The client's `vhci_rx` finds the URB by its number
and gives it back. A dequeue sends CMD_UNLINK through `unlink_tx` and
`unlink_rx`; the server then answers with RET_UNLINK, under the number of the
unlink, *instead of* RET_SUBMIT if the URB was still in flight. Any of these
contexts raises an event when something fails, and only the event thread
reacts: it shuts the socket down, stops the two threads, cleans the lists up and
frees the port or the device. `attach` and `usbip_sockfd` look at nothing but
the status before they give the port or device a new connection.

*The daemon* reads sysfs and uevents, writes bus ids to `match_busid` and
devices to `bind` and `unbind`, opens a TCP connection for each device, tells
the server of it and passes the socket to the server driver's `usbip_sockfd`.

*Monitor-controller* is asked by its clients over TCP, in JSON. It starts
viewers with `vfork` and `exec`; a viewer that ends is noticed by SIGCHLD.

*websocketclient* passes messages of a websocket server to the last program
that said something over TCP, and that program's to the server. It starts and
kills a media player for broadcasts. All messages are base64.

*system-update* is started from outside, whenever it failed or was cut off, and
finds packages that something else downloaded.

### What is hard

* six kinds of contexts per connection, with two locks, one of which
  (`the_controller->lock`) is dropped in the middle of the cleanup;
* the event bits are cleared by an unlocked read-modify-write
  (`usbip_event.c:40`), so bits get lost;
* pointers are used after the lock that found them is released
  (`vhci_hcd.c:645`, `stub_rx.c:280`, `stub_dev.c:441`);
* two lists per direction, so a CMD_UNLINK may overtake its CMD_SUBMIT and a
  RET_UNLINK its RET_SUBMIT;
* every allocation, every send and every receive can fail half way;
* state that outlives a connection (`priv_rx`, event bits, the table entry);
* signal handlers that change the table the interrupted code works on
  (`controller.c`, `main.cpp`), and SIGCHLDs that are joined;
* a `vfork`ed child that returns into the code of its parent;
* devices that come and go between two looks of the daemon at sysfs;
* an object that one thread replaces, a second closes and others send with;
* an update cut off between any two file operations.

`PROJECT.json` lists the hazards one by one, with the properties that watch
them.

## 2. Modules

    UsbipEvent          the loop of the event thread (a mixin)
      VhciPort          one port of the client        ==> UrbCustody (its promise)
        VhciPortInv     the inductive invariant
          VhciPort_proofs
      StubDevice        one device of the server
        StubDevice_proofs
    UsbipSession        VhciPort and StubDevice (INSTANCE) with a TCP connection
      UsbipSessionInv   the inductive invariant
        UsbipSession_proofs
    VhciHub             the root hub of the client
    StubBusid           bus id table, probe and disconnect of the server
    UsbipTransfer       what one URB carries to the device and back
      DriverParts_proofs, of the three
    ExportDaemon        the daemon with the bus, sysfs and the server around it
      ExportDaemon_proofs
    MonitorController   the controller with its clients and viewers
      MonitorController_proofs
    WebsocketClient     the threads of the bridge, its sessions and the player
    Base64              the encoding of its messages
      WebsocketClient_proofs, of both
    SystemUpdate        the making and the installation of packages
      SystemUpdate_proofs

`MCxxx.tla` and `MCxxx*.cfg` instantiate them for TLC; `MCConversions` extends
`UsbipTransfer` and `Base64`, which share nothing, for one run.

Common conventions. A step is one critical section, or the code between two of
them that no other context can observe. Undefined behaviour is a choice of its
outcomes: a thread that dereferences freed memory may crash (it is then dead,
without an event) or go on. Payloads, transfer types, wording and logging are
left out where no property is about them. Definitions whose names are the
code's are the code's functions; a function with several critical sections has
one action for each, with a common prefix. Mutants, definitions that stand for
plausible bugs, say so in their comments and are used by no specification. A
constant that is a BOOLEAN and named for a situation (`AttachRaces`,
`UsbipFirst`, ...) selects whether that situation occurs; section 3 lists them.
Where the code goes wrong in a narrow window, the window is in the model and a
history variable (`caught`, `torn`, `missed`, `told`) remembers it: the property
then says that the harm is done there and nowhere else.

### UsbipEvent
`event` is `ud->event`; `eh.pc` is the place in `event_handler_loop` and
`event_handler`, `eh.ev` the value that `ud->event &= ~bit` has loaded and not
stored yet. `EhHandle`, `EhSkip`, `EhLoad`, `EhStore` are the steps of one bit.
The two drivers add the steps of their three `eh_ops`.

### VhciPort
`priv[u]` is `urb->hcpriv` with the list it is on and the number it has; the
order of a list is the order of `<<conn, seqnum>>`. `call` names the enqueue or
dequeue that holds `the_controller->lock`; whoever else takes that lock is
disabled meanwhile. `owed[u]` counts the givebacks due to the USB core.

| actions | code |
|---|---|
| `vhci_urb_enqueue`, `Enqueue...` | `vhci_urb_enqueue`, `vhci_tx_urb` with the SET_ADDRESS and GET_DESCRIPTOR cases, memory failure, and a URB whose device no longer matches |
| `vhci_urb_dequeue`, `Dequeue...` | the dequeue with and without a connection |
| `Tx...` | `vhci_tx_loop`: a list entry is moved, then sent, then the queue waits |
| `Rx...` | `vhci_rx_pdu`, RET_SUBMIT with its payload, RET_UNLINK, errors, idle time-out |
| `Eh...` | `vhci_shutdown_connection` step by step, `vhci_device_unlink_cleanup`, `vhci_device_reset`, `vhci_device_unusable` |
| `Attach...` | `store_attach`: claim, `kthread_get_run` (create and wake) apart from the assignment of the thread pointer, `rh_port_connect` |
| `Detach...`, `Stop...` | `store_detach`, `vhci_stop` |

### StubDevice
`priv_init`, `priv_tx`, `unlink_tx` are the lists; a `stub_priv` has its
command, the number its reply will carry (`seqnum`, which an unlink replaces)
and the life of its URB. `received`, `answered`, `superseded` are history
variables. `rx[c].pc` and `tx[c].pc` go through `stub_rx_pdu` and
`stub_tx_loop`; `stub_complete` may come at any moment for a URB in flight and
returns early (`quiet`) on -ENOENT and -EILSEQ. The module ends with its
inductive invariant (section 5).

### UsbipSession
Both drivers are instances with their variables prefixed `c_` and `s_`; `c2s`
and `s2c` are the PDUs in transit. Sending and receiving are joint steps of a
driver and the connection. `Disturbances` selects what ends the connection:
the network (`cut`), a detach on the client, a `-1` written on the server.
Memory failures, short payloads, unload and unbind need no peer and are left to
the modules of the drivers. `UsbipSessionInv` defines, from the PDUs in transit
and the lists of both drivers, where a number is (`OutSubmit`, `HeldUnlink`,
`BackUnlink`, ...), and with that the inductive invariant (section 5).

### UrbCustody
The promise of a port: a URB is with the USB core, in enqueue, pushed, being
returned, or lost, and moves one at a time along a few ways. `VhciPort`
implements it under the mapping `PlaceOf`. The promise admits loss because the
code has it (`vhci_hcd.c:438`, `vhci_hcd.c:451`, `vhci_rx.c:89`).

### VhciHub
`port_status[p]` is the set of bits of the word, without speed; `timer` is what
is left of `re_timeout`, `since[p]` a ghost that counts the ticks of a reset.
`GetPortStatus`, `SetPortFeature`, `ClearPortFeature` are the cases of
`vhci_hub_control`. The USB core's hub driver is external: it reads a port it
was told of, clears C_CONNECTION, and reads again; any thread may reset a port,
clear features, or read a port at any time. `ud.status` and the progress of
attach and teardown (`link`) stand for `VhciPort`. `SetAddress` is the look of
`vhci_urb_enqueue` at the status, `SetUsed` its write under a second hold of
`ud.lock`: the enqueue holds `the_controller->lock` over both (`addressing`), but
`vhci_device_reset` and `vhci_device_unusable` need only `ud.lock` and come between.
Unload, and an event that reaches a port already reset, are left out here. A `re_timeout` of 0 counts
as passed, which is so except in the 2^31 jiffies after the counter wraps.

### StubBusid
`busid_table[s]` is the entry; `sdevs[n]` the life of a `stub_device` and its
event thread; `op[d]` the probe or disconnect that runs for a device. The driver
core holds the lock of the parent device, so there is one at a time for a
device; those of different devices interleave, and `match_busid` writes come
between any two steps. The module ends with its inductive invariant (section 5).

### UsbipTransfer
One URB, from its enqueue to its giveback. `urb` and `stub` are the URBs of the
two ends, with their buffers byte by byte (a byte is who put it where); `wire`
is the PDU under way, in the byte order it has there. The six actions are the
two sends, the two receives, and the device's completion of a plain and of an
isochronous transfer. `usbip_alloc_iso_data_pdu` packs what the packets hold,
`usbip_pad_iso` spreads it again, as functions; a receiver that takes more or
fewer bytes than were sent goes `down`. `FitsBuffer` leaves out a URB that does
not fit the 1,000,000 bytes of `usbip_alloc_iso_data_pdu` (`usbip_common.c:762`):
the code does not look, and what it then overwrites is not modelled.

### ExportDaemon
`bus[b]` is what sysfs shows at a bus id; `maplist` and `edev_list` are the
lists of `plugin` and `stub_driver`; `at` the place in the daemon with the device
it works on. Devices come and go at any step, the start included. `missed` has
the bus ids whose device came or went while the daemon did not listen, had the
last uevent of that place still to read, or behind a hub, whose bus id the daemon
takes out of the uevent: then it looks at sysfs too late to see the change.

| actions | code |
|---|---|
| `Plug`, `Leave`, `Unplug`, `ServerCloses` | the USB bus with its drivers and uevents, and the server (external) |
| `Scan`, `NextBusId`, `ScanDone`, `SendNext`, `Listen` | the first look at all devices, `send_devinfo` for each, and the hotplug socket (`fusb_main.c`, `bind-driver.c`) |
| `Receive` | the uevent loop of `fusb_linux.c`: which devices are let through |
| `load_inf_file`, `Reprobe`, `Unbind`, `modify_match_busid`, `bind_to_usbip`, `BindFails` | taking a device: `can_load`, the driver it has, `unbind`, `match_busid`, `bind` (`bind-driver.c`) |
| `Refresh`, `Skip`, `Connect`, `Tell`, `TellFails`, `Export`, `Mapped` | `usbip_stub_refresh_device_list`, the connection, the wait for the server's header ("ready", without a time-out), the packet to the server, `usbip_sockfd`, the entry in `maplist` |
| `disconnect_signal_process` | the SIGINT handler: every device goes back to its driver |

### MonitorController
`monitor[n]` is the table; `proc[p]` every process ever `vfork`ed, with the
controller that is its parent; `main` the place of the loop with the request it
handles; `batch`, `ready`, `backlog`, `inbox`, `sock` are epoll and the sockets. A
`vfork`ed child whose exec fails, or that has nothing to execute
(CONNECT_BY_CAMERA), returns from `use_monitor` in the memory of its suspended
parent and goes on as the controller: `level` counts these. Signals are handled
at any step. `caught` has the viewers that were waited for between the look at
their pid and the kill (`Look`, `KillViewer`; the compiler may read the pid once or
twice, and kill(0) is `KillGroup`) or before their pid was recorded; `torn` those
during whose start the end of the former viewer freed the entry, or SIGINT came.
A pid that is killed after it was waited for is "foreign": another process's.

| actions | code |
|---|---|
| `Connect`, `Send`, `HangUp` | the clients, as in `test/controller-test.c` (external) |
| `EpollWait`, `Accept`, `Recv...`, `BatchDone` | `ev_epoll.c`: edge-triggered; the loop over a batch ends when a connection is closed |
| `Handle...`, `disconnect_monitor`, `connect_to_monitor`, `Look`, `KillViewer`, `KillGroup`, `Reply` | `vaccess_api.c` |
| `UseMonitor`, `Vfork`, `VforkFails`, `ChildExecs`, `ChildReturns`, `Record` | `monitor.c`, `process.c` |
| `sigchld_handler`, `sigint_handler`, `Exit`, `Dies` | `controller.c`; one `waitpid` for each signal |

The module ends with its inductive invariant, see section 5.

### WebsocketClient
`ws_client` is the object (null, deleted, live), `lock` its mutex, `conn` its
connection. `rx` and `hb` are the places of the two threads, `sess[s]` a TCP
session with the `io_service` that serves it, `vlc_pid` and `proc` the player.
`Rx...` is `recv_from_vaccess`: delete, connect, log in, receive; `Vlc...` the
two requests for a broadcast; `Hb...` is `heart_beat_thread`; `Session...`,
`handle_...` are `tcp_session.cpp` and its pool; `sigchld_handler` is that of
`main.cpp`, which may run at any step. `Calls` is what every use of the object has
in common: it crashes if the object is not there. `caught` has the players that
were reaped between a look at their id and the kill, or before it was recorded.
This is the build as C++11, in which `receive()` waits; for GCC the repository's
`CMakeLists.txt:127` has the flag commented out, clang gets it.

### Base64
`encode` and `decode` of `base64tools.hpp`, with the shifts of an `unsigned
char` (`cmove_bits`). A code is a sequence of sextets, the pad, and one value for
every character that is none; `decode` stops at a zero byte, as the code makes a
`std::string` of a `char *`. `Standard` is the reference definition, by bits.
`Texts` builds the texts a byte at a time, so that a run checks all of them.

### SystemUpdate
`fs` is the installed files, `stored` the downloaded packages, `tmp[k]` what is
unpacked of package k, `program` the state of `/usr/bin/system_update.py`,
`proc[p]` a process with its place. `Update(u, old, new)` is what
`create_update_package.py` puts into one update: files to put, files to delete.
It is less than what changed: what `rsync -v` lists as a link (`x -> y`, `x => y`)
goes into the else branch (120-129), and a file whose copy fails (71-73) is
missing although the package counts as made. `Find`, `Unpack...`, `NewProgram`,
`CopyProgram`, `UnlinkProgram`, `ChmodProgram`, `List`, `NextUpdate`, `Extract...`,
`Delete...`, `RemoveFolder`, `Success`, `Clear...` follow `system_update.py` one file
at a time: the program is moved by copy, unlink and chmod, as `/tmp` may be another
file system, and a dangling link is not deleted (189). `Reboot` and `Kill` may
come between any two, in tar and rm too: a reboot clears `/tmp`, a kill leaves it.
Names sort by `Rank`, since the code sorts them as strings. `Carried(f, k)` are the
files that the updates up to k can bring up to date. The module ends with the
invariant that makes SuccessMeansComplete hold (section 5).

## 3. Runs

| run | what it shows | bounds, states |
|---|---|---|
| `vhci_port` | safety, the inductive invariant, refinement of `UrbCustody`, and teardown of one port | 1 URB, 2 numbers, 2 attachments; about 113 000 |
| `vhci_hub` | resets last their time, no port in reset is enabled, each change is seen | 2 ports, one of them attached; 50 ms is 2 ticks, 20 ms is 1; about 87 000 |
| `stub_device` | replies, cleanliness, teardown of one device | 2 commands, 2 connections |
| `stub_busid` | interfaces share one `stub_device`, none is used once it is freed, the inductive invariant | 3 devices with 2 interfaces, 2 entries, 3 allocations; about 500 000 |
| `stub_busid_race` | *violation* of BoundIsFound | `DelRaces` TRUE |
| `session` | requests and replies correspond although the network may fail, and the part of the inductive invariant that is about the connection | 2 URBs (symmetric), 2 numbers; about 480 000 |
| `session_follow` | each end follows the other | 1 URB, 1 number, a detach or a `-1`; about 210 000 |
| `monitor` | viewers are owned, pids are the controller's, the shutdown ends all, requests are answered | 2 clients, 1 monitor, 2 viewers and a camera, 2 controllers, 1 hang-up, the requests other than a connect by one client each; about 530 000 |
| `export` | the list is true, devices are given back, only listed ones are taken, a failed search is for a device that has gone, a listed device is exported | 2 bus ids, one of them behind the hub at the other, 3 kinds of devices (listed, listed but kept, other), at the start any of them plugged in, 1 plug after that; about 670 000 |
| `system_update` | success means complete, an update cut off can be finished and is | 3 updates over 4 files, two of them not carried by every update, one new program, any packages stored, 2 cuts; about 286 000 |
| `websocket` | no thread uses a missing object, the player is known, the link recovers | 1 session, 2 events of the network or the server, 2 processes; about 810 000 |
| `conversions` | data and descriptors arrive, the connection ends only for a difference of lengths; base64 is the standard's and inverted by its decoding | every URB of up to 6 bytes and 3 packets; every text of up to 6 bytes over {1, 61, 128, 170, 255}; about 179 000 |

Why the bounds are enough.

* *Drivers.* One URB with two numbers has every overlap of *its* submission,
  reply, unlink, re-submission and cleanup; a second attachment brings in what
  outlives a connection. URBs meet only in the order of the lists, which
  `session` checks with two, and the theorems of section 5 hold for every number
  of URBs, numbers and attachments. Two commands are a submission and its
  unlink, or two submissions. The bus id table is smaller than the set of
  devices so that entries are reused; a third `stub_device` is one after a reuse.
* *Monitor-controller.* Monitors do not interact except through pids; two
  viewers are the one that is replaced and the one that replaces it; two clients
  are a batch with more than one event, two controllers a `vfork` that returned.
* *Daemon.* Devices interact through the order of uevents and the list, for which
  two suffice; a plug is a device that comes in the place of one that was there at
  the start, in the middle of anything.
* *system-update.* A file that changes and is once not copied, one that goes and
  comes back, one that comes and goes, and a link; three updates are one before,
  one with, and one after the new program; two cuts are a cut during the recovery
  of a cut.
* *websocketclient.* Two events are a connection that is lost while something is
  handled for it; a second process is one after the first player was reaped.
* *Conversions.* Six bytes and three packets have gaps before, between and after
  packets, and empty ones; six bytes of text are two groups, or one and every
  padding. The values are those with the first, last, no or alternate bits.

`CHECK_DEADLOCK FALSE` in every configuration: a port whose module is unloaded,
a device that is unbound, a program that has ended, and a system whose bounds
are used up may stop.

### Assumptions that runs state explicitly

Each is a constant; with the other value TLC finds the violation that section 4
lists.

* `AttachRaces`, `SockfdRaces` FALSE: a write to `attach` (or `usbip_sockfd`)
  does not overlap a round of the event thread. Nothing in the code ensures this.
  It is the scheduling in which user space attaches only after the teardown is
  over.
* `DelRaces` FALSE: no `del` comes between the two looks of `stub_probe` at the
  status.
* `SignalRaces` FALSE (daemon only): SIGINT comes while the daemon waits, not in
  the middle of an event, whose device its handler would leave without a driver.
  Monitor-controller and websocketclient have signals at any step.
* `UsbipFirst` FALSE: a device that is plugged in is offered to its own driver
  before usbip. `Longer` empty: no bus id in use is a substring of another.
  `MaxMatch` 16 as in the driver, more than there are bus ids.
* `Concurrent` FALSE: system-update is not started while it runs; the code looks
  for another process once (`system_update.py:65`). `Rank`: names sort as the
  numbers of the releases and updates do, which holds as long as these have the
  same number of digits (`system_update.py:157,207` sort strings).
* `EarlyClient` FALSE: programs connect to websocketclient after it has tried its
  first connection.
* `GapFirst` FALSE: the first isochronous packet starts at the beginning of the
  buffer.

### Fairness

*Drivers.* Threads are scheduled (weak fairness of the steps of a thread that
needs no input). Steps that take `the_controller->lock` are strongly fair in
`VhciPort`, because the kernel's ticket spinlocks serve waiters in order while
the USB core may call again and again; in `UsbipSession` weak fairness is
enough, since the bound on numbers ends those calls. A socket that was shut down
fails at once. A cancelled URB completes (the USB core guarantees it), others
need not. Nothing makes the peer answer, the USB core call, or an open socket
deliver, except in `UsbipSession`, where the connection delivers what was sent
and reports its end. In `VhciHub` the poll follows a change and the hub driver
serves what it is told of, both strongly fair because SET_ADDRESS holds the same
ticket spinlock again and again; no one has to reset or read a port.

*Monitor-controller*: the process runs, a pending SIGCHLD is delivered, and a
viewer hit by a signal ends. *Daemon*: it runs but where it waits for a server
(`fusb_linux.c:371, 475`: `recv` without a time-out), and a device that was pulled
out disappears from sysfs. A server that accepts the connection and stays silent
keeps the daemon there for ever; `PluggedIsExported` has it as a premise that this
does not happen, and is violated without it. *system-update*: the process runs on,
and someone starts it while a package waits, as its exit codes ask for, if the
program is not cut off in the middle. *websocketclient*: threads go on (weak
fairness); strong fairness of a connection that is tried again and again, which
must once be made for the link to recover, and of the receiving thread at the
mutex, which is held only for moments.

## 4. Disagreements with what the code says of itself

`stub_busid_race` is the run that keeps one: the status is read twice in
`stub_probe` (`stub_dev.c:414, 441`), and `BUG()` asserts what then fails.

The other ones have a configuration of the same modules, which is not a regular
run; each checks one property and TLC finds it violated:

| configuration | property | what happens |
|---|---|---|
| `MCVhciPortRace.cfg` | FreePortIsQuiet | an attach that overlaps the event thread (`usbip_event.c:35,40`) |
| `MCVhciPortStranded.cfg` | NoStrandedUrb | the cleanup of unsent unlinks strands the URB (`vhci_hcd.c:743,755`) |
| `MCVhciPortReply.cfg` | ReplyMatchesConnection | numbers start again on attach (`vhci_sysfs.c:219`) while `priv_rx` survives, so a reply completes a request of the former connection |
| `MCVhciPortDetach.cfg` | DetachFrees | the bits of an accepted detach fall between load and store of `ud->event &= ~bit` |
| `MCStubDeviceUnlink.cfg` | UnlinkTargetExists | `usb_unlink_urb` on a freed `stub_priv` (`stub_rx.c:269-280`) |
| `MCStubDeviceCleanup.cfg` | CleanupIsSafe | the cleanup meets a `stub_priv` without a URB (`stub_main.c:245`), or one in flight that `stub_complete` then moves again |
| `MCStubDeviceRetUnlink.cfg` | RetUnlinkIsSent | a RET_UNLINK is queued without waking `stub_tx` (`stub_rx.c:300`) |
| `MCStubDeviceRetSubmit.cfg` | RetSubmitIsSent | `stub_complete` returns on -ENOENT or -EILSEQ before its wake-up (`stub_tx.c:90`) |
| `MCVhciHubDead.cfg` | RefusesDead | "refuse enqueue for dead connection" (`vhci_hcd.c:497`): a teardown between the look at the status (498-506) and its write (542-544) is overwritten, and a free port counts as used until it is detached |
| `MCConversionsShort.cfg` | ShortArrives | "This functions restores the padding" (`usbip_common.c:853`): the server sends whole packets and the client ends the connection on their actual lengths (838) before it would |
| `MCUsbipSessionStray.cfg` | RetSubmitFindsUrb | a RET_UNLINK overtakes RET_SUBMIT (`stub_tx.c:363-371`) |
| `MCUsbipSessionNotPending.cfg` | NotPendingMeansGivenBack | CMD_UNLINK overtakes CMD_SUBMIT, and the answer is taken for a URB already given back (`vhci_rx.c:158`); submitted again while `vhci_tx` holds it, the URB is then sent twice under one number |

The rest need only another value, or another property, in the configuration of
the regular run:

| configuration | change | property | what happens |
|---|---|---|---|
| `MCMonitorController` | none | AllAnswered | the loop over a batch ends at a connection that closed, and the events after it, edge-triggered, do not come again (`ev_epoll.c:156-163`) |
| | none | EndedIsFreed | two viewers end, one SIGCHLD is left of two, `waitpid` is called once (`controller.c:27`) |
| | a connect without TargetIp (`full` FALSE) in `MCAsked` | ModeIsTrue | a request that is refused for a missing field has stored its mode (`vaccess_api.c`) |
| | none | PidIsOurs without `caught` | a viewer is waited for between the look at its monitor and the kill, or before its pid is recorded, and the pid is another's |
| | none | ViewerOwned without `torn` | a viewer is started while the end of the former is handled: its entry is FREE although it runs |
| `MCExportDaemon` | `MaxMatch = 1` | DriverGivenBack | the table is full: the device is unbound and nothing takes it |
| | `SignalRaces` TRUE | DriverGivenBack | SIGINT in the middle of taking a device leaves it without a driver |
| | none | CrashIsGone without its exception | a device goes while it is searched, and the result of the search is used |
| | none | MapIsTrue, TakenIsListed, PluggedIsExported without `missed` | a device that came or went unseen stays on the list, is taken for another, or is not exported |
| | none | PluggedIsExported without its premise | a server that accepts and stays silent |
| | `Longer <- Substring` | PluggedIsExported | a bus id that contains another is taken for it (`strstr`) |
| | `UsbipFirst` TRUE | TakenIsListed | a bus id stays in `match_busid` after its device went: the next one there is usbip's |
| `MCSystemUpdate` | `Procs = {"p", "q"}`, `Concurrent` TRUE, `MaxCuts = 0` | SuccessMeansComplete | two processes share `/tmp/system-update` |
| | none | SuccessMeansComplete without `half` | a folder that is there is taken for a whole one, also one that tar or rm was cut off in |
| | none | SuccessMeansComplete without `Pkg(p) < tried` | files of a newer release, of an update cut off, are left under an older one |
| | none | SuccessMeansComplete about all files | what packages do not carry (links, failed copies) is not installed |
| | `MCRank` with 2 before 1 | SuccessMeansComplete | updates are installed in the order of their names |
| | none | PackageInstalled without `Stuck` | a cut in the replacement of the program leaves none that can be started |
| `MCWebsocketClient` | `Asked = {}`, `MaxEvents = 1`, `MaxTold = 0`, `MaxPid = 1` | AddressUsed | a new address that arrives while the mutex is held is stored, but the connection to the old one is not closed |
| | the same, `EarlyClient` TRUE | NoCrash | a vclient's new address closes a connection through a null pointer |
| | none | NoCrash without `caught` | the pid is cleared between its test and `kill`: `kill(0, SIGKILL)` |
| | `Asked = {}`, `PoolSize = 3`, `MaxEvents = 0`, `MaxSessions = 2`, `MaxTold = 0`, `MaxPid = 1` | AllServed | the pool gives a session to an `io_service` whose thread never comes back |
| | `Asked = {"tell"}`, `MaxTold = 2`, `MaxPid = 1` | SentOnce | two writes of a session are under way and both send from the same queue |
| `MCConversions` | none | StaysConnected about IN transfers only | the server answers an isochronous OUT without its data and the client reads on (`stub_tx.c:220-236`) |
| | `GapFirst` TRUE | DataArrives | `usbip_pad_iso` does not move packet 0 (`usbip_common.c:883`, `i > 0`) |

Seen while reading, without a property: `del` of an entry that is only ADDED is
acknowledged and has no effect, and `add` of one that is REMOV is acknowledged
and lost with the disconnect (`stub_main.c:88,130`); an interface that is
unbound and bound again joins a `stub_device` whose event thread has stopped
(`stub_dev.c:505`); `vhci_urb_enqueue` gives a URB back *and* returns an error
when it could not be linked or is an invalid request to device 0
(`vhci_hcd.c:580-586`), so the USB core is told twice of its end: `VhciPort` has
only the URBs the USB core accepts to link, and `GivebackOnce` is about those; a
payload that fails loses the URB (`vhci_rx.c:89`), which `UrbCustody` admits;
-EAGAIN in the middle of a header is taken for an idle connection
(`vhci_rx.c:243`); `stub_rx` tweaks a SET_CONFIGURATION and then submits it all
the same; the speed bits of a former device stay on its port;
`ClearPortFeature` of POWER forgets the connection of an attached port; the
daemon's `usb_send_packet` goes on in the middle of a packet on a new connection
(`fusb_main.c:174`).

## 5. Proofs

`tlapm` checks, for every value of the constants:

| module | theorem | statement |
|---|---|---|
| `VhciPort_proofs` | `TypeCorrect` | `Spec => []TypeOK`, also with `AttachRaces` |
| | `Invariance` | `Spec => []Inv`, the inductive invariant |
| | `GivebackOnceHolds` | `Spec => []GivebackOnce`, given `~AttachRaces` like all below |
| | `FreePortIsQuietHolds` | `Spec => []FreePortIsQuiet` |
| | `UnloadShutsDownHolds` | `Spec => []UnloadShutsDown` |
| | `KeepsCustodyHolds` | `Spec => KeepsCustody`, the refinement |
| `UsbipSession_proofs` | `Invariance` | `Spec => []Inv`, the inductive invariant |
| | `LinkInvHolds` | `Spec => []LinkInv`, its part about the connection |
| | `TypeCorrect` | `Spec => []TypeOK` |
| | `ClientIsPort` | `Spec => Client!Spec`: the client implements `VhciPort` |
| | `RequestOnItsWayHolds` | `Spec => []RequestOnItsWay` |
| | `RepliesMatchHolds` | `Spec => []RepliesMatch` |
| | `KeepsCustodyHolds` | `Spec => Client!KeepsCustody`: it keeps the promise of `UrbCustody` |
| | `GivebackOnceHolds` | `Spec => []Client!GivebackOnce` |
| | `AvailableIsCleanHolds` | `Spec => []Server!AvailableIsClean` |
| `DriverParts_proofs` | `HubInvariance` | `HubSpec => []HubInv`, the inductive invariant |
| | `NotEnabledInResetHolds` | `HubSpec => []NotEnabledInReset` |
| | `ResetSignalledHolds` | `HubSpec => ResetSignalled`, an action property |
| | `Invariance` | `Spec => []Inv`, the inductive invariant |
| | `BoundIsFoundHolds` | `Spec => []BoundIsFound` |
| | `FreedIsUnusedHolds` | `Spec => []FreedIsUnused` |
| | `DataArrivesHolds` | `TransferSpec => []DataArrives`, given `~GapFirst` |
| | `StaysConnectedHolds` | `TransferSpec => []StaysConnected`, short packets included |
| `StubDevice_proofs` | `TypeCorrect` | `Spec => []TypeOK`, also with `SockfdRaces` |
| | `Invariance` | `Spec => []Inv`, the inductive invariant |
| | `AvailableIsCleanHolds` | `Spec => []AvailableIsClean` |
| | `ReplyAtMostOnceHolds` | `Spec => []ReplyAtMostOnce` |
| | `NoReplyLostHolds` | `Spec => []NoReplyLost` |
| `SystemUpdate_proofs` | `Invariance` | `Spec => []Inv`, the inductive invariant |
| | `SuccessMeansCompleteHolds` | `Spec => []SuccessMeansComplete` |
| | `CanBeFinishedHolds` | `Spec => []CanBeFinished` |
| `MonitorController_proofs` | `Invariance` | `Spec => []Inv`, the inductive invariant |
| | `ViewerOwnedHolds` | `Spec => []ViewerOwned` |
| | `PidIsOursHolds` | `Spec => []PidIsOurs` |
| | `ExitEndsViewersHolds` | `Spec => []ExitEndsViewers` |
| `ExportDaemon_proofs` | `TypeCorrect` | `Spec => []TypeOK`, in every situation |
| | `CrashIsGoneHolds` | `Spec => []CrashIsGone`, given `~UsbipFirst` |
| | `DriverGivenBackHolds` | `Spec => []DriverGivenBack`, given `~SignalRaces`, `~UsbipFirst`, `NoSubstring`, `TableFits` |
| | `TakenIsListedHolds` | `Spec => []TakenIsListed`, given `~UsbipFirst` |
| | `MapIsTrueHolds` | `Spec => []MapIsTrue`, given `~UsbipFirst`, `NoSubstring` |
| `WebsocketClient_proofs` | `TypeCorrect` | `Spec => []TypeOK`, in every situation |
| | `BroadcastIsKnownHolds` | `Spec => []BroadcastIsKnown` |
| | `NoCrashHolds` | `Spec => []NoCrash`, given `~EarlyClient` |
| | `RoundTripHolds` | `Texts => []RoundTrip` of `Base64`: for texts of any length |
| | `EncodesStandardHolds` | `Texts => []EncodesStandard` of `Base64`, likewise |

All but the first of the port's theorems assume `~AttachRaces` in their
statements, all but the first of the device's `~SockfdRaces`, those of the bus id
table `~DelRaces`: the code ensures none of the three. Those of system-update
assume `Alone`, which is `~Concurrent /\ NamesSorted`: no two processes run at a
time and the names of releases and updates sort as their numbers do; the code
ensures neither of these. Half folders, several stored packages and cuts at any
step are in them. Those of a transfer, of the daemon and of websocketclient
name what each needs: `NoSubstring` is that no bus id is a substring of another,
`TableFits` that `match_busid` has room for every bus id. Those of the hub and of
Monitor-controller need nothing. Section 4 shows what happens without these
conditions. The others assume only the named assumptions on the constants, which
TLC evaluates in every run.

**The port.** None of the safety invariants is inductive. `Inv` of `VhciPortInv`
has three parts, each inductive given the ones before. *TypeInv* adds what a call
that holds the lock has established. *ThreadInv* says which steps of a shutdown
are done at each place of the event thread, and, as `ShutdownFirst`, that a
pending bit other than SHUTDOWN is pending together with SHUTDOWN unless the round
is past it: this survives the lost updates, because the bits are always raised
with SHUTDOWN and a store never brings a bit back without it. *CustodyInv* has the
custody of URBs, and that a dequeue in progress and a receive thread do not both
give a URB back. Every action has a step in the proof, and under it the conjuncts
it can disturb. TLC checks `Inv` in the run `vhci_port` too. The refinement proof
maps every action to one step of `UrbCustody` or to a stutter from `Inv`.

**The device.** `ThreadInv` says the same of the server's event thread, and
shares `ShutdownFirst`, which `UsbipEvent` defines for both drivers. A device is
AVAILABLE only after `stub_device_reset`, and before that the round has stopped
both threads and cleaned the lists up: what a shutdown stopped stays stopped
until the next `usbip_sockfd`, which waits for the device to be AVAILABLE, and
nothing but the two threads puts anything on a list. So `RunningInv` names the
threads the event thread will stop, `StoppedInv` what each of its places has
stopped so far, and `SockfdInv` what the write of a socket has claimed.

*Replies.* `Replies(n)` counts where the reply numbered n may be: the three lists,
the number a thread is sending, what was answered, and what an unlink took over.
The lemmas of "Counting replies" say how one step of a list, of a queue or of a
thread changes its count, and `Carried` that a step as a whole changes the sum
only for the command it has just received. The one step that needs more is
CMD_UNLINK: it gives a `stub_priv` another number and marks its *submission* as
given up, so the number it takes away must be that of the submission.
`RenumberedInv` says why: a `stub_priv` that has another number has that of an
earlier unlink, and the client does not unlink an unlink. A new connection counts
from zero because of `StoppedInv`: nothing of the former one is left. A reply that
is dropped (`kzalloc`, `sendmsg`) raises a mask, and every mask has RESET or
UNUSABLE; `FailureInv` follows that bit through the round: the event thread, which
stores bits without the lock, may lose others, but does not sleep again before the
connection has ended. So while it sleeps and no bit is set nothing was dropped,
which is `NoReplyLost`.

**The session.** `Inv` takes from the proofs of the drivers what each keeps
whatever its peer does, `TypeInv` and `ThreadInv`, and adds the types of the
connection (`LinkTypes`) and `LinkInv`. *ClientOpenInv*, *ServerOpenInv*: as long
as the socket of a driver is open its event thread has not gone past the test of
SHUTDOWN; hence what has gone wrong stays wrong (`Fine`, once false, stays false).
*NumbersInv*: a number belongs to one request or to one cancel request.
*ServerOnce*, *OnceInv*: a cancel request is queued, in the hand of `vhci_tx`, on
its way, held by the server, or on its way back, one at a time and once; this is
what makes a RET_UNLINK arrive once. *AwaitedInv*: until the cleanup has emptied
`unlink_rx` the client waits for each of them and knows the URB's number.
*WayInv*: while nothing has gone wrong a request that the client waits for is in
the hand of `vhci_tx` or somewhere on its way, perhaps as the cancel request that
took its place. A step of one driver is summarised once by what it does to the
numbers (`ClientFlows`, `ClientWaits`, `ServerKeeps`), and each part of `LinkInv`
is proved from the summaries. TLC checks `LinkInv` in the run `session`.

What is proved of a driver alone holds in the session if the other driver is a
peer as its module expects. The device answers only numbers that the port has
given out, which is all `VhciPort` asks: this is `ClientIsPort`, and
`KeepsCustodyHolds` and `GivebackOnceHolds` follow from it. The port is *not* a
client as `StubDevice` expects: it may send a CMD_UNLINK with a number it read
from freed memory (`vhci_hcd.c:645`), and a CMD_SUBMIT twice, when a CMD_UNLINK
has overtaken it and the URB is submitted again (section 4). So of the device only
what rests on `ThreadInv` carries over, `AvailableIsCleanHolds` among it; instead
of `ReplyAtMostOnce` the session has `RepliesMatch`.

**The hub.** `NeverResumes`: no port ever has the SUSPEND bit, because
SetPortFeature of SUSPEND does nothing, so no resume is pending.
`TimeoutCovers`: what is left of the shared time-out is at least what any port
in reset has still to signal. A tick takes one from both sides, whoever starts
another reset only makes the time-out longer, and the time-out is cleared only
after it has passed. `HubInv` is the two with the types and `NotEnabledInReset`. It
says nothing of how the status and the progress of a teardown go together: with
SET_ADDRESS writing a status it looked at earlier, they do not (`RefusesDead`).

**The bus id table.** `BoundIsFound` speaks of devices at rest; it is kept only
because a probe or disconnect in the middle knows enough of the entry it looked
up. `Inv` is *TableInv* (one entry for a name, one for a `stub_device`, a free
entry is empty, an allocated `stub_device` is in the table) and, for each device,
*IdleInv*, *ProbeInv* or *DisconnectInv*: what the place of its `op` knows. A step
of one device leaves the table alone or changes only its own entry, and the
lemma `Others` carries every other device over; a lemma per action does the
device itself. An entry is found by the least number with the name; that this is
*the* entry needs well-founded induction on finite sets of numbers, once. TLC
checks `Inv` in the run `stub_busid`.

**system-update.** An update is applied to files of whatever releases a cut has
left, not to those it was made from. All is about the files that updates carry.
`Mixture`: each of them is as some release begun so far made it. `Progress`: the
updates left to install are the last ones, and each file is from a release no
older than any update already installed. The step that matters is the end of an
update u: a file it neither puts nor deletes is the same in releases u - 1 and u,
so a file that was from u - 1 is from u as well. When no update is left each file
is the package's. The rest of `Inv` says why the process has all updates at hand:
a folder that it unpacked itself, or found and `half` does not mark, has every
update of its package (`KnowsPackage`), and the stored package stays until the
files are a release's or another result was reported (`KnowsResult`). The order in
which updates are installed is that of their names, hence `NamesSorted`.

**Monitor-controller.** `ViewerOwned` speaks of a loop that waits; in the middle
of a request the new viewer runs before the table names it. `AliveOwned` excepts
that one process between the return of `vfork` and the store of its pid, and
`PlaceInv` says why the entry may then be overwritten: from `KillViewer` on, no
viewer of this monitor goes on, but one that is `torn`. A signal may free the
entry between `UseMonitor` and `Record`; `cut` remembers that, and the viewer
becomes `torn` when it is recorded. `PidsKnown` has every pid in the table name an
unreaped child of that very monitor, or one in `caught`, whatever the status of
the entry: hence two entries never have one pid, and the first entry that
`find_monitor_by_pid` finds is the right one. Steps that leave the tables alone
share the lemma `Elsewhere`; the others have a lemma each. A child that returns in
its parent's memory changes nothing in this argument, so `level` is arbitrary.

**The daemon.** The daemon works on one device at a time while the bus goes on, so
every invariant says who may be at a bus id meanwhile. *ScanInv*: until it listens
each bus id is looked at once, hence each entry of `maplist` is in the `edev_list`
of the last refresh unless its device has left usbip since, and the search in
`send_all_usb_info` finds it or fails for that reason (`CrashIsGone`). *TakenInv*
and *GivenBackInv*: what usbip has is on the list or is the device in hand before
its refresh; a device has no driver only between `Unbind` and `bind_to_usbip`. A
full table would leave it so (`TableFits`), and the removal of an entry would let
go of another one's if `strstr` found it (`NoSubstring`); a device that usbip is
offered first (`UsbipFirst`) would be taken without an entry. The handler of
SIGINT goes through `maplist`, so it gives everything back if it runs between two
events (`~SignalRaces`). *AllowedInv*: the name the daemon read is that of the
device it takes, unless another came to the place with the last uevent unread,
which puts the bus id into `missed`. *MapInv*: an entry is for a device that usbip
has, that leaves, or that is gone with its uevent still queued, or its bus id is
`missed`. The lemmas of "What the steps do" (`LoadStep`, ..., `BusStep`) summarise
each action once, and the four inductive proofs use only these.

**websocketclient.** *LinkInv*: the mutex has one holder among the two threads and
the sessions, only its holder replaces the object, and before the first connection
nobody else runs (`~EarlyClient`). So whoever passes the lock finds the object
(`Found`). *PlayerInv*: outside a request the only player is the process that
`m_vlc_pid` names, and a pid that can be killed is not yet reaped; the handler of
SIGCHLD clears the one and reaps the other in one step. When it comes between test
and `kill`, or between start and record, the player is in `caught`, and a kill of
0 or of another's process is due to one that is (`KillIsCaught`).

**Base64.** `encode` and `decode` work by groups of three bytes and four
characters. A character of a group has six bits of its bytes (`Chars`), the bytes
of a group come back from its four characters (`GroupBack`, arithmetic of each
`cmove_bits`), the number of pads tells how many bytes the last group has
(`Pads`), and no byte is zero, so that nothing is cut off. That the code is the
standard's is a matter of single bits: six times its place in the code is the
first bit of a character, and in each of the four places of a group the character
`encode` computes has the bits that the standard asks for (`CharBits`,
`SixBits`); after the last byte both have zeros, then pads (`IsStandard`). No
induction is needed: each position of the result is computed on its own.

**The transfer.** The sum of a list and the buffer on the way of `usbip_pad_iso`
are computed step by step, so induction is needed; it is done over sets of numbers
(`Induct`, a consequence of the well-foundedness of the numbers). A fold is a
function on the sets 1 .. m (`FoldExists`), and `Sums(p, s)` says that p has the
partial sums of s: then p[i - 1] is where packet i is in the data that
`usbip_alloc_iso_data_pdu` puts together (`Flat`, `AllocData`), and what
`usbip_pad_iso` counts down to when it moves packet i (`SumOfEnd`). A packet's
offset is never before that place, as packets are apart and in order (`Place`), so
a packet that is moved does not overwrite one still to move: this is `Padded`,
kept by one move (`PadStep`), hence `PadIso`: every packet comes to its place, the
first only if its place is the start of the buffer, because the loop ends before
it (`~GapFirst`). Where the function returns early nothing has to move: the
packets fill the buffer. `TransferInv` says how far the URB is: *Proper*, a URB
with packets apart and in the buffer; *Command* and *Reply*, that the wire has
what the sender packs from it (`HeaderArrives`, `PacketsArrive`: byte orders
cancel out); *Completed*, that the device changed neither the direction nor the
places, and the buffer only of an IN transfer. A short packet never makes data
arrive in the wrong place: `usbip_recv_iso` refuses the answer, because the
packets make up the data exactly if each is whole (`WholePackets`), and the
connection ends. This is `StaysConnected`: the URBs that end it are those with a
short packet and the isochronous OUT transfers (`Mismatched`), and no others. Both
theorems are about any number of packets and any sizes that fit the buffer.

**Only model-checked**: everything temporal, `RequestAnswered` included: liveness
under fairness and ENABLED are outside the prover's reach. Every invariant and
action property that a run checks has its theorem.

## 6. What is not modelled

*Drivers*: a URB that `vhci_urb_enqueue` refuses after its status check (see
section 4); the probe and removal of the platform device, its suspend and
resume, the text of `status` and `match_busid`, debug flags and dumps; the speed
bits of the hub; tweaks that `stub_rx` makes to SET_CONFIGURATION and similar
requests (they act on the device, not on the driver's state), the choice of the
pipe and the masking of transfer flags; reference counts; the command `int ` of
`match_busid`, which no program here sends. PDUs arrive whole: -EAGAIN in the
middle of a header, which the code takes for an idle connection, is left out, and
so is `send_disconnect` blocking on a full socket. `usbip_recv_iso` that fails for
want of memory is modelled by its effect, a next header that is garbage. A URB
that needs more than the 1,000,000 bytes of `usbip_alloc_iso_data_pdu` is left out.
`VhciHub` leaves out unload and an event that comes to a port already reset.

*Daemon*: options, configuration files and their lock, `insmod`, libsysfs (a
device either is in sysfs or not), interfaces, and the pieces of a packet; code
under `#if 0` and in builds without FRONVIEW.

*Monitor-controller*: parsing and printing of JSON (vendored cJSON), geometry,
requests that TCP cuts or joins. *websocketclient*: the files of
`terminal_info`, power off and reboot, the content of messages, the build that is
not C++11, and an `exec` of the player that fails (`process_manager.hpp:29-44`: the
`vfork`ed child then returns into its parent's code, as in Monitor-controller,
where it is modelled). Signal handlers of both call `printf` and loggers, which
may deadlock with the interrupted code: the handlers' own state changes are
modelled, not those of the C library. *system-update*:
directories, the log and progress messages, the check of the package's name.

*Exercises.* `C++/c++_primer`, `C++/stl`, `C++/base_test`, `C/algorithm`,
`C/huawei`, `C/network-programming` and `Python/python3` are some hundreds of
stand-alone programs from textbooks, each a page long, without state that
outlives a run or a second actor. They are about two thirds of the lines of the
repository; with cJSON they are the reason why the modules stand for only a
sixth of its lines, although they cover every system in it. A model of them
would restate them.

## 7. Plan

1. *Proofs.* `StubDevice` with a client that may send a number twice or cancel one
that never was, so that its replies too carry over to the session. 2. *The client
as a whole*: `VhciPort` and `VhciHub` composed, to discharge the hub's assumption
about attach and teardown, and platform suspend. 3. *The server as a whole*:
`StubBusid` and `StubDevice`, with a disconnect out of the event thread. 4. An
abstract promise of the daemon (a device is nobody's, its driver's or usbip's)
that `ExportDaemon` should implement.

To keep the set of runs small, a later question takes the place of one that
another run already asks.
