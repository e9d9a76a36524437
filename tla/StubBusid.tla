----------------------------- MODULE StubBusid ------------------------------
(***************************************************************************)
(* The bus id table of the USB/IP server driver (stub_main.c), and the     *)
(* probe and disconnect of the interfaces of a device (stub_dev.c), which  *)
(* share one stub_device per device.                                       *)
(*                                                                         *)
(* A write to match_busid works on the table under busid_table_lock.       *)
(* stub_probe and stub_disconnect take the lock to look the bus id up, and *)
(* then read and write the entry without it.  The driver core holds the    *)
(* lock of the parent device, so that one of them runs for a device at a   *)
(* time; those of two devices interleave, and writes to match_busid come   *)
(* between any two steps.  A step is one access to what others write: the  *)
(* name or the status of an entry.                                         *)
(*                                                                         *)
(* Left out: the command "int ", which no program of the repository sends, *)
(* the disconnect out of the event thread (pre_reset and post_reset keep   *)
(* the driver bound), reference counts, and hubs and vhci_hcd's devices,   *)
(* which stub_probe skips.                                                 *)
(***************************************************************************)
EXTENDS Integers, FiniteSets

NoName == "none"

CONSTANTS
  Devices,  \* the bus ids
  Ifaces,   \* the interfaces of each device
  MaxBusid, \* MAX_BUSID
  MaxSdev,  \* bound: the stub_devices ever allocated
  DelRaces  \* may a "del" come between the two checks of stub_probe?

ASSUME StubBusidAssumption ==
  /\ NoName \notin Devices
  /\ IsFiniteSet(Ifaces)
  /\ MaxBusid \in Nat \ {0}
  /\ MaxSdev \in Nat
  /\ DelRaces \in BOOLEAN

VARIABLES
  busid_table, \* the entries
  sdevs,       \* life of every stub_device
  intfdata,    \* the stub_device of an interface; 0 is NULL
  bound,       \* the interfaces that are bound to the driver, of each device
  op           \* the probe or disconnect that runs for a device

vars == <<busid_table, sdevs, intfdata, bound, op>>

Slots == 1 .. MaxBusid
Sdevs == 1 .. MaxSdev

BusIdPriv ==
  [name : Devices \cup {NoName},
   status : {"OTHER", "REMOV", "ADDED", "ALLOC"},
   interf_count : 0 .. Cardinality(Ifaces),
   sdev : Sdevs \cup {0},
   shutdown_busid : BOOLEAN]

\* "stopped": the event thread has ended; "lost": freed while it runs.
SdevLife == {"unused", "running", "stopped", "freed", "lost"}

IdleOp == [pc |-> "idle"]
Ops ==
  {IdleOp} \cup
  [pc : {"probe", "checked", "alloc", "one", "last", "free", "del", "bug",
         "oops"},
   iface : Ifaces, slot : Slots \cup {0}, sdev : Sdevs \cup {0}]

TypeOK ==
  /\ busid_table \in [Slots -> BusIdPriv]
  /\ sdevs \in [Sdevs -> SdevLife]
  /\ intfdata \in [Devices -> [Ifaces -> Sdevs \cup {0}]]
  /\ bound \in [Devices -> SUBSET Ifaces]
  /\ op \in [Devices -> Ops]

\* init_busid_table
EmptySlot == [name |-> NoName, status |-> "OTHER", interf_count |-> 0,
              sdev |-> 0, shutdown_busid |-> FALSE]

Init ==
  /\ busid_table = [s \in Slots |-> EmptySlot]
  /\ sdevs = [n \in Sdevs |-> "unused"]
  /\ intfdata = [d \in Devices |-> [i \in Ifaces |-> 0]]
  /\ bound = [d \in Devices |-> {}]
  /\ op = [d \in Devices |-> IdleOp]

-----------------------------------------------------------------------------
(* The table.                                                              *)

First(S) == CHOOSE n \in S : \A m \in S : n <= m

Named(d) == {s \in Slots : busid_table[s].name = d}

\* get_busid_idx; 0 when the bus id is not in the table.
Idx(d) == IF Named(d) = {} THEN 0 ELSE First(Named(d))

\* A bus id that is in the table stays as it is; a full table takes no other.
add_match_busid(d) ==
  /\ Named(d) = {} /\ Named(NoName) # {}
  /\ LET s == First(Named(NoName))
     IN  busid_table' =
           [busid_table EXCEPT
              ![s].name = d,
              ![s].status = IF @ \in {"ALLOC", "REMOV"} THEN @ ELSE "ADDED"]
  /\ UNCHANGED <<sdevs, intfdata, bound, op>>

\* Mutant of Deleted: whatever the status, the entry is released.
DeletedAlways(d) ==
  IF Idx(d) = 0 THEN busid_table
  ELSE [busid_table EXCEPT ![Idx(d)].name = NoName]

\* The table after del_match_busid: only an entry without a device is
\* released, and an entry that is only ADDED stays as it is.
Deleted(d) ==
  LET s == Idx(d)
  IN  CASE s = 0 -> busid_table
        [] s # 0 /\ busid_table[s].status = "ADDED" -> busid_table
        [] s # 0 /\ busid_table[s].status = "OTHER" ->
             [busid_table EXCEPT ![s].name = NoName]
        [] OTHER -> [busid_table EXCEPT ![s].status = "REMOV"]

\* A "del" from user space.
del_match_busid(d) ==
  /\ DelRaces \/ op[d].pc # "checked"
  /\ busid_table' = Deleted(d)
  /\ UNCHANGED <<sdevs, intfdata, bound, op>>

-----------------------------------------------------------------------------
(* stub_probe.                                                             *)

\* get_busid_priv; a bus id that is not in the table is skipped.
ProbeBegin(d, i) ==
  /\ op[d] = IdleOp /\ i \notin bound[d]
  /\ Idx(d) # 0
  /\ op' = [op EXCEPT ![d] = [pc |-> "probe", iface |-> i, slot |-> Idx(d),
                              sdev |-> 0]]
  /\ UNCHANGED <<busid_table, sdevs, intfdata, bound>>

Entry(d) == busid_table[op[d].slot]

\* "check we should claim or not by busid_table"
ProbeCheck(d) ==
  /\ op[d].pc = "probe"
  /\ op' = [op EXCEPT ![d] = IF Entry(d).status \in {"REMOV", "OTHER"}
                             THEN IdleOp ELSE [@ EXCEPT !.pc = "checked"]]
  /\ UNCHANGED <<busid_table, sdevs, intfdata, bound>>

\* An interface of a device that has a stub_device already.
ProbeJoin(d) ==
  /\ op[d].pc = "checked" /\ Entry(d).status = "ALLOC"
  /\ op' = [op EXCEPT ![d] = IdleOp]
  /\ \/ Entry(d).sdev # 0 \* and stub_add_files succeeds
        /\ busid_table' =
             [busid_table EXCEPT ![op[d].slot].interf_count = @ + 1]
        /\ intfdata' = [intfdata EXCEPT ![d][op[d].iface] = Entry(d).sdev]
        /\ bound' = [bound EXCEPT ![d] = @ \cup {op[d].iface}]
     \/ UNCHANGED <<busid_table, intfdata, bound>>
  /\ UNCHANGED sdevs

\* The first one: stub_device_alloc starts the event thread.
AllocSdev(d, down) ==
  /\ op[d].pc = "checked" /\ Entry(d).status # "ALLOC"
  /\ LET new == {n \in Sdevs : sdevs[n] = "unused"}
     IN  /\ new # {}
         /\ sdevs' = [sdevs EXCEPT ![First(new)] = "running"]
         /\ intfdata' = [intfdata EXCEPT ![d][op[d].iface] = First(new)]
         /\ busid_table' =
              [busid_table EXCEPT ![op[d].slot].interf_count = 1,
                                  ![op[d].slot].sdev = First(new),
                                  ![op[d].slot].shutdown_busid = down]
         /\ op' = [op EXCEPT ![d].pc = "alloc"]
  /\ UNCHANGED bound

\* Mutant of ProbeAlloc: the entry of a former device stays shut down.
ProbeAllocDown(d) == AllocSdev(d, Entry(d).shutdown_busid)

ProbeAlloc(d) == AllocSdev(d, FALSE)

ProbeNoMemory(d) ==
  /\ op[d].pc = "checked" /\ Entry(d).status # "ALLOC"
  /\ op' = [op EXCEPT ![d] = IdleOp]
  /\ UNCHANGED <<busid_table, sdevs, intfdata, bound>>

\* stub_add_files has succeeded,
ProbeDone(d) ==
  /\ op[d].pc = "alloc"
  /\ busid_table' = [busid_table EXCEPT ![op[d].slot].status = "ALLOC"]
  /\ bound' = [bound EXCEPT ![d] = @ \cup {op[d].iface}]
  /\ op' = [op EXCEPT ![d] = IdleOp]
  /\ UNCHANGED <<sdevs, intfdata>>

\* or it has failed: the event thread is stopped and the stub_device freed.
ProbeUndo(d) ==
  /\ op[d].pc = "alloc"
  /\ sdevs' = [sdevs EXCEPT ![intfdata[d][op[d].iface]] = "freed"]
  /\ intfdata' = [intfdata EXCEPT ![d][op[d].iface] = 0]
  /\ busid_table' = [busid_table EXCEPT ![op[d].slot].interf_count = 0,
                                         ![op[d].slot].sdev = 0]
  /\ op' = [op EXCEPT ![d] = IdleOp]
  /\ UNCHANGED bound

-----------------------------------------------------------------------------
(* stub_disconnect.                                                        *)

\* The stub_devices once shutdown_busid has stopped the event thread of the
\* one that entry s names, unless it did so before.
ShutDown(s) ==
  LET n == busid_table[s].sdev
  IN  IF n = 0 \/ busid_table[s].shutdown_busid THEN sdevs
      ELSE [sdevs EXCEPT ![n] = "stopped"]

Ends(d) ==
  /\ bound' = [bound EXCEPT ![d] = @ \ {op[d].iface}]
  /\ op' = [op EXCEPT ![d] = IdleOp]

\* Mutant of Way: the count decides one interface too early.
WayEarly(s) ==
  CASE s = 0 -> "bug"
    [] s # 0 /\ busid_table[s].sdev = 0 -> "oops"
    [] s # 0 /\ busid_table[s].sdev # 0 /\ busid_table[s].interf_count > 2
         -> "one"
    [] OTHER -> "last"

\* What stub_disconnect is about to do, as the entry has it: BUG() without
\* an entry, "oops" for busid_priv->sdev->ud.eh of NULL.  Both end the thread
\* with the lock of the device held.
Way(s) ==
  CASE s = 0 -> "bug"
    [] s # 0 /\ busid_table[s].sdev = 0 -> "oops"
    [] s # 0 /\ busid_table[s].sdev # 0 /\ busid_table[s].interf_count > 1
         -> "one"
    [] OTHER -> "last"

\* get_busid_priv, and usb_set_intfdata(interface, NULL) of an interface that
\* has a stub_device, as every bound one does.
DisconnectBegin(d, i) ==
  /\ op[d] = IdleOp /\ i \in bound[d]
  /\ op' = [op EXCEPT ![d] = [pc |-> Way(Idx(d)), iface |-> i,
                              slot |-> Idx(d), sdev |-> intfdata[d][i]]]
  /\ intfdata' = [intfdata EXCEPT ![d][i] = 0]
  /\ UNCHANGED <<busid_table, sdevs, bound>>

\* Another interface is left bound.
DisconnectOne(d) ==
  /\ op[d].pc = "one"
  /\ sdevs' = ShutDown(op[d].slot)
  /\ busid_table' = [busid_table EXCEPT ![op[d].slot].interf_count = @ - 1,
                                         ![op[d].slot].shutdown_busid = TRUE]
  /\ Ends(d)
  /\ UNCHANGED intfdata

\* None is left.
DisconnectLast(d) ==
  /\ op[d].pc = "last"
  /\ sdevs' = ShutDown(op[d].slot)
  /\ busid_table' = [busid_table EXCEPT ![op[d].slot].interf_count = 0,
                                         ![op[d].slot].shutdown_busid = TRUE]
  /\ op' = [op EXCEPT ![d].pc = "free"]
  /\ UNCHANGED <<intfdata, bound>>

Freed(n) ==
  [sdevs EXCEPT ![n] = IF @ = "running" THEN "lost" ELSE "freed"]

\* stub_device_free of the stub_device of the interface, and the status.
DisconnectFree(d) ==
  /\ op[d].pc = "free"
  /\ sdevs' = Freed(op[d].sdev)
  /\ busid_table' = [busid_table EXCEPT ![op[d].slot].sdev = 0,
                                         ![op[d].slot].status = "OTHER"]
  /\ op' = [op EXCEPT ![d].pc = "del"]
  /\ UNCHANGED <<intfdata, bound>>

\* The driver's own del_match_busid.
DisconnectDel(d) ==
  /\ op[d].pc = "del"
  /\ busid_table' = Deleted(d)
  /\ Ends(d)
  /\ UNCHANGED <<sdevs, intfdata>>

Next ==
  \E d \in Devices :
    \/ add_match_busid(d) \/ del_match_busid(d)
    \/ ProbeCheck(d) \/ ProbeJoin(d) \/ ProbeAlloc(d) \/ ProbeNoMemory(d)
    \/ ProbeDone(d) \/ ProbeUndo(d)
    \/ DisconnectOne(d) \/ DisconnectLast(d)
    \/ DisconnectFree(d) \/ DisconnectDel(d)
    \/ \E i \in Ifaces : ProbeBegin(d, i) \/ DisconnectBegin(d, i)

Spec == Init /\ [][Next]_vars

-----------------------------------------------------------------------------
(* Properties.                                                             *)

\* stub_disconnect relies on it (BUG()): whatever is added and deleted while
\* the device is bound, its bus id is found, and the entry names the one
\* stub_device that all its bound interfaces share.
BoundIsFound ==
  \A d \in Devices : \A i \in bound[d] :
    op[d] = IdleOp =>
      /\ Idx(d) # 0
      /\ busid_table[Idx(d)].sdev = intfdata[d][i]
      /\ sdevs[intfdata[d][i]] \in {"running", "stopped"}

\* No stub_device is freed while its event thread runs or while an entry or
\* an interface refers to it.
FreedIsUnused ==
  \A n \in Sdevs :
    /\ sdevs[n] # "lost"
    /\ sdevs[n] = "freed" =>
         /\ \A s \in Slots : busid_table[s].sdev # n
         /\ \A d \in Devices, i \in Ifaces : intfdata[d][i] # n

-----------------------------------------------------------------------------
(* Why they hold as long as no "del" comes between the two checks of       *)
(* stub_probe: the inductive invariant of HubBusid_proofs.                 *)

\* A free entry has nothing of a device, no two entries have the same name or
\* the same stub_device, and the event thread of one that an entry names runs
\* until shutdown_busid.
TableInv ==
  /\ \A s \in Slots :
       /\ busid_table[s].name = NoName
            => busid_table[s].sdev = 0 /\ busid_table[s].status = "OTHER"
       /\ busid_table[s].sdev # 0
            => sdevs[busid_table[s].sdev]
                 = IF busid_table[s].shutdown_busid THEN "stopped" ELSE "running"
  /\ \A s, t \in Slots :
       /\ busid_table[s].name = busid_table[t].name
            => s = t \/ busid_table[s].name = NoName
       /\ busid_table[s].sdev = busid_table[t].sdev
            => s = t \/ busid_table[s].sdev = 0

\* The interfaces in S refer to the stub_device of entry s, the others to none.
Refer(d, s, S) ==
  \A i \in Ifaces : intfdata[d][i] = IF i \in S THEN busid_table[s].sdev ELSE 0

\* Entry s is that of d, which has a stub_device.
Owns(d, s, statuses) ==
  /\ s \in Slots
  /\ busid_table[s].name = d /\ busid_table[s].sdev # 0
  /\ busid_table[s].status \in statuses

Counts(d, s) == busid_table[s].interf_count = Cardinality(bound[d])

\* Nothing of d is left, its entry, if it has one, is of the statuses.
Bare(d, statuses) ==
  /\ \A i \in Ifaces : intfdata[d][i] = 0
  /\ \A s \in Slots : busid_table[s].name = d
                        => busid_table[s].sdev = 0 /\ busid_table[s].status \in statuses

\* What is so at each place of a probe or disconnect.
IdleInv(d) ==
  op[d].pc \in {"idle", "probe", "checked"} =>
    /\ bound[d] = {} => Bare(d, {"ADDED"})
    /\ bound[d] # {} => \E s \in Slots : /\ Owns(d, s, {"ALLOC", "REMOV"})
                                         /\ Counts(d, s) /\ Refer(d, s, bound[d])

ProbeInv(d) ==
  /\ op[d].pc \in {"probe", "checked"} =>
       /\ op[d].slot \in Slots /\ Entry(d).name = d
       /\ op[d].iface \notin bound[d]
  /\ op[d].pc = "checked" => Entry(d).status \in {"ADDED", "ALLOC"}
  /\ op[d].pc = "alloc" =>
       /\ bound[d] = {}
       /\ Owns(d, op[d].slot, {"ADDED"}) /\ Entry(d).interf_count = 1
       /\ Refer(d, op[d].slot, {op[d].iface})

DisconnectInv(d) ==
  /\ op[d].pc \in {"one", "last", "free"} =>
       /\ Owns(d, op[d].slot, {"ALLOC", "REMOV"})
       /\ op[d].iface \in bound[d] /\ op[d].sdev = Entry(d).sdev
       /\ Refer(d, op[d].slot, bound[d] \ {op[d].iface})
  /\ op[d].pc = "one" => Counts(d, op[d].slot) /\ Entry(d).interf_count > 1
  /\ op[d].pc \in {"last", "free", "del"} => bound[d] = {op[d].iface}
  /\ op[d].pc = "free" => Entry(d).shutdown_busid
  /\ op[d].pc = "del" => Bare(d, {"OTHER", "ADDED"})
  /\ op[d].pc \notin {"bug", "oops"}

DeviceInv(d) == IdleInv(d) /\ ProbeInv(d) /\ DisconnectInv(d)

\* The inductive invariant: types, the table, and every device.
Inv == TypeOK /\ TableInv /\ \A d \in Devices : DeviceInv(d)
=============================================================================
