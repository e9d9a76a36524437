------------------------- MODULE DriverParts_proofs -------------------------
(***************************************************************************)
(* Proofs about what stands around the ports and the devices.              *)
(*                                                                         *)
(* First the bus id table of the server driver, for any number of devices, *)
(* interfaces, entries and stub_devices, provided that no "del" comes      *)
(* between the two checks of stub_probe (the run stub_busid_race shows     *)
(* what happens if one does).  Inv is inductive.  All steps but those of   *)
(* two devices are alike: a step of d leaves the table alone (SameTable)   *)
(* or changes the entry of d alone (OwnEntry), and the other devices keep  *)
(* what they had (Others).  A lemma per action then shows what it makes    *)
(* of d.                                                                   *)
(*                                                                         *)
(* Then the root hub of the client driver, for every set of ports, every   *)
(* time-out and every set of requests: it keeps its types, never enables a *)
(* port in reset and lets no reset end too early.                          *)
(*                                                                         *)
(* Then what one URB carries over the connection, for every list of URBs   *)
(* that drivers submit.  The sums of lists of lengths say where each       *)
(* packet is in the data that usbip_alloc_iso_data_pdu puts together       *)
(* (AllocData) and where usbip_pad_iso takes it (PadIso); TransferInv says *)
(* how far the URB is and is inductive.                                    *)
(***************************************************************************)
EXTENDS StubBusid, VhciHub, UsbipTransfer, FiniteSetTheorems, NaturalsInduction,
        SequenceTheorems, WellFoundedInduction, TLAPS

\* A finite set of numbers has a least element, which First finds,
LEMMA FirstIsMember ==
  ASSUME NEW S \in SUBSET Nat, IsFiniteSet(S), S # {}
  PROVE  First(S) \in S
<1> DEFINE Below(x) == {y \in S : y <= x}
           T == {Below(x) : x \in S}
<1>1. T \subseteq FiniteSubsetsOf(S)
  BY FS_FiniteSubsetsOfFinite
<1>2. PICK x \in S : \A B \in T : ~ (<<B, Below(x)>> \in StrictSubsetOrdering(S))
  <2>1. T # {}
    OBVIOUS
  <2>2. \E A \in T : \A B \in T : ~ (<<B, A>> \in StrictSubsetOrdering(S))
    BY <1>1, <2>1, FS_StrictSubsetOrderingWellFounded, WFMin, Zenon
  <2>. QED  BY <2>2
<1>3. \A y \in S : x <= y
  <2>1. SUFFICES ASSUME NEW y \in S, y < x PROVE FALSE
    OBVIOUS
  <2>2. Below(y) \subseteq Below(x)
    <3>1. \A z \in Nat : z <= y => z <= x
      BY <2>1
    <3>. QED  BY <3>1
  <2>3. x \in Below(x) /\ x \notin Below(y)
    BY <2>1
  <2>4. <<Below(y), Below(x)>> \in StrictSubsetOrdering(S)
    BY <2>2, <2>3 DEF StrictSubsetOrdering
  <2>. QED  BY <1>2, <2>4
<1>. QED  BY <1>3 DEF First

\* so that it finds one of a set of entries,
LEMMA FirstSlot ==
  ASSUME NEW S \in SUBSET Slots, S # {}
  PROVE  First(S) \in S
<1>1. IsFiniteSet(Slots) /\ Slots \subseteq Nat
  BY FS_Interval, StubBusidAssumption DEF Slots
<1>2. IsFiniteSet(S)
  BY <1>1, FS_Subset
<1>. QED  BY <1>1, <1>2, FirstIsMember

\* or of stub_devices.
LEMMA FirstSdev ==
  ASSUME NEW S \in SUBSET Sdevs, S # {}
  PROVE  First(S) \in S
<1>1. IsFiniteSet(Sdevs) /\ Sdevs \subseteq Nat
  BY FS_Interval, StubBusidAssumption DEF Sdevs
<1>2. IsFiniteSet(S)
  BY <1>1, FS_Subset
<1>. QED  BY <1>1, <1>2, FirstIsMember

\* get_busid_idx finds the one entry with the name.
LEMMA IdxIsNamed ==
  ASSUME TableInv, NEW d \in Devices
  PROVE  /\ Idx(d) # 0 => Idx(d) \in Slots /\ busid_table[Idx(d)].name = d
         /\ \A s \in Slots : busid_table[s].name = d => Idx(d) = s
<1>1. Idx(d) # 0 => Idx(d) \in Slots /\ busid_table[Idx(d)].name = d
  BY FirstSlot DEF Idx, Named
<1>2. ASSUME NEW s \in Slots, busid_table[s].name = d
      PROVE  Idx(d) = s
  <2>1. Named(d) # {} /\ 0 \notin Slots
    BY <1>2 DEF Named, Slots
  <2>2. Idx(d) \in Slots /\ busid_table[Idx(d)].name = d
    BY <2>1, FirstSlot DEF Idx, Named
  <2>. QED  BY <1>2, <2>2, StubBusidAssumption DEF TableInv
<1>. QED  BY <1>1, <1>2

\* The empty table.
LEMMA InitInv == Init => Inv
<1> SUFFICES ASSUME Init PROVE Inv
  OBVIOUS
<1>1. EmptySlot \in BusIdPriv
  <2>1. 0 \in 0 .. Cardinality(Ifaces)
    BY FS_CardinalityType, StubBusidAssumption
  <2>. QED  BY <2>1 DEF EmptySlot, BusIdPriv
<1>2. TypeOK
  BY <1>1 DEF Init, TypeOK, SdevLife, Ops
<1>3. TableInv
  BY DEF Init, TableInv, EmptySlot
<1>4. ASSUME NEW d \in Devices PROVE DeviceInv(d)
  BY StubBusidAssumption DEF Init, DeviceInv, IdleInv, ProbeInv, DisconnectInv, Bare, IdleOp, EmptySlot
<1>. QED  BY <1>2, <1>3, <1>4 DEF Inv

\* A device keeps what it has through a step that leaves its entry, its
\* interfaces and its probe or disconnect alone.
LEMMA Others ==
  ASSUME NEW e \in Devices, DeviceInv(e),
         \A s \in Slots : busid_table[s].name = e \/ busid_table'[s].name = e
                            => busid_table'[s] = busid_table[s],
         op'[e] = op[e], bound'[e] = bound[e], intfdata'[e] = intfdata[e]
  PROVE  DeviceInv(e)'
<1>1. ASSUME NEW st PROVE Bare(e, st) => Bare(e, st)'
  BY DEF Bare
<1>2. ASSUME NEW s \in Slots, NEW st
      PROVE  Owns(e, s, st) => Owns(e, s, st)' /\ busid_table'[s] = busid_table[s]
  BY DEF Owns
<1>3. ASSUME NEW s \in Slots, NEW S, busid_table'[s] = busid_table[s]
      PROVE  Refer(e, s, S) => Refer(e, s, S)'
  BY <1>3 DEF Refer
<1>4. IdleInv(e)'
  <2>1. ASSUME op[e].pc \in {"idle", "probe", "checked"}, bound[e] # {}
        PROVE  (\E s \in Slots : /\ Owns(e, s, {"ALLOC", "REMOV"})
                                 /\ Counts(e, s) /\ Refer(e, s, bound[e]))'
    <3>1. PICK s \in Slots : /\ Owns(e, s, {"ALLOC", "REMOV"})
                             /\ Counts(e, s) /\ Refer(e, s, bound[e])
      BY <2>1 DEF DeviceInv, IdleInv
    <3>2. busid_table'[s] = busid_table[s] /\ Owns(e, s, {"ALLOC", "REMOV"})'
      BY <3>1, <1>2
    <3>3. Counts(e, s)' /\ Refer(e, s, bound[e])'
      BY <3>1, <3>2, <1>3 DEF Counts
    <3>. QED  BY <3>2, <3>3
  <2>. QED  BY <2>1, <1>1 DEF DeviceInv, IdleInv
<1>5. ProbeInv(e)'
  <2>1. Entry(e)' = busid_table'[op[e].slot]
    BY DEF Entry
  <2>2. ASSUME op[e].pc \in {"probe", "checked"}
        PROVE  op[e].slot \in Slots /\ Entry(e).name = e /\ Entry(e)' = Entry(e)
    BY <2>1, <2>2 DEF DeviceInv, ProbeInv, Entry
  <2>3. ASSUME op[e].pc = "alloc"
        PROVE  /\ Owns(e, op[e].slot, {"ADDED"})' /\ Refer(e, op[e].slot, {op[e].iface})'
               /\ Entry(e)' = Entry(e)
    <3>1. Owns(e, op[e].slot, {"ADDED"}) /\ op[e].slot \in Slots
      BY <2>3 DEF DeviceInv, ProbeInv, Owns
    <3>2. Owns(e, op[e].slot, {"ADDED"})' /\ Entry(e)' = Entry(e)
      BY <2>1, <3>1 DEF Owns, Entry
    <3>3. Refer(e, op[e].slot, {op[e].iface})'
      BY <2>3, <3>1, <3>2, <2>1 DEF DeviceInv, ProbeInv, Refer, Entry
    <3>. QED  BY <3>2, <3>3
  <2>. QED  BY <2>2, <2>3 DEF DeviceInv, ProbeInv
<1>6. DisconnectInv(e)'
  <2>1. Entry(e)' = busid_table'[op[e].slot]
    BY DEF Entry
  <2>2. ASSUME op[e].pc \in {"one", "last", "free"}
        PROVE  /\ Owns(e, op[e].slot, {"ALLOC", "REMOV"})' /\ Entry(e)' = Entry(e)
               /\ Refer(e, op[e].slot, bound[e] \ {op[e].iface})'
               /\ Counts(e, op[e].slot)' = Counts(e, op[e].slot)
    <3>1. Owns(e, op[e].slot, {"ALLOC", "REMOV"}) /\ op[e].slot \in Slots
      BY <2>2 DEF DeviceInv, DisconnectInv, Owns
    <3>2. Owns(e, op[e].slot, {"ALLOC", "REMOV"})' /\ Entry(e)' = Entry(e)
      BY <2>1, <3>1 DEF Owns, Entry
    <3>3. Refer(e, op[e].slot, bound[e] \ {op[e].iface})'
      BY <2>2, <3>1, <3>2, <2>1 DEF DeviceInv, DisconnectInv, Refer, Entry
    <3>4. Counts(e, op[e].slot)' = Counts(e, op[e].slot)
      BY <2>1, <3>2 DEF Counts, Entry
    <3>. QED  BY <3>2, <3>3, <3>4
  <2>. QED  BY <2>2, <1>1 DEF DeviceInv, DisconnectInv
<1>. QED  BY <1>4, <1>5, <1>6 DEF DeviceInv

\* The table stays in order when entry s becomes r.
LEMMA EntryChanges ==
  ASSUME TypeOK, TableInv, NEW s \in Slots, NEW r \in BusIdPriv,
         busid_table' = [busid_table EXCEPT ![s] = r],
         r.name = NoName => r.sdev = 0 /\ r.status = "OTHER",
         r.sdev # 0 => sdevs'[r.sdev] = IF r.shutdown_busid THEN "stopped" ELSE "running",
         \A t \in Slots \ {s} :
           /\ busid_table[t].name = r.name => r.name = NoName
           /\ busid_table[t].sdev = r.sdev => r.sdev = 0
           /\ busid_table[t].sdev # 0 => sdevs'[busid_table[t].sdev] = sdevs[busid_table[t].sdev]
  PROVE  TableInv'
<1>1. \A t \in Slots : busid_table'[t] = IF t = s THEN r ELSE busid_table[t]
  BY DEF TypeOK
<1>. QED  BY <1>1 DEF TableInv

\* What is bound of a device can be counted.
LEMMA Counted ==
  ASSUME NEW S \in SUBSET Ifaces
  PROVE  /\ IsFiniteSet(S) /\ Cardinality(S) \in 0 .. Cardinality(Ifaces)
         /\ Cardinality(Ifaces) \in Nat
<1>1. IsFiniteSet(S) /\ Cardinality(S) <= Cardinality(Ifaces)
  BY FS_Subset, StubBusidAssumption
<1>2. Cardinality(S) \in Nat /\ Cardinality(Ifaces) \in Nat
  BY <1>1, FS_CardinalityType, StubBusidAssumption
<1>. QED  BY <1>1, <1>2

\* A new entry is of a device of which nothing is bound.
LEMMA AddStep ==
  ASSUME Inv, NEW d \in Devices, add_match_busid(d)
  PROVE  Inv'
<1> DEFINE s == First(Named(NoName))
           r == [busid_table[s] EXCEPT !.name = d, !.status = "ADDED"]
<1>1. s \in Slots /\ busid_table[s].name = NoName
  BY FirstSlot DEF add_match_busid, Named
<1>2. /\ busid_table[s] \in BusIdPriv
      /\ busid_table[s].sdev = 0 /\ busid_table[s].status = "OTHER"
  BY <1>1 DEF Inv, TypeOK, TableInv
<1>3. /\ busid_table' = [busid_table EXCEPT ![s] = r]
      /\ UNCHANGED <<sdevs, intfdata, bound, op>>
  <2>1. busid_table' =
          [busid_table EXCEPT ![s].name = d,
             ![s].status = IF @ \in {"ALLOC", "REMOV"} THEN @ ELSE "ADDED"]
    BY DEF add_match_busid
  <2>. HIDE DEF s
  <2>2. busid_table' = [busid_table EXCEPT ![s] = r]
    BY <1>1, <1>2, <2>1 DEF Inv, TypeOK, BusIdPriv
  <2>. QED  BY <2>2 DEF add_match_busid
<1>4. r \in BusIdPriv /\ r.name = d /\ r.sdev = 0 /\ r.status = "ADDED"
  BY <1>2 DEF BusIdPriv
<1>5. \A t \in Slots : busid_table[t].name # d
  BY DEF add_match_busid, Named
<1>6. TypeOK'
  BY <1>1, <1>3, <1>4 DEF Inv, TypeOK
<1>7. TableInv'
  <2>. HIDE DEF s, r
  <2>. QED  BY <1>1, <1>3, <1>4, <1>5, EntryChanges, StubBusidAssumption DEF Inv
<1>8. \A t \in Slots : busid_table'[t] = IF t = s THEN r ELSE busid_table[t]
  BY <1>1, <1>3 DEF Inv, TypeOK
<1>9. ASSUME NEW e \in Devices, e # d PROVE DeviceInv(e)'
  <2>. HIDE DEF s, r
  <2>1. busid_table[s].name # e /\ r.name # e
    BY <1>1, <1>4, <1>9, StubBusidAssumption
  <2>. QED  BY <1>3, <1>8, <2>1, Others DEF Inv
<1>10. DeviceInv(d)'
  <2>. HIDE DEF s, r
  <2>1. ~ Owns(d, op[d].slot, {"ALLOC", "REMOV"}) /\ ~ Owns(d, op[d].slot, {"ADDED"})
    BY <1>5 DEF Owns
  <2>2. op[d].pc \in {"idle", "probe", "checked"} => bound[d] = {} /\ op[d].pc = "idle"
    BY <1>5, ZenonT(30) DEF Inv, DeviceInv, IdleInv, ProbeInv, Owns, Entry
  <2>3. ASSUME NEW st, "ADDED" \in st, Bare(d, st) PROVE Bare(d, st)'
    BY <1>3, <1>4, <1>8, <2>3 DEF Bare
  <2>4. op[d].pc \notin {"alloc", "one", "last", "free", "probe", "checked"}
    BY <2>1, <2>2 DEF Inv, DeviceInv, ProbeInv, DisconnectInv
  <2>. QED  BY <1>3, <2>2, <2>3, <2>4
            DEF Inv, DeviceInv, IdleInv, ProbeInv, DisconnectInv
<1>. QED  BY <1>6, <1>7, <1>9, <1>10 DEF Inv

\* What entry s of d is, by the place of the probe or disconnect of d.
LEMMA EntryAt ==
  ASSUME Inv, NEW d \in Devices, NEW s \in Slots, busid_table[s].name = d
  PROVE  /\ op[d].pc \in {"idle", "probe", "checked"} /\ bound[d] = {}
              => Bare(d, {"ADDED"}) /\ busid_table[s].status = "ADDED" /\ busid_table[s].sdev = 0
         /\ op[d].pc \in {"idle", "probe", "checked"} /\ bound[d] # {}
              => Owns(d, s, {"ALLOC", "REMOV"}) /\ Counts(d, s) /\ Refer(d, s, bound[d])
         /\ op[d].pc \in {"probe", "checked", "alloc", "one", "last", "free"} => op[d].slot = s
<1>1. \A t \in Slots : busid_table[t].name = d => t = s
  BY StubBusidAssumption DEF Inv, TableInv
<1>2. DeviceInv(d)
  BY DEF Inv
<1>3. ASSUME op[d].pc \in {"idle", "probe", "checked"}, bound[d] = {}
      PROVE  Bare(d, {"ADDED"}) /\ busid_table[s].status = "ADDED" /\ busid_table[s].sdev = 0
  BY <1>2, <1>3 DEF DeviceInv, IdleInv, Bare
<1>4. ASSUME op[d].pc \in {"idle", "probe", "checked"}, bound[d] # {}
      PROVE  Owns(d, s, {"ALLOC", "REMOV"}) /\ Counts(d, s) /\ Refer(d, s, bound[d])
  <2>1. PICK t \in Slots : /\ Owns(d, t, {"ALLOC", "REMOV"})
                           /\ Counts(d, t) /\ Refer(d, t, bound[d])
    BY <1>2, <1>4 DEF DeviceInv, IdleInv
  <2>2. t = s
    BY <1>1, <2>1 DEF Owns
  <2>. QED  BY <2>1, <2>2
<1>5. ASSUME op[d].pc \in {"probe", "checked", "alloc", "one", "last", "free"}
      PROVE  op[d].slot = s
  <2>1. op[d].slot \in Slots /\ busid_table[op[d].slot].name = d
    BY <1>2, <1>5 DEF DeviceInv, ProbeInv, DisconnectInv, Owns, Entry
  <2>. QED  BY <1>1, <2>1
<1>. QED  BY <1>3, <1>4, <1>5

\* The probe or disconnect of a device, as a record.
LEMMA Places ==
  ASSUME TypeOK, NEW d \in Devices
  PROVE  op[d] = IdleOp \/
         op[d] \in [pc : {"probe", "checked", "alloc", "one", "last", "free", "del", "bug", "oops"},
                    iface : Ifaces, slot : Slots \cup {0}, sdev : Sdevs \cup {0}]
BY DEF TypeOK, Ops

\* The step is one of d,
OnlyOf(d) ==
  \A e \in Devices \ {d} :
    op'[e] = op[e] /\ bound'[e] = bound[e] /\ intfdata'[e] = intfdata[e]

\* and it turns s, the entry of d, into r and keeps the table in order.
Fits(d, s, r) ==
  /\ busid_table' = [busid_table EXCEPT ![s] = r]
  /\ r.name \in {d, NoName}
  /\ r.name = NoName => r.sdev = 0 /\ r.status = "OTHER"
  /\ r.sdev # 0 => sdevs'[r.sdev] = IF r.shutdown_busid THEN "stopped" ELSE "running"
  /\ \A t \in Slots \ {s} :
       /\ busid_table[t].sdev = r.sdev => r.sdev = 0
       /\ busid_table[t].sdev # 0 => sdevs'[busid_table[t].sdev] = sdevs[busid_table[t].sdev]

\* The invariant holds after a step of d that leaves the table alone,
LEMMA SameTable ==
  ASSUME Inv, NEW d \in Devices, UNCHANGED <<busid_table, sdevs>>, OnlyOf(d),
         TypeOK', DeviceInv(d)'
  PROVE  Inv'
<1>1. TableInv'
  BY DEF Inv, TableInv
<1>2. ASSUME NEW e \in Devices, e # d PROVE DeviceInv(e)'
  BY <1>2, Others DEF Inv, OnlyOf
<1>. QED  BY <1>1, <1>2 DEF Inv

\* or that changes its entry.
LEMMA OwnEntry ==
  ASSUME Inv, NEW d \in Devices, NEW s \in Slots, busid_table[s].name = d,
         NEW r \in BusIdPriv, Fits(d, s, r), OnlyOf(d), TypeOK', DeviceInv(d)'
  PROVE  Inv'
<1>1. \A t \in Slots \ {s} : busid_table[t].name = r.name => r.name = NoName
  BY DEF Inv, TableInv, Fits
<1>2. \A t \in Slots : busid_table'[t] = IF t = s THEN r ELSE busid_table[t]
  BY DEF Inv, TypeOK, Fits
<1>3. TableInv'
  BY <1>1, <1>2 DEF Inv, TableInv, Fits
<1>4. ASSUME NEW e \in Devices, e # d PROVE DeviceInv(e)'
  <2>1. r.name # e /\ busid_table[s].name # e
    BY <1>4, StubBusidAssumption DEF Fits
  <2>. QED  BY <1>2, <1>4, <2>1, Others DEF Inv, OnlyOf
<1>. QED  BY <1>3, <1>4 DEF Inv

\* Nothing changes.
LEMMA Stutter == Inv /\ UNCHANGED vars => Inv'
<1> SUFFICES ASSUME Inv, UNCHANGED vars PROVE Inv'
  OBVIOUS
<1>1. TypeOK' /\ TableInv'
  BY DEF Inv, TypeOK, TableInv, vars
<1>2. ASSUME NEW e \in Devices PROVE DeviceInv(e)'
  BY Others DEF Inv, vars
<1>. QED  BY <1>1, <1>2 DEF Inv

\* A "del" releases an entry only once the device is gone.
LEMMA DelStep ==
  ASSUME Inv, ~ DelRaces, NEW d \in Devices, del_match_busid(d)
  PROVE  Inv'
<1>0. UNCHANGED <<sdevs, intfdata, bound, op>> /\ busid_table' = Deleted(d)
  BY DEF del_match_busid
<1>1. CASE Idx(d) = 0
  BY <1>0, <1>1, Stutter DEF Deleted, vars
<1>2. CASE Idx(d) # 0
  <2>1. PICK s \in Slots : s = Idx(d) /\ busid_table[s].name = d
    BY <1>2, IdxIsNamed DEF Inv
  <2>2. busid_table[s] \in BusIdPriv
    BY <2>1 DEF Inv, TypeOK
  <2>3. CASE busid_table[s].status = "ADDED"
    <3>1. busid_table' = busid_table
      BY <1>0, <1>2, <2>1, <2>3 DEF Deleted, Inv, TypeOK
    <3>. QED  BY <1>0, <3>1, Stutter DEF vars
  <2>4. CASE busid_table[s].status = "OTHER"
    <3> DEFINE r == [busid_table[s] EXCEPT !.name = NoName]
    <3>1. busid_table' = [busid_table EXCEPT ![s] = r]
      BY <1>0, <1>2, <2>1, <2>4 DEF Deleted
    <3>2. op[d].pc = "del"
      <4>1. op[d].pc \notin {"idle", "probe", "checked"}
        BY <2>1, <2>4, EntryAt DEF Owns
      <4>2. op[d].pc \notin {"alloc", "one", "last", "free"}
        <5>1. ASSUME op[d].pc \in {"alloc", "one", "last", "free"} PROVE FALSE
          <6>1. op[d].slot = s
            BY <2>1, <5>1, EntryAt
          <6>2. Owns(d, s, {"ADDED"}) \/ Owns(d, s, {"ALLOC", "REMOV"})
            BY <5>1, <6>1 DEF Inv, DeviceInv, ProbeInv, DisconnectInv
          <6>. QED  BY <2>4, <6>2 DEF Owns
        <5>. QED  BY <5>1
      <4>3. op[d].pc \notin {"bug", "oops"}
        BY DEF Inv, DeviceInv, DisconnectInv
      <4>4. TypeOK
        BY DEF Inv
      <4>. QED  BY <4>1, <4>2, <4>3, <4>4, Places DEF IdleOp
    <3>3. busid_table[s].sdev = 0
      BY <2>1, <3>2 DEF Inv, DeviceInv, DisconnectInv, Bare
    <3>4. r \in BusIdPriv /\ r.name = NoName /\ r.sdev = 0 /\ r.status = "OTHER"
      BY <2>2, <2>4, <3>3 DEF BusIdPriv
    <3>. HIDE DEF r
    <3>5. TypeOK'
      BY <1>0, <2>1, <3>1, <3>4 DEF Inv, TypeOK
    <3>6. DeviceInv(d)'
      <4>1. \A t \in Slots : busid_table'[t] = IF t = s THEN r ELSE busid_table[t]
        BY <2>1, <3>1 DEF Inv, TypeOK
      <4>2. Bare(d, {"OTHER", "ADDED"})'
        <5>1. Bare(d, {"OTHER", "ADDED"}) /\ d # NoName
          BY <3>2, StubBusidAssumption DEF Inv, DeviceInv, DisconnectInv
        <5>. QED  BY <1>0, <3>4, <4>1, <5>1 DEF Bare
      <4>. QED  BY <1>0, <3>2, <4>2 DEF Inv, DeviceInv, IdleInv, ProbeInv, DisconnectInv
    <3>20. Fits(d, s, r)
      BY <1>0, <2>1, <3>1, <3>4, <3>5, <3>6, StubBusidAssumption DEF Fits
    <3>21. OnlyOf(d)
      BY <1>0 DEF OnlyOf
    <3>. QED  BY <2>1, <3>4, <3>5, <3>6, <3>20, <3>21, OwnEntry
  <2>5. CASE busid_table[s].status \in {"ALLOC", "REMOV"}
    <3> DEFINE r == [busid_table[s] EXCEPT !.status = "REMOV"]
    <3>1. busid_table' = [busid_table EXCEPT ![s] = r]
      BY <1>0, <1>2, <2>1, <2>5 DEF Deleted
    <3>2. /\ r \in BusIdPriv /\ r.name = d /\ r.status = "REMOV"
          /\ r.sdev = busid_table[s].sdev /\ r.interf_count = busid_table[s].interf_count
          /\ r.shutdown_busid = busid_table[s].shutdown_busid
      BY <2>1, <2>2 DEF BusIdPriv
    <3>. HIDE DEF r
    <3>3. TypeOK'
      BY <1>0, <2>1, <3>1, <3>2 DEF Inv, TypeOK
    <3>4. busid_table'[s] = r
      BY <2>1, <3>1 DEF Inv, TypeOK
    <3>5. DeviceInv(d)'
      <4>1. op[d].pc \notin {"checked", "alloc", "del"}
        <5>1. op[d].pc # "checked"
          BY DEF del_match_busid
        <5>2. ASSUME op[d].pc = "alloc" PROVE FALSE
          <6>1. op[d].slot = s /\ Owns(d, op[d].slot, {"ADDED"})
            BY <2>1, <5>2, EntryAt DEF Inv, DeviceInv, ProbeInv
          <6>. QED  BY <2>5, <6>1 DEF Owns
        <5>3. ASSUME op[d].pc = "del" PROVE FALSE
          <6>1. Bare(d, {"OTHER", "ADDED"})
            BY <5>3 DEF Inv, DeviceInv, DisconnectInv
          <6>. QED  BY <2>1, <2>5, <6>1 DEF Bare
        <5>. QED  BY <5>1, <5>2, <5>3
      <4>2. op[d].pc \in {"idle", "probe", "checked"} => bound[d] # {}
        BY <2>1, <2>5, EntryAt
      <4>3. Owns(d, s, {"ALLOC", "REMOV"}) => Owns(d, s, {"ALLOC", "REMOV"})'
        BY <3>2, <3>4 DEF Owns
      <4>4. Counts(d, s) => Counts(d, s)'
        BY <1>0, <3>2, <3>4 DEF Counts
      <4>5. ASSUME NEW S PROVE Refer(d, s, S) => Refer(d, s, S)'
        BY <1>0, <3>2, <3>4 DEF Refer
      <4>6. IdleInv(d)'
        <5>1. ASSUME op[d].pc \in {"idle", "probe", "checked"}
              PROVE  Owns(d, s, {"ALLOC", "REMOV"})' /\ Counts(d, s)' /\ Refer(d, s, bound[d])'
          BY <1>0, <5>1, <2>1, <4>2, <4>3, <4>4, <4>5, EntryAt
        <5>. QED  BY <1>0, <2>1, <4>2, <5>1 DEF IdleInv
      <4>7. ProbeInv(d)'
        <5>1. op[d].pc = "probe" => op[d].slot = s
          BY <2>1, EntryAt
        <5>. QED  BY <1>0, <3>2, <3>4, <4>1, <5>1 DEF Inv, DeviceInv, ProbeInv, Entry
      <4>8. DisconnectInv(d)'
        <5>1. op[d].pc \in {"one", "last", "free"} => op[d].slot = s
          BY <2>1, EntryAt
        <5>. QED  BY <1>0, <3>2, <3>4, <4>1, <4>3, <4>4, <4>5, <5>1
                  DEF Inv, DeviceInv, DisconnectInv, Entry
      <4>. QED  BY <4>6, <4>7, <4>8 DEF DeviceInv
    <3>6. /\ \A t \in Slots \ {s} : busid_table[t].sdev = r.sdev => r.sdev = 0
          /\ r.sdev # 0 => sdevs[r.sdev] = IF r.shutdown_busid THEN "stopped" ELSE "running"
      BY <2>1, <3>2 DEF Inv, TableInv
    <3>20. Fits(d, s, r)
      BY <1>0, <2>1, <3>1, <3>2, <3>3, <3>5, <3>6, StubBusidAssumption DEF Fits
    <3>21. OnlyOf(d)
      BY <1>0 DEF OnlyOf
    <3>. QED  BY <2>1, <3>2, <3>3, <3>5, <3>20, <3>21, OwnEntry
  <2>. QED  BY <2>2, <2>3, <2>4, <2>5 DEF BusIdPriv
<1>. QED  BY <1>1, <1>2

\* The entry that a probe or disconnect of d has looked up is that of d.
LEMMA SlotIsEntry ==
  ASSUME Inv, NEW d \in Devices,
         op[d].pc \in {"probe", "checked", "alloc", "one", "last", "free"}
  PROVE  /\ op[d].slot \in Slots /\ Entry(d).name = d
         /\ busid_table[op[d].slot] \in BusIdPriv
         /\ op[d].iface \in Ifaces /\ op[d].sdev \in Sdevs \cup {0}
<1>1. op[d].slot \in Slots /\ Entry(d).name = d
  BY DEF Inv, DeviceInv, ProbeInv, DisconnectInv, Owns, Entry
<1>2. op[d].iface \in Ifaces /\ op[d].sdev \in Sdevs \cup {0}
  BY Places DEF Inv, IdleOp
<1>. QED  BY <1>1, <1>2 DEF Inv, TypeOK

\* The table and the bound interfaces of d stay as they are.
LEMMA IdleStays ==
  ASSUME Inv, NEW d \in Devices, op[d].pc \in {"idle", "probe", "checked"},
         busid_table' = busid_table, bound' = bound, intfdata' = intfdata
  PROVE  IdleInv(d)'
<1>1. IdleInv(d)
  BY DEF Inv, DeviceInv
<1>2. ASSUME bound[d] # {}
      PROVE  (\E s \in Slots : /\ Owns(d, s, {"ALLOC", "REMOV"})
                               /\ Counts(d, s) /\ Refer(d, s, bound[d]))'
  <2>1. PICK s \in Slots : /\ Owns(d, s, {"ALLOC", "REMOV"})
                           /\ Counts(d, s) /\ Refer(d, s, bound[d])
    BY <1>1, <1>2 DEF IdleInv
  <2>. QED  BY <2>1 DEF Owns, Counts, Refer
<1>3. bound[d] = {} => Bare(d, {"ADDED"})'
  BY <1>1 DEF IdleInv, Bare
<1>. QED  BY <1>2, <1>3 DEF IdleInv

\* stub_probe finds the entry.
LEMMA ProbeBeginStep ==
  ASSUME Inv, NEW d \in Devices, NEW i \in Ifaces, ProbeBegin(d, i)
  PROVE  Inv'
<1>1. PICK s \in Slots : s = Idx(d) /\ busid_table[s].name = d
  BY IdxIsNamed DEF Inv, ProbeBegin
<1>2. /\ op[d] = IdleOp /\ i \notin bound[d]
      /\ op' = [op EXCEPT ![d] = [pc |-> "probe", iface |-> i, slot |-> s, sdev |-> 0]]
      /\ UNCHANGED <<busid_table, sdevs, intfdata, bound>>
  BY <1>1 DEF ProbeBegin
<1>3. op'[d] = [pc |-> "probe", iface |-> i, slot |-> s, sdev |-> 0]
  BY <1>2 DEF Inv, TypeOK
<1>4. TypeOK'
  <2>1. [pc |-> "probe", iface |-> i, slot |-> s, sdev |-> 0] \in Ops
    BY DEF Ops
  <2>. QED  BY <1>2, <2>1 DEF Inv, TypeOK
<1>5. IdleInv(d)'
  BY <1>2, IdleStays DEF IdleOp
<1>6. ProbeInv(d)' /\ DisconnectInv(d)'
  BY <1>1, <1>2, <1>3 DEF ProbeInv, DisconnectInv, Entry
<1>7. OnlyOf(d)
  BY <1>2 DEF Inv, TypeOK, OnlyOf
<1>. QED  BY <1>2, <1>4, <1>5, <1>6, <1>7, SameTable DEF DeviceInv

\* A probe that ends without a change.
LEMMA ProbeSkips ==
  ASSUME Inv, NEW d \in Devices, op[d].pc \in {"probe", "checked"},
         op' = [op EXCEPT ![d] = IdleOp],
         UNCHANGED <<busid_table, sdevs, intfdata, bound>>
  PROVE  Inv'
<1>1. TypeOK' /\ op'[d] = IdleOp
  BY DEF Inv, TypeOK, Ops
<1>2. IdleInv(d)'
  BY IdleStays
<1>3. ProbeInv(d)' /\ DisconnectInv(d)'
  BY <1>1 DEF ProbeInv, DisconnectInv, IdleOp
<1>4. OnlyOf(d)
  BY DEF Inv, TypeOK, OnlyOf
<1>. QED  BY <1>1, <1>2, <1>3, <1>4, SameTable DEF DeviceInv

\* The entry is one to claim, or the device is skipped.
LEMMA ProbeCheckStep ==
  ASSUME Inv, NEW d \in Devices, ProbeCheck(d)
  PROVE  Inv'
<1>1. op[d].pc = "probe" /\ UNCHANGED <<busid_table, sdevs, intfdata, bound>>
  BY DEF ProbeCheck
<1>2. CASE Entry(d).status \in {"REMOV", "OTHER"}
  <2>1. op' = [op EXCEPT ![d] = IdleOp]
    BY <1>2 DEF ProbeCheck
  <2>. QED  BY <1>1, <2>1, ProbeSkips
<1>3. CASE Entry(d).status \notin {"REMOV", "OTHER"}
  <2>1. op' = [op EXCEPT ![d] = [@ EXCEPT !.pc = "checked"]]
    BY <1>3 DEF ProbeCheck
  <2>2. op[d] \in [pc : {"probe"}, iface : Ifaces, slot : Slots \cup {0}, sdev : Sdevs \cup {0}]
    BY <1>1, Places DEF Inv, IdleOp
  <2>3. /\ op'[d].pc = "checked" /\ op'[d].slot = op[d].slot /\ op'[d].iface = op[d].iface
        /\ op'[d] \in Ops
    <3>1. op'[d] = [op[d] EXCEPT !.pc = "checked"]
      BY <2>1 DEF Inv, TypeOK
    <3>. QED  BY <2>2, <3>1 DEF Ops
  <2>4. TypeOK'
    BY <1>1, <2>1, <2>3 DEF Inv, TypeOK
  <2>5. IdleInv(d)'
    BY <1>1, IdleStays
  <2>6. Entry(d)' = Entry(d) /\ Entry(d).status \in {"ADDED", "ALLOC"}
    <3>1. Entry(d) \in BusIdPriv
      BY <1>1, SlotIsEntry DEF Entry
    <3>. QED  BY <1>1, <1>3, <2>3, <3>1 DEF Entry, BusIdPriv
  <2>7. ProbeInv(d)' /\ DisconnectInv(d)'
    BY <1>1, <2>3, <2>6 DEF Inv, DeviceInv, ProbeInv, DisconnectInv
  <2>8. OnlyOf(d)
    BY <1>1, <2>1 DEF Inv, TypeOK, OnlyOf
  <2>. QED  BY <1>1, <2>4, <2>5, <2>7, <2>8, SameTable DEF DeviceInv
<1>. QED  BY <1>2, <1>3

\* stub_device_alloc fails.
LEMMA ProbeNoMemoryStep ==
  ASSUME Inv, NEW d \in Devices, ProbeNoMemory(d)
  PROVE  Inv'
BY ProbeSkips DEF ProbeNoMemory

\* A further interface shares the stub_device of the entry.
LEMMA ProbeJoinStep ==
  ASSUME Inv, NEW d \in Devices, ProbeJoin(d)
  PROVE  Inv'
<1>1. op[d].pc = "checked" /\ Entry(d).status = "ALLOC" /\ UNCHANGED sdevs
      /\ op' = [op EXCEPT ![d] = IdleOp]
  BY DEF ProbeJoin
<1>2. CASE UNCHANGED <<busid_table, intfdata, bound>>
  BY <1>1, <1>2, ProbeSkips
<1>3. CASE ~ UNCHANGED <<busid_table, intfdata, bound>>
  <2>1. PICK s \in Slots : s = op[d].slot /\ busid_table[s].name = d /\ busid_table[s] \in BusIdPriv
    BY <1>1, SlotIsEntry DEF Entry
  <2>2. PICK j \in Ifaces : j = op[d].iface /\ j \notin bound[d]
    BY <1>1, SlotIsEntry DEF Inv, DeviceInv, ProbeInv
  <2>3. /\ busid_table' = [busid_table EXCEPT ![s].interf_count = @ + 1]
        /\ intfdata' = [intfdata EXCEPT ![d][j] = busid_table[s].sdev]
        /\ bound' = [bound EXCEPT ![d] = @ \cup {j}]
    BY <1>3, <2>1, <2>2 DEF ProbeJoin, Entry
  <2>4. bound[d] # {}
    BY <1>1, <2>1, EntryAt DEF Entry
  <2>5. Owns(d, s, {"ALLOC", "REMOV"}) /\ Counts(d, s) /\ Refer(d, s, bound[d])
    BY <1>1, <2>1, <2>4, EntryAt
  <2>6. bound[d] \in SUBSET Ifaces /\ bound'[d] = bound[d] \cup {j}
    BY <2>3 DEF Inv, TypeOK
  <2>7. /\ Cardinality(bound'[d]) = Cardinality(bound[d]) + 1
        /\ Cardinality(bound'[d]) \in 0 .. Cardinality(Ifaces)
    BY <2>2, <2>6, Counted, FS_AddElement
  <2>8. PICK r \in BusIdPriv :
          /\ busid_table' = [busid_table EXCEPT ![s] = r]
          /\ r.name = d /\ r.status = busid_table[s].status /\ r.sdev = busid_table[s].sdev
          /\ r.shutdown_busid = busid_table[s].shutdown_busid
          /\ r.interf_count = Cardinality(bound'[d])
    <3>1. busid_table[s].interf_count + 1 = Cardinality(bound'[d])
      BY <2>5, <2>7 DEF Counts
    <3> DEFINE r == [busid_table[s] EXCEPT !.interf_count = @ + 1]
    <3>2. r \in BusIdPriv
      BY <2>1, <2>7, <3>1 DEF BusIdPriv
    <3>3. busid_table' = [busid_table EXCEPT ![s] = r]
      BY <2>3
    <3>4. /\ r.name = d /\ r.status = busid_table[s].status /\ r.sdev = busid_table[s].sdev
          /\ r.shutdown_busid = busid_table[s].shutdown_busid
          /\ r.interf_count = Cardinality(bound'[d])
      BY <2>1, <3>1 DEF BusIdPriv
    <3>. QED  BY <3>2, <3>3, <3>4
  <2>9. TypeOK'
    <3>1. busid_table[s].sdev \in Sdevs \cup {0}
      BY <2>1 DEF BusIdPriv
    <3>2. intfdata' \in [Devices -> [Ifaces -> Sdevs \cup {0}]]
      BY <2>3, <3>1 DEF Inv, TypeOK
    <3>3. bound' \in [Devices -> SUBSET Ifaces]
      BY <2>3 DEF Inv, TypeOK
    <3>4. op' \in [Devices -> Ops]
      BY <1>1 DEF Inv, TypeOK, Ops
    <3>. QED  BY <1>1, <2>8, <3>2, <3>3, <3>4 DEF Inv, TypeOK
  <2>10. /\ busid_table'[s] = r
         /\ \A k \in Ifaces : intfdata'[d][k] = IF k = j THEN busid_table[s].sdev ELSE intfdata[d][k]
         /\ op'[d] = IdleOp
    BY <1>1, <2>3, <2>8 DEF Inv, TypeOK
  <2>11. DeviceInv(d)'
    <3>1. Owns(d, s, {"ALLOC", "REMOV"})' /\ Counts(d, s)'
      BY <2>5, <2>8, <2>10 DEF Owns, Counts
    <3>2. Refer(d, s, bound[d])'
      BY <2>5, <2>6, <2>8, <2>10 DEF Refer
    <3>3. IdleInv(d)'
      BY <2>6, <3>1, <3>2 DEF IdleInv
    <3>. QED  BY <2>10, <3>3 DEF DeviceInv, ProbeInv, DisconnectInv, IdleOp
  <2>12. OnlyOf(d)
    BY <1>1, <2>3 DEF Inv, TypeOK, OnlyOf
  <2>13. /\ \A t \in Slots \ {s} : busid_table[t].sdev = r.sdev => r.sdev = 0
         /\ r.sdev # 0 => sdevs[r.sdev] = IF r.shutdown_busid THEN "stopped" ELSE "running"
    BY <2>8 DEF Inv, TableInv
  <2>20. Fits(d, s, r)
    BY <1>1, <2>1, <2>8, <2>9, <2>11, <2>12, <2>13, StubBusidAssumption DEF Fits
  <2>. QED  BY <2>1, <2>9, <2>11, <2>12, <2>20, OwnEntry
<1>. QED  BY <1>2, <1>3

\* The first interface gets a stub_device that no entry names.
LEMMA ProbeAllocStep ==
  ASSUME Inv, NEW d \in Devices, ProbeAlloc(d)
  PROVE  Inv'
<1>1. op[d].pc = "checked" /\ Entry(d).status # "ALLOC" /\ UNCHANGED bound
  BY DEF ProbeAlloc, AllocSdev
<1>2. PICK s \in Slots : s = op[d].slot /\ busid_table[s].name = d /\ busid_table[s] \in BusIdPriv
  BY <1>1, SlotIsEntry DEF Entry
<1>3. PICK j \in Ifaces : j = op[d].iface
  BY <1>1, SlotIsEntry
<1>4. PICK n \in Sdevs :
        /\ sdevs[n] = "unused" /\ sdevs' = [sdevs EXCEPT ![n] = "running"]
        /\ intfdata' = [intfdata EXCEPT ![d][j] = n]
        /\ busid_table' = [busid_table EXCEPT ![s].interf_count = 1, ![s].sdev = n,
                                              ![s].shutdown_busid = FALSE]
        /\ op' = [op EXCEPT ![d].pc = "alloc"]
  <2> DEFINE new == {n \in Sdevs : sdevs[n] = "unused"}
  <2>1. new \in SUBSET Sdevs /\ new # {}
    BY DEF ProbeAlloc, AllocSdev
  <2>2. First(new) \in new
    BY <2>1, FirstSdev
  <2>. QED  BY <1>2, <1>3, <2>2 DEF ProbeAlloc, AllocSdev
<1>5. bound[d] = {}
  BY <1>1, <1>2, EntryAt DEF Inv, DeviceInv, ProbeInv, Owns, Entry
<1>6. busid_table[s].status = "ADDED" /\ \A k \in Ifaces : intfdata[d][k] = 0
  BY <1>1, <1>2, <1>5, EntryAt DEF Bare
<1>7. 1 \in 0 .. Cardinality(Ifaces)
  <2>1. Cardinality({j}) = 1
    BY FS_Singleton
  <2>. QED  BY <2>1, Counted
<1>8. PICK r \in BusIdPriv :
        /\ busid_table' = [busid_table EXCEPT ![s] = r]
        /\ r.name = d /\ r.status = "ADDED" /\ r.sdev = n
        /\ ~ r.shutdown_busid /\ r.interf_count = 1
  <2> DEFINE r == [busid_table[s] EXCEPT !.interf_count = 1, !.sdev = n,
                                         !.shutdown_busid = FALSE]
  <2>1. r \in BusIdPriv
    BY <1>2, <1>7 DEF BusIdPriv
  <2>2. busid_table' = [busid_table EXCEPT ![s] = r]
    BY <1>4
  <2>3. r.name = d /\ r.status = "ADDED" /\ r.sdev = n /\ ~ r.shutdown_busid /\ r.interf_count = 1
    BY <1>2, <1>6 DEF BusIdPriv
  <2>. QED  BY <2>1, <2>2, <2>3
<1>9. op[d] \in [pc : {"checked"}, iface : Ifaces, slot : Slots \cup {0}, sdev : Sdevs \cup {0}]
  BY <1>1, Places DEF Inv, IdleOp
<1>10. op'[d].pc = "alloc" /\ op'[d].slot = s /\ op'[d].iface = j /\ op'[d] \in Ops
  <2>1. op'[d] = [op[d] EXCEPT !.pc = "alloc"]
    BY <1>4 DEF Inv, TypeOK
  <2>. QED  BY <1>2, <1>3, <1>9, <2>1 DEF Ops
<1>11. /\ busid_table'[s] = r
       /\ \A k \in Ifaces : intfdata'[d][k] = IF k = j THEN n ELSE intfdata[d][k]
  BY <1>4, <1>8, ZenonT(30) DEF Inv, TypeOK
<1>12. TypeOK'
  <2>1. intfdata' \in [Devices -> [Ifaces -> Sdevs \cup {0}]]
    BY <1>4 DEF Inv, TypeOK
  <2>2. sdevs' \in [Sdevs -> SdevLife]
    BY <1>4 DEF Inv, TypeOK, SdevLife
  <2>3. op' \in [Devices -> Ops]
    BY <1>4, <1>10 DEF Inv, TypeOK
  <2>. QED  BY <1>1, <1>8, <2>1, <2>2, <2>3 DEF Inv, TypeOK
<1>13. DeviceInv(d)'
  <2>1. n # 0
    BY DEF Sdevs
  <2>2. Owns(d, s, {"ADDED"})' /\ Entry(d)'.interf_count = 1
    BY <1>8, <1>10, <1>11, <2>1 DEF Owns, Entry
  <2>3. Refer(d, s, {j})'
    BY <1>6, <1>8, <1>11 DEF Refer
  <2>. QED  BY <1>1, <1>5, <1>10, <2>2, <2>3 DEF DeviceInv, IdleInv, ProbeInv, DisconnectInv
<1>14. OnlyOf(d)
  BY <1>1, <1>4 DEF Inv, TypeOK, OnlyOf
<1>15. \A t \in Slots : busid_table[t].sdev # n
  <2>1. n # 0
    BY DEF Sdevs
  <2>. QED  BY <1>4, <2>1 DEF Inv, TableInv
<1>16. /\ sdevs'[r.sdev] = "running"
       /\ \A t \in Slots : busid_table[t].sdev # 0 => sdevs'[busid_table[t].sdev] = sdevs[busid_table[t].sdev]
  <2>1. \A t \in Slots : busid_table[t].sdev # 0 => busid_table[t].sdev \in Sdevs
    BY DEF Inv, TypeOK, BusIdPriv
  <2>. QED  BY <1>4, <1>8, <1>15, <2>1 DEF Inv, TypeOK
<1>20. Fits(d, s, r)
  BY <1>2, <1>8, <1>12, <1>13, <1>14, <1>15, <1>16, StubBusidAssumption DEF Fits
<1>. QED  BY <1>2, <1>12, <1>13, <1>14, <1>20, OwnEntry

\* The first interface is bound.
LEMMA ProbeDoneStep ==
  ASSUME Inv, NEW d \in Devices, ProbeDone(d)
  PROVE  Inv'
<1>1. op[d].pc = "alloc" /\ UNCHANGED <<sdevs, intfdata>>
  BY DEF ProbeDone
<1>2. PICK s \in Slots : s = op[d].slot /\ busid_table[s].name = d /\ busid_table[s] \in BusIdPriv
  BY <1>1, SlotIsEntry DEF Entry
<1>3. PICK j \in Ifaces : j = op[d].iface
  BY <1>1, SlotIsEntry
<1>4. /\ bound[d] = {} /\ Owns(d, s, {"ADDED"}) /\ busid_table[s].interf_count = 1
      /\ Refer(d, s, {j})
  BY <1>1, <1>2, <1>3 DEF Inv, DeviceInv, ProbeInv, Entry
<1>5. /\ busid_table' = [busid_table EXCEPT ![s].status = "ALLOC"]
      /\ bound' = [bound EXCEPT ![d] = @ \cup {j}] /\ op' = [op EXCEPT ![d] = IdleOp]
  BY <1>2, <1>3 DEF ProbeDone
<1>6. PICK r \in BusIdPriv :
        /\ busid_table' = [busid_table EXCEPT ![s] = r]
        /\ r.name = d /\ r.status = "ALLOC" /\ r.sdev = busid_table[s].sdev
        /\ r.shutdown_busid = busid_table[s].shutdown_busid /\ r.interf_count = 1
  <2> DEFINE r == [busid_table[s] EXCEPT !.status = "ALLOC"]
  <2>1. r \in BusIdPriv
    BY <1>2 DEF BusIdPriv
  <2>2. busid_table' = [busid_table EXCEPT ![s] = r]
    BY <1>5
  <2>3. /\ r.name = d /\ r.status = "ALLOC" /\ r.sdev = busid_table[s].sdev
        /\ r.shutdown_busid = busid_table[s].shutdown_busid /\ r.interf_count = 1
    BY <1>2, <1>4 DEF BusIdPriv
  <2>. QED  BY <2>1, <2>2, <2>3
<1>7. busid_table'[s] = r /\ bound'[d] = {j} /\ op'[d] = IdleOp /\ intfdata' = intfdata
  BY <1>1, <1>4, <1>5, <1>6 DEF Inv, TypeOK
<1>8. TypeOK'
  <2>1. bound' \in [Devices -> SUBSET Ifaces]
    BY <1>5 DEF Inv, TypeOK
  <2>2. op' \in [Devices -> Ops]
    BY <1>5 DEF Inv, TypeOK, Ops
  <2>. QED  BY <1>1, <1>6, <2>1, <2>2 DEF Inv, TypeOK
<1>9. DeviceInv(d)'
  <2>1. Owns(d, s, {"ALLOC", "REMOV"})'
    BY <1>4, <1>6, <1>7 DEF Owns
  <2>2. Counts(d, s)'
    BY <1>6, <1>7, FS_Singleton DEF Counts
  <2>3. Refer(d, s, bound[d])'
    BY <1>4, <1>6, <1>7 DEF Refer
  <2>4. IdleInv(d)'
    BY <1>7, <2>1, <2>2, <2>3 DEF IdleInv
  <2>. QED  BY <1>7, <2>4 DEF DeviceInv, ProbeInv, DisconnectInv, IdleOp
<1>10. OnlyOf(d)
  BY <1>1, <1>5 DEF Inv, TypeOK, OnlyOf
<1>11. /\ \A t \in Slots \ {s} : busid_table[t].sdev = r.sdev => r.sdev = 0
       /\ r.sdev # 0 => sdevs[r.sdev] = IF r.shutdown_busid THEN "stopped" ELSE "running"
  BY <1>6 DEF Inv, TableInv
<1>20. Fits(d, s, r)
  BY <1>1, <1>2, <1>6, <1>8, <1>9, <1>10, <1>11, StubBusidAssumption DEF Fits
<1>. QED  BY <1>2, <1>8, <1>9, <1>10, <1>20, OwnEntry

\* The first interface is not bound, the stub_device freed.
LEMMA ProbeUndoStep ==
  ASSUME Inv, NEW d \in Devices, ProbeUndo(d)
  PROVE  Inv'
<1>1. op[d].pc = "alloc" /\ UNCHANGED bound
  BY DEF ProbeUndo
<1>2. PICK s \in Slots : s = op[d].slot /\ busid_table[s].name = d /\ busid_table[s] \in BusIdPriv
  BY <1>1, SlotIsEntry DEF Entry
<1>3. PICK j \in Ifaces : j = op[d].iface
  BY <1>1, SlotIsEntry
<1>4. bound[d] = {} /\ Owns(d, s, {"ADDED"}) /\ Refer(d, s, {j})
  BY <1>1, <1>2, <1>3 DEF Inv, DeviceInv, ProbeInv, Entry
<1>5. PICK n \in Sdevs : n = busid_table[s].sdev /\ intfdata[d][j] = n
  BY <1>2, <1>4 DEF Owns, Refer, BusIdPriv
<1>6. /\ sdevs' = [sdevs EXCEPT ![n] = "freed"] /\ intfdata' = [intfdata EXCEPT ![d][j] = 0]
      /\ busid_table' = [busid_table EXCEPT ![s].interf_count = 0, ![s].sdev = 0]
      /\ op' = [op EXCEPT ![d] = IdleOp]
  BY <1>2, <1>3, <1>5 DEF ProbeUndo
<1>7. PICK r \in BusIdPriv :
        /\ busid_table' = [busid_table EXCEPT ![s] = r]
        /\ r.name = d /\ r.status = "ADDED" /\ r.sdev = 0
  <2> DEFINE r == [busid_table[s] EXCEPT !.interf_count = 0, !.sdev = 0]
  <2>1. 0 \in 0 .. Cardinality(Ifaces)
    BY Counted
  <2>2. r \in BusIdPriv
    BY <1>2, <2>1 DEF BusIdPriv
  <2>3. busid_table' = [busid_table EXCEPT ![s] = r]
    BY <1>6
  <2>4. r.name = d /\ r.status = "ADDED" /\ r.sdev = 0
    BY <1>2, <1>4 DEF BusIdPriv, Owns
  <2>. QED  BY <2>2, <2>3, <2>4
<1>8. /\ \A t \in Slots : busid_table'[t] = IF t = s THEN r ELSE busid_table[t]
      /\ \A k \in Ifaces : intfdata'[d][k] = IF k = j THEN 0 ELSE intfdata[d][k]
      /\ op'[d] = IdleOp
  BY <1>6, <1>7, ZenonT(60) DEF Inv, TypeOK
<1>9. TypeOK'
  <2>1. intfdata' \in [Devices -> [Ifaces -> Sdevs \cup {0}]]
    BY <1>6 DEF Inv, TypeOK
  <2>2. sdevs' \in [Sdevs -> SdevLife]
    BY <1>6 DEF Inv, TypeOK, SdevLife
  <2>3. op' \in [Devices -> Ops]
    BY <1>6 DEF Inv, TypeOK, Ops
  <2>. QED  BY <1>1, <1>7, <2>1, <2>2, <2>3 DEF Inv, TypeOK
<1>10. DeviceInv(d)'
  <2>1. \A t \in Slots : busid_table[t].name = d => t = s
    BY <1>2, StubBusidAssumption DEF Inv, TableInv
  <2>2. Bare(d, {"ADDED"})'
    BY <1>4, <1>7, <1>8, <2>1 DEF Bare, Refer
  <2>. QED  BY <1>1, <1>4, <1>8, <2>2 DEF DeviceInv, IdleInv, ProbeInv, DisconnectInv, IdleOp
<1>11. OnlyOf(d)
  BY <1>1, <1>6 DEF Inv, TypeOK, OnlyOf
<1>12. \A t \in Slots \ {s} :
         busid_table[t].sdev # 0 => sdevs'[busid_table[t].sdev] = sdevs[busid_table[t].sdev]
  <2>1. \A t \in Slots \ {s} : busid_table[t].sdev # 0 => busid_table[t].sdev \in Sdevs \ {n}
    BY <1>5 DEF Inv, TypeOK, BusIdPriv, TableInv
  <2>. QED  BY <1>6, <2>1 DEF Inv, TypeOK
<1>13. /\ r.name \in {d, NoName}
       /\ r.name = NoName => r.sdev = 0 /\ r.status = "OTHER"
       /\ r.sdev # 0 => sdevs'[r.sdev] = IF r.shutdown_busid THEN "stopped" ELSE "running"
       /\ \A t \in Slots \ {s} : busid_table[t].sdev = r.sdev => r.sdev = 0
  BY <1>7, StubBusidAssumption
<1>20. Fits(d, s, r)
  BY <1>2, <1>7, <1>9, <1>10, <1>11, <1>12, <1>13, StubBusidAssumption DEF Fits
<1>. QED  BY <1>2, <1>9, <1>10, <1>11, <1>20, OwnEntry

\* stub_disconnect finds the entry and its stub_device.
LEMMA DisconnectBeginStep ==
  ASSUME Inv, NEW d \in Devices, NEW i \in Ifaces, DisconnectBegin(d, i)
  PROVE  Inv'
<1>1. op[d] = IdleOp /\ i \in bound[d] /\ UNCHANGED <<busid_table, sdevs, bound>>
  BY DEF DisconnectBegin
<1>2. PICK s \in Slots :
        Owns(d, s, {"ALLOC", "REMOV"}) /\ Counts(d, s) /\ Refer(d, s, bound[d])
  BY <1>1 DEF Inv, DeviceInv, IdleInv, IdleOp
<1>3. s = Idx(d) /\ s # 0 /\ busid_table[s].sdev # 0
  BY <1>2, IdxIsNamed DEF Inv, Owns, Slots
<1>4. PICK n \in Sdevs : n = busid_table[s].sdev /\ intfdata[d][i] = n
  BY <1>1, <1>2, <1>3 DEF Inv, TypeOK, BusIdPriv, Refer
<1>5. PICK way \in {"one", "last"} :
        /\ way = Way(s)
        /\ way = "one" <=> busid_table[s].interf_count > 1
  BY <1>3 DEF Way
<1>6. /\ op' = [op EXCEPT ![d] = [pc |-> way, iface |-> i, slot |-> s, sdev |-> n]]
      /\ intfdata' = [intfdata EXCEPT ![d][i] = 0]
  BY <1>3, <1>4, <1>5 DEF DisconnectBegin
<1>7. op'[d] = [pc |-> way, iface |-> i, slot |-> s, sdev |-> n]
  BY <1>6 DEF Inv, TypeOK
<1>8. TypeOK'
  <2>1. [pc |-> way, iface |-> i, slot |-> s, sdev |-> n] \in Ops
    BY DEF Ops
  <2>2. op' \in [Devices -> Ops]
    BY <1>6, <2>1 DEF Inv, TypeOK
  <2>3. intfdata' \in [Devices -> [Ifaces -> Sdevs \cup {0}]]
    BY <1>6 DEF Inv, TypeOK
  <2>. QED  BY <1>1, <2>2, <2>3 DEF Inv, TypeOK
<1>9. way = "last" => bound[d] = {i}
  <2>1. SUFFICES ASSUME way = "last" PROVE bound[d] = {i}
    OBVIOUS
  <2>2. bound[d] \in SUBSET Ifaces /\ IsFiniteSet(bound[d]) /\ Cardinality(bound[d]) \in Nat
    BY Counted DEF Inv, TypeOK
  <2>3. Cardinality(bound[d]) <= 1
    BY <1>2, <1>5, <2>1, <2>2 DEF Counts
  <2>4. IsFiniteSet(bound[d] \ {i}) /\ Cardinality(bound[d] \ {i}) = Cardinality(bound[d]) - 1
    BY <1>1, <2>2, FS_RemoveElement
  <2>5. Cardinality(bound[d] \ {i}) = 0
    BY <2>2, <2>3, <2>4, FS_CardinalityType
  <2>. QED  BY <1>1, <2>4, <2>5, FS_EmptySet
<1>10. DeviceInv(d)'
  <2>1. Owns(d, s, {"ALLOC", "REMOV"})' /\ Counts(d, s)'
    BY <1>1, <1>2 DEF Owns, Counts
  <2>2. \A k \in Ifaces : intfdata'[d][k] = IF k = i THEN 0 ELSE intfdata[d][k]
    BY <1>6 DEF Inv, TypeOK
  <2>3. Refer(d, s, bound[d] \ {i})'
    BY <1>1, <1>2, <2>2 DEF Refer
  <2>4. Entry(d)' = busid_table[s]
    BY <1>1, <1>7 DEF Entry
  <2>5. IdleInv(d)' /\ ProbeInv(d)'
    BY <1>7 DEF IdleInv, ProbeInv
  <2>6. DisconnectInv(d)'
    BY <1>1, <1>4, <1>5, <1>7, <1>9, <2>1, <2>3, <2>4 DEF DisconnectInv
  <2>. QED  BY <2>5, <2>6 DEF DeviceInv
<1>11. OnlyOf(d)
  BY <1>1, <1>6 DEF Inv, TypeOK, OnlyOf
<1>. QED  BY <1>1, <1>8, <1>10, <1>11, SameTable

\* What shutdown_busid of the entry of d leaves.
LEMMA ShutDownStops ==
  ASSUME Inv, NEW d \in Devices, NEW s \in Slots, Owns(d, s, {"ALLOC", "REMOV"}),
         sdevs' = ShutDown(s)
  PROVE  /\ sdevs' \in [Sdevs -> SdevLife]
         /\ busid_table[s].sdev \in Sdevs /\ sdevs'[busid_table[s].sdev] = "stopped"
         /\ \A t \in Slots \ {s} :
              busid_table[t].sdev # 0 => sdevs'[busid_table[t].sdev] = sdevs[busid_table[t].sdev]
<1>1. PICK n \in Sdevs : n = busid_table[s].sdev
  BY DEF Inv, TypeOK, BusIdPriv, Owns
<1>2. n # 0
  BY DEF Sdevs
<1>3. \A t \in Slots \ {s} : busid_table[t].sdev # 0 => busid_table[t].sdev \in Sdevs \ {n}
  BY <1>1, <1>2 DEF Inv, TypeOK, BusIdPriv, TableInv
<1>4. CASE busid_table[s].shutdown_busid
  <2>1. sdevs' = sdevs
    BY <1>4 DEF ShutDown
  <2>2. sdevs[n] = "stopped"
    BY <1>1, <1>2, <1>4 DEF Inv, TableInv
  <2>. QED  BY <1>1, <2>1, <2>2 DEF Inv, TypeOK
<1>5. CASE ~ busid_table[s].shutdown_busid
  <2>1. sdevs' = [sdevs EXCEPT ![n] = "stopped"]
    BY <1>1, <1>2, <1>5 DEF ShutDown
  <2>. QED  BY <1>1, <1>3, <2>1 DEF Inv, TypeOK, SdevLife
<1>. QED  BY <1>4, <1>5

\* One interface of several goes.
LEMMA DisconnectOneStep ==
  ASSUME Inv, NEW d \in Devices, DisconnectOne(d)
  PROVE  Inv'
<1>1. op[d].pc = "one" /\ intfdata' = intfdata
  BY DEF DisconnectOne
<1>2. PICK s \in Slots : s = op[d].slot /\ busid_table[s].name = d /\ busid_table[s] \in BusIdPriv
  BY <1>1, SlotIsEntry DEF Entry
<1>3. PICK i \in Ifaces : i = op[d].iface
  BY <1>1, SlotIsEntry
<1>4. /\ Owns(d, s, {"ALLOC", "REMOV"}) /\ i \in bound[d]
      /\ Refer(d, s, bound[d] \ {i}) /\ Counts(d, s) /\ busid_table[s].interf_count > 1
  BY <1>1, <1>2, <1>3 DEF Inv, DeviceInv, DisconnectInv, Entry
<1>5. /\ sdevs' = ShutDown(s)
      /\ busid_table' = [busid_table EXCEPT ![s].interf_count = @ - 1, ![s].shutdown_busid = TRUE]
      /\ bound' = [bound EXCEPT ![d] = @ \ {i}] /\ op' = [op EXCEPT ![d] = IdleOp]
  BY <1>2, <1>3 DEF DisconnectOne, Ends
<1>6. bound'[d] = bound[d] \ {i} /\ bound[d] \in SUBSET Ifaces /\ op'[d] = IdleOp
  BY <1>5 DEF Inv, TypeOK
<1>7. /\ Cardinality(bound'[d]) = Cardinality(bound[d]) - 1
      /\ Cardinality(bound'[d]) \in 0 .. Cardinality(Ifaces) /\ bound'[d] # {}
  <2>1. IsFiniteSet(bound[d]) /\ bound'[d] \in SUBSET Ifaces
    BY <1>6, Counted
  <2>2. Cardinality(bound'[d]) = Cardinality(bound[d]) - 1
    <3>1. Cardinality(bound[d] \ {i}) = Cardinality(bound[d]) - 1
      BY <1>4, <2>1, FS_RemoveElement
    <3>. QED  BY <1>6, <3>1
  <2>3. Cardinality(bound'[d]) # 0
    BY <1>4, <1>6, <2>2, Counted DEF Counts
  <2>. QED  BY <2>1, <2>2, <2>3, Counted, FS_EmptySet
<1>8. PICK r \in BusIdPriv :
        /\ busid_table' = [busid_table EXCEPT ![s] = r]
        /\ r.name = d /\ r.status = busid_table[s].status /\ r.sdev = busid_table[s].sdev
        /\ r.shutdown_busid /\ r.interf_count = Cardinality(bound'[d])
  <2>1. busid_table[s].interf_count - 1 = Cardinality(bound'[d])
    BY <1>4, <1>7 DEF Counts
  <2> DEFINE r == [busid_table[s] EXCEPT !.interf_count = @ - 1, !.shutdown_busid = TRUE]
  <2>2. r \in BusIdPriv
    BY <1>2, <1>7, <2>1 DEF BusIdPriv
  <2>3. busid_table' = [busid_table EXCEPT ![s] = r]
    BY <1>5
  <2>4. /\ r.name = d /\ r.status = busid_table[s].status /\ r.sdev = busid_table[s].sdev
        /\ r.shutdown_busid /\ r.interf_count = Cardinality(bound'[d])
    BY <1>2, <2>1 DEF BusIdPriv
  <2>. QED  BY <2>2, <2>3, <2>4
<1>9. busid_table'[s] = r
  BY <1>8 DEF Inv, TypeOK
<1>10. TypeOK'
  <2>1. bound' \in [Devices -> SUBSET Ifaces]
    BY <1>5 DEF Inv, TypeOK
  <2>2. op' \in [Devices -> Ops]
    BY <1>5 DEF Inv, TypeOK, Ops
  <2>3. sdevs' \in [Sdevs -> SdevLife]
    BY <1>4, <1>5, ShutDownStops
  <2>. QED  BY <1>1, <1>8, <2>1, <2>2, <2>3 DEF Inv, TypeOK
<1>11. DeviceInv(d)'
  <2>1. Owns(d, s, {"ALLOC", "REMOV"})'
    BY <1>4, <1>8, <1>9 DEF Owns
  <2>2. Counts(d, s)'
    BY <1>8, <1>9 DEF Counts
  <2>3. Refer(d, s, bound[d])'
    BY <1>1, <1>4, <1>6, <1>8, <1>9 DEF Refer
  <2>4. IdleInv(d)'
    BY <1>7, <2>1, <2>2, <2>3 DEF IdleInv
  <2>. QED  BY <1>6, <2>4 DEF DeviceInv, ProbeInv, DisconnectInv, IdleOp
<1>12. OnlyOf(d)
  BY <1>1, <1>5 DEF Inv, TypeOK, OnlyOf
<1>13. /\ \A t \in Slots \ {s} :
            /\ busid_table[t].sdev = r.sdev => r.sdev = 0
            /\ busid_table[t].sdev # 0 => sdevs'[busid_table[t].sdev] = sdevs[busid_table[t].sdev]
       /\ r.sdev # 0 => sdevs'[r.sdev] = IF r.shutdown_busid THEN "stopped" ELSE "running"
  BY <1>4, <1>5, <1>8, ShutDownStops DEF Inv, TableInv
<1>20. Fits(d, s, r)
  BY <1>2, <1>8, <1>10, <1>11, <1>12, <1>13, StubBusidAssumption DEF Fits
<1>. QED  BY <1>2, <1>10, <1>11, <1>12, <1>20, OwnEntry

\* The last interface goes: the event thread is stopped,
LEMMA DisconnectLastStep ==
  ASSUME Inv, NEW d \in Devices, DisconnectLast(d)
  PROVE  Inv'
<1>1. op[d].pc = "last" /\ UNCHANGED <<intfdata, bound>>
  BY DEF DisconnectLast
<1>2. PICK s \in Slots : s = op[d].slot /\ busid_table[s].name = d /\ busid_table[s] \in BusIdPriv
  BY <1>1, SlotIsEntry DEF Entry
<1>3. PICK i \in Ifaces : i = op[d].iface
  BY <1>1, SlotIsEntry
<1>4. /\ Owns(d, s, {"ALLOC", "REMOV"}) /\ bound[d] = {i}
      /\ op[d].sdev = busid_table[s].sdev /\ Refer(d, s, bound[d] \ {i})
  BY <1>1, <1>2, <1>3 DEF Inv, DeviceInv, DisconnectInv, Entry
<1>5. /\ sdevs' = ShutDown(s)
      /\ busid_table' = [busid_table EXCEPT ![s].interf_count = 0, ![s].shutdown_busid = TRUE]
      /\ op' = [op EXCEPT ![d].pc = "free"]
  BY <1>2 DEF DisconnectLast
<1>6. PICK r \in BusIdPriv :
        /\ busid_table' = [busid_table EXCEPT ![s] = r]
        /\ r.name = d /\ r.status = busid_table[s].status /\ r.sdev = busid_table[s].sdev
        /\ r.shutdown_busid
  <2> DEFINE r == [busid_table[s] EXCEPT !.interf_count = 0, !.shutdown_busid = TRUE]
  <2>1. 0 \in 0 .. Cardinality(Ifaces)
    BY Counted
  <2>2. r \in BusIdPriv
    BY <1>2, <2>1 DEF BusIdPriv
  <2>3. busid_table' = [busid_table EXCEPT ![s] = r]
    BY <1>5
  <2>4. /\ r.name = d /\ r.status = busid_table[s].status /\ r.sdev = busid_table[s].sdev
        /\ r.shutdown_busid
    BY <1>2 DEF BusIdPriv
  <2>. QED  BY <2>2, <2>3, <2>4
<1>7. busid_table'[s] = r
  BY <1>6 DEF Inv, TypeOK
<1>8. /\ op'[d].pc = "free" /\ op'[d].slot = s /\ op'[d].iface = i
      /\ op'[d].sdev = op[d].sdev /\ op'[d] \in Ops
  <2>1. op[d] \in [pc : {"last"}, iface : Ifaces, slot : Slots \cup {0}, sdev : Sdevs \cup {0}]
    BY <1>1, Places DEF Inv, IdleOp
  <2>2. op'[d] = [op[d] EXCEPT !.pc = "free"]
    BY <1>5 DEF Inv, TypeOK
  <2>. QED  BY <1>2, <1>3, <2>1, <2>2 DEF Ops
<1>9. TypeOK'
  <2>1. op' \in [Devices -> Ops]
    BY <1>5, <1>8 DEF Inv, TypeOK
  <2>2. sdevs' \in [Sdevs -> SdevLife]
    BY <1>4, <1>5, ShutDownStops
  <2>. QED  BY <1>1, <1>6, <2>1, <2>2 DEF Inv, TypeOK
<1>10. DeviceInv(d)'
  <2>1. Owns(d, s, {"ALLOC", "REMOV"})'
    BY <1>4, <1>6, <1>7 DEF Owns
  <2>2. Refer(d, s, bound[d] \ {i})'
    BY <1>1, <1>4, <1>6, <1>7 DEF Refer
  <2>3. Entry(d)' = r
    BY <1>7, <1>8 DEF Entry
  <2>4. DisconnectInv(d)'
    BY <1>1, <1>4, <1>6, <1>8, <2>1, <2>2, <2>3 DEF DisconnectInv
  <2>. QED  BY <1>8, <2>4 DEF DeviceInv, IdleInv, ProbeInv
<1>11. OnlyOf(d)
  BY <1>1, <1>5 DEF Inv, TypeOK, OnlyOf
<1>12. /\ \A t \in Slots \ {s} :
            /\ busid_table[t].sdev = r.sdev => r.sdev = 0
            /\ busid_table[t].sdev # 0 => sdevs'[busid_table[t].sdev] = sdevs[busid_table[t].sdev]
       /\ r.sdev # 0 => sdevs'[r.sdev] = IF r.shutdown_busid THEN "stopped" ELSE "running"
  BY <1>4, <1>5, <1>6, ShutDownStops DEF Inv, TableInv
<1>20. Fits(d, s, r)
  BY <1>2, <1>6, <1>9, <1>10, <1>11, <1>12, StubBusidAssumption DEF Fits
<1>. QED  BY <1>2, <1>9, <1>10, <1>11, <1>20, OwnEntry

\* and the stub_device freed that the entry named.
LEMMA DisconnectFreeStep ==
  ASSUME Inv, NEW d \in Devices, DisconnectFree(d)
  PROVE  Inv'
<1>1. op[d].pc = "free" /\ UNCHANGED <<intfdata, bound>>
  BY DEF DisconnectFree
<1>2. PICK s \in Slots : s = op[d].slot /\ busid_table[s].name = d /\ busid_table[s] \in BusIdPriv
  BY <1>1, SlotIsEntry DEF Entry
<1>3. PICK i \in Ifaces : i = op[d].iface
  BY <1>1, SlotIsEntry
<1>4. /\ Owns(d, s, {"ALLOC", "REMOV"}) /\ bound[d] = {i} /\ busid_table[s].shutdown_busid
      /\ op[d].sdev = busid_table[s].sdev /\ Refer(d, s, bound[d] \ {i})
  BY <1>1, <1>2, <1>3 DEF Inv, DeviceInv, DisconnectInv, Entry
<1>5. PICK n \in Sdevs : n = busid_table[s].sdev
  BY <1>2, <1>4 DEF Owns, BusIdPriv
<1>6. /\ sdevs' = [sdevs EXCEPT ![n] = IF @ = "running" THEN "lost" ELSE "freed"]
      /\ busid_table' = [busid_table EXCEPT ![s].sdev = 0, ![s].status = "OTHER"]
      /\ op' = [op EXCEPT ![d].pc = "del"]
  BY <1>2, <1>4, <1>5 DEF DisconnectFree, Freed
<1>7. PICK r \in BusIdPriv :
        /\ busid_table' = [busid_table EXCEPT ![s] = r]
        /\ r.name = d /\ r.status = "OTHER" /\ r.sdev = 0
  <2> DEFINE r == [busid_table[s] EXCEPT !.sdev = 0, !.status = "OTHER"]
  <2>1. r \in BusIdPriv
    BY <1>2 DEF BusIdPriv
  <2>2. busid_table' = [busid_table EXCEPT ![s] = r]
    BY <1>6
  <2>3. r.name = d /\ r.status = "OTHER" /\ r.sdev = 0
    BY <1>2 DEF BusIdPriv
  <2>. QED  BY <2>1, <2>2, <2>3
<1>8. \A t \in Slots : busid_table'[t] = IF t = s THEN r ELSE busid_table[t]
  BY <1>7 DEF Inv, TypeOK
<1>9. op'[d].pc = "del" /\ op'[d].iface = i /\ op'[d] \in Ops
  <2>1. op[d] \in [pc : {"free"}, iface : Ifaces, slot : Slots \cup {0}, sdev : Sdevs \cup {0}]
    BY <1>1, Places DEF Inv, IdleOp
  <2>2. op'[d] = [op[d] EXCEPT !.pc = "del"]
    BY <1>6 DEF Inv, TypeOK
  <2>. QED  BY <1>3, <2>1, <2>2 DEF Ops
<1>10. TypeOK'
  <2>1. op' \in [Devices -> Ops]
    BY <1>6, <1>9 DEF Inv, TypeOK
  <2>2. sdevs' \in [Sdevs -> SdevLife]
    BY <1>6 DEF Inv, TypeOK, SdevLife
  <2>. QED  BY <1>1, <1>7, <2>1, <2>2 DEF Inv, TypeOK
<1>11. DeviceInv(d)'
  <2>1. \A t \in Slots : busid_table[t].name = d => t = s
    BY <1>2, StubBusidAssumption DEF Inv, TableInv
  <2>2. Bare(d, {"OTHER", "ADDED"})'
    BY <1>1, <1>4, <1>7, <1>8, <2>1 DEF Bare, Refer
  <2>. QED  BY <1>1, <1>4, <1>9, <2>2 DEF DeviceInv, IdleInv, ProbeInv, DisconnectInv
<1>12. OnlyOf(d)
  BY <1>1, <1>6 DEF Inv, TypeOK, OnlyOf
<1>13. \A t \in Slots \ {s} :
         busid_table[t].sdev # 0 => sdevs'[busid_table[t].sdev] = sdevs[busid_table[t].sdev]
  <2>1. \A t \in Slots \ {s} : busid_table[t].sdev # 0 => busid_table[t].sdev \in Sdevs \ {n}
    BY <1>5 DEF Inv, TypeOK, BusIdPriv, TableInv
  <2>. QED  BY <1>6, <2>1 DEF Inv, TypeOK
<1>14. /\ r.name \in {d, NoName}
       /\ r.name = NoName => r.sdev = 0 /\ r.status = "OTHER"
       /\ r.sdev # 0 => sdevs'[r.sdev] = IF r.shutdown_busid THEN "stopped" ELSE "running"
       /\ \A t \in Slots \ {s} : busid_table[t].sdev = r.sdev => r.sdev = 0
  BY <1>7, StubBusidAssumption
<1>20. Fits(d, s, r)
  BY <1>2, <1>7, <1>10, <1>11, <1>12, <1>13, <1>14, StubBusidAssumption DEF Fits
<1>. QED  BY <1>2, <1>10, <1>11, <1>12, <1>20, OwnEntry

\* The driver's own "del": the entry of a device that is gone is released,
\* or stays as the one that was added meanwhile.
LEMMA DisconnectDelStep ==
  ASSUME Inv, NEW d \in Devices, DisconnectDel(d)
  PROVE  Inv'
<1>1. op[d].pc = "del" /\ UNCHANGED <<sdevs, intfdata>> /\ busid_table' = Deleted(d)
  BY DEF DisconnectDel
<1>2. bound[d] = {op[d].iface} /\ Bare(d, {"OTHER", "ADDED"})
  BY <1>1 DEF Inv, DeviceInv, DisconnectInv
<1>3. /\ bound' = [bound EXCEPT ![d] = @ \ {op[d].iface}] /\ op' = [op EXCEPT ![d] = IdleOp]
      /\ bound'[d] = {} /\ op'[d] = IdleOp
  BY <1>2 DEF DisconnectDel, Ends, Inv, TypeOK
<1>4. bound' \in [Devices -> SUBSET Ifaces] /\ op' \in [Devices -> Ops]
  BY <1>3 DEF Inv, TypeOK, Ops
<1>5. OnlyOf(d)
  BY <1>1, <1>3 DEF Inv, TypeOK, OnlyOf
<1>6. Bare(d, {"ADDED"})' => DeviceInv(d)'
  BY <1>3 DEF DeviceInv, IdleInv, ProbeInv, DisconnectInv, IdleOp
<1>7. CASE Idx(d) = 0
  <2>1. busid_table' = busid_table /\ \A s \in Slots : busid_table[s].name # d
    BY <1>1, <1>7, IdxIsNamed DEF Deleted, Inv, Slots
  <2>2. TypeOK'
    BY <1>1, <1>4, <2>1 DEF Inv, TypeOK
  <2>3. Bare(d, {"ADDED"})'
    BY <1>1, <1>2, <2>1 DEF Bare
  <2>. QED  BY <1>1, <1>5, <1>6, <2>1, <2>2, <2>3, SameTable
<1>8. CASE Idx(d) # 0
  <2>1. PICK s \in Slots : s = Idx(d) /\ busid_table[s].name = d
    BY <1>8, IdxIsNamed DEF Inv
  <2>2. busid_table[s] \in BusIdPriv /\ busid_table[s].sdev = 0
        /\ busid_table[s].status \in {"OTHER", "ADDED"}
    BY <1>2, <2>1 DEF Inv, TypeOK, Bare
  <2>3. \A t \in Slots : busid_table[t].name = d => t = s
    BY <2>1, StubBusidAssumption DEF Inv, TableInv
  <2>4. CASE busid_table[s].status = "ADDED"
    <3>1. busid_table' = busid_table
      BY <1>1, <1>8, <2>1, <2>4 DEF Deleted
    <3>2. TypeOK'
      BY <1>1, <1>4, <3>1 DEF Inv, TypeOK
    <3>3. Bare(d, {"ADDED"})'
      BY <1>1, <1>2, <2>3, <2>4, <3>1 DEF Bare
    <3>. QED  BY <1>1, <1>5, <1>6, <3>1, <3>2, <3>3, SameTable
  <2>5. CASE busid_table[s].status = "OTHER"
    <3>1. PICK r \in BusIdPriv :
            /\ busid_table' = [busid_table EXCEPT ![s] = r]
            /\ r.name = NoName /\ r.sdev = 0 /\ r.status = "OTHER"
      <4> DEFINE r == [busid_table[s] EXCEPT !.name = NoName]
      <4>1. r \in BusIdPriv /\ r.name = NoName /\ r.sdev = 0 /\ r.status = "OTHER"
        BY <2>2, <2>5 DEF BusIdPriv
      <4>2. busid_table' = [busid_table EXCEPT ![s] = r]
        BY <1>1, <1>8, <2>1, <2>5 DEF Deleted
      <4>. QED  BY <4>1, <4>2
    <3>2. \A t \in Slots : busid_table'[t] = IF t = s THEN r ELSE busid_table[t]
      BY <3>1 DEF Inv, TypeOK
    <3>3. TypeOK'
      BY <1>1, <1>4, <3>1 DEF Inv, TypeOK
    <3>4. Bare(d, {"ADDED"})'
      <4>1. d # NoName
        BY StubBusidAssumption
      <4>. QED  BY <1>1, <1>2, <2>3, <3>1, <3>2, <4>1 DEF Bare
    <3>5. Fits(d, s, r)
      BY <1>1, <3>1 DEF Fits
    <3>. QED  BY <1>5, <1>6, <2>1, <3>3, <3>4, <3>5, OwnEntry
  <2>. QED  BY <2>2, <2>4, <2>5
<1>. QED  BY <1>7, <1>8

\* Every step keeps the invariant.
LEMMA NextInv == ~ DelRaces /\ Inv /\ [Next]_vars => Inv'
<1> SUFFICES ASSUME ~ DelRaces, Inv, [Next]_vars PROVE Inv'
  OBVIOUS
<1>1. CASE UNCHANGED vars
  BY <1>1, Stutter
<1>2. ASSUME NEW d \in Devices, add_match_busid(d) \/ del_match_busid(d)
      PROVE  Inv'
  BY <1>2, AddStep, DelStep
<1>3. ASSUME NEW d \in Devices,
             \/ ProbeCheck(d) \/ ProbeJoin(d) \/ ProbeAlloc(d) \/ ProbeNoMemory(d)
             \/ ProbeDone(d) \/ ProbeUndo(d)
      PROVE  Inv'
  BY <1>3, ProbeCheckStep, ProbeJoinStep, ProbeAllocStep, ProbeNoMemoryStep,
     ProbeDoneStep, ProbeUndoStep
<1>4. ASSUME NEW d \in Devices,
             DisconnectOne(d) \/ DisconnectLast(d) \/ DisconnectFree(d) \/ DisconnectDel(d)
      PROVE  Inv'
  BY <1>4, DisconnectOneStep, DisconnectLastStep, DisconnectFreeStep, DisconnectDelStep
<1>5. ASSUME NEW d \in Devices, NEW i \in Ifaces, ProbeBegin(d, i) \/ DisconnectBegin(d, i)
      PROVE  Inv'
  BY <1>5, ProbeBeginStep, DisconnectBeginStep
<1>. QED  BY <1>1, <1>2, <1>3, <1>4, <1>5 DEF Next

\* As long as no "del" comes between the two checks of stub_probe, whatever
\* user space writes to match_busid while devices are probed and disconnected
\* leaves the table in order and the entry of a device as its probe or
\* disconnect needs it.
THEOREM Invariance == ~ DelRaces => (Spec => []Inv)
<1> SUFFICES ASSUME ~ DelRaces PROVE Spec => []Inv
  OBVIOUS
<1>1. Inv /\ [Next]_vars => Inv'
  BY NextInv
<1>. QED  BY <1>1, InitInv, PTL DEF Spec

\* The bus id of a bound device is found, and its entry names the one
\* stub_device that all bound interfaces share: stub_disconnect never runs
\* into its BUG().
THEOREM BoundIsFoundHolds == ~ DelRaces => (Spec => []BoundIsFound)
<1>1. Inv => BoundIsFound
  <2> SUFFICES ASSUME Inv, NEW d \in Devices, NEW i \in bound[d], op[d] = IdleOp
               PROVE  /\ Idx(d) # 0
                      /\ busid_table[Idx(d)].sdev = intfdata[d][i]
                      /\ sdevs[intfdata[d][i]] \in {"running", "stopped"}
    BY DEF BoundIsFound
  <2>1. PICK s \in Slots : /\ Owns(d, s, {"ALLOC", "REMOV"})
                           /\ Counts(d, s) /\ Refer(d, s, bound[d])
    BY DEF Inv, DeviceInv, IdleInv, IdleOp
  <2>2. Idx(d) = s /\ s # 0
    BY <2>1, IdxIsNamed DEF Inv, Owns, Slots
  <2>3. i \in Ifaces
    BY DEF Inv, TypeOK
  <2>4. intfdata[d][i] = busid_table[s].sdev
    BY <2>1, <2>3 DEF Refer
  <2>5. sdevs[busid_table[s].sdev] \in {"running", "stopped"}
    BY <2>1 DEF Inv, TableInv, Owns
  <2>. QED  BY <2>2, <2>4, <2>5
<1>. QED  BY <1>1, Invariance, PTL

\* What an interface refers to is the stub_device of an entry.
LEMMA ReferredIsHeld ==
  ASSUME Inv, NEW d \in Devices, NEW i \in Ifaces, intfdata[d][i] # 0
  PROVE  \E s \in Slots : busid_table[s].sdev = intfdata[d][i]
<1>1. ASSUME NEW s \in Slots, NEW S, Refer(d, s, S)
      PROVE  busid_table[s].sdev = intfdata[d][i]
  BY <1>1 DEF Refer
<1>2. \A st : ~ Bare(d, st)
  BY DEF Bare
<1>3. CASE op[d].pc \in {"idle", "probe", "checked"}
  BY <1>1, <1>2, <1>3 DEF Inv, DeviceInv, IdleInv
<1>4. CASE op[d].pc \in {"alloc", "one", "last", "free"}
  BY <1>1, <1>4, ZenonT(60) DEF Inv, DeviceInv, ProbeInv, DisconnectInv, Owns
<1>5. CASE op[d].pc \in {"del", "bug", "oops"}
  BY <1>2, <1>5 DEF Inv, DeviceInv, DisconnectInv
<1>. QED  BY <1>3, <1>4, <1>5, Places DEF Inv, IdleOp

\* No stub_device is freed while its event thread runs.
NoneLost == \A n \in Sdevs : sdevs[n] # "lost"

\* A stub_device is freed by stub_disconnect only once it is stopped.
LEMMA NoneLostStep == Inv /\ NoneLost /\ [Next]_vars => NoneLost'
<1> SUFFICES ASSUME Inv, NoneLost, [Next]_vars PROVE NoneLost'
  OBVIOUS
<1>1. ASSUME NEW d \in Devices, DisconnectFree(d)
      PROVE  NoneLost'
  <2>1. op[d].pc = "free" /\ sdevs' = Freed(op[d].sdev)
    BY <1>1 DEF DisconnectFree
  <2>2. /\ Owns(d, op[d].slot, {"ALLOC", "REMOV"}) /\ op[d].sdev = busid_table[op[d].slot].sdev
        /\ busid_table[op[d].slot].shutdown_busid
    BY <2>1 DEF Inv, DeviceInv, DisconnectInv, Entry
  <2>3. sdevs[op[d].sdev] = "stopped"
    BY <2>2 DEF Inv, TableInv, Owns
  <2>. QED  BY <2>1, <2>3 DEF Freed, NoneLost, Inv, TypeOK
<1>2. ASSUME NEW d \in Devices, DisconnectOne(d) \/ DisconnectLast(d)
      PROVE  NoneLost'
  BY <1>2 DEF DisconnectOne, DisconnectLast, ShutDown, NoneLost, Inv, TypeOK
<1>3. ASSUME NEW d \in Devices, ProbeAlloc(d) \/ ProbeUndo(d)
      PROVE  NoneLost'
  <2>1. sdevs \in [Sdevs -> SdevLife]
    BY DEF Inv, TypeOK
  <2>. HIDE DEF Inv
  <2>2. CASE ProbeAlloc(d)
    <3>1. \E n : sdevs' = [sdevs EXCEPT ![n] = "running"]
      BY <2>2 DEF ProbeAlloc, AllocSdev
    <3>. QED  BY <2>1, <3>1 DEF NoneLost
  <2>3. CASE ProbeUndo(d)
    BY <2>1, <2>3 DEF ProbeUndo, NoneLost
  <2>. QED  BY <1>3, <2>2, <2>3
<1>4. CASE UNCHANGED sdevs
  BY <1>4 DEF NoneLost
<1>. QED
  BY <1>1, <1>2, <1>3, <1>4
     DEF Next, vars, add_match_busid, del_match_busid, ProbeCheck, ProbeJoin,
         ProbeNoMemory, ProbeDone, DisconnectDel, ProbeBegin, DisconnectBegin

\* No stub_device is freed while its event thread runs, while an entry names
\* it or while an interface refers to it.
THEOREM FreedIsUnusedHolds == ~ DelRaces => (Spec => []FreedIsUnused)
<1> SUFFICES ASSUME ~ DelRaces PROVE Spec => []FreedIsUnused
  OBVIOUS
<1>1. Init => NoneLost
  BY DEF Init, NoneLost
<1>2. Inv /\ NoneLost => FreedIsUnused
  <2> SUFFICES ASSUME Inv, NoneLost, NEW n \in Sdevs, sdevs[n] = "freed"
               PROVE  /\ \A s \in Slots : busid_table[s].sdev # n
                      /\ \A d \in Devices, i \in Ifaces : intfdata[d][i] # n
    BY DEF FreedIsUnused, NoneLost
  <2>1. n # 0
    BY DEF Sdevs
  <2>2. \A s \in Slots : busid_table[s].sdev # n
    BY <2>1 DEF Inv, TableInv
  <2>. QED  BY <2>1, <2>2, ReferredIsHeld
<1>3. Spec => []Inv
  BY Invariance
<1>. QED  BY <1>1, <1>2, <1>3, NoneLostStep, PTL DEF Spec

-----------------------------------------------------------------------------
(* The root hub.                                                           *)

USE DEF portVars, Passed

\* The initial state satisfies the invariant.
LEMMA HubInitInv == HubInit => HubInv
<1> SUFFICES ASSUME HubInit
             PROVE  HubInv
  OBVIOUS
<1>1. HubTypeOK
  <2>1. /\ view \in [Ports -> BOOLEAN]
        /\ poll \in BOOLEAN /\ resuming \in BOOLEAN
    BY Zenon DEF HubInit
  <2>3. /\ status \in [Ports -> Statuses]
        /\ link \in [Ports -> Links]
        /\ addressing \in SUBSET Ports
        /\ hub \in [Ports -> {"idle", "read", "clear"}]
    BY DEF HubInit, Statuses, Links
  <2>4. /\ port_status \in [Ports -> SUBSET PortBits]
        /\ timer \in Int /\ timer >= Passed
        /\ since \in [Ports -> 0 .. ResetTime + 1]
    BY VhciHubAssumption DEF HubInit
  <2> QED
    BY <2>1, <2>3, <2>4, Zenon DEF HubTypeOK
<1>2. \A p \in Ports : port_status[p] = {}
  BY DEF HubInit
<1>3. NeverResumes /\ NotEnabledInReset /\ TimeoutCovers
  BY <1>2 DEF HubInit, NeverResumes, NotEnabledInReset, TimeoutCovers
<1> QED
  BY <1>1, <1>3 DEF HubInv

\* The status a hub request returns, when no resume is pending.
LEMMA StatusReadFacts ==
  ASSUME HubTypeOK, NeverResumes, NEW p \in Ports
  PROVE  /\ StatusRead(p) \in SUBSET PortBits
         /\ "SUSPEND" \notin StatusRead(p)
         /\ ~ResetOver(p) => StatusRead(p) = port_status[p]
         /\ ResetOver(p) => "RESET" \notin StatusRead(p)
  BY DEF HubTypeOK, NeverResumes, StatusRead, ResetOver, ResumeOver, PortBits

\* GetPortStatus keeps the parts of the invariant it can disturb, and ends no
\* reset early.
LEMMA GetPortStatusKeeps ==
  ASSUME HubInv, NEW q \in Ports, GetPortStatus(q)
  PROVE  /\ port_status' \in [Ports -> SUBSET PortBits]
         /\ resuming' \in BOOLEAN
         /\ timer' \in Int /\ timer' >= Passed
         /\ since' \in [Ports -> 0 .. ResetTime + 1]
         /\ NeverResumes' /\ NotEnabledInReset' /\ TimeoutCovers'
         /\ \A p \in Ports :
              "RESET" \in port_status[p] /\ "RESET" \notin port_status'[p]
                => since[p] > ResetTime
<1> USE VhciHubAssumption
<1>1. /\ StatusRead(q) \in SUBSET PortBits
      /\ "SUSPEND" \notin StatusRead(q)
      /\ ~ResetOver(q) => StatusRead(q) = port_status[q]
      /\ ResetOver(q) => "RESET" \notin StatusRead(q)
  BY StatusReadFacts DEF HubInv
<1>2. ~resuming /\ ~ResumeOver
  BY DEF HubInv, NeverResumes, ResumeOver
<1>3. /\ port_status' \in [Ports -> SUBSET PortBits]
      /\ resuming' \in BOOLEAN
      /\ timer' \in Int /\ timer' >= Passed
      /\ since' \in [Ports -> 0 .. ResetTime + 1]
  BY <1>1 DEF GetPortStatus, HubInv, HubTypeOK
<1>4. NeverResumes'
  BY <1>1, <1>2 DEF GetPortStatus, HubInv, HubTypeOK, NeverResumes
<1>5. NotEnabledInReset'
  BY <1>1 DEF GetPortStatus, HubInv, HubTypeOK, NotEnabledInReset
<1>6. ResetOver(q) => timer = Passed /\ since[q] > ResetTime
  BY <1>2 DEF ResetOver, HubInv, HubTypeOK, TimeoutCovers
<1>7. TimeoutCovers'
  BY <1>1, <1>2, <1>6 DEF GetPortStatus, HubInv, HubTypeOK, TimeoutCovers
<1>8. \A p \in Ports :
        "RESET" \in port_status[p] /\ "RESET" \notin port_status'[p]
          => since[p] > ResetTime
  BY <1>1, <1>6 DEF GetPortStatus, HubInv, HubTypeOK
<1> QED
  BY <1>3, <1>4, <1>5, <1>7, <1>8

\* So does clearing a feature; a port whose power is cut has no reset left.
LEMMA ClearKeeps ==
  ASSUME HubInv, NEW q \in Ports,
         NEW f \in ClearFeatures \cup {"C_CONNECTION"}, ClearPortFeature(q, f)
  PROVE  /\ port_status' \in [Ports -> SUBSET PortBits]
         /\ resuming' \in BOOLEAN
         /\ timer' \in Int /\ timer' >= Passed
         /\ since' \in [Ports -> 0 .. ResetTime + 1]
         /\ NeverResumes' /\ NotEnabledInReset' /\ TimeoutCovers'
         /\ \A p \in Ports :
              "RESET" \in port_status[p] /\ "RESET" \notin port_status'[p]
                => "C_RESET" \notin port_status'[p]
<1> USE VhciHubAssumption DEF HubInv, HubTypeOK, NeverResumes, NotEnabledInReset,
                              TimeoutCovers, ClearPortFeature
<1>1. CASE f = "SUSPEND"
  <2>1. UNCHANGED <<port_status, resuming, timer, since>>
    BY <1>1
  <2> QED
    BY <2>1
<1>2. CASE f = "POWER"
  <2>1. /\ port_status' = [port_status EXCEPT ![q] = {}]
        /\ resuming' = FALSE /\ timer' = timer
        /\ since' = [since EXCEPT ![q] = 0]
    BY <1>2
  <2>2. /\ port_status'[q] = {}
        /\ \A p \in Ports \ {q} : /\ port_status'[p] = port_status[p]
                                 /\ since'[p] = since[p]
    BY <2>1
  <2>3. /\ port_status' \in [Ports -> SUBSET PortBits]
        /\ since' \in [Ports -> 0 .. ResetTime + 1]
    BY <2>1
  <2> QED
    BY <2>1, <2>2, <2>3, ZenonT(60)
<1>3. CASE f \notin {"SUSPEND", "POWER"}
  <2>1. /\ port_status' = [port_status EXCEPT ![q] = @ \ {f}]
        /\ UNCHANGED <<resuming, timer, since>>
    BY <1>3
  <2>2. f # "RESET"
    BY VhciHubAssumption
  <2> QED
    BY <2>1, <2>2
<1> QED
  BY <1>1, <1>2, <1>3

\* So does setting one: a reset disables the port and restarts the time-out.
LEMMA SetKeeps ==
  ASSUME HubInv, NEW q \in Ports, NEW f \in SetFeatures, SetPortFeature(q, f)
  PROVE  /\ port_status' \in [Ports -> SUBSET PortBits]
         /\ resuming' \in BOOLEAN
         /\ timer' \in Int /\ timer' >= Passed
         /\ since' \in [Ports -> 0 .. ResetTime + 1]
         /\ NeverResumes' /\ NotEnabledInReset' /\ TimeoutCovers'
         /\ \A p \in Ports :
              "RESET" \in port_status[p] => "RESET" \in port_status'[p]
<1> USE VhciHubAssumption DEF HubInv, HubTypeOK, NeverResumes, NotEnabledInReset,
                              TimeoutCovers, SetPortFeature
<1>1. CASE f = "RESET"
  <2>1. /\ port_status' = [port_status EXCEPT ![q] =
                             (@ \ {"ENABLE"}) \cup {"RESET"}]
        /\ timer' = ResetTime /\ resuming' = resuming
        /\ since' = [since EXCEPT ![q] = 0]
    BY <1>1
  <2>2. port_status' \in [Ports -> SUBSET PortBits]
    BY <2>1 DEF PortBits
  <2> QED
    BY <2>1, <2>2
<1>2. CASE f = "SUSPEND"
  <2>1. UNCHANGED <<port_status, resuming, timer, since>>
    BY <1>2
  <2> QED
    BY <2>1
<1>3. CASE f = "POWER"
  <2>1. /\ port_status' = [port_status EXCEPT ![q] = @ \cup {"POWER"}]
        /\ UNCHANGED <<resuming, timer, since>>
    BY <1>3
  <2>2. port_status' \in [Ports -> SUBSET PortBits]
    BY <2>1 DEF PortBits
  <2> QED
    BY <2>1, <2>2
<1> QED
  BY <1>1, <1>2, <1>3

-----------------------------------------------------------------------------

\* What a step must establish, given the variables it leaves alone.
LEMMA Rest ==
  ASSUME HubInv,
         /\ port_status' \in [Ports -> SUBSET PortBits]
         /\ resuming' \in BOOLEAN
         /\ timer' \in Int /\ timer' >= Passed
         /\ since' \in [Ports -> 0 .. ResetTime + 1],
         NeverResumes' /\ NotEnabledInReset' /\ TimeoutCovers',
         UNCHANGED <<status, link, addressing, poll>>,
         hub' \in [Ports -> {"idle", "read", "clear"}],
         view' \in [Ports -> BOOLEAN]
  PROVE  HubInv'
<1>1. HubTypeOK'
  BY DEF HubInv, HubTypeOK
<1> QED
  BY <1>1 DEF HubInv

\* Changes of a port's link and status keep the invariant: they touch no bit
\* of port_status that it is about.
LEMMA LinkKeeps ==
  ASSUME HubInv, NEW p \in Ports,
         \/ Attach(p) \/ rh_port_connect(p) \/ SetAddress(p) \/ SetUsed(p)
         \/ rh_port_disconnect(p)
         \/ vhci_device_reset(p) \/ vhci_device_unusable(p)
  PROVE  /\ HubInv'
         /\ \A q \in Ports :
              "RESET" \in port_status[q] => "RESET" \in port_status'[q]
<1>1. /\ port_status' \in [Ports -> SUBSET PortBits]
      /\ \A q \in Ports :
           port_status'[q] \ {"CONNECTION", "C_CONNECTION"}
             = port_status[q] \ {"CONNECTION", "C_CONNECTION"}
  BY DEF HubInv, HubTypeOK, Attach, rh_port_connect, SetAddress, SetUsed,
         rh_port_disconnect, vhci_device_reset, vhci_device_unusable, PortBits
<1>2. UNCHANGED <<resuming, timer, since, hub, view>>
  BY DEF Attach, rh_port_connect, SetAddress, SetUsed, rh_port_disconnect,
         vhci_device_reset, vhci_device_unusable
<1>3. NeverResumes' /\ NotEnabledInReset' /\ TimeoutCovers'
  BY <1>1, <1>2 DEF HubInv, NeverResumes, NotEnabledInReset, TimeoutCovers
<1>4. /\ status' \in [Ports -> Statuses]
      /\ link' \in [Ports -> Links]
      /\ addressing' \in SUBSET Ports
  BY DEF HubInv, HubTypeOK, Attach, rh_port_connect, SetAddress, SetUsed,
         rh_port_disconnect, vhci_device_reset, vhci_device_unusable,
         Statuses, Links
<1>5. poll' \in BOOLEAN
  BY Zenon DEF HubInv, HubTypeOK, Attach, rh_port_connect, SetAddress, SetUsed,
               rh_port_disconnect, vhci_device_reset, vhci_device_unusable
<1>6. HubTypeOK'
  BY <1>1, <1>2, <1>4, <1>5 DEF HubInv, HubTypeOK
<1> QED
  BY <1>1, <1>3, <1>6 DEF HubInv

\* A tick takes from the time-out what it adds to the time signalled.
LEMMA TickKeeps ==
  ASSUME HubInv, Tick
  PROVE  HubInv'
<1> USE VhciHubAssumption
<1>1. UNCHANGED <<status, link, addressing, port_status, resuming, poll, hub, view>>
  BY DEF Tick
<1>2. timer' = IF timer = Passed THEN Passed ELSE timer - 1
  BY DEF Tick, Later
<1>3. \A p \in Ports : since'[p] = IF "RESET" \in port_status[p]
                                      /\ since[p] <= ResetTime
                                   THEN since[p] + 1 ELSE since[p]
  BY DEF Tick
<1>4. /\ timer' \in Int /\ timer' >= Passed
      /\ since' \in [Ports -> 0 .. ResetTime + 1]
  BY <1>2 DEF HubInv, HubTypeOK, Tick
<1>5. TimeoutCovers'
  BY <1>1, <1>2, <1>3 DEF HubInv, HubTypeOK, TimeoutCovers
<1>6. NeverResumes' /\ NotEnabledInReset'
  BY <1>1 DEF HubInv, NeverResumes, NotEnabledInReset
<1>7. HubTypeOK'
  BY <1>1, <1>4, Zenon DEF HubInv, HubTypeOK
<1> QED
  BY <1>5, <1>6, <1>7 DEF HubInv

\* The promise of ResetSignalled, for one step.
EndsOnTime ==
  \A p \in Ports :
    ("RESET" \in port_status[p] /\ "RESET" \notin port_status'[p]
       /\ "C_RESET" \in port_status'[p])
    => since[p] > ResetTime

\* Every step keeps the invariant and ends no reset early.
LEMMA HubStepInv == HubInv /\ [HubNext]_hubVars => HubInv' /\ EndsOnTime
<1> SUFFICES ASSUME HubInv, [HubNext]_hubVars
             PROVE  HubInv' /\ EndsOnTime
  OBVIOUS
<1> USE DEF EndsOnTime
<1>1. CASE vhci_hub_status
  <2>1. UNCHANGED <<status, link, addressing, port_status, resuming, timer, view, since>>
    BY <1>1 DEF vhci_hub_status
  <2>2. poll' \in BOOLEAN
    BY <1>1 DEF vhci_hub_status
  <2>3. hub' \in [Ports -> {"idle", "read", "clear"}]
    BY <1>1 DEF vhci_hub_status, HubInv, HubTypeOK
  <2>4. HubTypeOK'
    BY <2>1, <2>2, <2>3, Zenon DEF HubInv, HubTypeOK
  <2>5. NeverResumes' /\ NotEnabledInReset' /\ TimeoutCovers'
    BY <2>1 DEF HubInv, NeverResumes, NotEnabledInReset, TimeoutCovers
  <2> QED
    BY <2>1, <2>4, <2>5 DEF HubInv
<1>2. CASE Tick
  BY <1>2, TickKeeps DEF Tick
<1>3. ASSUME NEW p \in Ports,
             \/ Attach(p) \/ rh_port_connect(p) \/ SetAddress(p)
             \/ SetUsed(p) \/ rh_port_disconnect(p)
             \/ vhci_device_reset(p) \/ vhci_device_unusable(p)
      PROVE  HubInv' /\ EndsOnTime
  BY <1>3, LinkKeeps
<1>4. ASSUME NEW p \in Ports, HubReads(p)
      PROVE  HubInv' /\ EndsOnTime
  <2>1. GetPortStatus(p) /\ UNCHANGED <<status, link, addressing, poll>>
    BY <1>4 DEF HubReads
  <2>2. hub' \in [Ports -> {"idle", "read", "clear"}]
    BY <1>4 DEF HubReads, HubInv, HubTypeOK
  <2>3. view' \in [Ports -> BOOLEAN]
    <3> DEFINE known == "CONNECTION" \in port_status'[p]
    <3>1. view \in [Ports -> BOOLEAN] /\ known \in BOOLEAN
      BY DEF HubInv, HubTypeOK
    <3>2. UNCHANGED view \/ view' = [view EXCEPT ![p] = known]
      BY <1>4, Zenon DEF HubReads
    <3> HIDE DEF known
    <3>3. CASE UNCHANGED view
      BY <3>1, <3>3
    <3>4. CASE view' = [view EXCEPT ![p] = known]
      BY <3>1, <3>4, Zenon
    <3> QED
      BY <3>2, <3>3, <3>4
  <2> QED
    BY <2>1, <2>2, <2>3, GetPortStatusKeeps, Rest
<1>5. ASSUME NEW p \in Ports, HubClears(p)
      PROVE  HubInv' /\ EndsOnTime
  <2>1. /\ ClearPortFeature(p, "C_CONNECTION")
        /\ UNCHANGED <<status, link, addressing, poll>>
    BY <1>5 DEF HubClears
  <2>2. /\ hub' \in [Ports -> {"idle", "read", "clear"}]
        /\ view' \in [Ports -> BOOLEAN]
    BY <1>5 DEF HubClears, HubInv, HubTypeOK
  <2> QED
    BY <2>1, <2>2, ClearKeeps, Rest
<1>6. ASSUME NEW p \in Ports, PollReset(p)
      PROVE  HubInv' /\ EndsOnTime
  <2>1. GetPortStatus(p) /\ UNCHANGED <<status, link, addressing, poll, hub, view>>
    BY <1>6 DEF PollReset
  <2>2. /\ hub' \in [Ports -> {"idle", "read", "clear"}]
        /\ view' \in [Ports -> BOOLEAN]
    BY <2>1 DEF HubInv, HubTypeOK
  <2> QED
    BY <2>1, <2>2, GetPortStatusKeeps, Rest
<1>7. ASSUME NEW p \in Ports, HubRequest(p)
      PROVE  HubInv' /\ EndsOnTime
  <2>1. UNCHANGED <<status, link, addressing, poll, hub>>
    BY <1>7 DEF HubRequest
  <2>2. hub' \in [Ports -> {"idle", "read", "clear"}]
    BY <2>1 DEF HubInv, HubTypeOK
  <2>3. ASSUME NEW f \in SetFeatures, SetPortFeature(p, f), UNCHANGED view
        PROVE  HubInv' /\ EndsOnTime
    <3>1. view' \in [Ports -> BOOLEAN]
      BY <2>3 DEF HubInv, HubTypeOK
    <3> QED
      BY <2>1, <2>2, <2>3, <3>1, SetKeeps, Rest
  <2>4. ASSUME NEW f \in ClearFeatures, ClearPortFeature(p, f),
               view' = IF f = "POWER" THEN [view EXCEPT ![p] = FALSE]
                       ELSE view
        PROVE  HubInv' /\ EndsOnTime
    <3>1. view' \in [Ports -> BOOLEAN]
      BY <2>4, Zenon DEF HubInv, HubTypeOK
    <3> QED
      BY <2>1, <2>2, <2>4, <3>1, ClearKeeps, Rest
  <2> QED
    BY <1>7, <2>3, <2>4 DEF HubRequest
<1>8. CASE UNCHANGED hubVars
  <2>1. UNCHANGED <<status, link, addressing, port_status, resuming, timer, poll, hub,
                    view, since>>
    BY <1>8 DEF hubVars
  <2>2. NeverResumes' /\ NotEnabledInReset' /\ TimeoutCovers'
    BY <2>1 DEF HubInv, NeverResumes, NotEnabledInReset, TimeoutCovers
  <2>3. HubTypeOK'
    BY <2>1, Zenon DEF HubInv, HubTypeOK
  <2> QED
    BY <2>1, <2>2, <2>3 DEF HubInv
<1> QED
  BY <1>1, <1>2, <1>3, <1>4, <1>5, <1>6, <1>7, <1>8 DEF HubNext

\* For any number of ports and any lengths of the two time-outs, whoever
\* resets, enables, attaches or tears down a port: what is left of re_timeout
\* covers every port in reset, none of them is enabled, and none resumes.
THEOREM HubInvariance == HubSpec => []HubInv
<1>1. HubInv /\ [HubNext]_hubVars => HubInv'
  BY HubStepInv
<1> QED
  BY HubInitInv, <1>1, PTL DEF HubSpec

\* However the requests for the ports interleave, no port is enabled while it
\* is being reset.
THEOREM NotEnabledInResetHolds == HubSpec => []NotEnabledInReset
<1>1. HubInv => NotEnabledInReset
  BY DEF HubInv
<1> QED
  BY HubInvariance, <1>1, PTL

\* For any number of ports and any lengths of the two time-outs, the one
\* re_timeout is enough: no port's reset is over before it was signalled for
\* its whole time.
THEOREM ResetSignalledHolds == HubSpec => ResetSignalled
<1>1. HubInv /\ [HubNext]_hubVars => [EndsOnTime]_hubVars
  BY HubStepInv
<1> QED
  BY HubInvariance, <1>1, PTL DEF HubSpec, ResetSignalled, EndsOnTime

-----------------------------------------------------------------------------
(* What one URB carries over the connection: sums of lists of lengths.     *)

\* Complete induction, as a fact about sets.
LEMMA Induct ==
  ASSUME NEW S, 0 \in S, \A n \in Nat : n \in S => n + 1 \in S
  PROVE  Nat \subseteq S
<1> SUFFICES ASSUME Nat \ S # {} PROVE FALSE
  OBVIOUS
<1>1. PICK n \in Nat \ S : \A m \in Nat \ S : ~ (<<m, n>> \in OpToRel(<, Nat))
  BY NatLessThanWellFounded, WFMin, Zenon
<1>2. n # 0 /\ n - 1 \in Nat
  OBVIOUS
<1>3. <<n - 1, n>> \in OpToRel(<, Nat)
  BY <1>2 DEF OpToRel
<1>4. (n - 1) + 1 = n /\ n \in Nat /\ n \notin S
  OBVIOUS
<1> QED
  BY <1>1, <1>2, <1>3, <1>4, Zenon

\* Induction up to a number.
LEMMA InductTo ==
  ASSUME NEW n \in Nat, NEW S, 0 \in S, \A m \in 1 .. n : m - 1 \in S => m \in S
  PROVE  0 .. n \subseteq S
<1> DEFINE T == {m \in Nat : m <= n => m \in S}
<1>1. 0 \in T
  OBVIOUS
<1>2. ASSUME NEW m \in Nat, m \in T PROVE m + 1 \in T
  <2>1. CASE m + 1 <= n
    <3>1. m + 1 \in 1 .. n /\ (m + 1) - 1 = m /\ m \in S
      BY <1>2, <2>1
    <3> QED
      BY <3>1
  <2>2. CASE ~ m + 1 <= n
    BY <2>2
  <2> QED
    BY <2>1, <2>2
<1> HIDE DEF T
<1>3. Nat \subseteq T
  BY <1>1, <1>2, Induct
<1> QED
  BY <1>3 DEF T

-----------------------------------------------------------------------------
(* Sums.                                                                   *)

\* The greatest of a set of numbers up to n, where n is one of them.
LEMMA MaxIsLast ==
  ASSUME NEW n \in Nat, NEW t \in SUBSET (1 .. n), n \in t
  PROVE  Max(t) = n
<1>1. \A y \in t : n >= y
  OBVIOUS
<1>2. \A x \in t : (\A y \in t : x >= y) => x = n
  OBVIOUS
<1>3. \E x \in t : \A y \in t : x >= y
  BY <1>1
<1>4. Max(t) \in t /\ \A y \in t : Max(t) >= y
  BY <1>3, Zenon DEF Max
<1> QED
  BY <1>2, <1>4

\* The fold behind Sum has the values that its equation asks for.
LEMMA FoldExists ==
  ASSUME NEW s, NEW n \in Nat
  PROVE  \E g : g = [t \in SUBSET (1 .. n) |->
                       IF t = {} THEN 0 ELSE g[t \ {Max(t)}] + s[Max(t)]]
<1> DEFINE Eq(g, k) == g = [t \in SUBSET (1 .. k) |->
                              IF t = {} THEN 0 ELSE g[t \ {Max(t)}] + s[Max(t)]]
           S == {k \in Nat : \E g : Eq(g, k)}
<1>1. 0 \in S
  <2> DEFINE g == [t \in SUBSET (1 .. 0) |-> 0]
  <2>1. \A t \in SUBSET (1 .. 0) : t = {}
    OBVIOUS
  <2>2. Eq(g, 0)
    BY <2>1
  <2> HIDE DEF Eq, g
  <2> QED
    BY <2>2
<1>2. ASSUME NEW k \in Nat, k \in S PROVE k + 1 \in S
  <2>1. PICK g : Eq(g, k)
    BY <1>2
  <2> DEFINE h == [t \in SUBSET (1 .. k + 1) |->
                     IF k + 1 \in t THEN g[t \ {k + 1}] + s[k + 1] ELSE g[t]]
  <2>2. ASSUME NEW t \in SUBSET (1 .. k + 1)
        PROVE  h[t] = IF t = {} THEN 0 ELSE h[t \ {Max(t)}] + s[Max(t)]
    <3>1. CASE k + 1 \in t
      <4>1. Max(t) = k + 1
        BY <3>1, MaxIsLast
      <4>2. t \ {k + 1} \in SUBSET (1 .. k + 1) /\ k + 1 \notin t \ {k + 1} /\ t # {}
        BY <3>1
      <4> QED
        BY <3>1, <4>1, <4>2, Zenon
    <3>2. CASE k + 1 \notin t
      <4>1. t \in SUBSET (1 .. k)
        BY <3>2
      <4>2. t \ {Max(t)} \in SUBSET (1 .. k + 1) /\ k + 1 \notin t \ {Max(t)}
        BY <3>2
      <4>3. g[t] = IF t = {} THEN 0 ELSE g[t \ {Max(t)}] + s[Max(t)]
        BY <2>1, <4>1, Zenon
      <4> QED
        BY <3>2, <4>2, <4>3, Zenon
    <3> QED
      BY <3>1, <3>2
  <2>3. Eq(h, k + 1)
    BY <2>2, Zenon
  <2> HIDE DEF h, Eq
  <2> QED
    BY <2>3
<1> HIDE DEF S
<1>3. Nat \subseteq S
  BY <1>1, <1>2, Induct
<1> QED
  BY <1>3 DEF S

\* p has the sums of the beginnings of a list of numbers;
Sums(p, s) ==
  /\ p \in [0 .. Len(s) -> Nat] /\ p[0] = 0
  /\ \A m \in 1 .. Len(s) : p[m] = p[m - 1] + s[m]

\* there is such a p, and the last of them is the sum,
LEMMA PartialSums ==
  ASSUME NEW s \in Seq(Nat)
  PROVE  \E p : Sums(p, s) /\ Sum(s) = p[Len(s)]
<1> DEFINE n == Len(s)
           g == CHOOSE g : g = [t \in SUBSET (DOMAIN s) |->
                                  IF t = {} THEN 0 ELSE g[t \ {Max(t)}] + s[Max(t)]]
           p == [m \in 0 .. n |-> g[1 .. m]]
<1>1. n \in Nat /\ DOMAIN s = 1 .. n /\ \A m \in 1 .. n : s[m] \in Nat
  OBVIOUS
<1>2. Sum(s) = g[DOMAIN s]
  BY Zenon DEF Sum, FoldLeft, MapThenFoldSet
<1>3. g = [t \in SUBSET (1 .. n) |-> IF t = {} THEN 0 ELSE g[t \ {Max(t)}] + s[Max(t)]]
  <2>1. \E f : f = [t \in SUBSET (1 .. n) |-> IF t = {} THEN 0 ELSE f[t \ {Max(t)}] + s[Max(t)]]
    BY <1>1, FoldExists
  <2> QED
    BY <1>1, <2>1, Zenon
<1> HIDE DEF g, n
<1>4. p[0] = 0
  <2>1. 1 .. 0 = {} /\ {} \in SUBSET (1 .. n) /\ 0 \in 0 .. n
    BY <1>1
  <2> QED
    BY <1>3, <2>1, Zenon
<1>5. ASSUME NEW m \in 1 .. n
      PROVE  p[m] = p[m - 1] + s[m]
  <2>1. 1 .. m \in SUBSET (1 .. n) /\ 1 .. m # {} /\ m \in 0 .. n /\ m - 1 \in 0 .. n
    BY <1>1
  <2>2. Max(1 .. m) = m
    BY MaxIsLast
  <2>3. (1 .. m) \ {m} = 1 .. (m - 1)
    BY <1>1
  <2> QED
    BY <1>3, <2>1, <2>2, <2>3, Zenon
<1>6. p \in [0 .. n -> Nat]
  <2> DEFINE S == {m \in 0 .. n : p[m] \in Nat}
  <2> HIDE DEF p
  <2>1. 0 \in S
    BY <1>1, <1>4
  <2>2. ASSUME NEW m \in 1 .. n, m - 1 \in S PROVE m \in S
    <3>1. p[m - 1] \in Nat /\ s[m] \in Nat /\ p[m] = p[m - 1] + s[m] /\ m \in 0 .. n
      BY <1>1, <1>5, <2>2
    <3> QED
      BY <3>1
  <2> HIDE DEF S
  <2>3. 0 .. n \subseteq S
    BY <1>1, <2>1, <2>2, InductTo
  <2>4. \A m \in 0 .. n : p[m] \in Nat
    BY <2>3 DEF S
  <2> QED
    BY <2>4 DEF p
<1>7. Sum(s) = p[n]
  BY <1>1, <1>2
<1> HIDE DEF p
<1> QED
  BY <1>4, <1>5, <1>6, <1>7, Zenon DEF n, Sums

\* whichever p it is.
LEMMA SumIs ==
  ASSUME NEW s \in Seq(Nat), NEW p, Sums(p, s)
  PROVE  Sum(s) = p[Len(s)]
<1>1. PICK q : Sums(q, s) /\ Sum(s) = q[Len(s)]
  BY PartialSums, Zenon
<1> DEFINE S == {m \in 0 .. Len(s) : p[m] = q[m]}
<1>2. Len(s) \in Nat
  OBVIOUS
<1>3. 0 \in S
  BY <1>1, <1>2 DEF Sums
<1>4. ASSUME NEW m \in 1 .. Len(s), m - 1 \in S PROVE m \in S
  BY <1>1, <1>2, <1>4 DEF Sums
<1> HIDE DEF S
<1>5. 0 .. Len(s) \subseteq S
  BY <1>2, <1>3, <1>4, InductTo
<1>6. Len(s) \in 0 .. Len(s)
  BY <1>2
<1> QED
  BY <1>1, <1>5, <1>6 DEF S

\* Zeros,
LEMMA SumOfZeros ==
  ASSUME NEW s \in Seq(Nat), \A i \in 1 .. Len(s) : s[i] = 0
  PROVE  Sum(s) = 0
<1> DEFINE p == [m \in 0 .. Len(s) |-> 0]
<1>1. Len(s) \in Nat
  OBVIOUS
<1>2. Sums(p, s) /\ p[Len(s)] = 0
  BY <1>1 DEF Sums
<1> HIDE DEF p
<1> QED
  BY <1>2, SumIs

\* the end of a list,
LEMMA SumOfEnd ==
  ASSUME NEW s \in Seq(Nat), NEW p, Sums(p, s), NEW i \in 1 .. Len(s) + 1
  PROVE  Sum(SubSeq(s, i, Len(s))) = p[Len(s)] - p[i - 1]
<1> DEFINE n == Len(s)
           e == SubSeq(s, i, n)
           q == [m \in 0 .. n + 1 - i |-> p[i - 1 + m] - p[i - 1]]
           S == {m \in 0 .. n + 1 - i : p[i - 1 + m] >= p[i - 1]}
<1>1. n \in Nat /\ i - 1 \in 0 .. n /\ n + 1 - i \in Nat
  OBVIOUS
<1>2. e \in Seq(Nat) /\ Len(e) = n + 1 - i /\ \A m \in 1 .. n + 1 - i : e[m] = s[i - 1 + m]
  <2>1. \A m \in 1 .. n + 1 - i : i + m - 1 = i - 1 + m
    BY <1>1
  <2> QED
    BY <1>1, <2>1
<1>3. \A m \in 0 .. n + 1 - i : i - 1 + m \in 0 .. n
  BY <1>1
<1>4. \A m \in 1 .. n + 1 - i :
        /\ i - 1 + m \in 1 .. n /\ m - 1 \in 0 .. n + 1 - i
        /\ i - 1 + m - 1 = i - 1 + (m - 1) /\ s[i - 1 + m] \in Nat
  BY <1>1
<1> HIDE DEF n, e
<1>5. \A m \in 1 .. n + 1 - i : p[i - 1 + m] = p[i - 1 + (m - 1)] + s[i - 1 + m]
  BY <1>4 DEF Sums, n
<1>6. p \in [0 .. n -> Nat]
  BY DEF Sums, n
<1>7. 0 .. n + 1 - i \subseteq S
  <2>1. 0 \in S
    <3>1. i - 1 + 0 = i - 1 /\ p[i - 1] \in Nat /\ 0 \in 0 .. n + 1 - i
      BY <1>1, <1>6
    <3> QED
      BY <3>1
  <2>2. ASSUME NEW m \in 1 .. n + 1 - i, m - 1 \in S PROVE m \in S
    <3>1. p[i - 1 + (m - 1)] \in Nat /\ p[i - 1] \in Nat /\ p[i - 1 + (m - 1)] >= p[i - 1]
      BY <1>1, <1>3, <1>4, <1>6, <2>2
    <3>2. p[i - 1 + m] = p[i - 1 + (m - 1)] + s[i - 1 + m] /\ s[i - 1 + m] \in Nat
      BY <1>4, <1>5
    <3>3. m \in 0 .. n + 1 - i
      BY <1>1
    <3> QED
      BY <3>1, <3>2, <3>3
  <2> HIDE DEF S
  <2> QED
    BY <1>1, <2>1, <2>2, InductTo
<1>8. Sums(q, e)
  <2>1. ASSUME NEW m \in 0 .. n + 1 - i PROVE q[m] \in Nat
    <3>1. p[i - 1 + m] \in Nat /\ p[i - 1] \in Nat
      BY <1>1, <1>3, <1>6
    <3>2. p[i - 1 + m] >= p[i - 1]
      BY <1>7
    <3> QED
      BY <3>1, <3>2
  <2>2. q[0] = 0
    <3>1. i - 1 + 0 = i - 1 /\ p[i - 1] \in Nat /\ 0 \in 0 .. n + 1 - i
      BY <1>1, <1>6
    <3> QED
      BY <3>1
  <2>3. ASSUME NEW m \in 1 .. n + 1 - i PROVE q[m] = q[m - 1] + e[m]
    <3>1. /\ p[i - 1 + (m - 1)] \in Nat /\ p[i - 1] \in Nat /\ s[i - 1 + m] \in Nat
          /\ p[i - 1 + m] = p[i - 1 + (m - 1)] + s[i - 1 + m]
      BY <1>1, <1>3, <1>4, <1>5, <1>6
    <3>2. /\ q[m] = p[i - 1 + m] - p[i - 1] /\ q[m - 1] = p[i - 1 + (m - 1)] - p[i - 1]
          /\ e[m] = s[i - 1 + m]
      BY <1>1, <1>2, <1>4, SMTT(30)
    <3> QED
      BY <3>1, <3>2, SMTT(30)
  <2>4. q \in [0 .. n + 1 - i -> Nat]
    BY <2>1
  <2> HIDE DEF q
  <2> QED
    BY <1>2, <2>2, <2>3, <2>4, Zenon DEF Sums
<1>9. q[n + 1 - i] = p[n] - p[i - 1]
  BY <1>1
<1> HIDE DEF q
<1> QED
  BY <1>2, <1>8, <1>9, SumIs DEF n, e

\* and two lists of which one is nowhere greater.
LEMMA SumsAgree ==
  ASSUME NEW s \in Seq(Nat), NEW t \in Seq(Nat), Len(s) = Len(t),
         \A i \in 1 .. Len(s) : s[i] <= t[i], Sum(s) = Sum(t)
  PROVE  s = t
<1> DEFINE n == Len(s)
<1>1. PICK p : Sums(p, s) /\ Sum(s) = p[Len(s)]
  BY PartialSums
<1>2. PICK q : Sums(q, t) /\ Sum(t) = q[Len(t)]
  BY PartialSums
<1> DEFINE S == {m \in 0 .. n : /\ p[m] <= q[m]
                                /\ p[m] = q[m] => \A i \in 1 .. m : s[i] = t[i]}
<1>3. n \in Nat /\ \A i \in 1 .. n : s[i] \in Nat /\ t[i] \in Nat /\ s[i] <= t[i]
  OBVIOUS
<1>4. p \in [0 .. n -> Nat] /\ q \in [0 .. n -> Nat] /\ p[0] = 0 /\ q[0] = 0 /\ p[n] = q[n]
  BY <1>1, <1>2 DEF Sums
<1>5. \A m \in 1 .. n : p[m] = p[m - 1] + s[m] /\ q[m] = q[m - 1] + t[m]
  BY <1>1, <1>2 DEF Sums
<1> HIDE DEF n
<1>6. 0 \in S
  BY <1>3, <1>4
<1>7. ASSUME NEW m \in 1 .. n, m - 1 \in S PROVE m \in S
  <2>1. /\ p[m - 1] \in Nat /\ q[m - 1] \in Nat /\ p[m - 1] <= q[m - 1] /\ m \in 0 .. n
        /\ p[m - 1] = q[m - 1] => \A i \in 1 .. m - 1 : s[i] = t[i]
    BY <1>3, <1>4, <1>7
  <2>2. s[m] \in Nat /\ t[m] \in Nat /\ s[m] <= t[m]
    BY <1>3
  <2>3. p[m] = p[m - 1] + s[m] /\ q[m] = q[m - 1] + t[m]
    BY <1>5
  <2>4. p[m] <= q[m] /\ (p[m] = q[m] => p[m - 1] = q[m - 1] /\ s[m] = t[m])
    BY <2>1, <2>2, <2>3
  <2>5. \A i \in 1 .. m : i \in 1 .. m - 1 \/ i = m
    BY <1>3
  <2> QED
    BY <2>1, <2>4, <2>5
<1> HIDE DEF S
<1>8. 0 .. n \subseteq S
  BY <1>3, <1>6, <1>7, InductTo
<1>9. \A i \in 1 .. n : s[i] = t[i]
  <2>1. n \in 0 .. n
    BY <1>3
  <2> QED
    BY <1>4, <1>8, <2>1 DEF S
<1> QED
  BY <1>9 DEF n

-----------------------------------------------------------------------------
(* The packets of an isochronous URB, moved together and apart again.      *)

\* The sums grow.
LEMMA SumsGrow ==
  ASSUME NEW s \in Seq(Nat), NEW p, Sums(p, s), NEW j \in 0 .. Len(s), NEW i \in 0 .. j
  PROVE  p[i] \in Nat /\ p[j] \in Nat /\ p[i] <= p[j]
<1> DEFINE S == {m \in 0 .. j : p[m] \in Nat /\ \A k \in 0 .. m : p[k] <= p[m]}
<1>1. j \in Nat /\ \A m \in 0 .. j : p[m] \in Nat
  BY SMTT(30) DEF Sums
<1>2. 0 \in S
  BY <1>1
<1>3. ASSUME NEW m \in 1 .. j, m - 1 \in S PROVE m \in S
  <2>1. p[m] = p[m - 1] + s[m] /\ s[m] \in Nat
    BY DEF Sums
  <2>2. p[m - 1] \in Nat /\ p[m] \in Nat /\ \A k \in 0 .. m - 1 : p[k] <= p[m - 1] /\ p[k] \in Nat
    BY <1>1, <1>3
  <2>3. \A k \in 0 .. m : k \in 0 .. m - 1 \/ k = m
    OBVIOUS
  <2>4. m \in 0 .. j
    BY <1>1
  <2> QED
    BY <2>1, <2>2, <2>3, <2>4, SMTT(30)
<1> HIDE DEF S
<1>4. 0 .. j \subseteq S
  BY <1>1, <1>2, <1>3, InductTo
<1> QED
  BY <1>1, <1>4 DEF S

\* A list of lists has a flat one for each of its beginnings.
LEMMA FlatExists ==
  ASSUME NEW ss, NEW n \in Nat
  PROVE  \E f : f = [i \in 1 .. n |-> IF i = 1 THEN ss[i] ELSE f[i - 1] \o ss[i]]
<1> DEFINE Eq(f, k) == f = [i \in 1 .. k |-> IF i = 1 THEN ss[i] ELSE f[i - 1] \o ss[i]]
           S == {k \in Nat : \E f : Eq(f, k)}
<1>1. 0 \in S
  <2> DEFINE f == [i \in 1 .. 0 |-> 0]
  <2>1. Eq(f, 0)
    <3>1. \A i \in 1 .. 0 : FALSE
      OBVIOUS
    <3> QED
      BY <3>1, Zenon
  <2> HIDE DEF Eq, f
  <2> QED
    BY <2>1
<1>2. ASSUME NEW k \in Nat, k \in S PROVE k + 1 \in S
  <2>1. PICK f : Eq(f, k)
    BY <1>2
  <2> DEFINE g == [i \in 1 .. k + 1 |-> IF i \in 1 .. k THEN f[i]
                                         ELSE IF i = 1 THEN ss[i] ELSE f[k] \o ss[i]]
  <2>2. ASSUME NEW i \in 1 .. k + 1
        PROVE  g[i] = IF i = 1 THEN ss[i] ELSE g[i - 1] \o ss[i]
    <3>1. CASE i \in 1 .. k
      <4>1. i = 1 \/ (i - 1 \in 1 .. k /\ i - 1 \in 1 .. k + 1)
        BY <3>1
      <4>2. f[i] = IF i = 1 THEN ss[i] ELSE f[i - 1] \o ss[i]
        BY <2>1, <3>1, Zenon
      <4> QED
        BY <3>1, <4>1, <4>2, Zenon
    <3>2. CASE i \notin 1 .. k
      <4>1. i - 1 = k /\ (i = 1 \/ (k \in 1 .. k /\ k \in 1 .. k + 1))
        BY <3>2
      <4> QED
        BY <3>2, <4>1, Zenon
    <3> QED
      BY <3>1, <3>2
  <2>3. Eq(g, k + 1)
    BY <2>2, Zenon
  <2> HIDE DEF g, Eq
  <2> QED
    BY <2>3
<1> HIDE DEF S
<1>3. Nat \subseteq S
  BY <1>1, <1>2, Induct
<1> QED
  BY <1>3 DEF S

\* s has the lists of ss one after the other, each behind its p elements.
Joined(s, ss, p) ==
  \A i \in 1 .. Len(ss), t \in Nat : 1 <= t /\ t <= Len(ss[i]) => s[p[i - 1] + t] = ss[i][t]

\* So does the flat list.
LEMMA Flat ==
  ASSUME NEW V, NEW ss \in Seq(Seq(V)), NEW len \in Seq(Nat), Len(len) = Len(ss),
         \A i \in 1 .. Len(ss) : Len(ss[i]) = len[i], NEW p, Sums(p, len)
  PROVE  /\ FlattenSeq(ss) \in Seq(V) /\ Len(FlattenSeq(ss)) = p[Len(ss)]
         /\ Joined(FlattenSeq(ss), ss, p)
<1> DEFINE n == Len(ss)
<1>1. n \in Nat /\ p \in [0 .. n -> Nat] /\ p[0] = 0
  BY DEF Sums
<1>2. ASSUME NEW i \in 1 .. n
      PROVE  ss[i] \in Seq(V) /\ Len(ss[i]) = len[i] /\ len[i] \in Nat /\ p[i] = p[i - 1] + len[i]
  BY DEF Sums
<1>3. CASE n = 0
  <2>1. FlattenSeq(ss) = <<>>
    BY <1>3 DEF FlattenSeq
  <2> QED
    BY <1>1, <1>3, <2>1 DEF Joined
<1>4. CASE n # 0
  <2> DEFINE f == CHOOSE f : f = [i \in 1 .. n |-> IF i = 1 THEN ss[i] ELSE f[i - 1] \o ss[i]]
             S == {m \in 0 .. n : m # 0 =>
                     /\ f[m] \in Seq(V) /\ Len(f[m]) = p[m]
                     /\ \A i \in 1 .. m, t \in Nat :
                          1 <= t /\ t <= len[i] => f[m][p[i - 1] + t] = ss[i][t]}
  <2>1. FlattenSeq(ss) = f[n]
    BY <1>4, Zenon DEF FlattenSeq
  <2>2. \E g : g = [i \in 1 .. n |-> IF i = 1 THEN ss[i] ELSE g[i - 1] \o ss[i]]
    BY <1>1, FlatExists
  <2>3. f = [i \in 1 .. n |-> IF i = 1 THEN ss[i] ELSE f[i - 1] \o ss[i]]
    BY <2>2, Zenon
  <2> HIDE DEF f, n
  <2>4. ASSUME NEW m \in 1 .. n
        PROVE  f[m] = IF m = 1 THEN ss[m] ELSE f[m - 1] \o ss[m]
    BY <2>3, Zenon
  <2>5. 0 \in S
    BY <1>1
  <2>6. ASSUME NEW m \in 1 .. n, m - 1 \in S PROVE m \in S
    <3>1. m \in 0 .. n /\ m - 1 \in 0 .. n
      BY <1>1
    <3>2. CASE m = 1
      <4>1. f[m] = ss[1] /\ p[1] = 0 + len[1] /\ 1 \in 1 .. n /\ p[1 - 1] = 0 /\ len[1] \in Nat
        BY <1>1, <1>2, <2>4, <3>2
      <4>2. ss[1] \in Seq(V) /\ Len(ss[1]) = len[1]
        BY <1>2, <4>1
      <4>3. \A i \in 1 .. m : i = 1
        BY <3>2
      <4>4. \A t \in Nat : 0 + t = t
        OBVIOUS
      <4> QED
        BY <3>1, <3>2, <4>1, <4>2, <4>3, <4>4
    <3>3. CASE m # 1
      <4> DEFINE a == f[m - 1]
                 b == ss[m]
      <4>1. /\ a \in Seq(V) /\ Len(a) = p[m - 1]
            /\ \A i \in 1 .. m - 1, t \in Nat :
                 1 <= t /\ t <= len[i] => a[p[i - 1] + t] = ss[i][t]
        BY <2>6, <3>3
      <4>2. b \in Seq(V) /\ Len(b) = len[m] /\ len[m] \in Nat /\ p[m] = p[m - 1] + len[m]
        BY <1>2
      <4>3. f[m] = a \o b
        BY <2>4, <3>3
      <4> HIDE DEF a, b
      <4>4. f[m] \in Seq(V) /\ Len(f[m]) = p[m]
        <5>1. a \o b \in Seq(V) /\ Len(a \o b) = Len(a) + Len(b)
          BY <4>1, <4>2, ConcatProperties
        <5> QED
          BY <4>1, <4>2, <4>3, <5>1, Zenon
      <4>5. ASSUME NEW i \in 1 .. m, NEW t \in Nat, 1 <= t, t <= len[i]
            PROVE  f[m][p[i - 1] + t] = ss[i][t]
        <5>1. CASE i = m
          <6>1. p[m - 1] \in Nat
            BY <1>1, <3>1
          <6>2. (a \o b)[p[m - 1] + t] = b[t]
            <7>1. ~ p[m - 1] + t <= Len(a) /\ (p[m - 1] + t) - Len(a) = t
              BY <4>1, <4>5, <6>1
            <7>2. p[m - 1] + t \in 1 .. Len(a) + Len(b)
              BY <4>1, <4>2, <4>5, <5>1, <6>1, SMTT(30)
            <7>3. \A k \in 1 .. Len(a) + Len(b) :
                    (a \o b)[k] = IF k <= Len(a) THEN a[k] ELSE b[k - Len(a)]
              BY <4>1, <4>2, ConcatProperties
            <7> QED
              BY <7>1, <7>2, <7>3, Zenon
          <6> QED
            BY <4>3, <5>1, <6>2 DEF b
        <5>2. CASE i # m
          <6>1. i \in 1 .. n /\ i - 1 \in 0 .. n /\ i \in 0 .. m - 1 /\ i \in 1 .. m - 1
            BY <1>1, <5>2
          <6>2. p[i - 1] \in Nat /\ p[i] = p[i - 1] + len[i] /\ len[i] \in Nat
            BY <1>1, <1>2, <6>1
          <6>3. p[i] <= p[m - 1] /\ p[m - 1] \in Nat
            BY <3>1, <6>1, SumsGrow DEF n
          <6>4. p[i - 1] + t \in 1 .. Len(a)
            <7> DEFINE c == p[i - 1]
                       d == p[i]
                       e == len[i]
                       g == p[m - 1]
                       h == Len(a)
            <7>1. /\ c \in Nat /\ e \in Nat /\ g \in Nat /\ d = c + e
                  /\ t \in Nat /\ 1 <= t /\ t <= e
              BY <4>5, <6>2, <6>3, Zenon
            <7>2. d <= g /\ h = g
              BY <4>1, <6>3, Zenon
            <7> HIDE DEF c, d, e, g, h
            <7>3. c + t \in 1 .. h
              BY <7>1, <7>2
            <7> QED
              BY <7>3, Zenon DEF c, h
          <6>5. (a \o b)[p[i - 1] + t] = a[p[i - 1] + t]
            BY <4>1, <4>2, <6>4
          <6> QED
            BY <4>1, <4>3, <4>5, <6>1, <6>5
        <5> QED
          BY <5>1, <5>2
      <4> QED
        BY <3>1, <4>4, <4>5
    <3> QED
      BY <3>2, <3>3
  <2> HIDE DEF S
  <2>7. 0 .. n \subseteq S
    BY <1>1, <2>5, <2>6, InductTo
  <2>8. n \in 0 .. n /\ n # 0
    BY <1>1, <1>4
  <2>9. /\ f[n] \in Seq(V) /\ Len(f[n]) = p[n]
        /\ \A i \in 1 .. n, t \in Nat : 1 <= t /\ t <= len[i] => f[n][p[i - 1] + t] = ss[i][t]
    BY <2>7, <2>8 DEF S
  <2>10. Joined(f[n], ss, p)
    BY <1>2, <2>9, Zenon DEF Joined, n
  <2> QED
    BY <2>1, <2>9, <2>10, Zenon DEF n
<1> QED
  BY <1>3, <1>4

\* Packets that are apart are, from one to the next, never nearer to the start
\* of the buffer than what lies before them needs.
LEMMA Slack ==
  ASSUME NEW len \in Seq(Nat), NEW off \in Seq(Nat), Len(off) = Len(len), NEW p, Sums(p, len),
         \A i \in 1 .. Len(len) - 1 : off[i] + len[i] <= off[i + 1],
         NEW j \in 1 .. Len(len), NEW i \in 1 .. j
  PROVE  off[i] - p[i - 1] <= off[j] - p[j - 1]
<1> DEFINE S == {m \in 0 .. j : m >= i => off[i] - p[i - 1] <= off[m] - p[m - 1]}
<1>1. 0 \in S
  OBVIOUS
<1>2. ASSUME NEW m \in 1 .. j, m - 1 \in S PROVE m \in S
  <2>1. CASE m <= i
    <3>1. m >= i => m = i
      BY <2>1
    <3>2. i \in 1 .. Len(len) /\ off[i] \in Nat /\ i - 1 \in 0 .. Len(len)
      OBVIOUS
    <3>3. p[i - 1] \in Nat
      BY <3>2 DEF Sums
    <3>4. m \in 0 .. j /\ off[i] - p[i - 1] <= off[i] - p[i - 1]
      BY <3>2, <3>3
    <3> QED
      BY <3>1, <3>4
  <2>2. CASE m > i
    <3>1. m - 1 >= i /\ m - 1 \in 1 .. Len(len) - 1 /\ m \in 0 .. j /\ (m - 1) + 1 = m
      BY <2>2
    <3>2. /\ off[m - 1] \in Nat /\ off[m] \in Nat /\ off[i] \in Nat /\ len[m - 1] \in Nat
          /\ off[m - 1] + len[m - 1] <= off[m]
      <4>1. m - 1 \in 1 .. Len(off) /\ m \in 1 .. Len(off) /\ i \in 1 .. Len(off)
        BY <3>1
      <4>2. off[m - 1] + len[m - 1] <= off[(m - 1) + 1] /\ len[m - 1] \in Nat
        BY <3>1, SMTT(30)
      <4>3. off[m - 1] \in Nat /\ off[m] \in Nat /\ off[i] \in Nat
        <5>1. \A k \in 1 .. Len(off) : off[k] \in Nat
          OBVIOUS
        <5> QED
          BY <4>1, <5>1, Zenon
      <4> QED
        BY <3>1, <4>2, <4>3, Zenon
    <3>3. /\ (m - 1) - 1 \in 0 .. Len(len) /\ m - 1 \in 0 .. Len(len) /\ i - 1 \in 0 .. Len(len)
          /\ m - 1 \in 1 .. Len(len)
      BY <3>1
    <3>4. /\ p[m - 1] \in Nat /\ p[(m - 1) - 1] \in Nat /\ p[i - 1] \in Nat
          /\ p[m - 1] = p[(m - 1) - 1] + len[m - 1]
      BY <3>3 DEF Sums
    <3>5. off[i] - p[i - 1] <= off[m - 1] - p[(m - 1) - 1]
      BY <1>2, <3>1
    <3>6. off[i] - p[i - 1] <= off[m] - p[m - 1]
      <4> DEFINE u == off[i]
                 v == off[m - 1]
                 w == off[m]
                 x == p[i - 1]
                 y == p[(m - 1) - 1]
                 z == p[m - 1]
                 l == len[m - 1]
      <4>1. /\ u \in Nat /\ v \in Nat /\ w \in Nat /\ x \in Nat /\ y \in Nat /\ z \in Nat
            /\ l \in Nat /\ v + l <= w /\ z = y + l /\ u - x <= v - y
        BY <3>2, <3>4, <3>5, Zenon
      <4> HIDE DEF u, v, w, x, y, z, l
      <4>2. u - x <= w - z
        BY <4>1
      <4> QED
        BY <4>2 DEF u, w, x, z
    <3> QED
      BY <3>1, <3>6
  <2> QED
    BY <2>1, <2>2
<1> HIDE DEF S
<1>3. j \in Nat /\ j \in 0 .. j /\ j >= i
  OBVIOUS
<1>4. 0 .. j \subseteq S
  BY <1>1, <1>2, <1>3, InductTo
<1> QED
  BY <1>3, <1>4 DEF S

\* The buffers that usbip_pad_iso makes on its way, from the last packet to the
\* second:
PadRun(f, u, np, actual) ==
  f = [i \in 2 .. np + 1 |->
         IF i = np + 1 THEN u.buffer
         ELSE Moved(f[i + 1], u.packets[i].offset,
                    u.actual_length - Sum(SubSeq(actual, i, np)), actual[i])]

\* there are such.
LEMMA PadExists ==
  ASSUME NEW u, NEW n \in Nat, NEW actual
  PROVE  \E f : PadRun(f, u, n, actual)
<1> DEFINE Step(b, i) == Moved(b, u.packets[i].offset,
                               u.actual_length - Sum(SubSeq(actual, i, n)), actual[i])
           B == u.buffer
           Eq(f, k) == f = [i \in n + 1 - k .. n + 1 |->
                              IF i = n + 1 THEN B ELSE Step(f[i + 1], i)]
           S == {k \in Nat : \E f : Eq(f, k)}
<1>1. 0 \in S
  <2> DEFINE f == [i \in n + 1 - 0 .. n + 1 |-> B]
  <2>1. Eq(f, 0)
    <3>1. \A i \in n + 1 - 0 .. n + 1 : i = n + 1
      OBVIOUS
    <3> QED
      BY <3>1, Zenon
  <2> HIDE DEF Eq, f
  <2> QED
    BY <2>1
<1>2. ASSUME NEW k \in Nat, k \in S PROVE k + 1 \in S
  <2> DEFINE d == n + 1 - k
             e == n + 1 - (k + 1)
  <2> HIDE DEF Step
  <2>1. PICK f : f = [i \in d .. n + 1 |->
                        IF i = n + 1 THEN B ELSE Step(f[i + 1], i)]
    BY <1>2
  <2>2. d \in Int /\ e = d - 1 /\ e + 1 = d /\ d <= n + 1
    OBVIOUS
  <2> HIDE DEF d, e
  <2> DEFINE g == [i \in e .. n + 1 |->
                     IF i \in d .. n + 1 THEN f[i] ELSE Step(f[d], i)]
  <2>3. ASSUME NEW i \in e .. n + 1
        PROVE  g[i] = IF i = n + 1 THEN B ELSE Step(g[i + 1], i)
    <3>1. CASE i \in d .. n + 1
      <4>1. i = n + 1 \/ (i + 1 \in d .. n + 1 /\ i + 1 \in e .. n + 1)
        BY <2>2, <3>1
      <4>2. f[i] = IF i = n + 1 THEN B ELSE Step(f[i + 1], i)
        BY <2>1, <3>1, Zenon
      <4> QED
        BY <3>1, <4>1, <4>2, Zenon
    <3>2. CASE i \notin d .. n + 1
      <4>1. i + 1 = d /\ i # n + 1 /\ d \in d .. n + 1 /\ d \in e .. n + 1
        BY <2>2, <3>2
      <4> QED
        BY <3>2, <4>1, Zenon
    <3> QED
      BY <3>1, <3>2
  <2>4. Eq(g, k + 1)
    BY <2>3, Zenon DEF e
  <2> HIDE DEF g, Eq
  <2> QED
    BY <2>4
<1> HIDE DEF S, Eq
<1>3. Nat \subseteq S
  BY <1>1, <1>2, Induct
<1>4. \E f : f = [i \in 2 .. n + 1 |-> IF i = n + 1 THEN B ELSE Step(f[i + 1], i)]
  <2>1. CASE n = 0
    <3> DEFINE f == [i \in 2 .. n + 1 |-> B]
    <3>1. \A i \in 2 .. n + 1 : FALSE
      BY <2>1
    <3>2. f = [i \in 2 .. n + 1 |-> IF i = n + 1 THEN B ELSE Step(f[i + 1], i)]
      BY <3>1, Zenon
    <3> HIDE DEF f, Step, B
    <3> QED
      BY <3>2
  <2>2. CASE n # 0
    <3>1. n - 1 \in Nat /\ n + 1 - (n - 1) = 2
      BY <2>2
    <3>2. \E f : Eq(f, n - 1)
      BY <1>3, <3>1 DEF S
    <3> QED
      BY <3>1, <3>2, Zenon DEF Eq
  <2> QED
    BY <2>1, <2>2
<1> QED
  BY <1>4, Zenon DEF PadRun

\* Packets of a buffer: each has its place, and they are in order.
Apart(off, len, size) ==
  /\ off \in Seq(Nat) /\ len \in Seq(Nat) /\ Len(off) = Len(len) /\ size \in Nat
  /\ \A i \in 1 .. Len(len) - 1 : off[i] + len[i] <= off[i + 1]
  /\ Len(len) # 0 => off[Len(len)] + len[Len(len)] <= size

\* A packet is behind what the packets before it need, behind the packets
\* themselves and within the buffer.
LEMMA Place ==
  ASSUME NEW off, NEW len, NEW size, Apart(off, len, size), NEW p, Sums(p, len),
         NEW j \in 1 .. Len(len)
  PROVE  /\ off[j] \in Nat /\ len[j] \in Nat /\ p[j - 1] \in Nat /\ p[j] \in Nat
         /\ p[j] = p[j - 1] + len[j] /\ p[j - 1] <= off[j] /\ off[j] + len[j] <= size
         /\ \A i \in 1 .. j - 1 : off[i] + len[i] <= off[j]
         /\ p[Len(len)] = size => off[j] = p[j - 1]
<1> DEFINE n == Len(len)
<1>1. /\ off \in Seq(Nat) /\ len \in Seq(Nat) /\ Len(off) = n /\ size \in Nat /\ n \in Nat
      /\ \A i \in 1 .. n - 1 : off[i] + len[i] <= off[i + 1]
      /\ off[n] + len[n] <= size
  BY DEF Apart
<1>2. ASSUME NEW i \in 1 .. n
      PROVE  /\ off[i] \in Nat /\ len[i] \in Nat /\ p[i - 1] \in Nat /\ p[i] \in Nat
             /\ p[i] = p[i - 1] + len[i]
  <2>1. i - 1 \in 0 .. n /\ i \in 0 .. n
    OBVIOUS
  <2>2. \A k \in 1 .. n : off[k] \in Nat /\ len[k] \in Nat
    BY <1>1, SMTT(30)
  <2>3. p \in [0 .. n -> Nat] /\ p[i] = p[i - 1] + len[i]
    BY DEF Sums
  <2> HIDE DEF n
  <2> QED
    BY <2>1, <2>2, <2>3
<1>3. ASSUME NEW k \in 1 .. n, NEW i \in 1 .. k
      PROVE  off[i] - p[i - 1] <= off[k] - p[k - 1]
  BY <1>1, Slack
<1>4. p[0] = 0 /\ 1 - 1 = 0 /\ 1 \in 1 .. j /\ 1 \in 1 .. n /\ j \in 1 .. n /\ n \in 1 .. n
  BY DEF Sums
<1> HIDE DEF n
<1>5. p[j - 1] <= off[j]
  <2>1. off[1] - p[0] <= off[j] - p[j - 1]
    BY <1>3, <1>4
  <2>2. off[1] \in Nat /\ off[j] \in Nat /\ p[j - 1] \in Nat
    BY <1>2, <1>4
  <2> QED
    BY <1>4, <2>1, <2>2
<1>6. \A i \in 1 .. j - 1 : off[i] + len[i] <= off[j]
  <2> SUFFICES ASSUME NEW i \in 1 .. j - 1 PROVE off[i] + len[i] <= off[j]
    OBVIOUS
  <2>1. i \in 1 .. n - 1 /\ i \in 1 .. n /\ i + 1 \in 1 .. j /\ i + 1 \in 1 .. n
        /\ (i + 1) - 1 = i /\ i \in 0 .. j - 1 /\ j - 1 \in 0 .. n
    BY <1>1, <1>4
  <2>2. off[i] + len[i] <= off[i + 1]
    BY <1>1, <2>1
  <2>3. off[i + 1] - p[i] <= off[j] - p[j - 1]
    BY <1>3, <1>4, <2>1, Zenon
  <2>4. /\ off[i] \in Nat /\ len[i] \in Nat /\ off[i + 1] \in Nat /\ p[i] \in Nat
        /\ off[j] \in Nat /\ p[j - 1] \in Nat
    BY <1>2, <1>4, <2>1
  <2>5. p[i] <= p[j - 1]
    BY <1>1, <2>1, SumsGrow DEF n
  <2> DEFINE a == off[i + 1]
             b == off[i] + len[i]
             c == off[j]
             d == p[i]
             e == p[j - 1]
  <2>6. a \in Nat /\ b \in Nat /\ c \in Nat /\ d \in Nat /\ e \in Nat
    BY <2>4
  <2>7. b <= a /\ a - d <= c - e /\ d <= e
    BY <2>2, <2>3, <2>5, Zenon
  <2> HIDE DEF a, b, c, d, e
  <2>8. b <= c
    BY <2>6, <2>7
  <2> QED
    BY <2>8 DEF b, c
<1>7. off[j] + len[j] <= size /\ (p[n] = size => off[j] = p[j - 1])
  <2>1. off[j] - p[j - 1] <= off[n] - p[n - 1]
    BY <1>3, <1>4
  <2>2. /\ off[j] \in Nat /\ len[j] \in Nat /\ p[j - 1] \in Nat /\ p[j] \in Nat
        /\ p[j] = p[j - 1] + len[j]
    BY <1>2, <1>4
  <2>3. /\ off[n] \in Nat /\ len[n] \in Nat /\ p[n - 1] \in Nat /\ p[n] \in Nat
        /\ p[n] = p[n - 1] + len[n]
    BY <1>2, <1>4
  <2>4. p[j] <= p[n]
    <3>1. j \in 0 .. n /\ n \in 0 .. n
      BY <1>1, <1>4
    <3> QED
      BY <1>1, <3>1, SumsGrow DEF n
  <2> DEFINE a == off[j]
             b == len[j]
             c == p[j - 1]
             d == p[j]
             f == off[n]
             g == len[n]
             h == p[n - 1]
             k == p[n]
  <2>5. /\ a \in Nat /\ b \in Nat /\ c \in Nat /\ d \in Nat /\ d = c + b /\ f \in Nat /\ g \in Nat
        /\ h \in Nat /\ k \in Nat /\ k = h + g /\ d <= k /\ a - c <= f - h /\ f + g <= size
        /\ c <= a /\ size \in Nat
    BY <1>1, <1>5, <2>1, <2>2, <2>3, <2>4, Zenon
  <2> HIDE DEF a, b, c, d, f, g, h, k
  <2>6. a + b <= size /\ (k = size => a = c)
    BY <2>5
  <2> QED
    BY <2>6, Zenon DEF a, b, c, k
<1> QED
  BY <1>2, <1>4, <1>5, <1>6, <1>7, Zenon DEF n

\* A buffer on the way of usbip_pad_iso, when the packets from i on are in
\* their places.
Padded(b, B, off, len, p, size, i) ==
  /\ DOMAIN b = 1 .. size
  /\ \A x \in 1 .. size : x <= p[i - 1] => b[x] = B[x]
  /\ \A j \in i .. Len(len), t \in Nat :
       1 <= t /\ t <= len[j] => b[off[j] + t] = B[p[j - 1] + t]

\* Moving one packet more.
LEMMA PadStep ==
  ASSUME NEW off, NEW len, NEW size, Apart(off, len, size), NEW p, Sums(p, len),
         NEW i \in 1 .. Len(len), NEW b, NEW B, Padded(b, B, off, len, p, size, i + 1)
  PROVE  Padded(Moved(b, off[i], p[i - 1], len[i]), B, off, len, p, size, i)
<1> DEFINE c == Moved(b, off[i], p[i - 1], len[i])
           n == Len(len)
<1>1. /\ off[i] \in Nat /\ len[i] \in Nat /\ p[i - 1] \in Nat /\ p[i] \in Nat
      /\ p[i] = p[i - 1] + len[i] /\ p[i - 1] <= off[i] /\ off[i] + len[i] <= size
  BY Place
<1>2. n \in Nat /\ size \in Nat /\ i \in 1 .. n /\ (i + 1) - 1 = i
  BY DEF Apart
<1>3. /\ DOMAIN b = 1 .. size
      /\ \A x \in 1 .. size : x <= p[i] => b[x] = B[x]
      /\ \A j \in i + 1 .. n, t \in Nat :
           1 <= t /\ t <= len[j] => b[off[j] + t] = B[p[j - 1] + t]
  BY <1>2 DEF Padded
<1>4. /\ DOMAIN c = 1 .. size
      /\ \A x \in 1 .. size :
           c[x] = IF off[i] < x /\ x <= off[i] + len[i] THEN b[p[i - 1] + x - off[i]] ELSE b[x]
  BY <1>3, Zenon DEF Moved
<1>5. ASSUME NEW x \in 1 .. size, x <= p[i - 1] PROVE c[x] = B[x]
  <2>1. ~ off[i] < x /\ x <= p[i]
    BY <1>1, <1>5
  <2> QED
    BY <1>3, <1>4, <2>1, Zenon
<1>6. ASSUME NEW j \in i .. n, NEW t \in Nat, 1 <= t, t <= len[j]
      PROVE  c[off[j] + t] = B[p[j - 1] + t]
  <2>1. j \in 1 .. n /\ j \in 1 .. Len(len)
    BY <1>2
  <2>2. off[j] \in Nat /\ len[j] \in Nat /\ off[j] + len[j] <= size
    BY <2>1, Place
  <2>3. off[j] + t \in 1 .. size
    BY <1>2, <1>6, <2>2
  <2>4. CASE j = i
    <3>1. off[i] < off[i] + t /\ off[i] + t <= off[i] + len[i]
      BY <1>1, <1>6, <2>4
    <3>2. p[i - 1] + (off[i] + t) - off[i] = p[i - 1] + t
      BY <1>1
    <3>3. p[i - 1] + t \in 1 .. size /\ p[i - 1] + t <= p[i]
      BY <1>1, <1>2, <1>6, <2>4
    <3> QED
      BY <1>3, <1>4, <2>3, <2>4, <3>1, <3>2, <3>3, Zenon
  <2>5. CASE j # i
    <3>1. j \in i + 1 .. n /\ i \in 1 .. j - 1
      BY <1>2, <2>1, <2>5
    <3>2. off[i] + len[i] <= off[j]
      BY <2>1, <3>1, Place
    <3>3. ~ off[j] + t <= off[i] + len[i]
      BY <1>1, <1>6, <2>2, <3>2, SMTT(30)
    <3>4. c[off[j] + t] = b[off[j] + t]
      BY <1>4, <2>3, <3>3, Zenon
    <3> QED
      BY <1>3, <1>6, <3>1, <3>4, Zenon
  <2> QED
    BY <2>4, <2>5
<1> HIDE DEF c
<1>7. Padded(c, B, off, len, p, size, i)
  BY <1>4, <1>5, <1>6 DEF Padded
<1> QED
  BY <1>7 DEF c

\* The packets of B, one right after the other, are in their places in b; the
\* first only if its place is the start.
Placed(b, B, off, len, p, size) ==
  /\ DOMAIN b = 1 .. size
  /\ \A j \in 1 .. Len(len), t \in Nat :
       (j = 1 => off[1] = 0) /\ 1 <= t /\ t <= len[j] => b[off[j] + t] = B[p[j - 1] + t]

\* usbip_pad_iso takes the packets, which come one right after the other, to
\* their places, provided that the first one has its place at the start.
LEMMA PadIso ==
  ASSUME NEW u, NEW off, NEW len, NEW size, Apart(off, len, size), NEW p, Sums(p, len),
         Len(u.packets) = Len(len), Field(u.packets, "actual_length") = len,
         \A i \in 1 .. Len(len) : u.packets[i].offset = off[i],
         u.actual_length = p[Len(len)], DOMAIN u.buffer = 1 .. size, Len(u.buffer) = size
  PROVE  Placed(usbip_pad_iso(u), u.buffer, off, len, p, size)
<1> DEFINE n == Len(len)
           B == u.buffer
<1>1. len \in Seq(Nat) /\ n \in Nat /\ size \in Nat /\ p \in [0 .. n -> Nat] /\ p[0] = 0
  BY DEF Apart, Sums
<1>2. ASSUME NEW j \in 1 .. n
      PROVE  /\ off[j] \in Nat /\ len[j] \in Nat /\ p[j - 1] \in Nat /\ p[j] \in Nat
             /\ p[j] = p[j - 1] + len[j] /\ off[j] + len[j] <= size
             /\ p[n] = size => off[j] = p[j - 1]
  BY Place
<1>3. CASE n = 0 \/ u.actual_length \in {0, size}
  <2>1. usbip_pad_iso(u) = B
    BY <1>3, Zenon DEF usbip_pad_iso
  <2>2. ASSUME NEW j \in 1 .. n, NEW t \in Nat, 1 <= t, t <= len[j]
        PROVE  B[off[j] + t] = B[p[j - 1] + t]
    <3>1. p[j] <= p[n]
      <4>1. j \in 0 .. n /\ n \in 0 .. n /\ n \in 0 .. Len(len)
        BY <1>1
      <4> QED
        BY <1>1, <4>1, SumsGrow
    <3>2. p[n] # 0
      <4>1. p[n] \in Nat
        BY <1>1
      <4> QED
        BY <1>2, <2>2, <3>1, <4>1
    <3>3. p[n] = size
      BY <1>3, <3>2
    <3> QED
      BY <1>2, <3>3, Zenon
  <2> QED
    BY <2>1, <2>2, Zenon DEF Placed
<1>4. CASE ~ (n = 0 \/ u.actual_length \in {0, size})
  <2> DEFINE np == Len(u.packets)
             actual == Field(u.packets, "actual_length")
             G == CHOOSE f : f = [i \in 2 .. np + 1 |->
                    IF i = np + 1 THEN B
                    ELSE Moved(f[i + 1], u.packets[i].offset,
                               u.actual_length - Sum(SubSeq(actual, i, np)), actual[i])]
  <2>1. usbip_pad_iso(u) = G[2]
    BY <1>4, Zenon DEF usbip_pad_iso
  <2>2. G = [i \in 2 .. np + 1 |->
              IF i = np + 1 THEN B
              ELSE Moved(G[i + 1], u.packets[i].offset,
                         u.actual_length - Sum(SubSeq(actual, i, np)), actual[i])]
    <3>1. np \in Nat
      BY <1>1
    <3> HIDE DEF np, actual
    <3>2. \E f : PadRun(f, u, np, actual)
      BY <3>1, PadExists, Zenon
    <3>3. PadRun(G, u, np, actual)
      BY <3>2, Zenon DEF PadRun
    <3> QED
      BY <3>3, Zenon DEF PadRun
  <2> HIDE DEF G
  <2>3. ASSUME NEW i \in 2 .. n
        PROVE  G[i] = Moved(G[i + 1], off[i], p[i - 1], len[i])
    <3>1. i \in 1 .. n /\ i \in 2 .. n + 1 /\ i # n + 1 /\ i \in 1 .. n + 1 /\ i - 1 \in 0 .. n
      BY <1>1
    <3>2. Sum(SubSeq(len, i, n)) = p[n] - p[i - 1]
      BY <1>1, <3>1, SumOfEnd
    <3>3. p[n] - (p[n] - p[i - 1]) = p[i - 1]
      <4>1. p[n] \in Nat /\ p[i - 1] \in Nat
        <5>1. n \in 0 .. n
          BY <1>1
        <5> QED
          BY <1>1, <3>1, <5>1
      <4> QED
        BY <4>1
    <3>4. u.packets[i].offset = off[i] /\ u.actual_length = p[n]
      BY <3>1
    <3>5. G[i] = Moved(G[i + 1], u.packets[i].offset,
                       u.actual_length - Sum(SubSeq(len, i, n)), len[i])
      <4>1. i \in 2 .. np + 1 /\ i # np + 1 /\ np = n /\ actual = len
        BY <3>1
      <4> HIDE DEF np, n, actual
      <4> QED
        BY <2>2, <4>1, Zenon
    <3> QED
      BY <3>2, <3>3, <3>4, <3>5, Zenon
  <2>4. G[n + 1] = B
    <3>1. n + 1 \in 2 .. n + 1 /\ np = n
      BY <1>1, <1>4
    <3> QED
      BY <2>2, <3>1, Zenon DEF np
  <2> DEFINE S == {k \in 0 .. n - 1 : Padded(G[n + 1 - k], B, off, len, p, size, n + 1 - k)}
  <2>5. 0 \in S
    <3>1. n + 1 - 0 = n + 1 /\ 0 \in 0 .. n - 1 /\ \A j \in n + 1 .. n : FALSE
      BY <1>1, <1>4
    <3>2. Padded(B, B, off, len, p, size, n + 1)
      BY <3>1, Zenon DEF Padded
    <3> QED
      BY <2>4, <3>1, <3>2
  <2>6. ASSUME NEW m \in 1 .. n - 1, m - 1 \in S PROVE m \in S
    <3> DEFINE i == n + 1 - m
    <3>1. i \in 2 .. n /\ n + 1 - (m - 1) = i + 1 /\ i \in 1 .. n /\ m \in 0 .. n - 1
      BY <1>1
    <3>2. Padded(G[i + 1], B, off, len, p, size, i + 1)
      BY <2>6, <3>1
    <3> HIDE DEF i
    <3>3. Padded(Moved(G[i + 1], off[i], p[i - 1], len[i]), B, off, len, p, size, i)
      BY <3>1, <3>2, PadStep
    <3>4. Padded(G[i], B, off, len, p, size, i)
      BY <2>3, <3>1, <3>3, Zenon
    <3> QED
      BY <3>1, <3>4 DEF i
  <2>7. n - 1 \in Nat /\ n - 1 \in 0 .. n - 1 /\ n + 1 - (n - 1) = 2
    BY <1>1, <1>4
  <2> HIDE DEF S
  <2>8. 0 .. n - 1 \subseteq S
    BY <2>5, <2>6, <2>7, InductTo
  <2>9. Padded(G[2], B, off, len, p, size, 2)
    <3>1. n - 1 \in S
      BY <2>7, <2>8
    <3> QED
      BY <2>7, <3>1 DEF S
  <2>10. ASSUME NEW j \in 1 .. n, NEW t \in Nat, j = 1 => off[1] = 0, 1 <= t, t <= len[j]
         PROVE  G[2][off[j] + t] = B[p[j - 1] + t]
    <3>1. CASE j = 1
      <4>1. p[1] = p[0] + len[1] /\ off[1] = 0 /\ 1 - 1 = 0 /\ len[1] \in Nat
            /\ off[1] + len[1] <= size /\ 2 - 1 = 1
        BY <1>2, <2>10, <3>1
      <4>2. 0 + t \in 1 .. size /\ 0 + t <= p[1]
        BY <1>1, <2>10, <3>1, <4>1
      <4> QED
        BY <1>1, <2>9, <3>1, <4>1, <4>2, Zenon DEF Padded
    <3>2. CASE j # 1
      <4>1. j \in 2 .. n
        BY <3>2
      <4> QED
        BY <2>9, <2>10, <4>1, Zenon DEF Padded
    <3> QED
      BY <3>1, <3>2
  <2>11. DOMAIN G[2] = 1 .. size
    BY <2>9, Zenon DEF Padded
  <2>12. Placed(G[2], B, off, len, p, size)
    BY <2>10, <2>11, Zenon DEF Placed
  <2> QED
    BY <2>1, <2>12, Zenon
<1> QED
  BY <1>3, <1>4

-----------------------------------------------------------------------------
(* The way there and back.                                                 *)

Data == {"zero", "client", "device"} \X Nat
Desc == [offset : Nat, length : Nat, actual_length : Nat, status : {"ok", "error"}, net : {FALSE}]

\* A URB with packets that are apart, the first at the start of the buffer
\* unless GapFirst.
Proper(u) ==
  /\ u = [iso |-> u.iso, in |-> u.in, actual_length |-> u.actual_length, status |-> u.status,
          packets |-> u.packets, buffer |-> u.buffer]
  /\ u.iso \in BOOLEAN /\ u.in \in BOOLEAN /\ u.actual_length \in Nat
  /\ u.packets \in Seq(Desc) /\ u.buffer \in Seq(Data)
  /\ ~ u.iso => u.packets = <<>>
  /\ Apart(Field(u.packets, "offset"), Field(u.packets, "length"), Len(u.buffer))
  /\ u.packets # <<>> => GapFirst \/ u.packets[1].offset = 0

\* Nothing of it is transferred.
Fresh(u) ==
  /\ u.actual_length = 0 /\ u.status = "ok"
  /\ \A i \in 1 .. Len(u.packets) : u.packets[i].actual_length = 0
  /\ u.in => u.buffer = Bytes("zero", Len(u.buffer))

\* What vhci_send_cmd_submit and stub_send_ret_submit send.
Command(u) ==
  [header |-> usbip_header_correct_endian(Header("CMD_SUBMIT", u, Len(u.buffer)), TRUE),
   data |-> IF u.in THEN <<>> ELSE u.buffer,
   descs |-> IF u.iso THEN usbip_alloc_iso_desc_pdu(u) ELSE <<>>]
Reply(u) ==
  [header |-> usbip_header_correct_endian(Header("RET_SUBMIT", u, u.actual_length), TRUE),
   data |-> IF u.iso THEN usbip_alloc_iso_data_pdu(u)
            ELSE IF u.in THEN SubSeq(u.buffer, 1, u.actual_length) ELSE <<>>,
   descs |-> IF u.iso THEN usbip_alloc_iso_desc_pdu(u) ELSE <<>>]

\* What the device makes of the server's URB.
Completed ==
  /\ Proper(stub) /\ stub.iso = urb.iso /\ stub.in = urb.in
  /\ Len(stub.buffer) = Len(urb.buffer) /\ (~ urb.in => stub.buffer = urb.buffer)
  /\ \A i \in 1 .. Len(stub.packets) :
       stub.packets[i].actual_length <= stub.packets[i].length

Arrived ==
  /\ Field(urb.packets, "actual_length") = Field(stub.packets, "actual_length")
  /\ urb.in => Result(urb) = Result(stub)
  /\ ~ urb.in => urb.buffer = stub.buffer
  /\ urb.status = stub.status /\ urb.actual_length = stub.actual_length

TransferInv ==
  /\ pc \in {"enqueued", "command", "submitted", "completed", "reply", "done", "down"}
  /\ pc \notin {"done", "down"} => Proper(urb)
  /\ pc \in {"enqueued", "command", "submitted"} => Fresh(urb)
  /\ pc = "command" => wire = Command(urb)
  /\ pc = "submitted" => stub = urb
  /\ pc \in {"completed", "reply"} => Completed
  /\ pc = "completed" => stub.iso \/ stub.actual_length <= Len(stub.buffer)
  /\ pc = "reply" => /\ wire = Reply(stub)
                     /\ IF stub.iso THEN stub.actual_length = Len(wire.data)
                        ELSE stub.actual_length <= Len(stub.buffer)
  /\ pc = "done" => GapFirst \/ Arrived
  /\ StaysConnected

\* A field of the packets.
LEMMA FieldIs ==
  ASSUME NEW packets \in Seq(Desc), NEW f \in {"offset", "length", "actual_length"}
  PROVE  /\ Field(packets, f) \in Seq(Nat) /\ Len(Field(packets, f)) = Len(packets)
         /\ \A i \in 1 .. Len(packets) : Field(packets, f)[i] = packets[i][f]
<1>1. Field(packets, f) = [i \in 1 .. Len(packets) |-> packets[i][f]]
  BY DEF Field
<1>2. ASSUME NEW i \in 1 .. Len(packets) PROVE packets[i][f] \in Nat
  <2>1. packets[i] \in Desc
    OBVIOUS
  <2> QED
    BY <2>1 DEF Desc
<1>3. Len(packets) \in Nat
  OBVIOUS
<1> QED
  BY <1>1, <1>2, <1>3

\* The receiver has the header that the sender had: the command is not among
\* the fields of any request.
LEMMA HeaderArrives ==
  ASSUME NEW command \in {"CMD_SUBMIT", "RET_SUBMIT"}, NEW u, NEW length
  PROVE  usbip_header_correct_endian(
           usbip_header_correct_endian(Header(command, u, length), TRUE), FALSE)
           = Header(command, u, length)
<1> DEFINE h == Header(command, u, length)
           F == Fields(command)
           g == usbip_header_correct_endian(h, TRUE)
<1>1. h.net = {} /\ h.command = command /\ h = [h EXCEPT !.net = {}]
  BY DEF Header
<1>2. "command" \notin F /\ "command" \notin {} /\ F \cap Base = {}
  BY DEF Fields, Base
<1>3. Swap({}, Base) = Base /\ Swap(Base, F) = Base \cup F /\ Swap(Base \cup F, Base) = F
      /\ Swap(F, F) = {}
  BY <1>2 DEF Swap
<1>4. g = [h EXCEPT !.net = Base \cup F]
  BY <1>1, <1>2, <1>3, Zenon DEF usbip_header_correct_endian
<1>5. g.net = Base \cup F /\ g.command = command /\ [g EXCEPT !.net = {}] = h
  BY <1>1, <1>4 DEF Header
<1>6. usbip_header_correct_endian(g, FALSE) = [g EXCEPT !.net = {}]
  <2> HIDE DEF g, F, h
  <2>1. Swap(g.net, Base) = F
    BY <1>3, <1>5, Zenon
  <2> QED
    BY <1>2, <1>3, <1>5, <2>1, Zenon DEF usbip_header_correct_endian, F
<1> QED
  BY <1>5, <1>6

\* and the packets.
LEMMA PacketsArrive ==
  ASSUME NEW u, u.packets \in Seq(Desc), ~ u.iso => u.packets = <<>>,
         wire.descs = IF u.iso THEN usbip_alloc_iso_desc_pdu(u) ELSE <<>>
  PROVE  /\ Len(wire.descs) = Len(u.packets)
         /\ Unpacked = u.packets
<1> DEFINE n == Len(u.packets)
<1>1. n \in Nat /\ DOMAIN u.packets = 1 .. n
  OBVIOUS
<1>2. wire.descs = [i \in 1 .. n |-> [u.packets[i] EXCEPT !.net = ~ @]]
  <2>1. CASE u.iso
    BY <1>1, <2>1, Zenon DEF usbip_alloc_iso_desc_pdu, usbip_iso_packet_correct_endian
  <2>2. CASE ~ u.iso
    <3>1. n = 0 /\ wire.descs = <<>>
      BY <2>2
    <3>2. <<>> = [i \in 1 .. 0 |-> [u.packets[i] EXCEPT !.net = ~ @]]
      OBVIOUS
    <3> QED
      BY <3>1, <3>2, Zenon
  <2> QED
    BY <2>1, <2>2
<1>3. ASSUME NEW i \in 1 .. n
      PROVE  [[u.packets[i] EXCEPT !.net = ~ @] EXCEPT !.net = ~ @] = u.packets[i]
  <2>1. u.packets[i] \in Desc
    OBVIOUS
  <2>2. ASSUME NEW d \in Desc PROVE [[d EXCEPT !.net = ~ @] EXCEPT !.net = ~ @] = d
    <3>1. d.net = FALSE /\ d = [d EXCEPT !.net = FALSE]
      BY DEF Desc
    <3>2. [[d EXCEPT !.net = ~ @] EXCEPT !.net = ~ @] = [d EXCEPT !.net = FALSE]
      BY <3>1 DEF Desc
    <3> QED
      BY <3>1, <3>2
  <2> QED
    BY <2>1, <2>2
<1>4. DOMAIN wire.descs = 1 .. n /\ Len(wire.descs) = n
  BY <1>1, <1>2
<1>5. Unpacked = [i \in 1 .. n |-> u.packets[i]]
  <2>1. \A i \in 1 .. n : usbip_iso_packet_correct_endian(wire.descs[i]) = u.packets[i]
    <3>1. \A i \in 1 .. n : wire.descs[i] = [u.packets[i] EXCEPT !.net = ~ @]
      BY <1>2, Zenon
    <3> QED
      BY <1>3, <3>1, Zenon DEF usbip_iso_packet_correct_endian
  <2>2. Unpacked = [i \in 1 .. n |-> usbip_iso_packet_correct_endian(wire.descs[i])]
    BY <1>4, Zenon DEF Unpacked
  <2> QED
    BY <2>1, <2>2, Zenon
<1>6. u.packets = [i \in 1 .. n |-> u.packets[i]]
  BY <1>1
<1> QED
  BY <1>4, <1>5, <1>6, Zenon

\* data has what the packets of u have, one packet right after the other.
Packed(data, u, p) ==
  \A i \in 1 .. Len(u.packets), t \in Nat :
    1 <= t /\ t <= u.packets[i].length =>
      data[p[i - 1] + t] = u.buffer[u.packets[i].offset + t]

\* usbip_alloc_iso_data_pdu moves the packets together.
LEMMA AllocData ==
  ASSUME NEW u, Proper(u), NEW p, Sums(p, Field(u.packets, "length"))
  PROVE  /\ usbip_alloc_iso_data_pdu(u) \in Seq(Data)
         /\ Len(usbip_alloc_iso_data_pdu(u)) = p[Len(u.packets)]
         /\ Packed(usbip_alloc_iso_data_pdu(u), u, p)
<1> DEFINE n == Len(u.packets)
           b == u.buffer
           off == Field(u.packets, "offset")
           len == Field(u.packets, "length")
           ss == [i \in DOMAIN u.packets |->
                    SubSeq(b, u.packets[i].offset + 1, u.packets[i].offset + u.packets[i].length)]
           data == usbip_alloc_iso_data_pdu(u)
<1>1. /\ u.packets \in Seq(Desc) /\ b \in Seq(Data) /\ Apart(off, len, Len(b))
      /\ n \in Nat /\ DOMAIN u.packets = 1 .. n
  BY DEF Proper
<1>2. /\ len \in Seq(Nat) /\ Len(len) = n
      /\ \A i \in 1 .. n : off[i] = u.packets[i].offset /\ len[i] = u.packets[i].length
  BY <1>1, FieldIs
<1>3. data = FlattenSeq(ss)
  BY Zenon DEF usbip_alloc_iso_data_pdu
<1>4. ASSUME NEW i \in 1 .. n
      PROVE  /\ ss[i] \in Seq(Data) /\ Len(ss[i]) = len[i]
             /\ \A t \in Nat : 1 <= t /\ t <= len[i] => ss[i][t] = b[off[i] + t]
  <2>1. off[i] \in Nat /\ len[i] \in Nat /\ off[i] + len[i] <= Len(b)
    BY <1>1, <1>2, Place
  <2>2. ss[i] = SubSeq(b, off[i] + 1, off[i] + len[i])
    BY <1>1, <1>2, Zenon
  <2> HIDE DEF b, ss, off, len
  <2>3. b \in Seq(Data) /\ Len(b) \in Nat
    BY <1>1
  <2> DEFINE o == off[i]
             l == len[i]
  <2>4. o \in Nat /\ l \in Nat /\ o + l <= Len(b) /\ ss[i] = SubSeq(b, o + 1, o + l)
    BY <2>1, <2>2
  <2> HIDE DEF o, l
  <2>5. ss[i] \in Seq(Data) /\ Len(ss[i]) = l
    BY <2>3, <2>4
  <2>6. ASSUME NEW t \in Nat, 1 <= t, t <= l PROVE ss[i][t] = b[o + t]
    <3>1. (o + 1) + t - 1 = o + t /\ t \in 1 .. l
      BY <2>4, <2>6
    <3> QED
      BY <2>3, <2>4, <3>1
  <2> QED
    BY <2>5, <2>6 DEF o, l
<1>5. ss \in Seq(Seq(Data)) /\ Len(ss) = n
  <2>1. ss = [i \in 1 .. n |-> ss[i]]
    BY <1>1
  <2> DEFINE V == Seq(Data)
  <2>2. \A i \in 1 .. n : ss[i] \in V
    BY <1>4, Zenon
  <2> HIDE DEF ss, V, n
  <2>3. ss \in Seq(V) /\ Len(ss) = n
    BY <1>1, <2>1, <2>2
  <2> QED
    BY <2>3 DEF V
<1> HIDE DEF ss, n, b, off, data, len
<1>6. Sums(p, len)
  BY DEF len
<1>7. \A i \in 1 .. Len(ss) : Len(ss[i]) = len[i]
  BY <1>4, <1>5
<1>8. /\ data \in Seq(Data) /\ Len(data) = p[n]
      /\ \A i \in 1 .. n, t \in Nat : 1 <= t /\ t <= len[i] => data[p[i - 1] + t] = ss[i][t]
  <2>1. /\ FlattenSeq(ss) \in Seq(Data) /\ Len(FlattenSeq(ss)) = p[Len(ss)]
        /\ \A i \in 1 .. Len(ss), t \in Nat :
             1 <= t /\ t <= len[i] => FlattenSeq(ss)[p[i - 1] + t] = ss[i][t]
    <3>1. Len(len) = Len(ss)
      BY <1>2, <1>5, Zenon
    <3>2. FlattenSeq(ss) \in Seq(Data)
      BY <1>2, <1>5, <1>6, <1>7, <3>1, Flat
    <3>3. Len(FlattenSeq(ss)) = p[Len(ss)]
      BY <1>2, <1>5, <1>6, <1>7, <3>1, Flat
    <3>4. Joined(FlattenSeq(ss), ss, p)
      BY <1>2, <1>5, <1>6, <1>7, <3>1, Flat
    <3> QED
      BY <1>7, <3>2, <3>3, <3>4, Zenon DEF Joined
  <2> QED
    BY <1>3, <1>5, <2>1, Zenon
<1>9. \A i \in 1 .. n, t \in Nat :
        1 <= t /\ t <= u.packets[i].length => data[p[i - 1] + t] = b[u.packets[i].offset + t]
  <2> SUFFICES ASSUME NEW i \in 1 .. n, NEW t \in Nat, 1 <= t, t <= u.packets[i].length
               PROVE  data[p[i - 1] + t] = b[u.packets[i].offset + t]
    BY Zenon
  <2>1. off[i] = u.packets[i].offset /\ len[i] = u.packets[i].length
    BY <1>2, Zenon
  <2>2. data[p[i - 1] + t] = ss[i][t]
    BY <1>8, <2>1, Zenon
  <2>3. ss[i][t] = b[off[i] + t]
    BY <1>4, <2>1, Zenon
  <2> QED
    BY <2>1, <2>2, <2>3, Zenon
<1> QED
  BY <1>8, <1>9 DEF Packed, n, b, data

\* The URB of a driver.
LEMMA TransferInitInv == TransferInit => TransferInv
<1> SUFFICES ASSUME TransferInit PROVE TransferInv
  OBVIOUS
<1>1. PICK v \in Urbs : /\ WellFormed(v)
                        /\ v.packets # <<>> => GapFirst \/ v.packets[1].offset = 0
                        /\ urb = Submitted(v)
  BY DEF TransferInit
<1> DEFINE n == Len(v.packets)
           ps == [i \in 1 .. n |-> [offset |-> v.packets[i].offset, length |-> v.packets[i].length,
                                    actual_length |-> 0, status |-> "ok", net |-> FALSE]]
           b == Bytes(IF v.in THEN "zero" ELSE "client", v.size)
<1>2. /\ v.iso \in BOOLEAN /\ v.in \in BOOLEAN /\ v.size \in Nat
      /\ v.packets \in Seq([offset : Nat, length : Nat])
  BY UsbipTransferAssumption
<1>3. /\ n \in Nat /\ DOMAIN v.packets = 1 .. n
      /\ \A i \in 1 .. n : v.packets[i].offset \in Nat /\ v.packets[i].length \in Nat
  <2>1. n \in Nat /\ DOMAIN v.packets = 1 .. n
        /\ \A i \in 1 .. n : v.packets[i] \in [offset : Nat, length : Nat]
    <3> DEFINE R == [offset : Nat, length : Nat]
    <3>1. v.packets \in Seq(R)
      BY <1>2
    <3> HIDE DEF R
    <3>2. n \in Nat /\ DOMAIN v.packets = 1 .. n /\ \A i \in 1 .. n : v.packets[i] \in R
      BY <3>1
    <3> QED
      BY <3>2 DEF R
  <2> QED
    BY <2>1
<1>4. urb = [iso |-> v.iso, in |-> v.in, actual_length |-> 0, status |-> "ok",
             packets |-> ps, buffer |-> b]
  BY <1>1, <1>3, Zenon DEF Submitted
<1>5. ps \in Seq(Desc) /\ Len(ps) = n
  <2>1. \A i \in 1 .. n : ps[i] \in Desc
    BY <1>3 DEF Desc
  <2>2. ps = [i \in 1 .. n |-> ps[i]]
    OBVIOUS
  <2> HIDE DEF ps, n
  <2> QED
    BY <1>3, <2>1, <2>2
<1>6. b \in Seq(Data) /\ Len(b) = v.size /\ (v.in => b = Bytes("zero", Len(b)))
  <2> DEFINE w == IF v.in THEN "zero" ELSE "client"
  <2>1. b = [q \in 1 .. v.size |-> <<w, q>>]
    BY Zenon DEF Bytes, Byte
  <2>2. \A q \in 1 .. v.size : <<w, q>> \in Data
    BY <1>2 DEF Data
  <2>3. b \in Seq(Data) /\ Len(b) = v.size
    <3> DEFINE s == v.size
    <3>1. s \in Nat
      BY <1>2
    <3>2. b = [q \in 1 .. s |-> <<w, q>>] /\ \A q \in 1 .. s : <<w, q>> \in Data
      BY <2>1, <2>2, Zenon
    <3> HIDE DEF b, w, s
    <3>3. b \in Seq(Data) /\ Len(b) = s
      BY <3>1, <3>2
    <3> QED
      BY <3>3, Zenon DEF s
  <2> HIDE DEF b
  <2>4. v.in => w = "zero"
    OBVIOUS
  <2> HIDE DEF w
  <2> QED
    BY <2>3, <2>4, Zenon DEF b, w
<1>7. ASSUME NEW i \in 1 .. n
      PROVE  ps[i].offset = v.packets[i].offset /\ ps[i].length = v.packets[i].length
             /\ ps[i].actual_length = 0
  OBVIOUS
<1>8. Apart(Field(ps, "offset"), Field(ps, "length"), Len(b))
  <2> DEFINE off == Field(ps, "offset")
             len == Field(ps, "length")
  <2>1. /\ off \in Seq(Nat) /\ len \in Seq(Nat) /\ Len(off) = n /\ Len(len) = n
        /\ \A i \in 1 .. n : off[i] = ps[i].offset /\ len[i] = ps[i].length
    <3> HIDE DEF ps
    <3> QED
      BY <1>5, FieldIs
  <2>2. \A i \in 1 .. n : off[i] = v.packets[i].offset /\ len[i] = v.packets[i].length
    BY <1>7, <2>1, Zenon
  <2>3. \A i \in 1 .. n : v.packets[i].offset + v.packets[i].length <=
                            IF i = n THEN v.size ELSE v.packets[i + 1].offset
    BY <1>1, <1>3, Zenon DEF WellFormed
  <2> HIDE DEF off, len, b, ps, n
  <2>4. ASSUME NEW i \in 1 .. n - 1 PROVE off[i] + len[i] <= off[i + 1]
    <3>1. i \in 1 .. n /\ i + 1 \in 1 .. n /\ i # n
      BY <1>3
    <3>2. v.packets[i].offset + v.packets[i].length <= v.packets[i + 1].offset
      BY <2>3, <3>1, Zenon
    <3> QED
      BY <2>2, <3>1, <3>2, Zenon
  <2>5. n # 0 => off[n] + len[n] <= Len(b)
    <3>1. n # 0 => n \in 1 .. n
      BY <1>3
    <3> QED
      BY <1>6, <2>2, <2>3, <3>1, Zenon
  <2> QED
    BY <1>2, <1>6, <2>1, <2>4, <2>5 DEF Apart, off, len
<1> HIDE DEF b
<1>9. Proper(urb)
  <2>1. ~ v.iso => ps = <<>>
    <3>1. ~ v.iso => n = 0
      BY <1>1 DEF WellFormed
    <3> QED
      BY <1>5, <3>1
  <2>2. ps # <<>> => GapFirst \/ ps[1].offset = 0
    <3>1. ps # <<>> => 1 \in 1 .. n /\ v.packets # <<>>
      BY <1>2, <1>3, <1>5
    <3> QED
      BY <1>1, <1>7, <3>1, Zenon
  <2> HIDE DEF ps
  <2> QED
    BY <1>1, <1>2, <1>4, <1>5, <1>6, <1>8, <2>1, <2>2 DEF Proper
<1>10. Fresh(urb)
  <2>1. \A i \in 1 .. Len(ps) : ps[i].actual_length = 0
    BY <1>5, <1>7, Zenon
  <2> HIDE DEF ps
  <2> QED
    BY <1>4, <1>6, <2>1, Zenon DEF Fresh
<1> QED
  BY <1>9, <1>10 DEF TransferInit, TransferInv, StaysConnected

\* What the server makes of the request is what the client submitted.
LEMMA RequestArrives ==
  ASSUME TransferInv, stub_recv_cmd_submit
  PROVE  pc' = "submitted" /\ stub' = urb /\ UNCHANGED <<urb, wire>>
<1> DEFINE n == Len(urb.packets)
           size == IF urb.in THEN 0 ELSE Len(urb.buffer)
           H == Header("CMD_SUBMIT", urb, Len(urb.buffer))
<1>1. /\ pc = "command" /\ Proper(urb) /\ Fresh(urb) /\ wire = Command(urb)
  BY DEF TransferInv, stub_recv_cmd_submit
<1>2. /\ urb = [iso |-> urb.iso, in |-> urb.in, actual_length |-> 0, status |-> "ok",
                packets |-> urb.packets, buffer |-> urb.buffer]
      /\ urb.iso \in BOOLEAN /\ urb.in \in BOOLEAN /\ urb.packets \in Seq(Desc)
      /\ urb.buffer \in Seq(Data) /\ (~ urb.iso => urb.packets = <<>>)
  BY <1>1, Zenon DEF Proper, Fresh
<1>3. usbip_header_correct_endian(wire.header, FALSE) = H
  <2>1. wire.header = usbip_header_correct_endian(H, TRUE)
    BY <1>1 DEF Command
  <2> QED
    BY <2>1, HeaderArrives, Zenon
<1>4. H.net = {} /\ H.in = urb.in /\ H.length = Len(urb.buffer) /\ H.number_of_packets = n
  BY DEF Header
<1>5. Len(wire.descs) = n /\ Unpacked = urb.packets
  <2>1. wire.descs = IF urb.iso THEN usbip_alloc_iso_desc_pdu(urb) ELSE <<>>
    BY <1>1 DEF Command
  <2> QED
    BY <1>2, <2>1, PacketsArrive
<1>6. (IF urb.iso THEN n ELSE 0) = n
  BY <1>2
<1>7. wire.data = (IF urb.in THEN <<>> ELSE urb.buffer) /\ Len(wire.data) = size
  BY <1>1 DEF Command
<1>8. usbip_recv(size, n)
  BY <1>5, <1>7 DEF usbip_recv
<1>9. IsoFits(urb, 0)
  <2> DEFINE s == Field(urb.packets, "actual_length")
  <2>1. s \in Seq(Nat) /\ Len(s) = n /\ \A i \in 1 .. n : s[i] = urb.packets[i].actual_length
    BY <1>2, FieldIs
  <2>2. \A i \in 1 .. Len(s) : s[i] = 0
    BY <1>1, <2>1, Zenon DEF Fresh
  <2> HIDE DEF s
  <2>3. Sum(s) = 0
    BY <2>1, <2>2, SumOfZeros
  <2> QED
    BY <1>5, <2>3, Zenon DEF IsoFits, s
<1>10. (IF urb.in THEN Bytes("zero", Len(urb.buffer)) ELSE wire.data) = urb.buffer
  BY <1>1, <1>7, Zenon DEF Fresh
<1> HIDE DEF H, n
<1>11. /\ stub' = [iso |-> urb.iso, in |-> H.in, actual_length |-> 0, status |-> "ok",
                   packets |-> Unpacked,
                   buffer |-> IF H.in THEN Bytes("zero", H.length) ELSE wire.data]
       /\ pc' = "submitted" /\ UNCHANGED <<urb, wire>>
  <2>1. ~ (H.net # {} \/ ~ usbip_recv(IF H.in THEN 0 ELSE H.length,
                                      IF urb.iso THEN H.number_of_packets ELSE 0)
           \/ ~ IsoFits(urb, 0))
    BY <1>4, <1>6, <1>8, <1>9, Zenon
  <2> QED
    BY <1>3, <2>1, Zenon DEF stub_recv_cmd_submit
<1>12. stub' = urb
  BY <1>2, <1>4, <1>5, <1>10, <1>11, Zenon
<1> QED
  BY <1>11, <1>12

\* The command.
LEMMA SendKeeps ==
  ASSUME TransferInv, vhci_send_cmd_submit
  PROVE  TransferInv'
<1>1. pc = "enqueued" /\ pc' = "command" /\ UNCHANGED <<urb, stub>>
  BY DEF vhci_send_cmd_submit
<1>2. wire' = Command(urb)
  BY Zenon DEF vhci_send_cmd_submit, Command
<1>3. Proper(urb) /\ Fresh(urb)
  BY <1>1 DEF TransferInv
<1>4. urb' = urb
  BY <1>1
<1>5. Proper(urb)' /\ Fresh(urb)' /\ (wire = Command(urb))'
  BY <1>2, <1>3, <1>4, Zenon
<1> QED
  BY <1>1, <1>5 DEF TransferInv, StaysConnected

\* The server takes it, or ends the connection, which RequestArrives rules out.
LEMMA RequestKeeps ==
  ASSUME TransferInv, stub_recv_cmd_submit
  PROVE  TransferInv'
<1>1. pc = "command" /\ pc' = "submitted" /\ stub' = urb /\ urb' = urb
  BY RequestArrives DEF stub_recv_cmd_submit
<1>2. Proper(urb) /\ Fresh(urb)
  BY <1>1 DEF TransferInv
<1>3. Proper(urb)' /\ Fresh(urb)'
  BY <1>1, <1>2, Zenon
<1> QED
  BY <1>1, <1>3 DEF TransferInv, StaysConnected

\* A transfer that is not isochronous.
LEMMA CompleteKeeps ==
  ASSUME TransferInv, Complete
  PROVE  TransferInv'
<1>1. /\ pc = "submitted" /\ pc' = "completed" /\ urb' = urb /\ stub = urb /\ Proper(urb)
      /\ ~ stub.iso
  BY DEF TransferInv, Complete
<1>2. PICK n \in 0 .. Len(stub.buffer), s \in {"ok", "error"} :
        stub' = [stub EXCEPT !.actual_length = n, !.status = s,
                   !.buffer = IF stub.in THEN Bytes("device", n) \o SubSeq(@, n + 1, Len(@))
                              ELSE @]
  BY Zenon DEF Complete
<1> DEFINE b == IF urb.in THEN Bytes("device", n) \o SubSeq(urb.buffer, n + 1, Len(urb.buffer))
                ELSE urb.buffer
<1>3. stub' = [iso |-> urb.iso, in |-> urb.in, actual_length |-> n, status |-> s,
               packets |-> urb.packets, buffer |-> b]
  <2>1. urb = [iso |-> urb.iso, in |-> urb.in, actual_length |-> urb.actual_length,
               status |-> urb.status, packets |-> urb.packets, buffer |-> urb.buffer]
    BY <1>1, Zenon DEF Proper
  <2>2. stub' = [urb EXCEPT !.actual_length = n, !.status = s, !.buffer = b]
    BY <1>1, <1>2, Zenon
  <2> HIDE DEF b
  <2> QED
    BY <2>1, <2>2
<1>4. urb.buffer \in Seq(Data) /\ n \in 0 .. Len(urb.buffer) /\ n \in Nat
  BY <1>1, <1>2 DEF Proper
<1>5. b \in Seq(Data) /\ Len(b) = Len(urb.buffer)
  <2> DEFINE c == Bytes("device", n)
             d == SubSeq(urb.buffer, n + 1, Len(urb.buffer))
  <2>1. c \in Seq(Data) /\ Len(c) = n
    <3>1. c = [q \in 1 .. n |-> <<"device", q>>]
      BY Zenon DEF Bytes, Byte
    <3>2. \A q \in 1 .. n : <<"device", q>> \in Data
      BY <1>4 DEF Data
    <3> HIDE DEF c
    <3> QED
      BY <1>4, <3>1, <3>2
  <2>2. d \in Seq(Data) /\ Len(d) = Len(urb.buffer) - n
    BY <1>4
  <2> HIDE DEF c, d
  <2>3. c \o d \in Seq(Data) /\ Len(c \o d) = Len(c) + Len(d)
    BY <2>1, <2>2, ConcatProperties
  <2>4. Len(c \o d) = Len(urb.buffer)
    BY <1>4, <2>1, <2>2, <2>3
  <2> QED
    BY <1>4, <2>3, <2>4, Zenon DEF c, d
<1> HIDE DEF b
<1>6. /\ stub'.iso = urb.iso /\ stub'.in = urb.in /\ stub'.actual_length = n
      /\ stub'.packets = <<>> /\ urb.packets = <<>> /\ stub'.buffer = b /\ stub'.status = s
      /\ stub' = [iso |-> stub'.iso, in |-> stub'.in, actual_length |-> stub'.actual_length,
                  status |-> stub'.status, packets |-> stub'.packets, buffer |-> stub'.buffer]
  <2>1. urb.packets = <<>>
    BY <1>1 DEF Proper
  <2> QED
    BY <1>3, <2>1
<1>7. Proper(stub')
  <2>1. Apart(Field(stub'.packets, "offset"), Field(stub'.packets, "length"), Len(stub'.buffer))
    BY <1>1, <1>5, <1>6, Zenon DEF Proper
  <2> QED
    BY <1>1, <1>4, <1>5, <1>6, <2>1 DEF Proper
<1>8. ~ urb.in => b = urb.buffer
  BY DEF b
<1>9. \A i \in 1 .. Len(stub'.packets) : FALSE
  BY <1>6
<1>10. Completed'
  BY <1>1, <1>5, <1>6, <1>7, <1>8, <1>9 DEF Completed
<1>11. Proper(urb)'
  BY <1>1, Zenon
<1> QED
  BY <1>1, <1>4, <1>5, <1>6, <1>10, <1>11 DEF TransferInv, StaysConnected

\* An isochronous one: of each packet as much as the device pleases.
LEMMA CompleteIsoKeeps ==
  ASSUME TransferInv, CompleteIso
  PROVE  TransferInv'
<1>1. /\ pc = "submitted" /\ pc' = "completed" /\ urb' = urb /\ stub = urb /\ Proper(urb)
      /\ stub.iso
  BY DEF TransferInv, CompleteIso
<1> DEFINE n == Len(urb.packets)
           Packets == UNION {[offset : {d.offset}, length : {d.length}, net : {FALSE},
                              actual_length : 0 .. d.length, status : {"ok", "error"}] :
                             d \in ToSet(stub.packets)}
<1>2. PICK descs \in [DOMAIN stub.packets -> Packets] :
        /\ \A i \in DOMAIN descs :
             /\ descs[i].offset = stub.packets[i].offset
             /\ descs[i].length = stub.packets[i].length
        /\ stub' = [stub EXCEPT !.packets = descs,
                      !.actual_length = Sum(Field(descs, "actual_length")),
                      !.buffer = [p \in DOMAIN @ |->
                         IF stub.in /\ \E i \in DOMAIN descs : Within(descs[i], p)
                           THEN Byte("device", p) ELSE @[p]]]
  BY Zenon DEF CompleteIso
<1>3. /\ urb.packets \in Seq(Desc) /\ urb.buffer \in Seq(Data) /\ n \in Nat
      /\ DOMAIN urb.packets = 1 .. n
  BY <1>1 DEF Proper
<1>4. ASSUME NEW i \in 1 .. n
      PROVE  descs[i] \in Desc /\ descs[i].actual_length <= descs[i].length
  <2>1. descs[i] \in Packets
    BY <1>1, <1>2, <1>3
  <2>2. PICK d \in ToSet(stub.packets) :
          descs[i] \in [offset : {d.offset}, length : {d.length}, net : {FALSE},
                        actual_length : 0 .. d.length, status : {"ok", "error"}]
    BY <2>1
  <2>3. d \in Desc
    <3>1. PICK k \in 1 .. n : d = urb.packets[k]
      BY <1>1, <1>3, <2>2 DEF ToSet
    <3> QED
      BY <1>3, <3>1
  <2>4. d.offset \in Nat /\ d.length \in Nat
    BY <2>3 DEF Desc
  <2> DEFINE e == descs[i]
             x == d.offset
             y == d.length
  <2>5. /\ x \in Nat /\ y \in Nat
        /\ e \in [offset : {x}, length : {y}, net : {FALSE},
                  actual_length : 0 .. y, status : {"ok", "error"}]
    BY <2>2, <2>4
  <2> HIDE DEF e, x, y
  <2>6. /\ e.offset = x /\ e.length = y /\ e.actual_length \in 0 .. y
        /\ e.status \in {"ok", "error"} /\ e.net = FALSE
    BY <2>5
  <2>7. e = [offset |-> e.offset, length |-> e.length, actual_length |-> e.actual_length,
             status |-> e.status, net |-> e.net]
    BY <2>5
  <2>8. x \in Nat /\ y \in Nat
    BY <2>5, Zenon
  <2>9. /\ e.offset \in Nat /\ e.length \in Nat /\ e.actual_length \in Nat
        /\ e.actual_length <= e.length
    BY <2>6, <2>8
  <2>10. e \in Desc
    <3> DEFINE r1 == e.offset
               r2 == e.length
               r3 == e.actual_length
               r4 == e.status
    <3>1. /\ r1 \in Nat /\ r2 \in Nat /\ r3 \in Nat /\ r4 \in {"ok", "error"}
          /\ e = [offset |-> r1, length |-> r2, actual_length |-> r3, status |-> r4, net |-> FALSE]
      BY <2>6, <2>7, <2>9, Zenon
    <3> HIDE DEF r1, r2, r3, r4
    <3> QED
      BY <3>1 DEF Desc
  <2> QED
    BY <2>9, <2>10, Zenon DEF e
<1>5. descs \in Seq(Desc) /\ Len(descs) = n /\ DOMAIN descs = 1 .. n
  <2>1. descs = [i \in 1 .. n |-> descs[i]]
    BY <1>1, <1>2, <1>3
  <2>2. \A i \in 1 .. n : descs[i] \in Desc
    BY <1>4, Zenon
  <2> HIDE DEF n
  <2> QED
    BY <1>3, <2>1, <2>2
<1> DEFINE b == [p \in DOMAIN urb.buffer |->
                   IF urb.in /\ \E i \in DOMAIN descs : Within(descs[i], p)
                     THEN Byte("device", p) ELSE urb.buffer[p]]
           l == Sum(Field(descs, "actual_length"))
<1>6. stub' = [iso |-> urb.iso, in |-> urb.in, actual_length |-> l, status |-> urb.status,
               packets |-> descs, buffer |-> b]
  <2>1. urb = [iso |-> urb.iso, in |-> urb.in, actual_length |-> urb.actual_length,
               status |-> urb.status, packets |-> urb.packets, buffer |-> urb.buffer]
    BY <1>1, Zenon DEF Proper
  <2>2. stub' = [urb EXCEPT !.packets = descs, !.actual_length = l, !.buffer = b]
    BY <1>1, <1>2, Zenon
  <2> HIDE DEF b, l
  <2> QED
    BY <2>1, <2>2
<1>7. b \in Seq(Data) /\ Len(b) = Len(urb.buffer) /\ (~ urb.in => b = urb.buffer)
  <2> DEFINE m == Len(urb.buffer)
  <2>1. m \in Nat /\ DOMAIN urb.buffer = 1 .. m /\ urb.buffer = [p \in 1 .. m |-> urb.buffer[p]]
        /\ \A p \in 1 .. m : urb.buffer[p] \in Data
    BY <1>3
  <2> HIDE DEF m
  <2>2. \A p \in 1 .. m : Byte("device", p) \in Data
    BY <2>1 DEF Byte, Data
  <2>3. b = [p \in 1 .. m |-> b[p]] /\ \A p \in 1 .. m : b[p] \in Data
    BY <2>1, <2>2, Zenon
  <2>4. ~ urb.in => b = urb.buffer
    BY <2>1, Zenon
  <2> HIDE DEF b
  <2>5. b \in Seq(Data) /\ Len(b) = m
    BY <2>1, <2>3
  <2> QED
    BY <2>4, <2>5 DEF m
<1>8. l \in Nat
  <2> DEFINE s == Field(descs, "actual_length")
  <2>1. s \in Seq(Nat)
    BY <1>5, FieldIs
  <2> HIDE DEF s
  <2>2. PICK p : Sums(p, s) /\ Sum(s) = p[Len(s)]
    BY <2>1, PartialSums
  <2>3. Len(s) \in 0 .. Len(s)
    BY <2>1
  <2> QED
    BY <2>2, <2>3 DEF Sums, s
<1>9. /\ Field(descs, "offset") = Field(urb.packets, "offset")
      /\ Field(descs, "length") = Field(urb.packets, "length")
  <2>1. \A i \in 1 .. n : /\ descs[i].offset = urb.packets[i].offset
                          /\ descs[i].length = urb.packets[i].length
    BY <1>1, <1>2, <1>5
  <2> QED
    BY <1>3, <1>5, <2>1, Zenon DEF Field
<1> HIDE DEF b, l, n
<1>10. /\ stub'.iso = urb.iso /\ stub'.in = urb.in /\ stub'.actual_length = l
       /\ stub'.packets = descs /\ stub'.buffer = b /\ stub'.status = urb.status
       /\ stub' = [iso |-> stub'.iso, in |-> stub'.in, actual_length |-> stub'.actual_length,
                   status |-> stub'.status, packets |-> stub'.packets, buffer |-> stub'.buffer]
  BY <1>6
<1>11. Proper(stub')
  <2>1. Apart(Field(stub'.packets, "offset"), Field(stub'.packets, "length"), Len(stub'.buffer))
    BY <1>1, <1>7, <1>9, <1>10, Zenon DEF Proper
  <2>2. stub'.packets # <<>> => GapFirst \/ stub'.packets[1].offset = 0
    <3>1. descs # <<>> => urb.packets # <<>> /\ 1 \in 1 .. n
      BY <1>3, <1>5 DEF n
    <3>2. 1 \in 1 .. n => descs[1].offset = urb.packets[1].offset
      BY <1>1, <1>2, <1>5
    <3> QED
      BY <1>1, <1>10, <3>1, <3>2, Zenon DEF Proper
  <2>3. urb.iso \in BOOLEAN /\ urb.in \in BOOLEAN /\ urb.iso
    BY <1>1 DEF Proper
  <2> QED
    BY <1>5, <1>7, <1>8, <1>10, <2>1, <2>2, <2>3, Zenon DEF Proper
<1>12. Completed'
  <2>1. \A i \in 1 .. Len(stub'.packets) :
          stub'.packets[i].actual_length <= stub'.packets[i].length
    BY <1>2, <1>4, <1>5, <1>10, Zenon
  <2> QED
    BY <1>1, <1>7, <1>10, <1>11, <2>1, Zenon DEF Completed
<1>13. Proper(urb)'
  BY <1>1, Zenon
<1> QED
  BY <1>1, <1>10, <1>12, <1>13 DEF TransferInv, StaysConnected

\* The answer.
LEMMA ReplyKeeps ==
  ASSUME TransferInv, stub_send_ret_submit
  PROVE  TransferInv'
<1> DEFINE data == usbip_alloc_iso_data_pdu(stub)
           part == IF stub.in THEN SubSeq(stub.buffer, 1, stub.actual_length) ELSE <<>>
           u == IF stub.iso THEN [stub EXCEPT !.actual_length = Len(data),
                                              !.status = LastStatus(stub.packets)]
                ELSE stub
<1>1. /\ pc = "completed" /\ pc' = "reply" /\ urb' = urb /\ Proper(urb) /\ Completed
      /\ stub.iso \/ stub.actual_length <= Len(stub.buffer)
  BY DEF TransferInv, stub_send_ret_submit
<1>2. /\ stub' = u
      /\ wire' = [header |-> usbip_header_correct_endian(
                               Header("RET_SUBMIT", u, u.actual_length), TRUE),
                  data |-> IF stub.iso THEN data ELSE part,
                  descs |-> IF u.iso THEN usbip_alloc_iso_desc_pdu(u) ELSE <<>>]
  <2>1. (IF stub.iso THEN data
         ELSE IF stub.in THEN SubSeq(stub.buffer, 1, stub.actual_length) ELSE <<>>)
          = IF stub.iso THEN data ELSE part
    BY Zenon
  <2> QED
    BY <1>1, Zenon DEF stub_send_ret_submit
<1>3. Proper(stub)
  BY <1>1 DEF Completed
<1>4. data \in Seq(Data)
  <2>1. Field(stub.packets, "length") \in Seq(Nat)
    BY <1>3, FieldIs DEF Proper
  <2>2. PICK p : Sums(p, Field(stub.packets, "length"))
    BY <2>1, PartialSums
  <2> QED
    BY <1>3, <2>2, AllocData
<1> HIDE DEF data
<1>5. /\ u.iso = stub.iso /\ u.in = stub.in /\ u.packets = stub.packets /\ u.buffer = stub.buffer
      /\ u.actual_length \in Nat /\ (~ stub.iso => u.actual_length = stub.actual_length)
      /\ stub.iso => u.actual_length = Len(data)
      /\ u = [iso |-> u.iso, in |-> u.in, actual_length |-> u.actual_length, status |-> u.status,
              packets |-> u.packets, buffer |-> u.buffer]
  <2>1. stub = [iso |-> stub.iso, in |-> stub.in, actual_length |-> stub.actual_length,
                status |-> stub.status, packets |-> stub.packets, buffer |-> stub.buffer]
        /\ stub.actual_length \in Nat
    BY <1>3, Zenon DEF Proper
  <2>2. CASE stub.iso
    <3>1. u = [stub EXCEPT !.actual_length = Len(data), !.status = LastStatus(stub.packets)]
      BY <2>2
    <3>2. Len(data) \in Nat
      BY <1>4
    <3> HIDE DEF u
    <3> QED
      BY <2>1, <2>2, <3>1, <3>2
  <2>3. CASE ~ stub.iso
    <3>1. u = stub
      BY <2>3
    <3> HIDE DEF u
    <3> QED
      BY <2>1, <2>3, <3>1, Zenon
  <2> QED
    BY <2>2, <2>3
<1> HIDE DEF u
<1>6. Proper(u)
  BY <1>3, <1>5, Zenon DEF Proper
<1>7. wire' = Reply(u)
  <2>1. usbip_alloc_iso_data_pdu(u) = data
    BY <1>5, Zenon DEF usbip_alloc_iso_data_pdu, data
  <2>2. (IF u.iso THEN usbip_alloc_iso_data_pdu(u)
         ELSE IF u.in THEN SubSeq(u.buffer, 1, u.actual_length) ELSE <<>>)
          = IF stub.iso THEN data ELSE part
    BY <1>5, <2>1, Zenon
  <2> QED
    BY <1>2, <2>2, Zenon DEF Reply
<1>8. (wire = Reply(stub))' /\ Proper(stub)' /\ Proper(urb)'
  BY <1>1, <1>2, <1>6, <1>7, Zenon
<1>9. /\ stub'.iso = stub.iso /\ stub'.in = stub.in /\ stub'.packets = stub.packets
      /\ stub'.buffer = stub.buffer
  BY <1>2, <1>5, Zenon
<1>10. Completed'
  BY <1>1, <1>8, <1>9, Zenon DEF Completed
<1>11. IF stub'.iso THEN stub'.actual_length = Len(wire'.data)
       ELSE stub'.actual_length <= Len(stub'.buffer)
  <2>1. wire'.data = IF stub.iso THEN data ELSE part
    BY <1>2
  <2> QED
    BY <1>1, <1>2, <1>5, <1>9, <2>1, Zenon
<1> QED
  BY <1>1, <1>8, <1>10, <1>11 DEF TransferInv, StaysConnected

\* The buffer b has what was transferred of s.
Restores(b, s) ==
  /\ DOMAIN b = DOMAIN s.buffer
  /\ \A x \in DOMAIN s.buffer :
       (IF s.iso THEN \E i \in DOMAIN s.packets : Within(s.packets[i], x)
        ELSE x <= s.actual_length) => b[x] = s.buffer[x]

\* What the client makes of an isochronous answer that fits: what the server
\* had, in its place.
LEMMA IsoArrives ==
  ASSUME NEW s, Proper(s), NEW data, data = usbip_alloc_iso_data_pdu(s),
         s.iso, s.actual_length = Len(data), ~ GapFirst,
         Field(s.packets, "actual_length") = Field(s.packets, "length"),
         NEW b \in Seq(Data), Len(b) = Len(s.buffer),
         NEW u, u.packets = s.packets, u.actual_length = s.actual_length,
         u.buffer = data \o SubSeq(b, Len(data) + 1, Len(b))
  PROVE  Restores(usbip_pad_iso(u), s)
<1> DEFINE n == Len(s.packets)
           L == Len(s.buffer)
           off == Field(s.packets, "offset")
           len == Field(s.packets, "length")
<1>1. /\ s.packets \in Seq(Desc) /\ s.buffer \in Seq(Data) /\ Apart(off, len, L)
      /\ n \in Nat /\ DOMAIN s.packets = 1 .. n /\ L \in Nat /\ DOMAIN s.buffer = 1 .. L
      /\ s.packets # <<>> => s.packets[1].offset = 0
  BY DEF Proper
<1>2. /\ off \in Seq(Nat) /\ Len(off) = n /\ len \in Seq(Nat) /\ Len(len) = n
      /\ \A i \in 1 .. n : /\ off[i] = s.packets[i].offset /\ len[i] = s.packets[i].length
                           /\ len[i] = s.packets[i].actual_length
  <2>1. /\ off \in Seq(Nat) /\ Len(off) = n
        /\ \A i \in 1 .. n : off[i] = s.packets[i]["offset"]
    BY <1>1, FieldIs
  <2>2. /\ len \in Seq(Nat) /\ Len(len) = n
        /\ \A i \in 1 .. n : len[i] = s.packets[i]["length"]
    BY <1>1, FieldIs
  <2>3. \A i \in 1 .. n : Field(s.packets, "actual_length")[i] = s.packets[i]["actual_length"]
    BY <1>1, FieldIs
  <2> QED
    BY <2>1, <2>2, <2>3
<1>3. PICK p : Sums(p, len)
  BY <1>2, PartialSums
<1>4. /\ data \in Seq(Data) /\ Len(data) = p[n]
      /\ \A i \in 1 .. n, t \in Nat :
           1 <= t /\ t <= s.packets[i].length =>
             data[p[i - 1] + t] = s.buffer[s.packets[i].offset + t]
  <2>1. data \in Seq(Data) /\ Len(data) = p[n] /\ Packed(data, s, p)
    BY <1>3, AllocData
  <2> QED
    BY <2>1, Zenon DEF Packed
<1> HIDE DEF n, L, off, len
<1>5. ASSUME NEW i \in 1 .. n
      PROVE  /\ off[i] \in Nat /\ len[i] \in Nat /\ p[i - 1] \in Nat /\ p[i] \in Nat
             /\ p[i] = p[i - 1] + len[i] /\ p[i - 1] <= off[i] /\ off[i] + len[i] <= L
  <2>1. i \in 1 .. Len(len)
    BY <1>2, Zenon
  <2> QED
    BY <1>1, <1>3, <2>1, Place
<1>6. p[n] \in Nat /\ p[n] <= L
  <2>1. CASE n = 0
    BY <1>1, <1>3, <2>1 DEF Sums
  <2>2. CASE n # 0
    <3>1. n \in 1 .. n
      BY <1>1, <2>2
    <3> DEFINE a == p[n]
               c == p[n - 1]
               d == len[n]
               e == off[n]
    <3>2. /\ a \in Nat /\ c \in Nat /\ d \in Nat /\ e \in Nat /\ a = c + d /\ c <= e
          /\ e + d <= L
      BY <1>5, <3>1, Zenon
    <3> HIDE DEF a, c, d, e
    <3>3. a <= L
      BY <1>1, <3>2
    <3> QED
      BY <3>2, <3>3, Zenon DEF a
  <2> QED
    BY <2>1, <2>2
<1> DEFINE e == SubSeq(b, Len(data) + 1, Len(b))
<1>7. /\ u.buffer \in Seq(Data) /\ Len(u.buffer) = L /\ DOMAIN u.buffer = 1 .. L
      /\ \A k \in 1 .. p[n] : u.buffer[k] = data[k]
  <2>1. Len(b) = L
    BY DEF L
  <2>2. e \in Seq(Data) /\ Len(e) = L - p[n]
    <3>1. ASSUME NEW m \in Nat, m <= Len(b)
          PROVE  /\ SubSeq(b, m + 1, Len(b)) \in Seq(Data)
                 /\ Len(SubSeq(b, m + 1, Len(b))) = Len(b) - m
      <4> USE <3>1
      <4>1. b \in Seq(Data)
        OBVIOUS
      <4> QED
        BY <4>1
    <3>2. Len(data) \in Nat /\ Len(data) <= Len(b) /\ Len(data) = p[n]
      BY <1>4, <1>6, <2>1, Zenon
    <3> QED
      BY <2>1, <3>1, <3>2, Zenon
  <2>3. data \in Seq(Data) /\ e \in Seq(Data)
    BY <1>4, <2>2, Zenon
  <2> HIDE DEF e
  <2>4. data \o e \in Seq(Data) /\ Len(data \o e) = Len(data) + Len(e)
    BY <2>3, ConcatProperties
  <2>5. \A k \in 1 .. Len(data) + Len(e) :
             (data \o e)[k] = IF k <= Len(data) THEN data[k] ELSE e[k - Len(data)]
    BY <2>3, ConcatProperties
  <2>6. Len(data) + Len(e) = L
    BY <1>1, <1>4, <1>6, <2>2
  <2>7. \A k \in 1 .. p[n] : k \in 1 .. L /\ k <= Len(data)
    BY <1>1, <1>4, <1>6
  <2>8. u.buffer = data \o e
    BY DEF e
  <2>9. u.buffer \in Seq(Data) /\ Len(u.buffer) = L
    BY <2>4, <2>6, <2>8, Zenon
  <2>10. DOMAIN u.buffer = 1 .. L
    BY <2>9
  <2>11. \A k \in 1 .. p[n] : u.buffer[k] = data[k]
    BY <2>5, <2>6, <2>7, <2>8, Zenon
  <2> QED
    BY <2>9, <2>10, <2>11
<1>8. /\ DOMAIN usbip_pad_iso(u) = 1 .. L
      /\ \A j \in 1 .. n, t \in Nat :
           (j = 1 => off[1] = 0) /\ 1 <= t /\ t <= len[j] =>
             usbip_pad_iso(u)[off[j] + t] = u.buffer[p[j - 1] + t]
  <2>1. Len(u.packets) = Len(len) /\ Field(u.packets, "actual_length") = len
    BY <1>2, Zenon DEF n, len
  <2>2. \A i \in 1 .. Len(len) : u.packets[i].offset = off[i]
    BY <1>2, Zenon
  <2>3. u.actual_length = p[Len(len)]
    BY <1>2, <1>4, Zenon
  <2>4. Placed(usbip_pad_iso(u), u.buffer, off, len, p, L)
    BY <1>1, <1>3, <1>7, <2>1, <2>2, <2>3, PadIso
  <2> QED
    BY <1>2, <2>4, Zenon DEF Placed
<1>9. ASSUME NEW x \in 1 .. L, NEW i \in 1 .. n, Within(s.packets[i], x)
      PROVE  usbip_pad_iso(u)[x] = s.buffer[x]
  <2> DEFINE t == x - off[i]
  <2>1. off[i] < x /\ x <= off[i] + len[i]
    BY <1>2, <1>9, Zenon DEF Within
  <2>2. t \in Nat /\ 1 <= t /\ t <= len[i] /\ x = off[i] + t
    BY <1>1, <1>5, <2>1
  <2> HIDE DEF t
  <2>3. i = 1 => off[1] = 0
    <3>1. s.packets # <<>>
      BY <1>1 DEF n
    <3> QED
      BY <1>1, <1>2, <3>1, Zenon
  <2>4. usbip_pad_iso(u)[x] = u.buffer[p[i - 1] + t]
    BY <1>8, <2>2, <2>3, Zenon
  <2>5. p[i - 1] + t \in 1 .. p[n]
    <3>1. p[i] <= p[n]
      <4>1. i \in 0 .. n /\ n \in 0 .. n
        BY <1>1
      <4> QED
        BY <1>2, <1>3, <4>1, SumsGrow
    <3> DEFINE a == p[i - 1]
               c == p[i]
               d == len[i]
               f == p[n]
    <3>2. a \in Nat /\ c \in Nat /\ d \in Nat /\ f \in Nat /\ c = a + d /\ c <= f
      BY <1>5, <1>6, <3>1, Zenon
    <3>3. t \in Nat /\ 1 <= t /\ t <= d
      BY <2>2, Zenon
    <3> HIDE DEF a, c, d, f
    <3>4. a + t \in 1 .. f
      BY <3>2, <3>3
    <3> QED
      BY <3>4, Zenon DEF a, f
  <2>6. data[p[i - 1] + t] = s.buffer[off[i] + t]
    BY <1>2, <1>4, <2>2, Zenon
  <2> QED
    BY <1>7, <2>2, <2>4, <2>5, <2>6, Zenon
<1> QED
  BY <1>1, <1>8, <1>9, Zenon DEF Restores

\* The packets make up the data that usbip_alloc_iso_data_pdu sends exactly if
\* each of them was transferred as a whole.
LEMMA WholePackets ==
  ASSUME NEW s, Proper(s),
         \A i \in 1 .. Len(s.packets) : s.packets[i].actual_length <= s.packets[i].length
  PROVE  (s.packets # <<>> => Sum(Field(s.packets, "actual_length"))
                                = Len(usbip_alloc_iso_data_pdu(s)))
           <=> Field(s.packets, "actual_length") = Field(s.packets, "length")
<1> DEFINE n == Len(s.packets)
           a == Field(s.packets, "actual_length")
           l == Field(s.packets, "length")
           d == Len(usbip_alloc_iso_data_pdu(s))
<1>1. s.packets \in Seq(Desc) /\ n \in Nat
  BY DEF Proper
<1>2. a \in Seq(Nat) /\ Len(a) = n /\ \A i \in 1 .. n : a[i] = s.packets[i]["actual_length"]
  BY <1>1, FieldIs
<1>3. l \in Seq(Nat) /\ Len(l) = n /\ \A i \in 1 .. n : l[i] = s.packets[i]["length"]
  BY <1>1, FieldIs
<1>4. PICK p : Sums(p, l)
  BY <1>3, PartialSums
<1>5. d = Sum(l)
  <2>1. d = p[n]
    BY <1>4, AllocData
  <2>2. Sum(l) = p[Len(l)]
    BY <1>3, <1>4, SumIs
  <2> QED
    BY <1>3, <2>1, <2>2, Zenon
<1>6. \A i \in 1 .. Len(a) : a[i] <= l[i]
  BY <1>2, <1>3, Zenon
<1> HIDE DEF a, l, d
<1>7. Sum(a) = Sum(l) => a = l
  BY <1>2, <1>3, <1>6, SumsAgree
<1>8. s.packets = <<>> => a = l
  <2>1. s.packets = <<>> => Len(a) = 0 /\ Len(l) = 0
    BY <1>2, <1>3
  <2> QED
    BY <1>2, <1>3, <2>1
<1> QED
  BY <1>5, <1>7, <1>8, Zenon DEF a, l, d

\* Two URBs that agree where something was transferred.
LEMMA SameResult ==
  ASSUME NEW u, NEW v, u.iso = v.iso, u.packets = v.packets, u.actual_length = v.actual_length,
         Restores(u.buffer, v)
  PROVE  Result(u) = Result(v)
<1> DEFINE P(x) == IF v.iso THEN \E i \in DOMAIN v.packets : Within(v.packets[i], x)
                   ELSE x <= v.actual_length
           S == {x \in DOMAIN v.buffer : P(x)}
<1>1. Result(v) = [x \in S |-> v.buffer[x]]
  BY Zenon DEF Result
<1>2. Result(u) = [x \in S |-> u.buffer[x]]
  BY Zenon DEF Result, Restores
<1>3. \A x \in S : u.buffer[x] = v.buffer[x]
  BY Zenon DEF Restores
<1> HIDE DEF S
<1> QED
  BY <1>1, <1>2, <1>3, Zenon

\* What the client takes from the answer.
LEMMA AnswerArrives ==
  ASSUME TransferInv, pc = "reply"
  PROVE  /\ Proper(urb) /\ Completed
         /\ usbip_header_correct_endian(wire.header, FALSE)
              = Header("RET_SUBMIT", stub, stub.actual_length)
         /\ Len(wire.descs) = Len(stub.packets) /\ Unpacked = stub.packets
         /\ (IF urb.iso THEN Len(stub.packets) ELSE 0) = Len(stub.packets)
         /\ wire.data = IF stub.iso THEN usbip_alloc_iso_data_pdu(stub)
                        ELSE IF stub.in THEN SubSeq(stub.buffer, 1, stub.actual_length) ELSE <<>>
         /\ IF stub.iso THEN stub.actual_length = Len(wire.data)
            ELSE stub.actual_length <= Len(stub.buffer)
<1>1. /\ Proper(urb) /\ Completed /\ wire = Reply(stub)
      /\ IF stub.iso THEN stub.actual_length = Len(wire.data)
         ELSE stub.actual_length <= Len(stub.buffer)
  BY DEF TransferInv
<1>2. /\ Proper(stub) /\ stub.packets \in Seq(Desc) /\ (~ stub.iso => stub.packets = <<>>)
      /\ stub.iso = urb.iso
  BY <1>1 DEF Completed, Proper
<1> DEFINE H == Header("RET_SUBMIT", stub, stub.actual_length)
<1>3. /\ wire.header = usbip_header_correct_endian(H, TRUE)
      /\ wire.descs = (IF stub.iso THEN usbip_alloc_iso_desc_pdu(stub) ELSE <<>>)
      /\ wire.data = IF stub.iso THEN usbip_alloc_iso_data_pdu(stub)
                     ELSE IF stub.in THEN SubSeq(stub.buffer, 1, stub.actual_length) ELSE <<>>
  <2> HIDE DEF H
  <2> QED
    BY <1>1 DEF Reply, H
<1>4. usbip_header_correct_endian(wire.header, FALSE) = H
  BY <1>3, HeaderArrives, Zenon
<1>5. Len(wire.descs) = Len(stub.packets) /\ Unpacked = stub.packets
  BY <1>2, <1>3, PacketsArrive
<1>6. (IF urb.iso THEN Len(stub.packets) ELSE 0) = Len(stub.packets)
  BY <1>2
<1> QED
  BY <1>1, <1>3, <1>4, <1>5, <1>6, Zenon

\* The packets of a transfer that is not one of the two kinds.
LEMMA Matched ==
  ASSUME NEW s, Proper(s),
         \A i \in 1 .. Len(s.packets) : s.packets[i].actual_length <= s.packets[i].length
  PROVE  /\ s.in => (~ Mismatched(s)
                        <=> Field(s.packets, "actual_length") = Field(s.packets, "length"))
         /\ ~ s.in => (~ Mismatched(s) <=> Len(usbip_alloc_iso_data_pdu(s)) = 0)
         /\ ~ s.in /\ ~ Mismatched(s)
              => Field(s.packets, "actual_length") = Field(s.packets, "length")
<1> DEFINE n == Len(s.packets)
           a == Field(s.packets, "actual_length")
           l == Field(s.packets, "length")
           d == Len(usbip_alloc_iso_data_pdu(s))
           z == [i \in 1 .. n |-> 0]
<1>1. s.packets \in Seq(Desc) /\ n \in Nat /\ DOMAIN s.packets = 1 .. n
  BY DEF Proper
<1>2. a \in Seq(Nat) /\ Len(a) = n /\ \A i \in 1 .. n : a[i] = s.packets[i].actual_length
  BY <1>1, FieldIs
<1>3. l \in Seq(Nat) /\ Len(l) = n /\ \A i \in 1 .. n : l[i] = s.packets[i].length
  BY <1>1, FieldIs
<1>4. Mismatched(s) <=> \E i \in 1 .. n : IF s.in THEN a[i] < l[i] ELSE l[i] > 0
  BY <1>1, <1>2, <1>3 DEF Mismatched
<1>5. d = Sum(l)
  <2>1. PICK p : Sums(p, l)
    BY <1>3, PartialSums
  <2>2. d = p[n]
    BY <2>1, AllocData
  <2>3. Sum(l) = p[Len(l)]
    BY <1>3, <2>1, SumIs
  <2> QED
    BY <1>3, <2>2, <2>3, Zenon
<1>6. z \in Seq(Nat) /\ Len(z) = n /\ \A i \in 1 .. n : z[i] = 0
  BY <1>1
<1>7. \A i \in 1 .. n : a[i] <= l[i] /\ a[i] \in Nat /\ l[i] \in Nat
  BY <1>2, <1>3
<1> HIDE DEF n, a, l, d, z
<1>8. a = l <=> \A i \in 1 .. n : a[i] = l[i]
  BY <1>2, <1>3
<1>9. z = l <=> \A i \in 1 .. n : l[i] = 0
  BY <1>3, <1>6
<1>10. Sum(z) = 0
  BY <1>6, SumOfZeros
<1>11. Sum(z) = Sum(l) => z = l
  <2>1. \A i \in 1 .. Len(z) : z[i] <= l[i]
    BY <1>6, <1>7
  <2> QED
    BY <1>3, <1>6, <2>1, SumsAgree
<1>12. d = 0 <=> z = l
  BY <1>5, <1>10, <1>11, Zenon
<1>13. s.in => (~ Mismatched(s) <=> a = l)
  BY <1>4, <1>7, <1>8
<1>14. ~ s.in => (~ Mismatched(s) <=> z = l)
  BY <1>4, <1>7, <1>9
<1>15. z = l => a = l
  BY <1>7, <1>8, <1>9
<1> QED
  BY <1>12, <1>13, <1>14, <1>15, Zenon DEF a, l, d

\* It takes less or more than was sent of exactly these answers.
LEMMA AnswerFits ==
  ASSUME TransferInv, pc = "reply"
  PROVE  (/\ usbip_recv(IF stub.in THEN stub.actual_length ELSE 0, Len(stub.packets))
          /\ IsoFits(urb, stub.actual_length)) <=> ~ Mismatched(stub)
<1> DEFINE size == IF stub.in THEN stub.actual_length ELSE 0
           n == Len(stub.packets)
           a == Field(stub.packets, "actual_length")
           l == Field(stub.packets, "length")
           data == usbip_alloc_iso_data_pdu(stub)
           Matches == ~ Mismatched(stub)
<1>1. /\ Completed /\ Len(wire.descs) = n /\ Unpacked = stub.packets
      /\ wire.data = (IF stub.iso THEN data
                      ELSE IF stub.in THEN SubSeq(stub.buffer, 1, stub.actual_length) ELSE <<>>)
      /\ IF stub.iso THEN stub.actual_length = Len(wire.data)
         ELSE stub.actual_length <= Len(stub.buffer)
  BY AnswerArrives, Zenon
<1>2. /\ Proper(stub) /\ stub.iso = urb.iso /\ stub.packets \in Seq(Desc)
      /\ stub.buffer \in Seq(Data) /\ stub.actual_length \in Nat
      /\ (~ stub.iso => stub.packets = <<>>)
  BY <1>1 DEF Completed, Proper
<1>3. \A i \in 1 .. n : stub.packets[i].actual_length <= stub.packets[i].length
  BY <1>1, Zenon DEF Completed
<1>4. usbip_recv(size, n) <=> Len(wire.data) = size
  BY <1>1, Zenon DEF usbip_recv
<1>5. CASE ~ stub.iso
  <2>1. Len(wire.data) = size
    BY <1>1, <1>2, <1>5
  <2>2. IsoFits(urb, stub.actual_length)
    BY <1>2, <1>5 DEF IsoFits
  <2>3. Matches
    BY <1>2, <1>5 DEF Mismatched
  <2> QED
    BY <1>4, <2>1, <2>2, <2>3, Zenon
<1>6. CASE stub.iso
  <2>1. wire.data = data /\ stub.actual_length = Len(data)
    BY <1>1, <1>6, Zenon
  <2>2. wire.descs # <<>> <=> stub.packets # <<>>
    BY <1>1, <1>2
  <2>3. IsoFits(urb, stub.actual_length) <=> (stub.packets # <<>> => Sum(a) = Len(data))
    BY <1>1, <1>2, <1>6, <2>1, <2>2, Zenon DEF IsoFits
  <2>4. (stub.packets # <<>> => Sum(a) = Len(data)) <=> a = l
    BY <1>2, <1>3, WholePackets
  <2>5. /\ stub.in => (Matches <=> a = l)
        /\ ~ stub.in => (Matches <=> Len(data) = 0)
        /\ ~ stub.in /\ Matches => a = l
    BY <1>2, <1>3, Matched
  <2> HIDE DEF Matches, a, l, data
  <2> QED
    BY <1>4, <2>1, <2>3, <2>4, <2>5, Zenon DEF Matches
<1> QED
  BY <1>5, <1>6

\* The answer to a transfer to the device, or to one that is not isochronous.
LEMMA PlainArrives ==
  ASSUME NEW s, Proper(s), NEW b \in Seq(Data), Len(b) = Len(s.buffer), ~ s.iso, s.in,
         s.actual_length <= Len(s.buffer),
         NEW c, c = SubSeq(s.buffer, 1, s.actual_length) \o SubSeq(b, s.actual_length + 1, Len(b))
  PROVE  Restores(c, s)
<1> DEFINE a == s.actual_length
           L == Len(s.buffer)
           d == SubSeq(s.buffer, 1, a)
           e == SubSeq(b, a + 1, Len(b))
<1>1. a \in Nat /\ s.buffer \in Seq(Data) /\ L \in Nat /\ DOMAIN s.buffer = 1 .. L /\ a <= L
      /\ Len(b) = L
  BY DEF Proper
<1> HIDE DEF a, L
<1>2. d \in Seq(Data) /\ Len(d) = a /\ \A k \in 1 .. a : d[k] = s.buffer[k]
  BY <1>1
<1>3. e \in Seq(Data) /\ Len(e) = L - a
  BY <1>1
<1>4. c = d \o e
  BY DEF a
<1>5. d \in Seq(Data) /\ e \in Seq(Data)
  BY <1>2, <1>3, Zenon
<1> HIDE DEF d, e
<1>6. \A k \in 1 .. Len(d) + Len(e) :
        (d \o e)[k] = IF k <= Len(d) THEN d[k] ELSE e[k - Len(d)]
  BY <1>5, ConcatProperties
<1>7. Len(d) + Len(e) = L
  BY <1>1, <1>2, <1>3
<1>8. DOMAIN c = 1 .. L
  <2>1. d \o e \in Seq(Data) /\ Len(d \o e) = Len(d) + Len(e)
    BY <1>5, ConcatProperties
  <2>2. c \in Seq(Data) /\ Len(c) = L
    BY <1>4, <1>7, <2>1, Zenon
  <2> QED
    BY <2>2
<1>9. ASSUME NEW x \in 1 .. L, x <= a PROVE c[x] = s.buffer[x]
  <2>1. x \in 1 .. a
    BY <1>1, <1>9
  <2> QED
    BY <1>2, <1>4, <1>6, <1>7, <1>9, <2>1, Zenon
<1> QED
  BY <1>1, <1>8, <1>9, Zenon DEF Restores, a

\* What the client makes of an answer that fits.
LEMMA ReplyArrives ==
  ASSUME TransferInv, pc = "reply", ~ GapFirst,
         usbip_recv(IF urb.in THEN stub.actual_length ELSE 0, Len(stub.packets)),
         IsoFits(urb, stub.actual_length),
         NEW u, u.iso = urb.iso, u.actual_length = stub.actual_length, u.packets = stub.packets,
         u.buffer = wire.data \o SubSeq(urb.buffer, (IF urb.in THEN stub.actual_length ELSE 0) + 1,
                                        Len(urb.buffer)),
         NEW v, v.iso = urb.iso, v.actual_length = stub.actual_length, v.packets = stub.packets,
         v.buffer = IF urb.iso THEN usbip_pad_iso(u) ELSE u.buffer
  PROVE  /\ urb.in => Result(v) = Result(stub)
         /\ ~ urb.in => v.buffer = stub.buffer
<1> DEFINE size == IF urb.in THEN stub.actual_length ELSE 0
           b == urb.buffer
           r == wire.data \o SubSeq(b, size + 1, Len(b))
           n == Len(stub.packets)
<1>1. /\ Proper(urb) /\ Completed /\ Unpacked = stub.packets /\ Len(wire.descs) = n
      /\ wire.data = (IF stub.iso THEN usbip_alloc_iso_data_pdu(stub)
                      ELSE IF stub.in THEN SubSeq(stub.buffer, 1, stub.actual_length) ELSE <<>>)
      /\ IF stub.iso THEN stub.actual_length = Len(wire.data)
         ELSE stub.actual_length <= Len(stub.buffer)
  BY AnswerArrives, Zenon
<1>2. /\ Proper(stub) /\ stub.iso = urb.iso /\ stub.in = urb.in /\ Len(stub.buffer) = Len(b)
      /\ (~ urb.in => stub.buffer = b) /\ b \in Seq(Data) /\ stub.actual_length \in Nat
      /\ stub.buffer \in Seq(Data) /\ stub.packets \in Seq(Desc)
      /\ urb.iso \in BOOLEAN /\ urb.in \in BOOLEAN
      /\ \A i \in 1 .. n : stub.packets[i].actual_length <= stub.packets[i].length
  BY <1>1 DEF Completed, Proper
<1>3. Len(wire.data) = size
  BY Zenon DEF usbip_recv
<1>4. /\ u.iso = stub.iso /\ u.buffer = r
      /\ v.iso = stub.iso /\ v.buffer = IF stub.iso THEN usbip_pad_iso(u) ELSE r
  BY <1>2
<1> HIDE DEF r
<1>5. ASSUME ~ urb.in PROVE v.buffer = stub.buffer
  <2>1. wire.data = <<>> /\ size = 0
    <3>1. size = 0 /\ Len(wire.data) = 0
      BY <1>3, <1>5
    <3>2. wire.data \in Seq(Data)
      <4>1. CASE stub.iso
        <5>1. Field(stub.packets, "length") \in Seq(Nat)
          BY <1>2, FieldIs
        <5>2. PICK p : Sums(p, Field(stub.packets, "length"))
          BY <5>1, PartialSums
        <5> QED
          BY <1>1, <1>2, <4>1, <5>2, AllocData
      <4>2. CASE ~ stub.iso
        <5>1. wire.data = <<>>
          BY <1>1, <1>2, <1>5, <4>2, Zenon
        <5> QED
          BY <5>1
      <4> QED
        BY <4>1, <4>2
    <3> QED
      BY <3>1, <3>2
  <2>2. r = b
    <3>1. r = <<>> \o SubSeq(b, 0 + 1, Len(b))
      BY <2>1, Zenon DEF r
    <3> HIDE DEF b
    <3> QED
      BY <1>2, <3>1
  <2>3. CASE stub.iso
    <3>1. u.actual_length = 0
      BY <1>1, <1>4, <2>1, <2>3
    <3>2. usbip_pad_iso(u) = u.buffer
      BY <3>1, Zenon DEF usbip_pad_iso
    <3> QED
      BY <1>2, <1>4, <1>5, <2>2, <2>3, <3>2, Zenon
  <2>4. CASE ~ stub.iso
    BY <1>2, <1>4, <1>5, <2>2, <2>4, Zenon
  <2> QED
    BY <2>3, <2>4
<1>6. ASSUME urb.in PROVE Result(v) = Result(stub)
  <2>1. r = wire.data \o SubSeq(b, stub.actual_length + 1, Len(b))
    BY <1>6, Zenon DEF r
  <2>2. CASE stub.iso
    <3> DEFINE data == usbip_alloc_iso_data_pdu(stub)
    <3>1. wire.data = data /\ stub.actual_length = Len(data)
      BY <1>1, <2>2, Zenon
    <3>2. stub.packets # <<>> => Sum(Field(stub.packets, "actual_length")) = Len(data)
      <4>1. stub.packets # <<>> => wire.descs # <<>>
        BY <1>1, <1>2
      <4> QED
        BY <1>1, <1>2, <2>2, <3>1, <4>1, Zenon DEF IsoFits
    <3>3. Field(stub.packets, "actual_length") = Field(stub.packets, "length")
      BY <1>2, <3>2, WholePackets
    <3>4. u.buffer = data \o SubSeq(b, Len(data) + 1, Len(b))
      BY <1>4, <2>1, <3>1, Zenon
    <3> HIDE DEF data
    <3>5. Restores(usbip_pad_iso(u), stub)
      BY <1>2, <1>4, <2>2, <3>1, <3>3, <3>4, IsoArrives DEF data
    <3> QED
      BY <1>4, <2>2, <3>5, SameResult, Zenon
  <2>3. CASE ~ stub.iso
    <3>1. wire.data = SubSeq(stub.buffer, 1, stub.actual_length)
          /\ stub.actual_length <= Len(stub.buffer)
      BY <1>1, <1>2, <1>6, <2>3, Zenon
    <3>2. r = SubSeq(stub.buffer, 1, stub.actual_length)
                \o SubSeq(b, stub.actual_length + 1, Len(b))
      BY <2>1, <3>1, Zenon
    <3> HIDE DEF b
    <3>3. Restores(r, stub)
      BY <1>2, <1>6, <2>3, <3>1, <3>2, PlainArrives
    <3> QED
      BY <1>4, <2>3, <3>3, SameResult, Zenon
  <2> QED
    BY <2>2, <2>3
<1> QED
  BY <1>4, <1>5, <1>6, Zenon

\* The client takes the answer, or ends the connection.
LEMMA RecvKeeps ==
  ASSUME TransferInv, vhci_recv_ret_submit
  PROVE  TransferInv'
<1> DEFINE H == Header("RET_SUBMIT", stub, stub.actual_length)
           n == Len(stub.packets)
           size == IF urb.in THEN stub.actual_length ELSE 0
           b == wire.data \o SubSeq(urb.buffer, size + 1, Len(urb.buffer))
           u == [urb EXCEPT !.status = stub.status, !.actual_length = stub.actual_length,
                   !.packets = stub.packets, !.buffer = b]
           c == IF u.iso THEN usbip_pad_iso(u) ELSE b
           Good == usbip_recv(size, n) /\ IsoFits(urb, stub.actual_length)
<1>1. pc = "reply"
  BY DEF vhci_recv_ret_submit
<1>2. /\ Proper(urb) /\ Completed /\ Unpacked = stub.packets
      /\ usbip_header_correct_endian(wire.header, FALSE) = H
      /\ (IF urb.iso THEN n ELSE 0) = n
  BY <1>1, AnswerArrives, Zenon
<1>3. /\ H.net = {} /\ H.length = stub.actual_length /\ H.number_of_packets = n
      /\ H.status = stub.status
  BY DEF Header
<1>4. stub.in = urb.in /\ stub.iso = urb.iso
  BY <1>2 DEF Completed
<1> HIDE DEF H, n
<1>5. IF ~ Good THEN Down
      ELSE /\ urb' = [u EXCEPT !.buffer = IF u.iso THEN usbip_pad_iso(u) ELSE @]
           /\ pc' = "done" /\ UNCHANGED <<stub, wire>>
  BY <1>2, <1>3, Zenon DEF vhci_recv_ret_submit
<1> HIDE DEF b
<1>6. CASE ~ Good
  <2>1. Mismatched(stub)
    BY <1>1, <1>4, <1>6, AnswerFits, Zenon DEF n
  <2>2. pc' = "down" /\ stub' = stub
    BY <1>5, <1>6 DEF Down
  <2>3. StaysConnected'
    BY <2>1, <2>2, Zenon DEF StaysConnected
  <2> QED
    BY <2>2, <2>3 DEF TransferInv
<1>7. CASE Good
  <2>1. urb' = [u EXCEPT !.buffer = IF u.iso THEN usbip_pad_iso(u) ELSE @]
        /\ pc' = "done" /\ stub' = stub
    BY <1>5, <1>7
  <2>2. /\ u.iso = urb.iso /\ u.in = urb.in /\ u.actual_length = stub.actual_length
        /\ u.packets = stub.packets /\ u.status = stub.status /\ u.buffer = b
        /\ u = [iso |-> u.iso, in |-> u.in, actual_length |-> u.actual_length,
                status |-> u.status, packets |-> u.packets, buffer |-> u.buffer]
    <3>1. urb = [iso |-> urb.iso, in |-> urb.in, actual_length |-> urb.actual_length,
                 status |-> urb.status, packets |-> urb.packets, buffer |-> urb.buffer]
      BY <1>2, Zenon DEF Proper
    <3>2. u = [iso |-> urb.iso, in |-> urb.in, actual_length |-> stub.actual_length,
               status |-> stub.status, packets |-> stub.packets, buffer |-> b]
      <4> SUFFICES ASSUME NEW v, v = u
                   PROVE  v = [iso |-> urb.iso, in |-> urb.in, status |-> stub.status,
                               actual_length |-> stub.actual_length,
                               packets |-> stub.packets, buffer |-> b]
        BY Zenon
      <4> QED
        BY <3>1
    <3> HIDE DEF u
    <3> QED
      BY <3>2
  <2>3. urb' = [u EXCEPT !.buffer = c]
    BY <2>1, <2>2, Zenon
  <2>4. c = IF urb.iso THEN usbip_pad_iso(u) ELSE u.buffer
    BY <2>2, Zenon
  <2> HIDE DEF u, c
  <2>5. /\ urb'.iso = urb.iso /\ urb'.in = urb.in /\ urb'.actual_length = stub.actual_length
        /\ urb'.packets = stub.packets /\ urb'.status = stub.status /\ urb'.buffer = c
    BY <2>2, <2>3
  <2>6. ~ GapFirst => /\ urb.in => Result(urb') = Result(stub)
                      /\ ~ urb.in => urb'.buffer = stub.buffer
    <3> SUFFICES ASSUME ~ GapFirst
                 PROVE  /\ urb.in => Result(urb') = Result(stub)
                        /\ ~ urb.in => urb'.buffer = stub.buffer
      OBVIOUS
    <3>1. usbip_recv(size, Len(stub.packets)) /\ IsoFits(urb, stub.actual_length)
      BY <1>7 DEF n
    <3>2. u.buffer = wire.data \o SubSeq(urb.buffer, size + 1, Len(urb.buffer))
      BY <2>2, Zenon DEF b
    <3>3. urb'.buffer = IF urb.iso THEN usbip_pad_iso(u) ELSE u.buffer
      BY <2>4, <2>5, Zenon
    <3> QED
      BY <1>1, <2>2, <2>5, <3>1, <3>2, <3>3, ReplyArrives
  <2>7. GapFirst \/ Arrived'
    BY <2>1, <2>5, <2>6, Zenon DEF Arrived
  <2>8. ~ Mismatched(stub)
    BY <1>1, <1>4, <1>7, AnswerFits, Zenon DEF n
  <2>9. StaysConnected'
    BY <2>1, <2>8, Zenon DEF StaysConnected
  <2> QED
    BY <2>1, <2>7, <2>9 DEF TransferInv
<1> QED
  BY <1>6, <1>7

\* Every step keeps the invariant,
LEMMA TransferNextInv == TransferInv /\ [TransferNext]_transferVars => TransferInv'
<1>1. ASSUME TransferInv, UNCHANGED transferVars PROVE TransferInv'
  BY <1>1, Zenon DEF TransferInv, transferVars, Completed, Arrived,
                  StaysConnected
<1> QED
  BY <1>1, SendKeeps, RequestKeeps, CompleteKeeps, CompleteIsoKeeps, ReplyKeeps, RecvKeeps,
     Zenon DEF TransferNext

\* so it always holds.
LEMMA TransferInvariance == TransferSpec => []TransferInv
<1>1. TransferInit => TransferInv
  BY TransferInitInv
<1>2. TransferInv /\ [TransferNext]_transferVars => TransferInv'
  BY TransferNextInv
<1> QED
  BY <1>1, <1>2, PTL DEF TransferSpec

\* The device is given the data that the driver submitted, and the driver gets
\* what the device transferred, packet for packet, each byte in its place
\* (usbip_alloc_iso_data_pdu, usbip_pad_iso), provided that the first packet is
\* at the start of the buffer: usbip_pad_iso leaves it there.
THEOREM DataArrivesHolds == ~ GapFirst => (TransferSpec => []DataArrives)
<1> SUFFICES ASSUME ~ GapFirst PROVE TransferSpec => []DataArrives
  OBVIOUS
<1>1. TransferInv => DataArrives
  BY Zenon DEF TransferInv, Arrived, DataArrives
<1> QED
  BY <1>1, TransferInvariance, PTL

\* Whatever is submitted and however much of it the device transfers, in any
\* number of packets of any length: the connection is ended by exactly the
\* isochronous transfers to the device and those with a short packet, and by
\* no other (usbip_recv_xbuff, usbip_recv_iso).
THEOREM StaysConnectedHolds == TransferSpec => []StaysConnected
<1>1. TransferInv => StaysConnected
  BY Zenon DEF TransferInv
<1> QED
  BY <1>1, TransferInvariance, PTL
=============================================================================
