------------------------ MODULE ExportDaemon_proofs ------------------------
(***************************************************************************)
(* Proofs about the export daemon, for any number of bus ids, names and    *)
(* plugs.  Each theorem names the situations it excludes.  The invariants are built of *)
(* parts that say who may be at a bus id while the daemon works on it, and *)
(* how its list and the bus are related meanwhile.                         *)
(***************************************************************************)
EXTENDS ExportDaemon, FiniteSetTheorems, WellFoundedInduction, TLAPS

-----------------------------------------------------------------------------
(* The situations.                                                         *)

\* No bus id is a substring of another.
NoSubstring == \A a, b \in BusIds : SubBus(a, b) => a = b
\* match_busid has room for all.
TableFits == IsFiniteSet(BusIds) /\ Cardinality(BusIds) <= MaxMatch

-----------------------------------------------------------------------------
(* The parts of the invariants.                                            *)

Taking == {"load", "reprobe", "unbind", "match", "bind", "refresh"}

\* What is at a bus id has a name and a driver, or is going.
Named == \A b \in BusIds : Present(b) => bus[b].name \in Names /\ bus[b].driver # "absent"

\* Where the daemon is before it listens, where after, and where it has an
\* entry to tell.
Phase ==
  /\ at.pc \in {"scan", "next", "sendall", "reprobe"} => ~ hotplug
  /\ at.pc \in {"wait", "skip"} => hotplug
  /\ at.pc \in {"sendall", "connect", "ready", "export"} => at.i # 0

\* A device is without a driver between Unbind and what follows it.
UnboundIsB == \A b \in BusIds : bus[b].driver = "none" => at.pc \in {"match", "bind"} /\ B = b

\* What usbip has is on the list, or about to be put there.
TakenIsMapped ==
  \A b \in BusIds : bus[b].driver = "usbip" => b \in Mapped \/ (at.pc = "refresh" /\ B = b)

\* A kept device has its own driver, or leaves.
KeptStay ==
  \A b \in BusIds \ missed : bus[b].driver \in {"own", "none", "usbip"} => bus[b].name \notin Kept

\* The device that is worked on is the one whose name was looked up.
NameIsRead ==
  at.pc \in Taking =>
    CanLoad(at.name) /\ (B \notin missed /\ Present(B) => bus[B].name = at.name)

TakenIsAllowed == \A b \in BusIds \ missed : bus[b].driver = "usbip" => CanLoad(bus[b].name)

\* An entry is for the device that usbip has, that leaves, or whose end is
\* still to be looked at, or its bus id missed something.
EntryIsTrue ==
  \A i \in DOMAIN maplist :
    LET b == maplist[i].bus
    IN  \/ b \in missed
        \/ bus[b].driver \in {"usbip", "leaving"} /\ bus[b].name = maplist[i].name
        \/ ~ Present(b) /\ b \in ToSet(uevents)

\* Each bus id is once on the list, and not while its device is being taken.
MappedOnce ==
  /\ \A i, k \in DOMAIN maplist :
       maplist[i].bus = maplist[k].bus /\ maplist[i].bus \notin missed => i = k
  /\ at.pc \in Taking /\ B \notin missed => B \notin Mapped

\* The scan looks at each bus id once.
ScanOnce ==
  ~ hotplug => /\ todo \cap Mapped = {}
               /\ at.pc = "scan" => maplist = <<>>
               /\ at.pc \in Taking => B \notin todo \cup Mapped

\* Until the daemon listens nothing goes but is missed, and what it has on
\* its list, and usbip still has, is in edev_list.
ScanStays ==
  ~ hotplug => /\ \A b \in BusIds : bus[b].driver = "leaving" => b \in missed
               /\ \A b \in Mapped : bus[b].driver = "usbip" => edev_list[b] # "absent"

\* The bus id that is taken has another driver until bind_to_usbip, and not
\* one that is kept.
NotYetTaken ==
  at.pc \in {"reprobe", "unbind", "match", "bind"} => bus[B].driver # "usbip"
NotKept ==
  at.pc \in {"reprobe", "unbind", "match", "bind"} /\ B \notin missed => bus[B].driver # "kept"

\* After the end usbip has nothing.
ExitGivesBack == down = "exit" => \A b \in BusIds : bus[b].driver # "usbip"

\* It ends where it has no device in hand.
EndsAtRest == down # "no" => at.pc \in {"wait", "sendall"}

TypeInv == TypeOK /\ Named /\ Phase
ScanInv == down = "no" => ScanOnce /\ ScanStays
TakenInv == down = "no" => TakenIsMapped /\ NotYetTaken
GivenBackInv == UnboundIsB /\ EndsAtRest /\ ExitGivesBack
AllowedInv == KeptStay /\ NotKept /\ NameIsRead /\ TakenIsAllowed
MapInv == down = "no" => EntryIsTrue /\ MappedOnce

USE DEF env

-----------------------------------------------------------------------------
(* The types.                                                              *)

\* What a bus id shows, and what the steps make of it.
LEMMA SlotTypes ==
  ASSUME TypeOK, NEW b \in BusIds
  PROVE  /\ bus[b] \in Slots
         /\ Absent \in Slots /\ Absent.driver = "absent" /\ Absent.name = NoName
         /\ \A n \in Names, d \in {"own", "kept", "usbip"} :
              Device(n, d) \in Slots /\ Device(n, d) # Absent
              /\ Device(n, d).name = n /\ Device(n, d).driver = d
         /\ Device(bus[b].name, "leaving") \in Slots /\ Device(bus[b].name, "leaving") # Absent
         /\ Device(bus[b].name, "leaving").name = bus[b].name
         /\ Device(bus[b].name, "leaving").driver = "leaving"
         /\ \A d \in {"own", "kept", "usbip", "none"} :
              Probed(b, d) \in Slots /\ Probed(b, d) # Absent
              /\ Probed(b, d).name = bus[b].name /\ Probed(b, d).driver = d
<1>1. bus[b] \in Slots
  BY DEF TypeOK
<1>2. Absent \in Slots /\ Absent.driver = "absent" /\ Absent.name = NoName
  BY DEF Absent, Slots
<1>3. ASSUME NEW n \in Names, NEW d \in {"own", "kept", "usbip"}
      PROVE  Device(n, d) \in Slots /\ Device(n, d).name = n /\ Device(n, d).driver = d
  BY DEF Device, Slots
<1>4. /\ Device(bus[b].name, "leaving") \in Slots
      /\ Device(bus[b].name, "leaving").name = bus[b].name
      /\ Device(bus[b].name, "leaving").driver = "leaving"
  BY <1>1 DEF Device, Slots
<1>5. ASSUME NEW d \in {"own", "kept", "usbip", "none"}
      PROVE  Probed(b, d) \in Slots /\ Probed(b, d).name = bus[b].name /\ Probed(b, d).driver = d
  BY <1>1 DEF Probed, Slots
<1>6. \A s : s.driver # "absent" => s # Absent
  BY <1>2
<1> QED
  BY <1>1, <1>2, <1>3, <1>4, <1>5, <1>6

\* The drivers that may be given a device when they are asked.
LEMMA DriverTypes ==
  ASSUME NEW n, NEW b, NEW m
  PROVE  /\ Drivers(n, b, m) \subseteq {"own", "kept", "usbip"}
         /\ ~ UsbipFirst => Drivers(n, b, m) \subseteq {"own", "kept"}
         /\ n \in Kept => Drivers(n, b, m) = {"kept"}
         /\ n \notin Kept => "kept" \notin Drivers(n, b, m)
  BY DEF Drivers

\* A step that changes what one bus id shows.
LEMMA OneSlot ==
  ASSUME TypeOK, Named, NEW b \in BusIds, NEW s \in Slots,
         s = Absent \/ (s.name \in Names /\ s.driver # "absent"),
         bus' = [bus EXCEPT ![b] = s]
  PROVE  /\ bus' \in [BusIds -> Slots] /\ Named'
         /\ bus'[b] = s /\ \A c \in BusIds \ {b} : bus'[c] = bus[c]
<1>1. bus' \in [BusIds -> Slots]
  BY DEF TypeOK
<1>2. bus'[b] = s /\ \A c \in BusIds \ {b} : bus'[c] = bus[c]
  BY DEF TypeOK
<1> QED
  BY <1>1, <1>2 DEF Named, Present

\* What a step leaves alone keeps its type.
LEMMA TypeFrame ==
  ASSUME TypeOK,
         bus' \in [BusIds -> Slots],
         UNCHANGED matched \/ matched' \subseteq BusIds,
         UNCHANGED todo \/ todo' \subseteq BusIds,
         UNCHANGED failed \/ failed' \subseteq BusIds,
         UNCHANGED missed \/ missed' \subseteq BusIds,
         UNCHANGED uevents \/ uevents' \in Seq(BusIds),
         UNCHANGED maplist \/ maplist' \in Seq(Entries),
         UNCHANGED edev_list \/ edev_list' \in [BusIds -> {"absent", "available", "used"}],
         UNCHANGED hotplug \/ hotplug' \in BOOLEAN,
         UNCHANGED at \/ at' \in [pc : Places, b : BusIds, name : Names \cup {NoName}, i : Nat],
         UNCHANGED down \/ down' \in {"no", "exit", "crash"},
         UNCHANGED plugs \/ plugs' \in 0 .. MaxPlugs
  PROVE  TypeOK'
  BY DEF TypeOK

\* Each step of the bus keeps the types.
LEMMA BusType ==
  ASSUME TypeInv, NEW b \in BusIds, Plug(b) \/ Leave(b) \/ Unplug(b) \/ ServerCloses(b)
  PROVE  TypeInv'
<1> USE DEF TypeInv
<1>u. uevents \in Seq(BusIds) /\ failed \subseteq BusIds /\ plugs \in 0 .. MaxPlugs /\ MaxPlugs \in Nat
      /\ Hub[b] \in BusIds /\ missed \subseteq BusIds
  BY ExportAssumption DEF TypeOK
<1>m. \A seen : Missed(b, seen) => missed' \subseteq BusIds
  BY <1>u DEF Missed
<1>p. UNCHANGED <<at, hotplug>> => Phase'
  BY DEF Phase
<1>b. bus' = bus => bus' \in [BusIds -> Slots] /\ Named'
  BY DEF TypeOK, Named, Present
<1>1. CASE Plug(b)
  <2>1. PICK n \in Names : \E d \in Drivers(n, b, matched) : bus' = [bus EXCEPT ![b] = Device(n, d)]
    BY <1>1 DEF Plug
  <2>2. PICK d \in {"own", "kept", "usbip"} : bus' = [bus EXCEPT ![b] = Device(n, d)]
    BY <2>1, DriverTypes
  <2>3. bus' \in [BusIds -> Slots] /\ Named'
    BY <2>2, SlotTypes, OneSlot
  <2>4. uevents' \in Seq(BusIds) /\ plugs' \in 0 .. MaxPlugs /\ failed' \subseteq BusIds
    BY <1>1, <1>u DEF Plug
  <2> QED
    BY <1>1, <1>m, <1>p, <2>3, <2>4, TypeFrame DEF Plug
<1>2. CASE Leave(b)
  <2>1. bus' = [bus EXCEPT ![b] = Device(bus[b].name, "leaving")] /\ Present(b)
    BY <1>2 DEF Leave
  <2>2. bus[b].name \in Names
    BY <2>1 DEF Named
  <2>3. bus' \in [BusIds -> Slots] /\ Named'
    BY <2>1, <2>2, SlotTypes, OneSlot
  <2>4. uevents' \in Seq(BusIds)
    BY <1>2, <1>u DEF Leave, InterfaceEvent
  <2> QED
    BY <1>2, <1>m, <1>p, <2>3, <2>4, TypeFrame DEF Leave
<1>3. CASE Unplug(b)
  <2>1. bus' \in [BusIds -> Slots] /\ Named'
    <3>1. bus' = [bus EXCEPT ![b] = Absent] /\ Absent \in Slots
      BY <1>3, SlotTypes DEF Unplug
    <3>2. bus' \in [BusIds -> Slots] /\ bus'[b] = Absent /\ \A c \in BusIds \ {b} : bus'[c] = bus[c]
      BY <3>1 DEF TypeOK
    <3> QED
      BY <3>2 DEF Named, Present
  <2>2. uevents' \in Seq(BusIds)
    BY <1>3, <1>u DEF Unplug, DeviceEvent
  <2> QED
    BY <1>3, <1>m, <1>p, <2>1, <2>2, TypeFrame DEF Unplug
<1>4. CASE ServerCloses(b)
  <2> DEFINE s == [bus[b] EXCEPT !.used = FALSE]
  <2>1. bus' = [bus EXCEPT ![b] = s]
    BY <1>4 DEF ServerCloses
  <2>2. s \in Slots /\ s.name = bus[b].name /\ s.driver = bus[b].driver
    <3>1. bus[b] \in Slots
      BY SlotTypes
    <3> QED
      BY <3>1 DEF Slots
  <2>3. Present(b)
    BY <1>4 DEF ServerCloses, Present, Absent
  <2> HIDE DEF s
  <2>4. bus' \in [BusIds -> Slots] /\ Named'
    BY <2>1, <2>2, <2>3, OneSlot DEF Named
  <2> QED
    BY <1>4, <1>p, <1>u, <2>4, TypeFrame DEF ServerCloses
<1> QED
  BY <1>1, <1>2, <1>3, <1>4

\* The daemon goes on somewhere else with the device it has.
LEMMA GotoType ==
  ASSUME TypeOK, NEW pc \in Places, Goto(pc)
  PROVE  /\ at' \in [pc : Places, b : BusIds, name : Names \cup {NoName}, i : Nat]
         /\ at'.pc = pc /\ at'.b = B /\ at'.name = at.name
  BY DEF TypeOK, Goto, B

\* The daemon is done with the device it has.
LEMMA BackType ==
  ASSUME TypeOK, Back
  PROVE  /\ at' \in [pc : Places, b : BusIds, name : Names \cup {NoName}, i : Nat]
         /\ at'.pc = (IF hotplug THEN "wait" ELSE "next") /\ at'.b = B /\ at'.name = at.name
  BY GotoType DEF Back, Places

\* Each entry of the list but one that is removed stays.
LEMMA Removed ==
  ASSUME NEW S, NEW s \in Seq(S), NEW i \in DOMAIN s
  PROVE  /\ RemoveAt(s, i) \in Seq(S) /\ Len(RemoveAt(s, i)) = Len(s) - 1
         /\ \A k \in 1 .. Len(s) - 1 : RemoveAt(s, i)[k] = IF k < i THEN s[k] ELSE s[k + 1]
<1> DEFINE l == SubSeq(s, 1, i - 1)
           r == SubSeq(s, i + 1, Len(s))
<1>1. i \in 1 .. Len(s) /\ Len(s) \in Nat
  OBVIOUS
<1>2. l \in Seq(S) /\ Len(l) = i - 1 /\ \A k \in 1 .. i - 1 : l[k] = s[k]
  BY <1>1
<1>3. r \in Seq(S) /\ Len(r) = Len(s) - i /\ \A k \in 1 .. Len(s) - i : r[k] = s[k + i]
  BY <1>1
<1>4. RemoveAt(s, i) = l \o r
  BY DEF RemoveAt
<1> HIDE DEF l, r
<1>5. RemoveAt(s, i) \in Seq(S) /\ Len(RemoveAt(s, i)) = Len(s) - 1
  BY <1>1, <1>2, <1>3, <1>4
<1>6. ASSUME NEW k \in 1 .. Len(s) - 1, k < i PROVE RemoveAt(s, i)[k] = s[k]
  BY <1>1, <1>2, <1>3, <1>4, <1>6
<1>7. ASSUME NEW k \in 1 .. Len(s) - 1, ~ (k < i) PROVE RemoveAt(s, i)[k] = s[k + 1]
  <2> DEFINE j == k - (i - 1)
  <2>1. j \in 1 .. Len(s) - i /\ k = i - 1 + j /\ j + i = k + 1
    BY <1>1, <1>7
  <2> HIDE DEF j
  <2>2. r[j] = s[k + 1]
    BY <1>3, <2>1
  <2>3. (l \o r)[Len(l) + j] = r[j]
    <3>1. Len(l) \in Nat /\ Len(r) \in Nat /\ j \in 1 .. Len(r)
      BY <1>1, <1>2, <1>3, <2>1
    <3>2. l \in Seq(S) /\ r \in Seq(S)
      BY <1>2, <1>3
    <3> QED
      BY <3>1, <3>2
  <2> QED
    BY <1>2, <1>4, <2>1, <2>2, <2>3
<1> QED
  BY <1>5, <1>6, <1>7

\* What Refresh adds to the list, or not.
LEMMA RefreshType ==
  ASSUME TypeInv, Refresh
  PROVE  /\ bus' = bus /\ hotplug' = hotplug
         /\ edev_list' \in [BusIds -> {"absent", "available", "used"}]
         /\ at' \in [pc : Places, b : BusIds, name : Names \cup {NoName}, i : Nat]
         /\ maplist' = maplist \/ maplist' = Append(maplist, Entry(B, at.name))
         /\ maplist' \in Seq(Entries)
         /\ at'.pc \in (IF hotplug THEN {"wait", "connect", "skip"} ELSE {"next"})
         /\ at'.b = B /\ (at'.pc = "connect" => at'.i # 0)
<1> USE DEF TypeInv
<1>1. edev_list' = [b \in BusIds |-> StatusOf(b)] /\ bus' = bus /\ hotplug' = hotplug
  BY DEF Refresh
<1>2. \A b \in BusIds : StatusOf(b) \in {"absent", "available", "used"}
  BY DEF StatusOf
<1>3. Entry(B, at.name) \in Entries
  BY DEF Entry, Entries, TypeOK, B
<1>4. CASE StatusOf(B) = "absent"
  BY <1>1, <1>2, <1>4, BackType DEF Refresh, TypeOK
<1>5. CASE StatusOf(B) # "absent"
  <2>1. /\ maplist' = Append(maplist, Entry(B, at.name))
        /\ at' = [at EXCEPT
             !.i = Len(maplist) + 1,
             !.pc = IF ~ hotplug THEN "next"
                    ELSE IF StatusOf(B) = "available" THEN "connect" ELSE "skip"]
    BY <1>5 DEF Refresh
  <2>2. maplist' \in Seq(Entries) /\ Len(maplist) + 1 \in Nat
    BY <1>3, <2>1 DEF TypeOK
  <2>3. /\ at' \in [pc : Places, b : BusIds, name : Names \cup {NoName}, i : Nat]
        /\ at'.pc \in (IF hotplug THEN {"wait", "connect", "skip"} ELSE {"next"})
        /\ at'.b = B /\ at'.i # 0
    <3>1. at \in [pc : Places, b : BusIds, name : Names \cup {NoName}, i : Nat]
          /\ Len(maplist) + 1 # 0 /\ {"next", "connect", "skip"} \subseteq Places
      BY <2>2 DEF TypeOK, Places
    <3>2. PICK pc \in {"next", "connect", "skip"} :
            /\ at' = [at EXCEPT !.i = Len(maplist) + 1, !.pc = pc]
            /\ pc \in (IF hotplug THEN {"wait", "connect", "skip"} ELSE {"next"})
      BY <2>1 DEF TypeOK
    <3> QED
      BY <2>2, <3>1, <3>2 DEF B
  <2> QED
    BY <1>1, <1>2, <2>1, <2>2, <2>3
<1> QED
  BY <1>4, <1>5

\* An entry that is marked stays the entry it was.
LEMMA MarkType ==
  ASSUME TypeOK, maplist' = [maplist EXCEPT ![at.i].besend = TRUE]
  PROVE  /\ maplist' \in Seq(Entries) /\ DOMAIN maplist' = DOMAIN maplist /\ Mapped' = Mapped
         /\ \A i \in DOMAIN maplist :
              maplist'[i].bus = maplist[i].bus /\ maplist'[i].name = maplist[i].name
<1>1. \A e \in Entries : [e EXCEPT !.besend = TRUE] \in Entries
                         /\ [e EXCEPT !.besend = TRUE].bus = e.bus
                         /\ [e EXCEPT !.besend = TRUE].name = e.name
  BY DEF Entries
<1>2. maplist \in Seq(Entries)
  BY DEF TypeOK
<1>3. \A i \in DOMAIN maplist : maplist[i] \in Entries
  BY <1>2
<1>4. /\ DOMAIN maplist' = DOMAIN maplist
      /\ \A i \in DOMAIN maplist :
           maplist'[i] = IF i = at.i THEN [maplist[i] EXCEPT !.besend = TRUE] ELSE maplist[i]
  OBVIOUS
<1>5. \A i \in DOMAIN maplist :
        /\ maplist'[i] \in Entries
        /\ maplist'[i].bus = maplist[i].bus /\ maplist'[i].name = maplist[i].name
  BY <1>1, <1>3, <1>4
<1>6. maplist' \in Seq(Entries)
  <2>1. CASE at.i \in DOMAIN maplist
    <3> DEFINE e == [maplist[at.i] EXCEPT !.besend = TRUE]
    <3>1. e \in Entries /\ maplist' = [maplist EXCEPT ![at.i] = e]
      BY <1>1, <1>3, <2>1
    <3> HIDE DEF e
    <3> QED
      BY <1>2, <2>1, <3>1
  <2>2. CASE at.i \notin DOMAIN maplist
    <3>1. maplist' = [k \in DOMAIN maplist |-> maplist[k]]
      BY <2>2
    <3>2. maplist = [k \in DOMAIN maplist |-> maplist[k]]
      BY <1>2
    <3> QED
      BY <1>2, <3>1, <3>2
  <2> QED
    BY <2>1, <2>2
<1>7. Mapped' = Mapped
  BY <1>4, <1>5 DEF Mapped
<1> QED
  BY <1>4, <1>5, <1>6, <1>7

\* Of numbers there is a first.
LEMMA FirstOne ==
  ASSUME NEW T \in SUBSET Nat, T # {}
  PROVE  \E m \in T : \A k \in T : m <= k
<1>1. PICK m \in T : \A k \in T : ~ (<<k, m>> \in OpToRel(<, Nat))
  BY WFMin, NatLessThanWellFounded
<1>2. \A k \in T : ~ (k < m)
  BY <1>1 DEF OpToRel
<1> QED
  BY <1>2

\* The steps that find a device keep the types.
LEMMA FindType ==
  ASSUME TypeInv, Scan \/ NextBusId \/ ScanDone \/ SendNext \/ Listen \/ Receive
  PROVE  TypeInv'
<1> USE DEF TypeInv
<1>s. at \in [pc : Places, b : BusIds, name : Names \cup {NoName}, i : Nat]
      /\ maplist \in Seq(Entries) /\ \A b \in BusIds : bus[b].name \in Names \cup {NoName}
  BY DEF TypeOK, Slots
<1>b. bus' = bus => bus' \in [BusIds -> Slots] /\ Named'
  BY DEF TypeOK, Named, Present
<1>1. CASE Scan
  <2>1. at' \in [pc : Places, b : BusIds, name : Names \cup {NoName}, i : Nat] /\ at'.pc = "next"
    BY <1>1, GotoType DEF Scan, Places
  <2> QED
    BY <1>1, <1>b, <2>1, TypeFrame DEF Scan, Phase, At
<1>2. CASE NextBusId
  <2>1. PICK b \in todo :
          /\ todo' = todo \ {b}
          /\ at' = [at EXCEPT !.b = b, !.name = bus[b].name,
                              !.pc = IF CanLoad(bus[b].name) THEN "load" ELSE "next"]
    BY <1>2 DEF NextBusId
  <2>2. b \in BusIds /\ todo' \subseteq BusIds
    BY <2>1 DEF TypeOK
  <2>3. /\ at' \in [pc : Places, b : BusIds, name : Names \cup {NoName}, i : Nat]
        /\ at'.pc \in {"load", "next"}
    BY <1>s, <2>1, <2>2 DEF Places
  <2> QED
    BY <1>2, <1>b, <2>2, <2>3, TypeFrame DEF NextBusId, Phase, At
<1>3. CASE ScanDone
  <2>1. at' \in [pc : Places, b : BusIds, name : Names \cup {NoName}, i : Nat] /\ at'.pc = "sendall" /\ at'.i = 1
    BY <1>3, <1>s DEF ScanDone, Places
  <2> QED
    BY <1>3, <1>b, <2>1, TypeFrame DEF ScanDone, Phase, At
<1>4. CASE SendNext
  <2>1. maplist[at.i].bus \in BusIds
    <3>1. maplist[at.i] \in Entries
      BY <1>4, <1>s DEF SendNext
    <3> QED
      BY <3>1 DEF Entries
  <2>2. /\ at' \in [pc : Places, b : BusIds, name : Names \cup {NoName}, i : Nat]
        /\ at'.pc \in {"sendall", "connect"} /\ at'.i # 0 /\ down' \in {"no", "crash"}
    <3> DEFINE b == maplist[at.i].bus
    <3>1. CASE edev_list[b] = "absent"
      BY <1>4, <1>s, <3>1 DEF SendNext, At, Phase
    <3>2. CASE edev_list[b] # "absent"
      <4>1. PICK i \in {at.i, at.i + 1}, pc \in {"sendall", "connect"} :
              at' = [at EXCEPT !.b = b, !.i = i, !.pc = pc]
        BY <1>4, <1>s, <3>2 DEF SendNext, At
      <4>2. i \in Nat /\ i # 0 /\ pc \in Places
        BY <1>4, <1>s DEF Places, Phase, SendNext, At
      <4>3. down' = "no"
        BY <1>4, <3>2 DEF SendNext, At
      <4> HIDE DEF b
      <4> QED
        BY <1>s, <2>1, <4>1, <4>2, <4>3 DEF b
    <3> QED
      BY <3>1, <3>2
  <2> QED
    BY <1>4, <1>b, <2>2, TypeFrame DEF SendNext, Phase, At
<1>5. CASE Listen
  <2>1. at' \in [pc : Places, b : BusIds, name : Names \cup {NoName}, i : Nat] /\ at'.pc = "wait"
    BY <1>5, GotoType DEF Listen, Places
  <2> QED
    BY <1>5, <1>b, <2>1, TypeFrame DEF Listen, Phase, At
<1>6. CASE Receive
  <2> DEFINE b == Head(uevents)
             n == bus[b].name
             known == has_the_dev(n, b)
             i == CHOOSE i \in known : \A k \in known : i <= k
  <2>1. uevents # <<>> /\ uevents \in Seq(BusIds) /\ uevents' = Tail(uevents)
    BY <1>6 DEF Receive, TypeOK
  <2>2. b \in BusIds /\ uevents' \in Seq(BusIds) /\ n \in Names \cup {NoName}
    BY <1>s, <2>1
  <2>3. at' = at \/ at' = [at EXCEPT !.b = b, !.name = n, !.pc = "load"]
    BY <1>6 DEF Receive
  <2>4. at' \in [pc : Places, b : BusIds, name : Names \cup {NoName}, i : Nat]
        /\ (at'.pc = at.pc \/ at'.pc = "load")
    BY <1>s, <2>2, <2>3 DEF Places
  <2>5. maplist' \in Seq(Entries)
    <3>1. maplist' = maplist \/ (known # {} /\ maplist' = RemoveAt(maplist, i))
      BY <1>6 DEF Receive
    <3>2. known # {} => i \in DOMAIN maplist
      <4>1. known \subseteq DOMAIN maplist
        BY DEF has_the_dev
      <4>2. DOMAIN maplist = 1 .. Len(maplist) /\ Len(maplist) \in Nat
        BY <1>s
      <4> HIDE DEF known
      <4>3. ASSUME known # {}
            PROVE  \E m \in known : \A k \in known : m <= k
        BY <4>1, <4>2, <4>3, FirstOne, known \in SUBSET Nat
      <4> QED
        BY <4>1, <4>3
    <3> HIDE DEF known, i
    <3> QED
      BY <1>s, <3>1, <3>2, Removed
  <2> QED
    BY <1>6, <1>b, <2>2, <2>4, <2>5, TypeFrame DEF Receive, Phase
<1> QED
  BY <1>1, <1>2, <1>3, <1>4, <1>5, <1>6

\* The steps that take it, and those that tell the server, too.
LEMMA TakeType ==
  ASSUME TypeInv,
         load_inf_file \/ Reprobe \/ Unbind \/ modify_match_busid \/ bind_to_usbip \/ BindFails
         \/ Refresh \/ Skip \/ Connect \/ Tell \/ TellFails \/ Export
  PROVE  TypeInv'
<1> USE DEF TypeInv
<1>s. /\ at \in [pc : Places, b : BusIds, name : Names \cup {NoName}, i : Nat]
      /\ B \in BusIds /\ failed \cup {B} \subseteq BusIds /\ matched \cup {B} \subseteq BusIds
      /\ Present(B) => bus[B].name \in Names
      /\ maplist \in Seq(Entries)
  BY DEF TypeOK, B, Named
<1>b. bus' = bus => bus' \in [BusIds -> Slots] /\ Named'
  BY DEF TypeOK, Named, Present
<1>p. ASSUME NEW d \in {"own", "kept", "usbip", "none"}, Present(B),
             bus' = [bus EXCEPT ![B] = Probed(B, d)]
      PROVE  bus' \in [BusIds -> Slots] /\ Named'
  <2> DEFINE s == Probed(B, d)
  <2>1. s \in Slots /\ s.name \in Names /\ s.driver # "absent"
    BY <1>p, <1>s, SlotTypes
  <2>2. bus' = [bus EXCEPT ![B] = s]
    BY <1>p
  <2> HIDE DEF s
  <2> QED
    BY <1>s, <2>1, <2>2, OneSlot
<1>n. Bound(B) \/ bus[B].driver = "none" => Present(B)
  BY <1>s, SlotTypes DEF Bound, Present
<1>1. CASE load_inf_file
  <2>1. /\ at' \in [pc : Places, b : BusIds, name : Names \cup {NoName}, i : Nat]
        /\ at'.pc \in {"refresh"} \cup (IF hotplug THEN {"wait", "unbind"} ELSE {"next", "reprobe"})
    BY <1>1, GotoType, BackType DEF load_inf_file, Places
  <2> QED
    BY <1>1, <1>b, <2>1, TypeFrame DEF load_inf_file, Phase
<1>2. CASE Reprobe
  <2>1. bus' \in [BusIds -> Slots] /\ Named'
    BY <1>2, <1>b, <1>p, DriverTypes DEF Reprobe
  <2>2. /\ at' \in [pc : Places, b : BusIds, name : Names \cup {NoName}, i : Nat]
        /\ at'.pc \in {"unbind", IF hotplug THEN "wait" ELSE "next"}
    BY <1>2, GotoType, BackType DEF Reprobe, Places
  <2> QED
    BY <1>2, <2>1, <2>2, TypeFrame DEF Reprobe, Phase
<1>3. CASE Unbind
  <2>1. bus' \in [BusIds -> Slots] /\ Named'
    BY <1>3, <1>b, <1>n, <1>p DEF Unbind
  <2>2. /\ at' \in [pc : Places, b : BusIds, name : Names \cup {NoName}, i : Nat]
        /\ at'.pc \in {"match", IF hotplug THEN "wait" ELSE "next"}
    BY <1>3, GotoType, BackType DEF Unbind, Places
  <2> QED
    BY <1>3, <2>1, <2>2, TypeFrame DEF Unbind, Phase
<1>4. CASE modify_match_busid
  <2>1. /\ at' \in [pc : Places, b : BusIds, name : Names \cup {NoName}, i : Nat]
        /\ at'.pc \in {"bind", IF hotplug THEN "wait" ELSE "next"}
    BY <1>4, GotoType, BackType DEF modify_match_busid, Places
  <2> QED
    BY <1>4, <1>b, <1>s, <2>1, TypeFrame DEF modify_match_busid, Phase
<1>5. CASE bind_to_usbip
  <2>1. bus' \in [BusIds -> Slots] /\ Named'
    BY <1>5, <1>n, <1>p DEF bind_to_usbip
  <2>2. /\ at' \in [pc : Places, b : BusIds, name : Names \cup {NoName}, i : Nat]
        /\ at'.pc = "refresh"
    BY <1>5, GotoType DEF bind_to_usbip, Places
  <2> QED
    BY <1>5, <2>1, <2>2, TypeFrame DEF bind_to_usbip, Phase
<1>6. CASE BindFails
  <2>1. bus' \in [BusIds -> Slots] /\ Named'
    BY <1>6, <1>b, <1>n, <1>p, DriverTypes DEF BindFails
  <2>2. /\ at' \in [pc : Places, b : BusIds, name : Names \cup {NoName}, i : Nat]
        /\ at'.pc = IF hotplug THEN "wait" ELSE "next"
    BY <1>6, BackType DEF BindFails
  <2> QED
    BY <1>6, <1>s, <2>1, <2>2, TypeFrame DEF BindFails, Phase
<1>7. CASE Refresh
  <2>1. TypeOK'
    BY <1>7, <1>b, RefreshType, TypeFrame DEF Refresh
  <2> QED
    BY <1>7, <1>b, <2>1, RefreshType DEF Phase
<1>8. CASE Skip
  <2>1. maplist' \in Seq(Entries)
    BY <1>8, MarkType DEF Skip
  <2>2. at' \in [pc : Places, b : BusIds, name : Names \cup {NoName}, i : Nat] /\ at'.pc = "wait"
    BY <1>8, GotoType DEF Skip, Places
  <2> QED
    BY <1>8, <1>b, <1>s, <2>1, <2>2, TypeFrame DEF Skip, Phase, At
<1>9. CASE Connect \/ Tell
  <2>1. at' \in [pc : Places, b : BusIds, name : Names \cup {NoName}, i : Nat]
         /\ at'.pc \in {"ready", "export"} /\ at'.i = at.i
    BY <1>9, GotoType DEF Connect, Tell, Places, Goto, TypeOK
  <2> QED
    BY <1>9, <1>b, <2>1, TypeFrame DEF Connect, Tell, Phase, At
<1>10. CASE TellFails
  <2>1. failed' \subseteq BusIds
    <3>1. \A i \in at.i .. Len(maplist) : maplist[i].bus \in BusIds
      <4>1. at.i \in Nat /\ Len(maplist) \in Nat /\ 0 \notin DOMAIN maplist
        BY <1>s
      <4>2. \A i \in at.i .. Len(maplist) : i # 0 => maplist[i] \in Entries
        BY <1>s, <4>1
      <4> QED
        BY <1>10, <4>1, <4>2 DEF Entries, Phase, TellFails, At
    <3> QED
      BY <1>10, <3>1 DEF TellFails, TypeOK
  <2>2. CASE hotplug
    <3>1. maplist' \in Seq(Entries)
      BY <1>10, <2>2, MarkType DEF TellFails
    <3>2. at' \in [pc : Places, b : BusIds, name : Names \cup {NoName}, i : Nat] /\ at'.pc = "wait"
      BY <1>10, <2>2, GotoType DEF TellFails, Places
    <3> QED
      BY <1>10, <1>b, <2>1, <2>2, <3>1, <3>2, TypeFrame DEF TellFails, Phase
  <2>3. CASE ~ hotplug
    <3>1. at' \in [pc : Places, b : BusIds, name : Names \cup {NoName}, i : Nat]
          /\ at'.pc = "sendall" /\ at'.i # 0
      <4>1. Len(maplist) + 1 \in Nat /\ Len(maplist) + 1 # 0 /\ "sendall" \in Places
        BY <1>s DEF Places
      <4> QED
        BY <1>10, <1>s, <2>3, <4>1 DEF TellFails
    <3> QED
      BY <1>10, <1>b, <2>1, <2>3, <3>1, TypeFrame DEF TellFails, Phase
  <2> QED
    BY <2>2, <2>3
<1>11. CASE Export
  <2>1. bus' \in [BusIds -> Slots] /\ Named'
    <3> DEFINE s == [bus[B] EXCEPT !.used = TRUE]
    <3>1. bus' = bus \/ (bus' = [bus EXCEPT ![B] = s] /\ bus[B].driver = "usbip")
      BY <1>11 DEF Export
    <3>2. s \in Slots /\ s.name = bus[B].name /\ s.driver = bus[B].driver
      <4>1. bus[B] \in Slots
        BY <1>s, SlotTypes
      <4> QED
        BY <4>1 DEF Slots
    <3>3. bus[B].driver = "usbip" => Present(B)
      BY <1>s, SlotTypes DEF Present
    <3> HIDE DEF s
    <3> QED
      BY <1>b, <1>s, <3>1, <3>2, <3>3, OneSlot DEF Named
  <2>2. maplist' \in Seq(Entries)
    BY <1>11, MarkType DEF Export
  <2>3. /\ at' \in [pc : Places, b : BusIds, name : Names \cup {NoName}, i : Nat]
        /\ at'.pc = (IF hotplug THEN "wait" ELSE "sendall") /\ at'.i # 0
    <3>1. at.i + 1 \in Nat /\ at.i + 1 # 0 /\ {"wait", "sendall"} \subseteq Places
      BY <1>s DEF Places
    <3>2. PICK pc \in {"wait", "sendall"} : at' = [at EXCEPT !.i = at.i + 1, !.pc = pc]
                                           /\ pc = IF hotplug THEN "wait" ELSE "sendall"
      BY <1>11 DEF Export
    <3> QED
      BY <1>s, <3>1, <3>2
  <2> QED
    BY <1>11, <2>1, <2>2, <2>3, TypeFrame DEF Export, Phase
<1> QED
  BY <1>1, <1>2, <1>3, <1>4, <1>5, <1>6, <1>7, <1>8, <1>9, <1>10, <1>11

\* The end.
LEMMA ExitType ==
  ASSUME TypeInv, disconnect_signal_process
  PROVE  TypeInv'
<1>1. PICK driver \in [Mapped -> {"own", "usbip", "kept"}] :
        bus' = [b \in BusIds |-> IF b \in Mapped /\ Present(b) /\ bus[b].driver # "leaving"
                                   THEN Probed(b, driver[b]) ELSE bus[b]]
  BY DEF disconnect_signal_process
<1>2. ASSUME NEW b \in BusIds
      PROVE  /\ bus'[b] \in Slots
             /\ Present(b)' => bus'[b].name \in Names /\ bus'[b].driver # "absent"
  <2>1. CASE b \in Mapped /\ Present(b) /\ bus[b].driver # "leaving"
    <3>1. PICK d \in {"own", "usbip", "kept"} : bus'[b] = Probed(b, d)
      BY <1>1, <2>1
    <3> QED
      BY <2>1, <3>1, SlotTypes DEF TypeInv, Named
  <2>2. CASE ~ (b \in Mapped /\ Present(b) /\ bus[b].driver # "leaving")
    <3>1. bus'[b] = bus[b]
      BY <1>1, <2>2
    <3> QED
      BY <3>1, SlotTypes DEF TypeInv, Named, Present
  <2> QED
    BY <2>1, <2>2
<1>3. bus' \in [BusIds -> Slots] /\ Named'
  BY <1>1, <1>2 DEF Named
<1>4. UNCHANGED <<matched, uevents, maplist, edev_list, hotplug, at, todo, plugs, failed, missed>>
      /\ down' = "exit"
  BY DEF disconnect_signal_process
<1>5. TypeOK'
  BY <1>3, <1>4, TypeFrame DEF TypeInv
<1> QED
  BY <1>3, <1>4, <1>5 DEF TypeInv, Phase

\* What is there when the daemon starts.
LEMMA InitType == Init => TypeInv
<1> SUFFICES ASSUME Init PROVE TypeInv
  OBVIOUS
<1>1. PICK on \in SUBSET BusIds, name \in [BusIds -> Names] :
        bus = [b \in BusIds |-> IF b \in on
                 THEN Device(name[b], IF name[b] \in Kept THEN "kept" ELSE "own")
                 ELSE Absent]
  BY DEF Init
<1>2. ASSUME NEW b \in BusIds
      PROVE  bus[b] \in Slots /\ (bus[b] # Absent => bus[b].name \in Names /\ bus[b].driver # "absent")
  <2>1. bus[b] = Absent \/ \E n \in Names, d \in {"own", "kept"} : bus[b] = Device(n, d)
    BY <1>1
  <2>2. Absent \in Slots
    BY DEF Absent, Slots
  <2>3. \A n \in Names, d \in {"own", "kept"} :
          Device(n, d) \in Slots /\ Device(n, d).name = n /\ Device(n, d).driver = d
    BY DEF Device, Slots
  <2> HIDE DEF Device, Absent
  <2> QED
    BY <2>1, <2>2, <2>3
<1>3. bus \in [BusIds -> Slots] /\ Named
  BY <1>1, <1>2 DEF Named, Present
<1>4. (CHOOSE b \in BusIds : TRUE) \in BusIds
  BY ExportAssumption
<1>5. at \in [pc : Places, b : BusIds, name : Names \cup {NoName}, i : Nat] /\ at.pc = "scan"
  BY <1>4 DEF Init, Places
<1>6. TypeOK
  <2>1. /\ matched \subseteq BusIds /\ todo \subseteq BusIds /\ failed \subseteq BusIds
        /\ missed \subseteq BusIds /\ uevents \in Seq(BusIds) /\ maplist \in Seq(Entries)
    BY DEF Init
  <2>2. edev_list \in [BusIds -> {"absent", "available", "used"}] /\ hotplug \in BOOLEAN
        /\ down = "no" /\ plugs \in 0 .. MaxPlugs
    <3>1. edev_list = [b \in BusIds |-> "absent"] /\ hotplug = FALSE /\ down = "no" /\ plugs = 0
      BY DEF Init
    <3>2. 0 \in 0 .. MaxPlugs
      BY ExportAssumption
    <3>3. edev_list \in [BusIds -> {"absent", "available", "used"}]
      BY <3>1, Zenon
    <3> QED
      BY <3>1, <3>2, <3>3
  <2> QED
    BY <1>3, <1>5, <2>1, <2>2 DEF TypeOK
<1> QED
  BY <1>3, <1>5, <1>6 DEF TypeInv, Phase, Init

\* Every step keeps the types.
LEMMA NextType == TypeInv /\ [Next]_vars => TypeInv'
<1> SUFFICES ASSUME TypeInv, [Next]_vars PROVE TypeInv'
  OBVIOUS
<1>1. CASE UNCHANGED vars
  BY <1>1 DEF vars, TypeInv, TypeOK, Named, Phase, Present
<1>2. CASE Next
  <2>1. CASE Bus
    BY <2>1, BusType DEF Bus
  <2>2. CASE Daemon
    BY <2>2, FindType, TakeType DEF Daemon
  <2> QED
    BY <1>2, <2>1, <2>2, ExitType DEF Next
<1> QED
  BY <1>1, <1>2

\* In every behaviour the variables have their types: what sysfs shows, the
\* daemon's list and the place it is at.
THEOREM TypeCorrect == Spec => []TypeOK
<1>1. TypeInv => TypeOK
  BY DEF TypeInv
<1> QED
  BY <1>1, InitType, NextType, PTL DEF Spec

-----------------------------------------------------------------------------
(* What the steps do to the bus and to the place of the daemon.            *)

\* A step for the device B: no other is touched, and B stays what it is but
\* for its driver.
Works ==
  /\ at'.b = B /\ at'.name = at.name
  /\ UNCHANGED <<uevents, missed, hotplug, todo, down>>
  /\ \A c \in BusIds \ {B} : bus'[c] = bus[c]
  /\ bus'[B].name = bus[B].name
  /\ (bus'[B] # Absent <=> Present(B))
  /\ (bus'[B].driver = "leaving" <=> bus[B].driver = "leaving")

\* When drivers are asked for B it gets the one they say.
LEMMA Asked ==
  ASSUME TypeInv, Present(B), bus[B].driver # "leaving",
         NEW d \in {"own", "kept", "usbip", "none"}, bus' = [bus EXCEPT ![B] = Probed(B, d)]
  PROVE  /\ B \in BusIds /\ bus'[B].driver = d /\ bus'[B].name = bus[B].name
         /\ bus'[B] # Absent /\ \A c \in BusIds \ {B} : bus'[c] = bus[c]
<1>1. B \in BusIds
  BY DEF TypeInv, TypeOK, B
<1>2. bus'[B] = Probed(B, d) /\ \A c \in BusIds \ {B} : bus'[c] = bus[c]
  BY <1>1 DEF TypeInv, TypeOK
<1>3. Probed(B, d).driver = d /\ Probed(B, d).name = bus[B].name /\ Probed(B, d) # Absent
  BY <1>1, SlotTypes DEF TypeInv
<1> QED
  BY <1>1, <1>2, <1>3

\* What is there has a driver, what is absent has none.
LEMMA Shown ==
  ASSUME TypeInv, NEW b \in BusIds
  PROVE  /\ bus[b] \in Slots
         /\ (Present(b) <=> bus[b].driver # "absent")
         /\ (Present(b) <=> bus[b].name # NoName)
         /\ (Present(b) => bus[b].name \in Names)
  BY SlotTypes, ExportAssumption DEF TypeInv, Named, Present

\* Each step of the taking of B.
LEMMA LoadStep ==
  ASSUME TypeInv, load_inf_file
  PROVE  /\ Works /\ UNCHANGED <<bus, matched, maplist, edev_list>> /\ at.pc = "load"
         /\ \/ at'.pc = "refresh"
            \/ at'.pc = "unbind" /\ hotplug /\ bus[B].driver \in {"own", "none", "leaving"}
            \/ at'.pc = "reprobe" /\ bus[B].driver \in {"own", "none", "leaving"}
            \/ at'.pc = IF hotplug THEN "wait" ELSE "next"
<1>1. bus[B].driver \in {"absent", "own", "kept", "none", "usbip", "leaving"}
  BY DEF TypeInv, TypeOK, Slots, B
<1>2. UNCHANGED <<bus, matched, maplist, edev_list, uevents, missed, hotplug, todo, down>> /\ at.pc = "load"
  BY DEF load_inf_file, At
<1>3. Goto("refresh") \/ Back
      \/ (Goto(IF hotplug THEN "unbind" ELSE "reprobe") /\ bus[B].driver \in {"own", "none", "leaving"})
  BY <1>1 DEF load_inf_file
<1>4. /\ at'.b = B /\ at'.name = at.name
      /\ \/ at'.pc = "refresh"
         \/ at'.pc = "unbind" /\ hotplug /\ bus[B].driver \in {"own", "none", "leaving"}
         \/ at'.pc = "reprobe" /\ bus[B].driver \in {"own", "none", "leaving"}
         \/ at'.pc = IF hotplug THEN "wait" ELSE "next"
  BY <1>3, GotoType, BackType DEF TypeInv, Places
<1> QED
  BY <1>2, <1>4 DEF Works, Present

\* The drivers are asked again, if the device is still there.
LEMMA ReprobeStep ==
  ASSUME TypeInv, Reprobe
  PROVE  /\ Works /\ UNCHANGED <<matched, maplist, edev_list>> /\ at.pc = "reprobe"
         /\ \/ /\ bus' = bus /\ at'.pc = IF hotplug THEN "wait" ELSE "next"
               /\ bus[B].driver \in {"absent", "leaving"}
            \/ /\ at'.pc = "unbind" /\ bus'[B].driver \in Drivers(bus[B].name, B, matched)
               /\ bus[B].driver \notin {"absent", "leaving"}
<1>1. UNCHANGED <<matched, maplist, edev_list, uevents, missed, hotplug, todo, down>> /\ at.pc = "reprobe"
      /\ B \in BusIds
  BY DEF Reprobe, At, TypeInv, TypeOK, B
<1>2. CASE Present(B) /\ bus[B].driver # "leaving"
  <2>1. PICK d \in Drivers(bus[B].name, B, matched) : bus' = [bus EXCEPT ![B] = Probed(B, d)]
    BY <1>2 DEF Reprobe
  <2>2. d \in {"own", "kept", "usbip"}
    BY DriverTypes
  <2>3. bus'[B].driver = d /\ bus'[B].name = bus[B].name
        /\ bus'[B] # Absent /\ \A c \in BusIds \ {B} : bus'[c] = bus[c]
    BY <1>2, <2>1, <2>2, Asked
  <2>4. at'.pc = "unbind" /\ at'.b = B /\ at'.name = at.name
    BY <1>2, GotoType DEF Reprobe, TypeInv, Places
  <2> QED
    BY <1>1, <1>2, <2>2, <2>3, <2>4, Shown DEF Works
<1>3. CASE ~ (Present(B) /\ bus[B].driver # "leaving")
  <2>1. bus' = bus /\ Back
    BY <1>3 DEF Reprobe
  <2> QED
    BY <1>1, <1>3, <2>1, BackType, Shown DEF Works, TypeInv, Present
<1> QED
  BY <1>2, <1>3

\* Afterwards no driver has the device.
LEMMA UnbindStep ==
  ASSUME TypeInv, Unbind
  PROVE  /\ Works /\ UNCHANGED <<matched, maplist, edev_list>> /\ at.pc = "unbind"
         /\ bus'[B].driver \in {"absent", "leaving", "none"}
         /\ \/ at'.pc = "match" /\ Present(B)
            \/ at'.pc = (IF hotplug THEN "wait" ELSE "next") /\ ~ Present(B)
<1>1. UNCHANGED <<matched, maplist, edev_list, uevents, missed, hotplug, todo, down>> /\ at.pc = "unbind"
      /\ B \in BusIds
  BY DEF Unbind, At, TypeInv, TypeOK, B
<1>2. /\ at'.b = B /\ at'.name = at.name
      /\ \/ at'.pc = "match" /\ Present(B)
         \/ at'.pc = (IF hotplug THEN "wait" ELSE "next") /\ ~ Present(B)
  BY GotoType, BackType DEF Unbind, TypeInv, Places
<1>3. CASE Bound(B)
  <2>1. bus' = [bus EXCEPT ![B] = Probed(B, "none")]
    BY <1>3 DEF Unbind
  <2>2. Present(B) /\ bus[B].driver # "leaving"
    BY <1>1, <1>3, Shown DEF Bound
  <2>3. bus'[B].driver = "none" /\ bus'[B].name = bus[B].name
        /\ bus'[B] # Absent /\ \A c \in BusIds \ {B} : bus'[c] = bus[c]
    BY <2>1, <2>2, Asked
  <2> QED
    BY <1>1, <1>2, <2>2, <2>3 DEF Works
<1>4. CASE ~ Bound(B)
  <2>1. bus' = bus
    BY <1>4 DEF Unbind
  <2> QED
    BY <1>1, <1>2, <1>4, <2>1 DEF Works, Bound, Present
<1> QED
  BY <1>3, <1>4

\* The bus id goes into match_busid, if there is room.
LEMMA MatchStep ==
  ASSUME TypeInv, modify_match_busid
  PROVE  /\ Works /\ UNCHANGED <<bus, maplist, edev_list>> /\ at.pc = "match"
         /\ \/ at'.pc = "bind"
            \/ /\ at'.pc = IF hotplug THEN "wait" ELSE "next"
               /\ ~ (B \in matched \/ Cardinality(matched) < MaxMatch)
<1>1. UNCHANGED <<bus, maplist, edev_list, uevents, missed, hotplug, todo, down>> /\ at.pc = "match"
  BY DEF modify_match_busid, At
<1>2. /\ at'.b = B /\ at'.name = at.name
      /\ \/ at'.pc = "bind"
         \/ /\ at'.pc = IF hotplug THEN "wait" ELSE "next"
            /\ ~ (B \in matched \/ Cardinality(matched) < MaxMatch)
  BY GotoType, BackType DEF modify_match_busid, TypeInv, Places
<1> QED
  BY <1>1, <1>2 DEF Works, Present

\* usbip gets the device.
LEMMA BindStep ==
  ASSUME TypeInv, bind_to_usbip
  PROVE  /\ Works /\ UNCHANGED <<matched, maplist, edev_list>> /\ at.pc = "bind"
         /\ bus[B].driver = "none" /\ bus'[B].driver = "usbip" /\ at'.pc = "refresh"
<1>1. UNCHANGED <<matched, maplist, edev_list, uevents, missed, hotplug, todo, down>> /\ at.pc = "bind"
      /\ B \in BusIds /\ bus[B].driver = "none" /\ Goto("refresh")
      /\ bus' = [bus EXCEPT ![B] = Probed(B, "usbip")]
  BY DEF bind_to_usbip, At, TypeInv, TypeOK, B
<1>2. Present(B)
  BY <1>1, Shown
<1>3. bus'[B].driver = "usbip" /\ bus'[B].name = bus[B].name
      /\ bus'[B] # Absent /\ \A c \in BusIds \ {B} : bus'[c] = bus[c]
  BY <1>1, <1>2, Asked
<1> QED
  BY <1>1, <1>2, <1>3, GotoType DEF Works, TypeInv, Places

\* Or another driver gets it back.
LEMMA BindFailsStep ==
  ASSUME TypeInv, BindFails
  PROVE  /\ Works /\ UNCHANGED <<matched, maplist, edev_list>> /\ at.pc = "bind"
         /\ at'.pc = IF hotplug THEN "wait" ELSE "next"
         /\ \/ bus'[B].driver \in Drivers(bus[B].name, B, matched)
               /\ bus[B].driver \notin {"absent", "leaving"}
            \/ bus' = bus /\ bus[B].driver \in {"absent", "leaving"}
<1>1. UNCHANGED <<matched, maplist, edev_list, uevents, missed, hotplug, todo, down>> /\ at.pc = "bind"
      /\ B \in BusIds /\ Back
  BY DEF BindFails, At, TypeInv, TypeOK, B
<1>2. at'.b = B /\ at'.name = at.name /\ at'.pc = IF hotplug THEN "wait" ELSE "next"
  BY <1>1, BackType DEF TypeInv
<1>3. CASE Bound(B) \/ bus[B].driver = "none"
  <2>1. PICK d \in Drivers(bus[B].name, B, matched) : bus' = [bus EXCEPT ![B] = Probed(B, d)]
    BY <1>3 DEF BindFails
  <2>2. d \in {"own", "kept", "usbip"} /\ Present(B) /\ bus[B].driver # "leaving"
    BY <1>1, <1>3, DriverTypes, Shown DEF Bound
  <2>3. bus'[B].driver = d /\ bus'[B].name = bus[B].name
        /\ bus'[B] # Absent /\ \A c \in BusIds \ {B} : bus'[c] = bus[c]
    BY <2>1, <2>2, Asked
  <2> QED
    BY <1>1, <1>2, <2>2, <2>3, Shown DEF Works
<1>4. CASE ~ (Bound(B) \/ bus[B].driver = "none")
  <2>1. bus' = bus /\ bus[B].driver \in {"absent", "leaving"}
    BY <1>4 DEF BindFails, Bound
  <2> QED
    BY <1>1, <1>2, <2>1 DEF Works, Present
<1> QED
  BY <1>3, <1>4

\* The statuses are read anew, and a device that usbip has gets its entry.
LEMMA RefreshStep ==
  ASSUME TypeInv, Refresh
  PROVE  /\ Works /\ UNCHANGED <<bus, matched>> /\ at.pc = "refresh"
         /\ at'.pc \in (IF hotplug THEN {"wait", "connect", "skip"} ELSE {"next"})
         /\ \A b \in BusIds : edev_list'[b] # "absent" <=> bus[b].driver = "usbip"
         /\ \/ maplist' = maplist /\ bus[B].driver # "usbip"
            \/ /\ maplist' = Append(maplist, Entry(B, at.name)) /\ bus[B].driver = "usbip"
               /\ Mapped' = Mapped \cup {B}
<1>1. UNCHANGED <<bus, matched, uevents, missed, hotplug, todo, down>> /\ at.pc = "refresh"
      /\ edev_list' = [b \in BusIds |-> StatusOf(b)] /\ at'.name = at.name
  BY BackType DEF Refresh, At, TypeInv, TypeOK
<1>2. \A b \in BusIds : edev_list'[b] # "absent" <=> bus[b].driver = "usbip"
  BY <1>1 DEF StatusOf
<1>3. at'.b = B /\ at'.pc \in (IF hotplug THEN {"wait", "connect", "skip"} ELSE {"next"})
  BY RefreshType
<1>4. \/ maplist' = maplist /\ bus[B].driver # "usbip"
      \/ maplist' = Append(maplist, Entry(B, at.name)) /\ bus[B].driver = "usbip"
  BY DEF Refresh, StatusOf
<1>5. maplist' = Append(maplist, Entry(B, at.name)) => Mapped' = Mapped \cup {B}
  <2> DEFINE e == Entry(B, at.name)
  <2>1. maplist \in Seq(Entries) /\ e \in Entries /\ e.bus = B
    BY DEF TypeInv, TypeOK, Entry, Entries, B
  <2> HIDE DEF e
  <2>2. ASSUME maplist' = Append(maplist, e)
        PROVE  /\ DOMAIN maplist' = DOMAIN maplist \cup {Len(maplist) + 1}
               /\ \A i \in DOMAIN maplist : maplist'[i] = maplist[i]
               /\ maplist'[Len(maplist) + 1] = e
    BY <2>1, <2>2
  <2>3. maplist' = Append(maplist, e) => Mapped' = Mapped \cup {B}
    BY <2>1, <2>2 DEF Mapped
  <2> QED
    BY <2>3 DEF e
<1> QED
  BY <1>1, <1>2, <1>3, <1>4, <1>5 DEF Works, Present

\* Each step that tells the server.
LEMMA ToldStep ==
  ASSUME TypeInv, Skip \/ Connect \/ Tell \/ TellFails \/ Export
  PROVE  /\ at.pc \in {"skip", "connect", "ready", "export"} /\ at'.pc \in {"wait", "ready", "export", "sendall"}
         /\ UNCHANGED <<uevents, missed, hotplug, todo, down, matched, edev_list>>
         /\ DOMAIN maplist' = DOMAIN maplist /\ Mapped' = Mapped
         /\ \A i \in DOMAIN maplist :
              maplist'[i].bus = maplist[i].bus /\ maplist'[i].name = maplist[i].name
         /\ \A b \in BusIds : /\ bus'[b].name = bus[b].name /\ bus'[b].driver = bus[b].driver
                              /\ (bus'[b] # Absent <=> Present(b))
<1>1. at.pc \in {"skip", "connect", "ready", "export"}
      /\ UNCHANGED <<uevents, missed, hotplug, todo, down, matched, edev_list>>
  BY DEF Skip, Connect, Tell, TellFails, Export, At
<1>2. at'.pc \in {"wait", "ready", "export", "sendall"}
  <2>1. \A pc \in Places : Goto(pc) => at'.pc = pc
    BY GotoType DEF TypeInv
  <2>2. at \in [pc : Places, b : BusIds, name : Names \cup {NoName}, i : Nat]
    BY DEF TypeInv, TypeOK
  <2> QED
    BY <2>1, <2>2 DEF Skip, Connect, Tell, TellFails, Export, Places
<1>3. /\ DOMAIN maplist' = DOMAIN maplist /\ Mapped' = Mapped
      /\ \A i \in DOMAIN maplist :
           maplist'[i].bus = maplist[i].bus /\ maplist'[i].name = maplist[i].name
  <2>1. maplist' = maplist \/ maplist' = [maplist EXCEPT ![at.i].besend = TRUE]
    BY DEF Skip, Connect, Tell, TellFails, Export
  <2> QED
    BY <2>1, MarkType DEF TypeInv, Mapped
<1>4. \A b \in BusIds : /\ bus'[b].name = bus[b].name /\ bus'[b].driver = bus[b].driver
                        /\ (bus'[b] # Absent <=> Present(b))
  <2> DEFINE s == [bus[B] EXCEPT !.used = TRUE]
  <2>1. bus' = bus \/ (bus' = [bus EXCEPT ![B] = s] /\ bus[B].driver = "usbip")
    BY DEF Skip, Connect, Tell, TellFails, Export
  <2>2. B \in BusIds /\ bus[B] \in Slots /\ bus \in [BusIds -> Slots]
    BY DEF TypeInv, TypeOK, B
  <2>3. s.name = bus[B].name /\ s.driver = bus[B].driver
    BY <2>2 DEF Slots
  <2>4. bus[B].driver = "usbip" => s # Absent /\ Present(B)
    BY <2>2, <2>3, Shown DEF Absent
  <2> HIDE DEF s
  <2> QED
    BY <2>1, <2>2, <2>3, <2>4 DEF Present
<1> QED
  BY <1>1, <1>2, <1>3, <1>4

\* What is in two sequences, one after the other.
LEMMA Joined ==
  ASSUME NEW S, NEW s \in Seq(S), NEW t \in Seq(S)
  PROVE  ToSet(s \o t) = ToSet(s) \cup ToSet(t)
<1>1. /\ Len(s) \in Nat /\ Len(t) \in Nat /\ DOMAIN s = 1 .. Len(s) /\ DOMAIN t = 1 .. Len(t)
      /\ DOMAIN (s \o t) = 1 .. Len(s) + Len(t)
      /\ \A i \in 1 .. Len(s) : (s \o t)[i] = s[i]
      /\ \A i \in 1 .. Len(t) : (s \o t)[Len(s) + i] = t[i]
  OBVIOUS
<1>2. \A i \in 1 .. Len(s) + Len(t) :
        i \in 1 .. Len(s) \/ (i - Len(s) \in 1 .. Len(t) /\ i = Len(s) + (i - Len(s)))
  BY <1>1
<1>3. \A i \in 1 .. Len(t) : Len(s) + i \in 1 .. Len(s) + Len(t)
  BY <1>1
<1>4. \A i \in 1 .. Len(s) : i \in 1 .. Len(s) + Len(t)
  BY <1>1
<1> DEFINE u == s \o t
<1>5. /\ DOMAIN u = 1 .. Len(s) + Len(t)
      /\ \A i \in 1 .. Len(s) : u[i] = s[i]
      /\ \A i \in 1 .. Len(t) : u[Len(s) + i] = t[i]
  BY <1>1
<1> HIDE DEF u
<1>6. ToSet(u) = ToSet(s) \cup ToSet(t)
  <2>1. ASSUME NEW i \in 1 .. Len(s) + Len(t) PROVE u[i] \in ToSet(s) \cup ToSet(t)
    <3>1. CASE i \in 1 .. Len(s)
      BY <1>1, <1>5, <3>1 DEF ToSet
    <3>2. CASE i \notin 1 .. Len(s)
      <4>1. i - Len(s) \in 1 .. Len(t) /\ i = Len(s) + (i - Len(s))
        BY <1>2, <3>2
      <4> DEFINE k == i - Len(s)
      <4>2. u[i] = t[k] /\ k \in DOMAIN t
        BY <1>1, <1>5, <4>1
      <4> QED
        BY <4>2 DEF ToSet
    <3> QED
      BY <3>1, <3>2
  <2>2. ASSUME NEW i \in 1 .. Len(s) PROVE s[i] \in ToSet(u)
    BY <1>1, <1>4, <1>5 DEF ToSet
  <2>3. ASSUME NEW i \in 1 .. Len(t) PROVE t[i] \in ToSet(u)
    <3> DEFINE k == Len(s) + i
    <3>1. u[k] = t[i] /\ k \in DOMAIN u
      BY <1>1, <1>3, <1>5
    <3> HIDE DEF k
    <3> QED
      BY <3>1 DEF ToSet
  <2>4. ToSet(u) \subseteq ToSet(s) \cup ToSet(t)
    BY <1>5, <2>1 DEF ToSet
  <2>5. ToSet(s) \subseteq ToSet(u) /\ ToSet(t) \subseteq ToSet(u)
    BY <1>1, <2>2, <2>3 DEF ToSet
  <2> QED
    BY <2>4, <2>5
<1> QED
  BY <1>6 DEF u

\* What is left of a sequence when its first is taken.
LEMMA Looked ==
  ASSUME NEW S, NEW s \in Seq(S), s # <<>>, NEW c \in ToSet(s), c # Head(s)
  PROVE  c \in ToSet(Tail(s))
<1>1. PICK i \in DOMAIN s : s[i] = c
  BY DEF ToSet
<1>2. i \in 1 .. Len(s) /\ Len(s) \in Nat /\ i # 1
  BY <1>1
<1> DEFINE k == i - 1
           t == Tail(s)
<1>3. k \in 1 .. Len(s) - 1 /\ i = k + 1
  BY <1>2
<1>4. DOMAIN t = 1 .. Len(s) - 1 /\ \A j \in 1 .. Len(s) - 1 : t[j] = s[j + 1]
  OBVIOUS
<1> HIDE DEF k, t
<1>5. k \in DOMAIN t /\ t[k] = c
  BY <1>1, <1>3, <1>4
<1>6. c \in ToSet(t)
  BY <1>5 DEF ToSet
<1> QED
  BY <1>6 DEF t

\* Each step of the bus.
LEMMA BusStep ==
  ASSUME TypeInv, NEW b \in BusIds, Plug(b) \/ Leave(b) \/ Unplug(b) \/ ServerCloses(b)
  PROVE  /\ UNCHANGED <<at, hotplug, todo, down, matched, edev_list, maplist>> /\ Mapped' = Mapped
         /\ \A c \in BusIds \ {b} : bus'[c] = bus[c]
         /\ ToSet(uevents) \subseteq ToSet(uevents') /\ missed \subseteq missed'
         /\ \/ /\ ~ Present(b) /\ (b \in missed' \/ Seen(b))
               /\ bus'[b].name \in Names /\ bus'[b].driver \in Drivers(bus'[b].name, b, matched)
            \/ /\ Present(b) /\ (b \in missed' \/ hotplug)
               /\ bus'[b].driver = "leaving" /\ bus'[b].name = bus[b].name
            \/ /\ bus[b].driver = "leaving" /\ bus'[b] = Absent
               /\ b \in missed' \/ ~ hotplug \/ b \in ToSet(uevents')
            \/ /\ Present(b) /\ bus'[b] # Absent
               /\ bus'[b].driver = bus[b].driver /\ bus'[b].name = bus[b].name
<1>u. uevents \in Seq(BusIds) /\ Hub[b] \in BusIds /\ bus \in [BusIds -> Slots] /\ bus[b] \in Slots
  BY ExportAssumption DEF TypeInv, TypeOK
<1>a. \A s \in Seq(BusIds) : uevents' = uevents \o s => ToSet(uevents) \subseteq ToSet(uevents')
  BY <1>u, Joined
<1>n. uevents' = uevents => ToSet(uevents) \subseteq ToSet(uevents')
  OBVIOUS
<1>m. \A seen : Missed(b, seen) => missed \subseteq missed' /\ (b \in missed' \/ seen)
  BY DEF Missed
<1>1. CASE Plug(b)
  <2>1. PICK n \in Names : \E d \in Drivers(n, b, matched) : bus' = [bus EXCEPT ![b] = Device(n, d)]
    BY <1>1 DEF Plug
  <2>2. PICK d \in Drivers(n, b, matched) : bus' = [bus EXCEPT ![b] = Device(n, d)]
    BY <2>1
  <2>3. bus'[b] = Device(n, d) /\ \A c \in BusIds \ {b} : bus'[c] = bus[c]
    BY <1>u, <2>2
  <2>4. bus'[b].name = n /\ bus'[b].driver = d
    BY <2>3, SlotTypes, DriverTypes DEF TypeInv
  <2>5. ToSet(uevents) \subseteq ToSet(uevents')
    BY <1>1, <1>u, <1>a, <1>n, <<Hub[b], b>> \in Seq(BusIds) DEF Plug
  <2>6. missed \subseteq missed' /\ (b \in missed' \/ Seen(b))
    BY <1>1, <1>m DEF Plug
  <2> HIDE DEF Seen
  <2> QED
    BY <1>1, <2>3, <2>4, <2>5, <2>6 DEF Plug, Mapped
<1>2. CASE Leave(b)
  <2>1. bus' = [bus EXCEPT ![b] = Device(bus[b].name, "leaving")] /\ Present(b)
    BY <1>2 DEF Leave
  <2>2. bus'[b] = Device(bus[b].name, "leaving") /\ \A c \in BusIds \ {b} : bus'[c] = bus[c]
    BY <1>u, <2>1
  <2>3. bus'[b].name = bus[b].name /\ bus'[b].driver = "leaving"
    BY <2>2, SlotTypes DEF TypeInv
  <2>4. ToSet(uevents) \subseteq ToSet(uevents')
    BY <1>2, <1>u, <1>n DEF Leave, InterfaceEvent, ToSet
  <2> QED
    BY <1>2, <1>m, <2>1, <2>2, <2>3, <2>4 DEF Leave, Mapped
<1>3. CASE Unplug(b)
  <2>1. bus'[b] = Absent /\ \A c \in BusIds \ {b} : bus'[c] = bus[c]
    BY <1>3, <1>u DEF Unplug
  <2>2. /\ ToSet(uevents) \subseteq ToSet(uevents')
        /\ hotplug => Hub[b] \in ToSet(uevents')
    BY <1>3, <1>u, <1>n DEF Unplug, DeviceEvent, ToSet
  <2>3. missed \subseteq missed' /\ (b \in missed' \/ Hub[b] = b)
    BY <1>3, <1>m DEF Unplug
  <2> QED
    BY <1>3, <2>1, <2>2, <2>3 DEF Unplug, Mapped
<1>4. CASE ServerCloses(b)
  <2> DEFINE s == [bus[b] EXCEPT !.used = FALSE]
  <2>1. bus' = [bus EXCEPT ![b] = s] /\ bus[b].used
    BY <1>4 DEF ServerCloses
  <2>2. s.name = bus[b].name /\ s.driver = bus[b].driver
    BY <1>u DEF Slots
  <2>3. bus'[b] = s /\ \A c \in BusIds \ {b} : bus'[c] = bus[c]
    BY <1>u, <2>1
  <2>4. Present(b)
    BY <2>1 DEF Present, Absent
  <2>5. s # Absent
    BY <2>2, <2>4, Shown DEF Absent
  <2>6. UNCHANGED <<at, hotplug, todo, down, matched, edev_list, maplist, uevents, missed>> /\ Mapped' = Mapped
    BY <1>4 DEF ServerCloses, Mapped
  <2> HIDE DEF s
  <2> QED
    BY <1>n, <2>2, <2>3, <2>4, <2>5, <2>6
<1> QED
  BY <1>1, <1>2, <1>3, <1>4

-----------------------------------------------------------------------------
(* A search fails only for what has gone.                                  *)

\* A step that takes nothing off the list keeps what the scan relies on.
LEMMA ScanFrame ==
  ASSUME TypeInv, ScanInv, down = "no",
         hotplug' = hotplug, todo' = todo, maplist' = maplist \/ (at'.pc # "scan" /\ Mapped' = Mapped),
         edev_list' = edev_list, at'.pc = "scan" => at.pc = "scan",
         at'.pc \in Taking => at.pc \in Taking /\ at'.b = B,
         missed \subseteq missed',
         ~ hotplug => \A b \in BusIds :
           /\ bus'[b].driver = "leaving" => bus[b].driver = "leaving" \/ b \in missed'
           /\ b \in Mapped /\ bus'[b].driver = "usbip" => bus[b].driver = "usbip"
  PROVE  ScanInv'
<1>1. Mapped \subseteq BusIds
  <2>1. \A i \in DOMAIN maplist : maplist[i] \in Entries
    BY DEF TypeInv, TypeOK
  <2> QED
    BY <2>1 DEF Mapped, Entries
<1>2. Mapped' = Mapped
  BY DEF Mapped
<1>3. ScanOnce'
  BY <1>2 DEF ScanInv, ScanOnce, B
<1>4. ScanStays'
  BY <1>1, <1>2 DEF ScanInv, ScanStays
<1> QED
  BY <1>3, <1>4 DEF ScanInv

\* Until the daemon listens, its list is in edev_list but for what has gone;
\* each bus id is looked at once.
LEMMA NextScan ==
  ASSUME ~ UsbipFirst, TypeInv, ScanInv, [Next]_vars
  PROVE  ScanInv'
<1>t. TypeInv'
  BY NextType
<1>m. Mapped \subseteq BusIds
  <2>1. \A i \in DOMAIN maplist : maplist[i] \in Entries
    BY DEF TypeInv, TypeOK
  <2> QED
    BY <2>1 DEF Mapped, Entries
<1>b. B \in BusIds
  BY DEF TypeInv, TypeOK, B
<1>d. \A n, b, m : Drivers(n, b, m) \subseteq {"own", "kept"}
  BY DriverTypes
<1>0. CASE UNCHANGED vars
  BY <1>0 DEF vars, ScanInv, ScanOnce, ScanStays, Mapped, B
<1>1. CASE down = "no" /\ Bus
  <2>1. PICK b \in BusIds : Plug(b) \/ Leave(b) \/ Unplug(b) \/ ServerCloses(b)
    BY <1>1 DEF Bus
  <2>2. /\ UNCHANGED <<at, hotplug, todo, down, matched, edev_list, maplist>>
        /\ \A c \in BusIds \ {b} : bus'[c] = bus[c]
        /\ missed \subseteq missed'
        /\ bus'[b].driver = "leaving" => bus[b].driver = "leaving" \/ b \in missed' \/ hotplug
        /\ bus'[b].driver = "usbip" => bus[b].driver = "usbip"
    BY <2>1, <1>d, BusStep DEF Absent
  <2>4. ~ hotplug => \A c \in BusIds :
          /\ bus'[c].driver = "leaving" => bus[c].driver = "leaving" \/ c \in missed'
          /\ bus'[c].driver = "usbip" => bus[c].driver = "usbip"
    BY <2>2
  <2>5. UNCHANGED <<at, hotplug, todo, edev_list, maplist>> /\ at'.b = B
    BY <2>2 DEF B
  <2> QED
    BY <1>1, <2>2, <2>4, <2>5, ScanFrame
<1>2. CASE down = "no" /\ Scan
  <2>1. /\ UNCHANGED <<bus, maplist, edev_list, hotplug, down, missed>>
        /\ todo' \subseteq BusIds /\ at.pc = "scan" /\ at'.pc = "next"
    BY <1>2, GotoType DEF Scan, At, TypeInv, Places
  <2>2. ~ hotplug => Mapped' = {} /\ Mapped = {}
    BY <1>2, <2>1 DEF ScanInv, ScanOnce, Mapped
  <2> QED
    BY <1>2, <2>1, <2>2 DEF ScanInv, ScanOnce, ScanStays, Taking
<1>3. CASE down = "no" /\ NextBusId
  <2>1. PICK b \in todo : /\ todo' = todo \ {b}
                          /\ at' = [at EXCEPT !.b = b, !.name = bus[b].name,
                                      !.pc = IF CanLoad(bus[b].name) THEN "load" ELSE "next"]
    BY <1>3 DEF NextBusId
  <2>2. at'.b = b /\ at'.pc \in {"load", "next"}
    BY <2>1 DEF TypeInv, TypeOK
  <2>3. UNCHANGED <<bus, maplist, edev_list, hotplug, down, missed>> /\ Mapped' = Mapped
    BY <1>3 DEF NextBusId, Mapped
  <2> QED
    BY <1>3, <2>1, <2>2, <2>3 DEF ScanInv, ScanOnce, ScanStays, B
<1>4. CASE down = "no" /\ ScanDone
  <2>1. at'.pc = "sendall"
    BY <1>4 DEF ScanDone, TypeInv, TypeOK
  <2> QED
    BY <1>4, <2>1, ScanFrame DEF ScanDone, Taking
<1>5. CASE down = "no" /\ SendNext
  <2>1. at'.pc \in {"sendall", "connect"}
    BY <1>5 DEF SendNext, At, TypeInv, TypeOK
  <2> QED
    BY <1>5, <2>1, ScanFrame DEF SendNext, Taking
<1>6. CASE down = "no" /\ Listen
  BY <1>6 DEF Listen, ScanInv, ScanOnce, ScanStays
<1>7. CASE down = "no" /\ Receive
  <2>1. hotplug /\ hotplug' = hotplug
    BY <1>7 DEF Receive, At, TypeInv, Phase
  <2> QED
    BY <2>1 DEF ScanInv, ScanOnce, ScanStays
<1>8. CASE down = "no" /\ load_inf_file
  BY <1>8, LoadStep, ScanFrame DEF Works, Taking
<1>9. CASE down = "no" /\ (Reprobe \/ Unbind \/ modify_match_busid \/ bind_to_usbip \/ BindFails)
  <2>1. /\ Works /\ UNCHANGED <<maplist, edev_list>>
        /\ at.pc \in Taking /\ at'.pc # "scan"
    BY <1>9, ReprobeStep, UnbindStep, MatchStep, BindStep, BindFailsStep DEF Taking
  <2>2. ~ hotplug => B \notin Mapped
    BY <1>9, <2>1 DEF ScanInv, ScanOnce
  <2>3. \A b \in BusIds : b # B => bus'[b] = bus[b]
    BY <2>1 DEF Works
  <2> QED
    BY <1>9, <2>1, <2>2, <2>3, ScanFrame DEF Works
<1>10. CASE down = "no" /\ Refresh
  <2>1. /\ Works /\ bus' = bus /\ at.pc = "refresh"
        /\ at'.pc \in {"wait", "connect", "skip", "next"}
        /\ \A b \in BusIds : edev_list'[b] # "absent" <=> bus[b].driver = "usbip"
        /\ \/ maplist' = maplist
           \/ bus[B].driver = "usbip" /\ Mapped' = Mapped \cup {B}
    BY <1>10, RefreshStep
  <2>2. Mapped' \subseteq Mapped \cup {B} /\ (Mapped' = Mapped \/ bus[B].driver = "usbip")
    BY <2>1 DEF Mapped
  <2>3. CASE hotplug
    BY <2>1, <2>3 DEF ScanInv, ScanOnce, ScanStays, Works
  <2>4. CASE ~ hotplug
    <3>1. B \notin todo
      BY <1>10, <2>1, <2>4 DEF ScanInv, ScanOnce, Taking
    <3>2. ScanOnce'
      BY <1>10, <2>1, <2>2, <2>4, <3>1 DEF ScanInv, ScanOnce, Taking, Works
    <3>3. ScanStays'
      BY <1>10, <1>m, <1>b, <2>1, <2>2, <2>4 DEF ScanInv, ScanStays, Works
    <3> QED
      BY <3>2, <3>3 DEF ScanInv
  <2> QED
    BY <2>3, <2>4
<1>11. CASE down = "no" /\ (Skip \/ Connect \/ Tell \/ TellFails \/ Export)
  <2>1. /\ at'.pc \in {"wait", "ready", "export", "sendall"}
        /\ UNCHANGED <<hotplug, todo, down, edev_list, missed>> /\ Mapped' = Mapped
        /\ \A b \in BusIds : bus'[b].driver = bus[b].driver
    BY <1>11, ToldStep
  <2> QED
    BY <1>11, <2>1, ScanFrame DEF Taking
<1>12. CASE disconnect_signal_process
  BY <1>12 DEF disconnect_signal_process, ScanInv
<1> QED
  BY <1>0, <1>1, <1>2, <1>3, <1>4, <1>5, <1>6, <1>7, <1>8, <1>9, <1>10, <1>11, <1>12
     DEF Next, Daemon

\* When the daemon starts its list is empty, and nothing leaves.
LEMMA InitScan == Init => ScanInv
<1> SUFFICES ASSUME Init PROVE ScanInv
  OBVIOUS
<1>1. PICK on \in SUBSET BusIds, name \in [BusIds -> Names] :
        bus = [b \in BusIds |-> IF b \in on
                 THEN Device(name[b], IF name[b] \in Kept THEN "kept" ELSE "own")
                 ELSE Absent]
  BY DEF Init
<1>2. \A b \in BusIds : bus[b].driver # "leaving"
  BY <1>1 DEF Device, Absent
<1>3. maplist = <<>> /\ at.pc = "scan" /\ todo = {} /\ Mapped = {}
  BY DEF Init, Mapped
<1> QED
  BY <1>2, <1>3 DEF ScanInv, ScanOnce, ScanStays, Taking

\* send_all_usb_info looks each entry of maplist up in the edev_list of the
\* last refresh, and uses what the search ended with.  The search fails, and
\* the daemon crashes, only for a device that usbip had when its entry was
\* made and has no longer: if a device's own driver is asked before usbip.
THEOREM CrashIsGoneHolds == ASSUME ~ UsbipFirst PROVE Spec => []CrashIsGone
<1>1. TypeInv /\ ScanInv /\ CrashIsGone /\ [Next]_vars => CrashIsGone'
  <2> SUFFICES ASSUME TypeInv, ScanInv, CrashIsGone, [Next]_vars PROVE CrashIsGone'
    OBVIOUS
  <2>1. CASE down = "no" /\ SendNext
    <3>1. ~ hotplug /\ at.i \in DOMAIN maplist
      BY <2>1 DEF SendNext, At, TypeInv, Phase
    <3>2. maplist[at.i].bus \in Mapped
      BY <3>1 DEF Mapped
    <3>3. edev_list[maplist[at.i].bus] = "absent" => bus[maplist[at.i].bus].driver # "usbip"
      BY <2>1, <3>1, <3>2 DEF ScanInv, ScanStays
    <3> QED
      BY <2>1, <3>3 DEF SendNext, CrashIsGone
  <2>2. CASE down = "no" /\ Bus
    BY <2>2, BusStep DEF Bus, CrashIsGone
  <2>3. CASE down = "no" /\ Daemon /\ ~ SendNext
    <3>1. CASE Scan \/ NextBusId \/ ScanDone \/ Listen \/ Receive
      BY <2>3, <3>1 DEF Scan, NextBusId, ScanDone, Listen, Receive, CrashIsGone
    <3>2. CASE load_inf_file \/ Reprobe \/ Unbind \/ modify_match_busid \/ bind_to_usbip
                 \/ BindFails \/ Refresh
      BY <2>3, <3>2, LoadStep, ReprobeStep, UnbindStep, MatchStep, BindStep, BindFailsStep,
         RefreshStep DEF Works, CrashIsGone
    <3>3. CASE Skip \/ Connect \/ Tell \/ TellFails \/ Export
      BY <2>3, <3>3, ToldStep DEF CrashIsGone
    <3> QED
      BY <2>3, <3>1, <3>2, <3>3 DEF Daemon
  <2>4. CASE disconnect_signal_process
    BY <2>4 DEF disconnect_signal_process, CrashIsGone
  <2>5. CASE UNCHANGED vars
    BY <2>5 DEF vars, CrashIsGone
  <2> QED
    BY <2>1, <2>2, <2>3, <2>4, <2>5 DEF Next
<1>2. TypeInv /\ ScanInv /\ [Next]_vars => ScanInv'
  BY NextScan
<1>3. Init => CrashIsGone
  BY DEF Init, CrashIsGone
<1> QED
  BY <1>1, <1>2, <1>3, InitType, NextType, InitScan, PTL DEF Spec

-----------------------------------------------------------------------------
(* What is taken is given back.                                            *)

\* The entries for an absent device's bus id are those that has_the_dev finds.
LEMMA KnownAbsent ==
  ASSUME NoSubstring, TypeInv, NEW b \in BusIds
  PROVE  has_the_dev(NoName, b) = {i \in DOMAIN maplist : maplist[i].bus = b}
<1>1. \A i \in DOMAIN maplist : maplist[i].bus \in BusIds
  <2>1. \A i \in DOMAIN maplist : maplist[i] \in Entries
    BY DEF TypeInv, TypeOK
  <2> QED
    BY <2>1 DEF Entries
<1>2. \A i \in DOMAIN maplist : /\ SubBus(maplist[i].bus, b) <=> maplist[i].bus = b
                                /\ SubBus(b, maplist[i].bus) <=> maplist[i].bus = b
  BY <1>1 DEF NoSubstring, SubBus
<1> QED
  BY <1>2 DEF has_the_dev

\* What Receive does to the list: an entry goes, one for the bus id of the
\* uevent, which shows nothing.
LEMMA ReceiveStep ==
  ASSUME NoSubstring, TypeInv, Receive
  PROVE  /\ at.pc = "wait" /\ uevents # <<>> /\ uevents' = Tail(uevents) /\ Head(uevents) \in BusIds
         /\ UNCHANGED <<bus, matched, edev_list, hotplug, todo, down>>
         /\ LET b == Head(uevents)
            IN  \/ /\ bus[b] = Absent /\ at' = at /\ maplist' = maplist
                   /\ b \notin Mapped
                \/ /\ bus[b] = Absent /\ at' = at
                   /\ \E i \in DOMAIN maplist : maplist[i].bus = b /\ maplist' = RemoveAt(maplist, i)
                \/ /\ Present(b) /\ maplist' = maplist
                   /\ \/ at' = at
                      \/ /\ has_the_dev(bus[b].name, b) = {} /\ CanLoad(bus[b].name)
                         /\ at'.pc = "load" /\ at'.b = b /\ at'.name = bus[b].name
<1> DEFINE b == Head(uevents)
           known == has_the_dev(bus[b].name, b)
           i == CHOOSE j \in known : \A k \in known : j <= k
<1>1. at.pc = "wait" /\ uevents # <<>> /\ uevents' = Tail(uevents)
      /\ UNCHANGED <<bus, matched, edev_list, hotplug, todo, down>>
  BY DEF Receive, At
<1>2. b \in BusIds
  BY <1>1 DEF TypeInv, TypeOK
<1>3. CASE bus[b].name = NoName
  <2>1. bus[b] = Absent
    BY <1>2, <1>3, Shown DEF Present
  <2>2. known = {j \in DOMAIN maplist : maplist[j].bus = b}
    BY <1>2, <1>3, KnownAbsent
  <2>3. at' = at /\ maplist' = IF known = {} THEN maplist ELSE RemoveAt(maplist, i)
    BY <1>3 DEF Receive
  <2>4. CASE known = {}
    <3>1. b \notin Mapped
      BY <2>2, <2>4 DEF Mapped
    <3> QED
      BY <1>1, <1>2, <2>1, <2>3, <2>4, <3>1
  <2>5. CASE known # {}
    <3>1. known \in SUBSET Nat
      <4>1. DOMAIN maplist = 1 .. Len(maplist)
        BY DEF TypeInv, TypeOK
      <4> QED
        BY <2>2, <4>1
    <3> HIDE DEF known
    <3>2. \E m \in known : \A k \in known : m <= k
      BY <2>5, <3>1, FirstOne
    <3>3. i \in known
      BY <3>2
    <3> HIDE DEF i, b
    <3>4. i \in DOMAIN maplist /\ maplist[i].bus = b /\ maplist' = RemoveAt(maplist, i)
      BY <2>2, <2>3, <2>5, <3>3
    <3> QED
      BY <1>1, <1>2, <2>1, <2>3, <3>4 DEF b
  <2> QED
    BY <2>4, <2>5
<1>4. CASE bus[b].name # NoName
  <2>1. Present(b)
    BY <1>2, <1>4, Shown
  <2>2. maplist' = maplist
        /\ at' = IF known = {} /\ CanLoad(bus[b].name)
                   THEN [at EXCEPT !.b = b, !.name = bus[b].name, !.pc = "load"]
                   ELSE at
    BY <1>4 DEF Receive
  <2>3. at' = at \/ (known = {} /\ CanLoad(bus[b].name)
                     /\ at'.pc = "load" /\ at'.b = b /\ at'.name = bus[b].name)
    BY <1>2, <2>2 DEF TypeInv, TypeOK
  <2> QED
    BY <1>1, <1>2, <2>1, <2>2, <2>3
<1> QED
  BY <1>3, <1>4

\* An entry that is removed was for its bus id, the others are still there.
LEMMA RemovedEntry ==
  ASSUME TypeInv, NEW i \in DOMAIN maplist, maplist' = RemoveAt(maplist, i)
  PROVE  /\ Mapped \ {maplist[i].bus} \subseteq Mapped'
         /\ \A k \in DOMAIN maplist' :
              \E j \in DOMAIN maplist \ {i} : maplist'[k] = maplist[j]
         /\ (\A j, k \in DOMAIN maplist :
                maplist[j].bus = maplist[k].bus /\ maplist[j].bus \notin missed => j = k)
              => /\ \A j, k \in DOMAIN maplist' :
                      maplist'[j].bus = maplist'[k].bus /\ maplist'[j].bus \notin missed => j = k
                 /\ maplist[i].bus \notin missed => maplist[i].bus \notin Mapped'
<1>0. maplist \in Seq(Entries)
  BY DEF TypeInv, TypeOK
<1>1. /\ maplist' \in Seq(Entries) /\ Len(maplist') = Len(maplist) - 1
      /\ \A k \in 1 .. Len(maplist) - 1 : maplist'[k] = IF k < i THEN maplist[k] ELSE maplist[k + 1]
  BY <1>0, Removed, Zenon
<1>2. /\ DOMAIN maplist = 1 .. Len(maplist) /\ Len(maplist) \in Nat /\ i \in 1 .. Len(maplist)
      /\ DOMAIN maplist' = 1 .. Len(maplist) - 1
  BY <1>1 DEF TypeInv, TypeOK
<1>3. \A k \in 1 .. Len(maplist) - 1 : k \in Nat /\ k \in 1 .. Len(maplist) /\ k + 1 \in 1 .. Len(maplist)
  BY <1>2
<1>4. \A k \in DOMAIN maplist' : \E j \in DOMAIN maplist \ {i} : maplist'[k] = maplist[j]
  <2> SUFFICES ASSUME NEW k \in DOMAIN maplist' PROVE \E j \in DOMAIN maplist \ {i} : maplist'[k] = maplist[j]
    OBVIOUS
  <2>1. CASE k < i
    BY <1>1, <1>2, <1>3, <2>1
  <2>2. CASE ~ (k < i)
    <3>1. maplist'[k] = maplist[k + 1] /\ k + 1 # i
      BY <1>1, <1>2, <1>3, <2>2
    <3> QED
      BY <1>2, <1>3, <3>1
  <2> QED
    BY <2>1, <2>2
<1>5. Mapped \ {maplist[i].bus} \subseteq Mapped'
  <2> SUFFICES ASSUME NEW j \in DOMAIN maplist, maplist[j].bus # maplist[i].bus
               PROVE  \E k \in DOMAIN maplist' : maplist'[k].bus = maplist[j].bus
    BY DEF Mapped
  <2>1. CASE j < i
    <3>1. j \in 1 .. Len(maplist) - 1
      BY <1>2, <2>1
    <3> QED
      BY <1>1, <1>2, <2>1, <3>1
  <2>2. CASE j > i
    <3> DEFINE k == j - 1
    <3>1. k \in 1 .. Len(maplist) - 1 /\ ~ (k < i) /\ k + 1 = j
      BY <1>2, <2>2
    <3> HIDE DEF k
    <3> QED
      BY <1>1, <1>2, <3>1
  <2> QED
    BY <1>2, <2>1, <2>2
<1>6. ASSUME \A p, q \in DOMAIN maplist :
               maplist[p].bus = maplist[q].bus /\ maplist[p].bus \notin missed => p = q,
             NEW k \in DOMAIN maplist', NEW m \in DOMAIN maplist',
             maplist'[k].bus = maplist'[m].bus, maplist'[k].bus \notin missed
      PROVE  k = m
  <2> DEFINE f(n) == IF n < i THEN n ELSE n + 1
  <2>1. \A n \in DOMAIN maplist' : f(n) \in DOMAIN maplist /\ maplist'[n] = maplist[f(n)]
    BY <1>1, <1>2, <1>3
  <2>2. f(k) = f(m)
    <3> HIDE DEF f
    <3> QED
      BY <1>6, <2>1
  <2> QED
    BY <1>2, <1>3, <2>2
<1>7. ASSUME \A p, q \in DOMAIN maplist :
               maplist[p].bus = maplist[q].bus /\ maplist[p].bus \notin missed => p = q,
             maplist[i].bus \notin missed
      PROVE  maplist[i].bus \notin Mapped'
  BY <1>4, <1>7 DEF Mapped
<1> QED
  BY <1>4, <1>5, <1>6, <1>7

\* What usbip has is on the list, or is the device the daemon has just bound.
LEMMA NextTaken ==
  ASSUME ~ UsbipFirst, NoSubstring, TypeInv, TakenInv, [Next]_vars
  PROVE  TakenInv'
<1>t. TypeInv'
  BY NextType
<1>b. B \in BusIds
  BY DEF TypeInv, TypeOK, B
<1>d. \A n, b, m : Drivers(n, b, m) \subseteq {"own", "kept"}
  BY DriverTypes
<1>0. CASE UNCHANGED vars
  BY <1>0 DEF vars, TakenInv, TakenIsMapped, NotYetTaken, Mapped, B
<1>1. CASE down = "no" /\ Bus
  <2>1. PICK b \in BusIds : Plug(b) \/ Leave(b) \/ Unplug(b) \/ ServerCloses(b)
    BY <1>1 DEF Bus
  <2>2. /\ UNCHANGED <<at, down>> /\ Mapped' = Mapped
        /\ \A c \in BusIds \ {b} : bus'[c] = bus[c]
        /\ bus'[b].driver = "usbip" => bus[b].driver = "usbip"
    BY <2>1, <1>d, BusStep DEF Absent
  <2>3. \A c \in BusIds : bus'[c].driver = "usbip" => bus[c].driver = "usbip"
    BY <2>2
  <2> QED
    BY <1>1, <1>b, <2>2, <2>3 DEF TakenInv, TakenIsMapped, NotYetTaken, B
<1>2. CASE down = "no" /\ (Scan \/ NextBusId \/ ScanDone \/ SendNext \/ Listen)
  <2>1. UNCHANGED <<bus, maplist>> /\ at.pc \in {"scan", "next", "sendall"}
    BY <1>2 DEF Scan, NextBusId, ScanDone, SendNext, Listen, At
  <2>2. at'.pc \in {"next", "load", "sendall", "connect", "wait"}
    BY <1>2, GotoType DEF Scan, NextBusId, ScanDone, SendNext, Listen, At, Goto, TypeInv, TypeOK
  <2> QED
    BY <1>2, <2>1, <2>2 DEF TakenInv, TakenIsMapped, NotYetTaken, Mapped
<1>3. CASE down = "no" /\ Receive
  <2> DEFINE b == Head(uevents)
  <2>1. /\ at.pc = "wait" /\ bus' = bus /\ at'.pc \in {"wait", "load"}
        /\ \/ maplist' = maplist
           \/ /\ bus[b] = Absent
              /\ \E i \in DOMAIN maplist : maplist[i].bus = b /\ maplist' = RemoveAt(maplist, i)
    BY <1>3, ReceiveStep
  <2>2. Mapped' = Mapped \/ (bus[b] = Absent /\ Mapped \ {b} \subseteq Mapped')
    BY <2>1, RemovedEntry DEF Mapped
  <2>3. Absent.driver # "usbip"
    BY DEF Absent
  <2> HIDE DEF b
  <2> QED
    BY <1>3, <2>1, <2>2, <2>3 DEF TakenInv, TakenIsMapped, NotYetTaken
<1>4. CASE down = "no" /\ load_inf_file
  <2>1. /\ Works /\ UNCHANGED <<bus, maplist>> /\ at.pc = "load"
        /\ \/ at'.pc \in {"refresh", "wait", "next"}
           \/ bus[B].driver \in {"own", "none", "leaving"}
    BY <1>4, LoadStep
  <2> QED
    BY <1>4, <2>1 DEF TakenInv, TakenIsMapped, NotYetTaken, Works, Mapped, B
<1>5. CASE down = "no" /\ (Reprobe \/ Unbind \/ modify_match_busid \/ BindFails)
  <2>1. /\ Works /\ maplist' = maplist /\ at.pc \in {"reprobe", "unbind", "match", "bind"}
        /\ bus'[B].driver = "usbip" => bus[B].driver = "usbip"
    BY <1>5, <1>d, ReprobeStep, UnbindStep, MatchStep, BindFailsStep
  <2>2. bus[B].driver # "usbip"
    BY <1>5, <2>1 DEF TakenInv, NotYetTaken
  <2>3. \A c \in BusIds : bus'[c].driver = "usbip" => c # B /\ bus[c].driver = "usbip"
    BY <1>b, <2>1, <2>2 DEF Works
  <2> QED
    BY <1>5, <1>b, <2>1, <2>2, <2>3 DEF TakenInv, TakenIsMapped, NotYetTaken, Works, Mapped, B
<1>6. CASE down = "no" /\ bind_to_usbip
  <2>1. Works /\ maplist' = maplist /\ at.pc = "bind" /\ at'.pc = "refresh"
    BY <1>6, BindStep
  <2> QED
    BY <1>6, <1>b, <2>1 DEF TakenInv, TakenIsMapped, NotYetTaken, Works, Mapped, B
<1>7. CASE down = "no" /\ Refresh
  <2>1. /\ bus' = bus /\ at.pc = "refresh" /\ at'.pc \in {"wait", "connect", "skip", "next"}
        /\ \/ Mapped' = Mapped /\ bus[B].driver # "usbip"
           \/ Mapped' = Mapped \cup {B}
    BY <1>7, RefreshStep DEF Mapped
  <2> QED
    BY <1>7, <2>1 DEF TakenInv, TakenIsMapped, NotYetTaken
<1>8. CASE down = "no" /\ (Skip \/ Connect \/ Tell \/ TellFails \/ Export)
  <2>1. /\ at.pc \in {"skip", "connect", "ready", "export"} /\ at'.pc \in {"wait", "ready", "export", "sendall"}
        /\ Mapped' = Mapped
        /\ \A b \in BusIds : bus'[b].driver = bus[b].driver
    BY <1>8, ToldStep
  <2> QED
    BY <1>8, <2>1 DEF TakenInv, TakenIsMapped, NotYetTaken
<1>9. CASE disconnect_signal_process
  BY <1>9 DEF disconnect_signal_process, TakenInv
<1> QED
  BY <1>0, <1>1, <1>2, <1>3, <1>4, <1>5, <1>6, <1>7, <1>8, <1>9 DEF Next, Daemon

\* A device is without a driver while the daemon binds it, and after the end
\* usbip has none.
LEMMA NextGivenBack ==
  ASSUME ~ SignalRaces, ~ UsbipFirst, TableFits, TypeInv, TakenInv, GivenBackInv, [Next]_vars
  PROVE  GivenBackInv'
<1>t. TypeInv'
  BY NextType
<1>b. B \in BusIds
  BY DEF TypeInv, TypeOK, B
<1>d. \A n, b, m : Drivers(n, b, m) \subseteq {"own", "kept"}
  BY DriverTypes
<1>0. CASE UNCHANGED vars
  BY <1>0 DEF vars, GivenBackInv, UnboundIsB, EndsAtRest, ExitGivesBack, B
<1>1. CASE down = "no" /\ Bus
  <2>1. PICK b \in BusIds : Plug(b) \/ Leave(b) \/ Unplug(b) \/ ServerCloses(b)
    BY <1>1 DEF Bus
  <2>2. /\ UNCHANGED <<at, down>>
        /\ \A c \in BusIds \ {b} : bus'[c] = bus[c]
        /\ bus'[b].driver = "none" => bus[b].driver = "none"
    BY <2>1, <1>d, BusStep DEF Absent
  <2>3. \A c \in BusIds : bus'[c].driver = "none" => bus[c].driver = "none"
    BY <2>2
  <2> QED
    BY <1>1, <2>2, <2>3 DEF GivenBackInv, UnboundIsB, EndsAtRest, ExitGivesBack, B
<1>2. CASE down = "no" /\ (Scan \/ NextBusId \/ ScanDone \/ SendNext \/ Listen \/ Receive)
  <2>1. bus' = bus /\ at.pc \in {"scan", "next", "sendall", "wait"}
        /\ (down' # "no" => down' = "crash" /\ at' = at /\ at.pc = "sendall")
    BY <1>2 DEF Scan, NextBusId, ScanDone, SendNext, Listen, Receive, At
  <2> QED
    BY <1>2, <2>1 DEF GivenBackInv, UnboundIsB, EndsAtRest, ExitGivesBack
<1>3. CASE down = "no" /\ load_inf_file
  <2>1. Works /\ bus' = bus /\ at.pc = "load"
    BY <1>3, LoadStep
  <2> QED
    BY <1>3, <2>1 DEF GivenBackInv, UnboundIsB, EndsAtRest, ExitGivesBack, Works
<1>4. CASE down = "no" /\ (Reprobe \/ BindFails)
  <2>1. Works /\ bus'[B].driver # "none"
    BY <1>4, <1>d, ReprobeStep, BindFailsStep
  <2>2. \A c \in BusIds : bus'[c].driver = "none" => c # B /\ bus[c].driver = "none"
    BY <1>b, <2>1 DEF Works
  <2> QED
    BY <1>4, <2>1, <2>2 DEF GivenBackInv, UnboundIsB, EndsAtRest, ExitGivesBack, Works
<1>5. CASE down = "no" /\ Unbind
  <2>1. /\ Works /\ at.pc = "unbind"
        /\ at'.pc = "match" \/ (~ Present(B) /\ bus'[B].driver = "absent")
    BY <1>5, <1>t, <1>b, UnbindStep DEF Works, Absent
  <2>2. \A c \in BusIds : bus'[c].driver = "none" => c = B
    BY <1>5, <2>1 DEF GivenBackInv, UnboundIsB, Works
  <2> QED
    BY <1>5, <1>b, <2>1, <2>2 DEF GivenBackInv, UnboundIsB, EndsAtRest, ExitGivesBack, Works, B
<1>6. CASE down = "no" /\ modify_match_busid
  <2>1. B \in matched \/ Cardinality(matched) < MaxMatch
    <3> SUFFICES ASSUME B \notin matched PROVE Cardinality(matched) < MaxMatch
      OBVIOUS
    <3>1. matched \subseteq BusIds /\ matched # BusIds
      BY <1>b DEF TypeInv, TypeOK
    <3>2. /\ IsFiniteSet(matched) /\ Cardinality(matched) <= Cardinality(BusIds)
          /\ Cardinality(matched) # Cardinality(BusIds)
      BY <3>1, FS_Subset DEF TableFits
    <3>3. Cardinality(matched) \in Nat /\ Cardinality(BusIds) \in Nat /\ MaxMatch \in Nat
      BY <3>2, FS_CardinalityType, ExportAssumption DEF TableFits
    <3> QED
      BY <3>2, <3>3 DEF TableFits
  <2>2. Works /\ bus' = bus /\ at.pc = "match" /\ at'.pc = "bind"
    BY <1>6, <2>1, MatchStep
  <2> QED
    BY <1>6, <2>2 DEF GivenBackInv, UnboundIsB, EndsAtRest, ExitGivesBack, Works, B
<1>7. CASE down = "no" /\ bind_to_usbip
  <2>1. Works /\ bus'[B].driver = "usbip"
    BY <1>7, BindStep
  <2>2. \A c \in BusIds : bus'[c].driver = "none" => c # B /\ bus[c].driver = "none"
    BY <1>b, <2>1 DEF Works
  <2> QED
    BY <1>7, <2>1, <2>2 DEF GivenBackInv, UnboundIsB, EndsAtRest, ExitGivesBack, Works
<1>8. CASE down = "no" /\ Refresh
  <2>1. Works /\ bus' = bus /\ at.pc = "refresh"
    BY <1>8, RefreshStep
  <2> QED
    BY <1>8, <2>1 DEF GivenBackInv, UnboundIsB, EndsAtRest, ExitGivesBack, Works
<1>9. CASE down = "no" /\ (Skip \/ Connect \/ Tell \/ TellFails \/ Export)
  <2>1. /\ at.pc \in {"skip", "connect", "ready", "export"} /\ down' = down
        /\ \A b \in BusIds : bus'[b].driver = bus[b].driver
    BY <1>9, ToldStep
  <2> QED
    BY <1>9, <2>1 DEF GivenBackInv, UnboundIsB, EndsAtRest, ExitGivesBack
<1>10. CASE disconnect_signal_process
  <2>1. down = "no" /\ at.pc = "wait" /\ at' = at /\ down' = "exit"
    BY <1>10 DEF disconnect_signal_process, At
  <2>2. PICK driver \in [Mapped -> {"own", "usbip", "kept"}] :
          /\ \A b \in Mapped : driver[b] \in Drivers(bus[b].name, b, matched)
          /\ bus' = [b \in BusIds |->
                       IF b \in Mapped /\ Present(b) /\ bus[b].driver # "leaving"
                         THEN Probed(b, driver[b]) ELSE bus[b]]
    BY <1>10 DEF disconnect_signal_process
  <2>3. ASSUME NEW b \in BusIds PROVE bus'[b].driver \notin {"none", "usbip"}
    <3>1. CASE b \in Mapped /\ Present(b) /\ bus[b].driver # "leaving"
      <4>1. driver[b] \in {"own", "kept"}
        BY <1>d, <2>2, <3>1
      <4>2. bus'[b].driver = driver[b]
        BY <2>2, <3>1, <4>1, SlotTypes DEF TypeInv
      <4> QED
        BY <4>1, <4>2
    <3>2. CASE ~ (b \in Mapped /\ Present(b) /\ bus[b].driver # "leaving")
      <4>1. bus'[b] = bus[b]
        BY <2>2, <3>2
      <4>2. bus[b].driver = "usbip" => b \in Mapped /\ Present(b)
        BY <2>1, Shown DEF TakenInv, TakenIsMapped
      <4> QED
        BY <2>1, <3>2, <4>1, <4>2 DEF GivenBackInv, UnboundIsB
    <3> QED
      BY <3>1, <3>2
  <2> QED
    BY <2>1, <2>3 DEF GivenBackInv, UnboundIsB, EndsAtRest, ExitGivesBack
<1> QED
  BY <1>0, <1>1, <1>2, <1>3, <1>4, <1>5, <1>6, <1>7, <1>8, <1>9, <1>10 DEF Next, Daemon

\* When the daemon starts each device has its own driver.
LEMMA InitTaken == Init => TakenInv /\ GivenBackInv /\ KeptStay /\ TakenIsAllowed
<1> SUFFICES ASSUME Init PROVE TakenInv /\ GivenBackInv /\ KeptStay /\ TakenIsAllowed
  OBVIOUS
<1>1. PICK on \in SUBSET BusIds, name \in [BusIds -> Names] :
        bus = [b \in BusIds |-> IF b \in on
                 THEN Device(name[b], IF name[b] \in Kept THEN "kept" ELSE "own")
                 ELSE Absent]
  BY DEF Init
<1>2. \A b \in BusIds : \/ bus[b].driver \in {"kept", "absent"}
                        \/ bus[b].driver = "own" /\ bus[b].name \notin Kept
  BY <1>1 DEF Device, Absent
<1>3. at.pc = "scan" /\ down = "no"
  BY DEF Init
<1> QED
  BY <1>2, <1>3 DEF TakenInv, TakenIsMapped, NotYetTaken, GivenBackInv, UnboundIsB, EndsAtRest,
     ExitGivesBack, KeptStay, TakenIsAllowed

\* The daemon leaves no device without a driver when it is done with it, and
\* none to usbip when it has ended: if its own driver is asked before usbip,
\* SIGINT waits for the end of an event, a bus id is no substring of another
\* and match_busid has room.
THEOREM DriverGivenBackHolds ==
  ASSUME ~ SignalRaces, ~ UsbipFirst, NoSubstring, TableFits
  PROVE  Spec => []DriverGivenBack
<1>1. TypeInv /\ TakenInv /\ [Next]_vars => TakenInv'
  BY NextTaken
<1>2. TypeInv /\ TakenInv /\ GivenBackInv /\ [Next]_vars => GivenBackInv'
  BY NextGivenBack
<1>3. GivenBackInv => DriverGivenBack
  BY DEF GivenBackInv, UnboundIsB, EndsAtRest, ExitGivesBack, DriverGivenBack, At
<1>4. Init => TakenInv /\ GivenBackInv
  BY InitTaken
<1> QED
  BY <1>1, <1>2, <1>3, <1>4, InitType, NextType, PTL DEF Spec

-----------------------------------------------------------------------------
(* What is taken may be taken, and is what the list says.                  *)

\* A device that usbip gets, or may get, is one whose name may be loaded.
LEMMA NextAllowed ==
  ASSUME ~ UsbipFirst, TypeInv, AllowedInv, [Next]_vars
  PROVE  AllowedInv'
<1>t. TypeInv'
  BY NextType
<1>b. B \in BusIds
  BY DEF TypeInv, TypeOK, B
<1>d. \A n, b, m : /\ Drivers(n, b, m) \subseteq {"own", "kept"}
                   /\ n \in Kept => Drivers(n, b, m) = {"kept"}
                   /\ n \notin Kept => "kept" \notin Drivers(n, b, m)
  BY DriverTypes
<1> DEFINE Pc1 == {"reprobe", "unbind", "match", "bind"}
<1>0. CASE UNCHANGED vars
  BY <1>0 DEF vars, AllowedInv, KeptStay, NotKept, NameIsRead, TakenIsAllowed, B, Present
<1>1. CASE down = "no" /\ Bus
  <2>1. PICK b \in BusIds : Plug(b) \/ Leave(b) \/ Unplug(b) \/ ServerCloses(b)
    BY <1>1 DEF Bus
  <2> DEFINE plugged == /\ ~ Present(b) /\ (b \in missed' \/ Seen(b))
                        /\ bus'[b].driver \in Drivers(bus'[b].name, b, matched)
             stays == /\ Present(b) /\ bus'[b].driver \in {"leaving", bus[b].driver}
                      /\ bus'[b].name = bus[b].name
  <2>2. /\ at' = at /\ \A c \in BusIds \ {b} : bus'[c] = bus[c]
        /\ plugged \/ stays \/ bus'[b] = Absent
        /\ missed \subseteq missed'
    BY <2>1, BusStep
  <2>3. Absent.driver = "absent"
    BY DEF Absent
  <2>4. KeptStay'
    BY <1>1, <1>d, <2>2, <2>3 DEF AllowedInv, KeptStay
  <2>5. TakenIsAllowed'
    BY <1>1, <1>d, <2>2, <2>3 DEF AllowedInv, TakenIsAllowed
  <2>6. at.pc \in Taking /\ plugged => b # B \/ b \in missed'
    BY DEF Seen, Taking, B
  <2>7. NotKept'
    BY <1>1, <1>b, <2>2, <2>3, <2>6 DEF AllowedInv, NotKept, Taking, B
  <2>8. NameIsRead'
    BY <1>1, <1>b, <2>2, <2>3, <2>6 DEF AllowedInv, NameIsRead, B, Present
  <2> QED
    BY <2>4, <2>5, <2>7, <2>8 DEF AllowedInv
<1>2. CASE down = "no" /\ (Scan \/ NextBusId \/ ScanDone \/ SendNext \/ Listen)
  <2>1. bus' = bus /\ missed' = missed
    BY <1>2 DEF Scan, NextBusId, ScanDone, SendNext, Listen
  <2>2. at'.pc \in {"next", "sendall", "connect", "wait"}
        \/ (at'.pc = "load" /\ CanLoad(at'.name) /\ at'.b \in BusIds /\ at'.name = bus[at'.b].name)
    <3>1. CASE NextBusId
      <4>1. PICK b \in todo : at' = [at EXCEPT !.b = b, !.name = bus[b].name,
                                      !.pc = IF CanLoad(bus[b].name) THEN "load" ELSE "next"]
        BY <3>1 DEF NextBusId
      <4> QED
        BY <4>1 DEF TypeInv, TypeOK
    <3>2. CASE Scan \/ ScanDone \/ SendNext \/ Listen
      BY <3>2 DEF Scan, ScanDone, SendNext, Listen, At, Goto, TypeInv, TypeOK
    <3> QED
      BY <1>2, <3>1, <3>2
  <2> QED
    BY <2>1, <2>2 DEF AllowedInv, KeptStay, NotKept, NameIsRead, TakenIsAllowed, Taking, B
<1>3. CASE down = "no" /\ Receive
  <2>1. bus' = bus /\ missed' = missed /\ at.pc = "wait"
    BY <1>3 DEF Receive, At
  <2>2. at' = at \/ (at'.pc = "load" /\ CanLoad(at'.name) /\ at'.b \in BusIds /\ at'.name = bus[at'.b].name)
    <3> DEFINE b == Head(uevents)
    <3>1. b \in BusIds
      BY <1>3 DEF Receive, TypeInv, TypeOK
    <3>2. at' = at \/ (CanLoad(bus[b].name) /\ at' = [at EXCEPT !.b = b, !.name = bus[b].name, !.pc = "load"])
      BY <1>3 DEF Receive
    <3> HIDE DEF b
    <3> QED
      BY <3>1, <3>2 DEF TypeInv, TypeOK
  <2> QED
    BY <2>1, <2>2 DEF AllowedInv, KeptStay, NotKept, NameIsRead, TakenIsAllowed, Taking, B
<1>4. CASE down = "no" /\ load_inf_file
  <2>1. /\ Works /\ bus' = bus /\ at.pc = "load"
        /\ at'.pc \in {"refresh", "wait", "next"} \/ bus[B].driver \in {"own", "none", "leaving"}
    BY <1>4, LoadStep
  <2>2. KeptStay' /\ TakenIsAllowed'
    BY <2>1 DEF Works, AllowedInv, KeptStay, TakenIsAllowed
  <2>3. NotKept'
    BY <2>1 DEF NotKept, B, Works
  <2>4. NameIsRead'
    BY <2>1 DEF AllowedInv, NameIsRead, Taking, B, Works, Present
  <2> QED
    BY <2>2, <2>3, <2>4 DEF AllowedInv
<1>5. CASE down = "no" /\ (Reprobe \/ Unbind \/ modify_match_busid \/ bind_to_usbip \/ BindFails)
  <2>1. /\ Works /\ at.pc \in Pc1
        /\ \/ bus'[B].driver \in Drivers(bus[B].name, B, matched) /\ bus[B].driver \notin {"absent", "leaving"}
           \/ bus'[B].driver \in {"absent", "leaving", "none"}
           \/ bus' = bus
           \/ bus[B].driver = "none" /\ bus'[B].driver = "usbip" /\ at.pc = "bind"
    BY <1>5, ReprobeStep, UnbindStep, MatchStep, BindStep, BindFailsStep
  <2>2. B \notin missed /\ bus[B].driver \notin {"absent", "leaving"} => bus[B].name \notin Kept
    <3>1. bus[B].driver \in {"absent", "own", "kept", "none", "usbip", "leaving"}
      BY <1>b DEF TypeInv, TypeOK, Slots
    <3> QED
      BY <1>b, <2>1, <3>1 DEF AllowedInv, KeptStay, NotKept
  <2>3. CanLoad(at.name) /\ (B \notin missed /\ Present(B) => bus[B].name = at.name)
    BY <2>1 DEF AllowedInv, NameIsRead, Taking
  <2>4. B \notin missed /\ bus'[B].driver \in {"own", "none", "usbip"} => bus'[B].name \notin Kept
    <3>1. bus'[B].name = bus[B].name /\ (bus'[B] # Absent <=> Present(B))
          /\ (bus'[B].driver = "leaving" <=> bus[B].driver = "leaving") /\ Absent.driver = "absent"
      BY <2>1 DEF Works, Absent
    <3>2. bus'[B].driver \in {"own", "none", "usbip"} => bus[B].driver \notin {"absent", "leaving"}
      BY <1>b, <3>1, Shown
    <3> QED
      BY <2>2, <3>1, <3>2
  <2>5. KeptStay'
    BY <1>b, <2>1, <2>4 DEF AllowedInv, KeptStay, Works
  <2>6. NotKept'
    <3> SUFFICES ASSUME at'.pc \in Pc1, B \notin missed PROVE bus'[B].driver # "kept"
      BY <2>1 DEF NotKept, B, Works
    <3> QED
      BY <1>d, <2>1, <2>2 DEF AllowedInv, NotKept, Works
  <2>7. NameIsRead'
    BY <2>1, <2>3 DEF NameIsRead, Works, B, Present
  <2>8. TakenIsAllowed'
    <3>1. bus'[B].driver = "usbip" => Present(B)
      BY <2>1 DEF Works, Absent
    <3>2. B \notin missed /\ bus'[B].driver = "usbip" => CanLoad(bus'[B].name)
      BY <2>1, <2>3, <3>1 DEF Works
    <3> QED
      BY <1>b, <2>1, <3>2 DEF AllowedInv, TakenIsAllowed, Works
  <2> QED
    BY <2>5, <2>6, <2>7, <2>8 DEF AllowedInv
<1>6. CASE down = "no" /\ Refresh
  <2>1. bus' = bus /\ missed' = missed /\ at'.pc \in {"wait", "connect", "skip", "next"}
    BY <1>6, RefreshStep DEF Works
  <2> QED
    BY <2>1 DEF AllowedInv, KeptStay, NotKept, NameIsRead, TakenIsAllowed, Taking
<1>7. CASE down = "no" /\ (Skip \/ Connect \/ Tell \/ TellFails \/ Export)
  <2>1. /\ at'.pc \in {"wait", "ready", "export", "sendall"} /\ missed' = missed
        /\ \A b \in BusIds : bus'[b].driver = bus[b].driver /\ bus'[b].name = bus[b].name
    BY <1>7, ToldStep
  <2> QED
    BY <2>1 DEF AllowedInv, KeptStay, NotKept, NameIsRead, TakenIsAllowed, Taking
<1>8. CASE disconnect_signal_process
  <2>1. at' = at /\ missed' = missed
    BY <1>8 DEF disconnect_signal_process
  <2>2. PICK driver \in [Mapped -> {"own", "usbip", "kept"}] :
          /\ \A b \in Mapped : driver[b] \in Drivers(bus[b].name, b, matched)
          /\ bus' = [b \in BusIds |->
                       IF b \in Mapped /\ Present(b) /\ bus[b].driver # "leaving"
                         THEN Probed(b, driver[b]) ELSE bus[b]]
    BY <1>8 DEF disconnect_signal_process
  <2>3. ASSUME NEW b \in BusIds
        PROVE  \/ bus'[b] = bus[b]
               \/ /\ bus'[b].driver \in Drivers(bus[b].name, b, matched) /\ bus'[b].name = bus[b].name
                  /\ Present(b) /\ bus[b].driver # "leaving"
    <3>1. CASE b \in Mapped /\ Present(b) /\ bus[b].driver # "leaving"
      <4>1. bus'[b] = Probed(b, driver[b]) /\ driver[b] \in Drivers(bus[b].name, b, matched)
        BY <2>2, <3>1
      <4>2. driver[b] \in {"own", "kept"}
        BY <1>d, <4>1
      <4>3. bus'[b].driver = driver[b] /\ bus'[b].name = bus[b].name
        BY <4>1, <4>2, SlotTypes DEF TypeInv
      <4> QED
        BY <3>1, <4>1, <4>3
    <3>2. CASE ~ (b \in Mapped /\ Present(b) /\ bus[b].driver # "leaving")
      BY <2>2, <3>2
    <3> QED
      BY <3>1, <3>2
  <2>4. KeptStay' /\ TakenIsAllowed'
    BY <1>d, <2>1, <2>3 DEF AllowedInv, KeptStay, TakenIsAllowed
  <2>5. NotKept'
    <3> SUFFICES ASSUME at.pc \in Pc1, B \notin missed PROVE bus'[B].driver # "kept"
      BY <2>1 DEF NotKept, B
    <3>1. bus[B].driver # "kept" /\ bus[B].driver \in {"absent", "own", "kept", "none", "usbip", "leaving"}
      BY <1>b DEF AllowedInv, NotKept, TypeInv, TypeOK, Slots
    <3>2. Present(B) /\ bus[B].driver # "leaving" => bus[B].name \notin Kept
      BY <1>b, <3>1, Shown DEF AllowedInv, KeptStay
    <3> QED
      BY <1>b, <1>d, <2>3, <3>1, <3>2
  <2>6. NameIsRead'
    <3>1. bus'[B] # Absent => Present(B)
      BY <1>b, <2>3 DEF Present
    <3>2. bus'[B].name = bus[B].name
      BY <1>b, <2>3
    <3> QED
      BY <2>1, <3>1, <3>2 DEF AllowedInv, NameIsRead, B, Present
  <2> QED
    BY <2>4, <2>5, <2>6 DEF AllowedInv
<1> QED
  BY <1>0, <1>1, <1>2, <1>3, <1>4, <1>5, <1>6, <1>7, <1>8 DEF Next, Daemon

\* When the daemon starts it has no device in hand.
LEMMA InitAllowed == Init => AllowedInv
<1>1. Init => at.pc = "scan"
  BY DEF Init
<1>2. Init => NotKept /\ NameIsRead
  BY <1>1 DEF NotKept, NameIsRead, Taking
<1> QED
  BY <1>2, InitTaken DEF AllowedInv

\* The daemon binds to usbip only devices that its list of types allows, and
\* none that hub or usbhid has, but where a device came or went unseen, so
\* that the name it read is not that of the device it takes: if a device's
\* own driver is asked before usbip.
THEOREM TakenIsListedHolds ==
  ASSUME ~ UsbipFirst
  PROVE  Spec => []TakenIsListed
<1>1. TypeInv /\ AllowedInv /\ [Next]_vars => AllowedInv'
  BY NextAllowed
<1>2. AllowedInv => TakenIsListed
  BY DEF AllowedInv, KeptStay, TakenIsAllowed, CanLoad, dev_can_load, TakenIsListed
<1> QED
  BY <1>1, <1>2, InitAllowed, InitType, NextType, PTL DEF Spec

\* The list and the bus agree but for what the daemon is still to look at.
LEMMA NextMap ==
  ASSUME ~ UsbipFirst, NoSubstring,
         TypeInv, ScanInv, AllowedInv, MapInv, [Next]_vars
  PROVE  MapInv'
<1>t. TypeInv'
  BY NextType
<1>b. B \in BusIds
  BY DEF TypeInv, TypeOK, B
<1>e. \A i \in DOMAIN maplist : maplist[i].bus \in BusIds /\ maplist[i].bus \in Mapped
  <2>1. \A i \in DOMAIN maplist : maplist[i] \in Entries
    BY DEF TypeInv, TypeOK
  <2> QED
    BY <2>1 DEF Mapped, Entries
<1>a. Absent.driver = "absent" /\ Absent.name = NoName
  BY DEF Absent
<1>0. CASE UNCHANGED vars
  BY <1>0 DEF vars, MapInv, EntryIsTrue, MappedOnce, Mapped, B, Present
<1>1. CASE down = "no" /\ Bus
  <2>1. PICK b \in BusIds : Plug(b) \/ Leave(b) \/ Unplug(b) \/ ServerCloses(b)
    BY <1>1 DEF Bus
  <2>2. /\ UNCHANGED <<at, down, maplist>> /\ Mapped' = Mapped
        /\ \A c \in BusIds \ {b} : bus'[c] = bus[c]
        /\ ToSet(uevents) \subseteq ToSet(uevents')
        /\ missed \subseteq missed'
        /\ \/ b \in missed'
           \/ ~ Present(b) /\ Seen(b)
           \/ /\ Present(b) /\ bus'[b].driver \in {"leaving", bus[b].driver}
              /\ bus'[b].name = bus[b].name
           \/ bus[b].driver = "leaving" /\ bus'[b] = Absent /\ (hotplug => b \in ToSet(uevents'))
    BY <2>1, BusStep
  <2>3. bus[b].driver = "leaving" => hotplug \/ b \in missed
    BY <1>1 DEF ScanInv, ScanStays
  <2>4. EntryIsTrue'
    <3> SUFFICES ASSUME NEW i \in DOMAIN maplist
                 PROVE  LET c == maplist[i].bus
                        IN  \/ c \in missed'
                            \/ bus'[c].driver \in {"usbip", "leaving"} /\ bus'[c].name = maplist[i].name
                            \/ bus'[c] = Absent /\ c \in ToSet(uevents')
      BY <2>2 DEF EntryIsTrue, Present
    <3> DEFINE c == maplist[i].bus
    <3>1. \/ c \in missed
          \/ bus[c].driver \in {"usbip", "leaving"} /\ bus[c].name = maplist[i].name
          \/ bus[c] = Absent /\ c \in ToSet(uevents)
      BY <1>1 DEF MapInv, EntryIsTrue, Present
    <3>2. c \in BusIds
      BY <1>e
    <3>3. CASE c # b
      BY <2>2, <3>1, <3>2, <3>3
    <3>4. CASE c = b
      BY <1>a, <2>2, <2>3, <3>1, <3>4 DEF Seen, Present
    <3> QED
      BY <3>3, <3>4
  <2> QED
    BY <1>1, <2>2, <2>4 DEF MapInv, MappedOnce, B
<1>2. CASE down = "no" /\ (Scan \/ ScanDone \/ SendNext \/ Listen)
  <2>1. UNCHANGED <<bus, uevents, maplist, missed>> /\ at'.pc \notin Taking
    BY <1>2 DEF Scan, ScanDone, SendNext, Listen, At, Goto, TypeInv, TypeOK, Taking
  <2> QED
    BY <1>2, <2>1 DEF MapInv, EntryIsTrue, MappedOnce, Mapped, Present
<1>3. CASE down = "no" /\ NextBusId
  <2>1. PICK b \in todo : at' = [at EXCEPT !.b = b, !.name = bus[b].name,
                                  !.pc = IF CanLoad(bus[b].name) THEN "load" ELSE "next"]
    BY <1>3 DEF NextBusId
  <2>2. at'.b = b /\ b \notin Mapped
    BY <1>3, <2>1 DEF NextBusId, At, ScanInv, ScanOnce, TypeInv, Phase, TypeOK
  <2>3. UNCHANGED <<bus, uevents, maplist, missed>>
    BY <1>3 DEF NextBusId
  <2> QED
    BY <1>3, <2>2, <2>3 DEF MapInv, EntryIsTrue, MappedOnce, Mapped, Present, B
<1>4. CASE down = "no" /\ Receive
  <2> DEFINE b == Head(uevents)
  <2>1. /\ b \in BusIds /\ bus' = bus /\ missed' = missed /\ at.pc = "wait" /\ uevents' = Tail(uevents) /\ uevents # <<>>
        /\ \/ /\ bus[b] = Absent /\ at' = at /\ maplist' = maplist
              /\ b \notin Mapped
           \/ /\ bus[b] = Absent /\ at' = at
              /\ \E i \in DOMAIN maplist : maplist[i].bus = b /\ maplist' = RemoveAt(maplist, i)
           \/ /\ Present(b) /\ maplist' = maplist
              /\ \/ at' = at
                 \/ has_the_dev(bus[b].name, b) = {} /\ at'.b = b
    BY <1>4, ReceiveStep DEF Receive
  <2>2. \A c \in ToSet(uevents) \ {b} : c \in ToSet(uevents')
    BY <2>1, Looked DEF TypeInv, TypeOK
  <2> HIDE DEF b
  <2>3. ASSUME NEW i \in DOMAIN maplist, maplist[i].bus # b \/ Present(b)
        PROVE  LET c == maplist[i].bus
               IN  \/ c \in missed
                   \/ bus[c].driver \in {"usbip", "leaving"} /\ bus[c].name = maplist[i].name
                   \/ ~ Present(c) /\ c \in ToSet(uevents')
    BY <1>4, <2>2, <2>3 DEF MapInv, EntryIsTrue
  <2>4. CASE maplist' = maplist /\ (b \notin Mapped \/ Present(b))
    <3>1. EntryIsTrue'
      BY <1>e, <2>1, <2>3, <2>4 DEF EntryIsTrue, Present
    <3>2. at'.pc \in Taking /\ at'.b \notin missed => at'.b \notin Mapped
      <4> SUFFICES ASSUME at'.b = b, b \notin missed, Present(b), has_the_dev(bus[b].name, b) = {},
                          NEW i \in DOMAIN maplist, maplist[i].bus = b
                   PROVE  FALSE
        BY <2>1 DEF Taking, Mapped
      <4>1. maplist[i].name = bus[b].name
        BY <1>4 DEF MapInv, EntryIsTrue
      <4> QED
        BY <4>1 DEF has_the_dev, SubBus
    <3> QED
      BY <1>4, <2>1, <2>4, <3>1, <3>2 DEF MapInv, MappedOnce, Mapped, B
  <2>5. CASE /\ at' = at
             /\ \E i \in DOMAIN maplist : maplist[i].bus = b /\ maplist' = RemoveAt(maplist, i)
    <3>1. PICK i \in DOMAIN maplist : maplist[i].bus = b /\ maplist' = RemoveAt(maplist, i)
      BY <2>5
    <3>2. /\ \A k \in DOMAIN maplist' : \E j \in DOMAIN maplist : maplist'[k] = maplist[j]
          /\ \A j, k \in DOMAIN maplist' :
               maplist'[j].bus = maplist'[k].bus /\ maplist'[j].bus \notin missed => j = k
          /\ b \notin missed => b \notin Mapped'
      BY <1>4, <3>1, RemovedEntry DEF MapInv, MappedOnce
    <3>3. EntryIsTrue'
      <4> SUFFICES ASSUME NEW k \in DOMAIN maplist'
                   PROVE  LET c == maplist'[k].bus
                          IN  \/ c \in missed
                              \/ bus[c].driver \in {"usbip", "leaving"} /\ bus[c].name = maplist'[k].name
                              \/ ~ Present(c) /\ c \in ToSet(uevents')
        BY <2>1 DEF EntryIsTrue, Present
      <4>1. PICK j \in DOMAIN maplist : maplist'[k] = maplist[j]
        BY <3>2
      <4>2. b \notin missed => maplist[j].bus # b
        BY <3>2, <4>1 DEF Mapped
      <4> QED
        BY <2>3, <4>1, <4>2
    <3>4. at'.pc \notin Taking
      BY <2>1, <2>5 DEF Taking
    <3> QED
      BY <2>1, <3>2, <3>3, <3>4 DEF MapInv, MappedOnce
  <2> QED
    BY <2>1, <2>4, <2>5
<1>5. CASE down = "no" /\ (load_inf_file \/ Reprobe \/ Unbind \/ modify_match_busid
                          \/ bind_to_usbip \/ BindFails)
  <2>1. Works /\ maplist' = maplist /\ at.pc \in Taking
    BY <1>5, LoadStep, ReprobeStep, UnbindStep, MatchStep, BindStep, BindFailsStep DEF Taking
  <2>2. B \notin missed => B \notin Mapped
    BY <1>5, <2>1 DEF MapInv, MappedOnce
  <2>3. \A i \in DOMAIN maplist :
          maplist[i].bus \in missed \/ bus'[maplist[i].bus] = bus[maplist[i].bus]
    BY <1>e, <2>1, <2>2 DEF Works
  <2>4. EntryIsTrue'
    BY <1>5, <2>1, <2>3 DEF MapInv, EntryIsTrue, Works, Present
  <2> QED
    BY <1>5, <2>1, <2>2, <2>4 DEF MapInv, MappedOnce, Mapped, Works, B
<1>6. CASE down = "no" /\ Refresh
  <2>1. /\ Works /\ bus' = bus /\ at.pc = "refresh" /\ at'.pc \notin Taking
        /\ \/ maplist' = maplist
           \/ maplist' = Append(maplist, Entry(B, at.name)) /\ bus[B].driver = "usbip"
    BY <1>6, RefreshStep DEF Taking
  <2>2. CASE maplist' = maplist
    BY <1>6, <2>1, <2>2 DEF MapInv, EntryIsTrue, MappedOnce, Works, Present
  <2>3. CASE maplist' = Append(maplist, Entry(B, at.name)) /\ bus[B].driver = "usbip"
    <3> DEFINE e == Entry(B, at.name)
    <3>1. maplist \in Seq(Entries) /\ e \in Entries /\ e.bus = B /\ e.name = at.name
      BY DEF TypeInv, TypeOK, Entry, Entries, B
    <3>2. B \notin missed => B \notin Mapped
      BY <1>6, <2>1 DEF MapInv, MappedOnce, Taking
    <3>3. B \notin missed => bus[B].name = at.name
      BY <1>b, <2>1, <2>3, Shown DEF AllowedInv, NameIsRead, Taking
    <3> HIDE DEF e
    <3>4. /\ DOMAIN maplist' = DOMAIN maplist \cup {Len(maplist) + 1}
          /\ \A i \in DOMAIN maplist : maplist'[i] = maplist[i]
          /\ maplist'[Len(maplist) + 1] = e
      BY <2>3, <3>1 DEF e
    <3>5. EntryIsTrue'
      <4>1. ASSUME NEW i \in DOMAIN maplist'
            PROVE  LET c == maplist'[i].bus
                   IN  \/ c \in missed
                       \/ bus[c].driver \in {"usbip", "leaving"} /\ bus[c].name = maplist'[i].name
                       \/ ~ Present(c) /\ c \in ToSet(uevents)
        <5>1. CASE i \in DOMAIN maplist
          BY <1>6, <3>4, <5>1 DEF MapInv, EntryIsTrue
        <5>2. CASE i \notin DOMAIN maplist
          BY <2>3, <3>1, <3>3, <3>4, <5>2
        <5> QED
          BY <5>1, <5>2
      <4> QED
        BY <2>1, <4>1 DEF EntryIsTrue, Works, Present
    <3>6. \A i, k \in DOMAIN maplist' :
            maplist'[i].bus = maplist'[k].bus /\ maplist'[i].bus \notin missed => i = k
      BY <1>6, <1>e, <3>1, <3>2, <3>4 DEF MapInv, MappedOnce
    <3> QED
      BY <2>1, <3>5, <3>6 DEF Works, MapInv, MappedOnce
  <2> QED
    BY <2>1, <2>2, <2>3
<1>7. CASE down = "no" /\ (Skip \/ Connect \/ Tell \/ TellFails \/ Export)
  <2>1. /\ at'.pc \notin Taking /\ UNCHANGED <<uevents, missed>>
        /\ DOMAIN maplist' = DOMAIN maplist
        /\ \A i \in DOMAIN maplist :
             maplist'[i].bus = maplist[i].bus /\ maplist'[i].name = maplist[i].name
        /\ \A b \in BusIds : /\ bus'[b].name = bus[b].name /\ bus'[b].driver = bus[b].driver
                             /\ (bus'[b] # Absent <=> Present(b))
    BY <1>7, ToldStep DEF Taking
  <2>2. EntryIsTrue'
    BY <1>7, <1>e, <2>1 DEF MapInv, EntryIsTrue, Present
  <2> QED
    BY <1>7, <2>1, <2>2 DEF MapInv, MappedOnce
<1>8. CASE disconnect_signal_process
  BY <1>8 DEF disconnect_signal_process, MapInv
<1> QED
  BY <1>0, <1>1, <1>2, <1>3, <1>4, <1>5, <1>6, <1>7, <1>8 DEF Next, Daemon

\* When the daemon has looked at all that happened, what usbip has is on its
\* list, and the list is what usbip has but for bus ids whose device came or
\* went unseen: if no bus id is a substring of another and a device's own
\* driver is asked before usbip.
THEOREM MapIsTrueHolds ==
  ASSUME ~ UsbipFirst, NoSubstring
  PROVE  Spec => []MapIsTrue
<1>1. TypeInv /\ ScanInv /\ [Next]_vars => ScanInv'
  BY NextScan
<1>2. TypeInv /\ AllowedInv /\ [Next]_vars => AllowedInv'
  BY NextAllowed
<1>3. TypeInv /\ TakenInv /\ [Next]_vars => TakenInv'
  BY NextTaken
<1>4. TypeInv /\ ScanInv /\ AllowedInv /\ MapInv /\ [Next]_vars => MapInv'
  BY NextMap
<1>5. Init => MapInv
  BY DEF Init, MapInv, EntryIsTrue, MappedOnce, Taking
<1>6. TypeInv /\ TakenInv /\ MapInv => MapIsTrue
  <2> SUFFICES ASSUME TypeInv, TakenInv, MapInv, Settled, NEW b \in BusIds
               PROVE  LET Own == {i \in DOMAIN maplist : maplist[i].bus = b}
                      IN  /\ bus[b].driver = "usbip" => Own # {}
                          /\ b \notin missed =>
                               \A i \in Own : /\ bus[b].driver = "usbip" /\ bus[b].name = maplist[i].name
                                            /\ Own = {i}
    BY DEF MapIsTrue
  <2>1. down = "no" /\ at.pc = "wait" /\ ToSet(uevents) = {} /\ bus[b].driver # "leaving"
    BY DEF Settled, At, ToSet
  <2>2. bus[b].driver = "usbip" => \E i \in DOMAIN maplist : maplist[i].bus = b
    BY <2>1 DEF TakenInv, TakenIsMapped, Mapped
  <2>3. ASSUME b \notin missed, NEW i \in DOMAIN maplist, maplist[i].bus = b
        PROVE  /\ bus[b].driver = "usbip" /\ bus[b].name = maplist[i].name
               /\ \A k \in DOMAIN maplist : maplist[k].bus = b => k = i
    BY <2>1, <2>3 DEF MapInv, EntryIsTrue, MappedOnce
  <2> QED
    BY <2>2, <2>3
<1> QED
  BY <1>1, <1>2, <1>3, <1>4, <1>5, <1>6, InitTaken, InitAllowed, InitScan, InitType, NextType, PTL DEF Spec
=============================================================================
