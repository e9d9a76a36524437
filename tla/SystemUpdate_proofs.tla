------------------------- MODULE SystemUpdate_proofs -------------------------
(***************************************************************************)
(* Proofs about system-update, for any number of releases and files, any   *)
(* number of stored packages and of cuts, at any step, provided that no    *)
(* two processes run at a time and that the names of the updates sort as   *)
(* their numbers do.                                                       *)
(*                                                                         *)
(* Inv is inductive.  What makes it so is Progress: out of a whole folder  *)
(* of the newest release, the updates still to install are the last ones,  *)
(* and no file is older than an update that is installed.  A process that  *)
(* was cut off leaves files of any release up to the newest that was begun *)
(* (Mixture); the next one starts at the first update and makes them all   *)
(* new again, those that the updates carry.                                *)
(***************************************************************************)
EXTENDS SystemUpdate, NaturalsInduction, WellFoundedInduction, TLAPS

Processes ==
  [pc : Pcs, pkg : 0 .. Newest, half : BOOLEAN, todo : SUBSET (0 .. Newest),
   upd : 0 .. Newest, left : SUBSET Paths,
   result : {"none", "success", "failed", "new program", "died", "cut"}]

Folders == [Packages -> [there : BOOLEAN, items : SUBSET (0 .. Newest)]]

\* What is to be shown of one process.
Knowledge(p) == KnowsPackage(p) /\ KnowsUpdate(p) /\ Progress(p) /\ KnowsResult(p)

SucceedsComplete(p) ==
  At(p, "clear") /\ proc[p].result = "success"
    => Complete(Pkg(p)) \/ proc[p].half \/ Pkg(p) < tried

\* The releases and their packages.
LEMMA Releases ==
  /\ Newest \in Nat /\ MaxCuts \in Nat
  /\ \A i \in 0 .. Newest : i \in Nat /\ Release[i] \in [Paths -> Contents]
  /\ None \in Contents /\ None \notin Links /\ Kept \subseteq Links
  /\ Packages \subseteq 0 .. Newest
BY UpdateAssumption DEF Packages

\* The parts of the type invariant that steps change.
LEMMA Types ==
  ASSUME TypeOK
  PROVE  /\ fs \in [Paths -> Contents]
         /\ stored \subseteq Packages
         /\ tmp \in Folders
         /\ program \in {"whole", "partial", "mode"}
         /\ proc \in [Procs -> Processes]
         /\ tried \in 0 .. Newest /\ tried \in Nat
         /\ told \in {"nothing", "failed", "wrong"}
         /\ cuts \in 0 .. MaxCuts
<1>1. tried \in 0 .. Newest
  BY DEF TypeOK
<1>2. fs \in [Paths -> Contents] /\ stored \subseteq Packages /\ tmp \in Folders
  BY DEF TypeOK, Folders
<1>3. program \in {"whole", "partial", "mode"} /\ told \in {"nothing", "failed", "wrong"}
  BY DEF TypeOK
<1>4. proc \in [Procs -> Processes] /\ cuts \in 0 .. MaxCuts
  BY DEF TypeOK, Processes
<1>. QED  BY <1>1, <1>2, <1>3, <1>4, Releases

\* and back.
LEMMA TypesPrime ==
  ASSUME fs' \in [Paths -> Contents], stored' \subseteq Packages, tmp' \in Folders,
         program' \in {"whole", "partial", "mode"}, proc' \in [Procs -> Processes],
         tried' \in 0 .. Newest, told' \in {"nothing", "failed", "wrong"},
         cuts' \in 0 .. MaxCuts
  PROVE  TypeOK'
BY DEF TypeOK, Folders, Processes

\* A process that does nothing knows nothing.
LEMMA IdleKnows ==
  ASSUME NEW q \in Procs, proc[q].pc = "idle"
  PROVE  Knowledge(q) /\ SucceedsComplete(q)
BY DEF Knowledge, KnowsPackage, KnowsUpdate, Progress, KnowsResult, SucceedsComplete,
       At, Moving, Installing

\* The same of the next state.
LEMMA IdleKnowsPrime ==
  ASSUME NEW q \in Procs, proc'[q].pc = "idle"
  PROVE  Knowledge(q)' /\ SucceedsComplete(q)'
BY DEF Knowledge, KnowsPackage, KnowsUpdate, Progress, KnowsResult, SucceedsComplete,
       At, Moving, Installing

\* While a process runs, the others wait to be started.
LEMMA OthersWait ==
  ASSUME TypeOK, OneProcess, NEW p \in Procs, Runs(p), NEW r \in Processes,
         proc' = [proc EXCEPT ![p] = r]
  PROVE  /\ proc'[p] = r
         /\ \A q \in Procs \ {p} : proc'[q].pc = "idle"
         /\ proc' \in [Procs -> Processes]
         /\ OneProcess'
<1>1. proc \in [Procs -> Processes]
  BY Types
<1>2. \A q \in Procs \ {p} : proc[q].pc = "idle"
  BY DEF OneProcess, Runs, At
<1>3. /\ proc'[p] = r
      /\ \A q \in Procs \ {p} : proc'[q].pc = "idle"
      /\ proc' \in [Procs -> Processes]
  BY <1>1, <1>2
<1>4. OneProcess'
  BY <1>3 DEF OneProcess, Runs, At
<1>. QED  BY <1>3, <1>4

\* A step of the running process: what it then knows, and what is said of
\* all, is what has to be shown.
LEMMA RunnerInv ==
  ASSUME Inv, NEW p \in Procs, Runs(p), NEW r \in Processes,
         proc' = [proc EXCEPT ![p] = r],
         fs' \in [Paths -> Contents], stored' \subseteq Packages, tmp' \in Folders,
         program' \in {"whole", "partial", "mode"}, tried' \in 0 .. Newest,
         told' \in {"nothing", "failed", "wrong"}, cuts' \in 0 .. MaxCuts,
         ItemsOfPackage', Mixture', CanBeFinished',
         Knowledge(p)', SucceedsComplete(p)'
  PROVE  Inv'
<1>1. /\ \A q \in Procs \ {p} : proc'[q].pc = "idle"
      /\ proc' \in [Procs -> Processes] /\ OneProcess'
  BY OthersWait DEF Inv
<1>2. TypeOK'
  BY <1>1, TypesPrime
<1>3. \A q \in Procs : Knowledge(q)' /\ SucceedsComplete(q)'
  BY <1>1, IdleKnowsPrime
<1>4. \A q \in Procs : KnowsPackage(q)' /\ KnowsUpdate(q)' /\ Progress(q)' /\ KnowsResult(q)'
  BY <1>3 DEF Knowledge
<1>5. SuccessMeansComplete'
  BY <1>3 DEF SuccessMeansComplete, SucceedsComplete
<1>. QED  BY <1>1, <1>2, <1>4, <1>5 DEF Inv

\* The process goes on to another step than the clearing, with the same
\* packages.
LEMMA GoesOnInv ==
  ASSUME Inv, NEW p \in Procs, Runs(p), NEW r \in Processes, r.pc # "clear",
         proc' = [proc EXCEPT ![p] = r], UNCHANGED <<stored, told>>,
         fs' \in [Paths -> Contents], tmp' \in Folders,
         program' \in {"whole", "partial", "mode"}, tried' \in 0 .. Newest,
         cuts' \in 0 .. MaxCuts,
         (fs' = fs /\ tried' = tried) \/ stored # {},
         ItemsOfPackage', Mixture', KnowsPackage(p)', KnowsUpdate(p)', Progress(p)'
  PROVE  Inv'
<1>1. proc'[p] = r
  BY OthersWait DEF Inv
<1>2. KnowsResult(p)' /\ SucceedsComplete(p)'
  BY <1>1 DEF KnowsResult, SucceedsComplete, At
<1>3. CanBeFinished'
  BY DEF Inv, CanBeFinished, Complete, Carried
<1>4. stored' \subseteq Packages /\ told' \in {"nothing", "failed", "wrong"}
  BY Types DEF Inv
<1>. QED  BY <1>2, <1>3, <1>4, RunnerInv DEF Knowledge

\* The same if it does not install, and the files stay.
LEMMA MovesOnInv ==
  ASSUME Inv, NEW p \in Procs, Runs(p), NEW r \in Processes,
         r.pc # "clear", r.pc \notin Installing,
         proc' = [proc EXCEPT ![p] = r], UNCHANGED <<fs, stored, tried, told>>,
         tmp' \in Folders, program' \in {"whole", "partial", "mode"},
         cuts' \in 0 .. MaxCuts, ItemsOfPackage', KnowsPackage(p)'
  PROVE  Inv'
<1>1. proc'[p] = r
  BY OthersWait DEF Inv
<1>2. KnowsUpdate(p)' /\ Progress(p)'
  BY <1>1 DEF KnowsUpdate, Progress, Installing, At
<1>3. Mixture'
  BY DEF Inv, Mixture, From, Carried
<1>4. fs' \in [Paths -> Contents] /\ tried' \in 0 .. Newest
  BY Types DEF Inv
<1>. QED  BY <1>2, <1>3, <1>4, GoesOnInv

\* It ends, or is cut off.
LEMMA EndsInv ==
  ASSUME Inv, NEW p \in Procs, Runs(p), NEW r \in Processes, r.pc = "idle",
         proc' = [proc EXCEPT ![p] = r], UNCHANGED <<fs, stored, tried, told>>,
         tmp' \in Folders, program' \in {"whole", "partial", "mode"},
         cuts' \in 0 .. MaxCuts, ItemsOfPackage'
  PROVE  Inv'
<1>1. proc'[p] = r
  BY OthersWait DEF Inv
<1>2. KnowsPackage(p)'
  BY <1>1 DEF KnowsPackage, Moving, Installing, At
<1>3. r.pc # "clear" /\ r.pc \notin Installing
  BY DEF Installing
<1>. QED  BY <1>2, <1>3, MovesOnInv

\* It fails, and goes on to clear everything.
LEMMA FailedInv ==
  ASSUME Inv, NEW p \in Procs, Runs(p), Failed(p),
         UNCHANGED <<fs, stored, tmp, program, tried, cuts>>
  PROVE  Inv'
<1> DEFINE r == [proc[p] EXCEPT !.pc = "clear", !.result = "failed"]
<1>1. proc[p] \in Processes
  BY Types DEF Inv
<1>2. /\ r \in Processes /\ r.pc = "clear" /\ r.result = "failed"
      /\ proc' = [proc EXCEPT ![p] = r] /\ told' = "failed"
  BY <1>1 DEF Failed, Processes, Pcs
<1> HIDE DEF r
<1>3. proc'[p] = r
  BY <1>2, OthersWait DEF Inv
<1>4. Knowledge(p)'
  BY <1>2, <1>3 DEF Knowledge, KnowsPackage, KnowsUpdate, Progress, KnowsResult, At,
                    Moving, Installing
<1>5. SucceedsComplete(p)' /\ CanBeFinished'
  BY <1>2, <1>3 DEF SucceedsComplete, CanBeFinished, At
<1>6. ItemsOfPackage' /\ Mixture'
  BY DEF Inv, ItemsOfPackage, Mixture, From, Carried
<1>7. /\ fs' \in [Paths -> Contents] /\ stored' \subseteq Packages /\ tmp' \in Folders
      /\ program' \in {"whole", "partial", "mode"} /\ tried' \in 0 .. Newest
      /\ told' \in {"nothing", "failed", "wrong"} /\ cuts' \in 0 .. MaxCuts
  BY <1>2, Types DEF Inv
<1>. QED  BY <1>2, <1>4, <1>5, <1>6, <1>7, RunnerInv

\* The first start.
LEMMA InitInv == Init => Inv
<1> SUFFICES ASSUME Init PROVE Inv
  OBVIOUS
<1>1. Newest \in Nat /\ 0 \in 0 .. Newest /\ 0 \in 0 .. MaxCuts
  BY Releases
<1>2. Idle \in Processes /\ NoFolder \in [there : BOOLEAN, items : SUBSET (0 .. Newest)]
  BY <1>1 DEF Idle, NoFolder, Processes, Pcs
<1>3. fs \in [Paths -> Contents] /\ stored \subseteq Packages /\ tmp \in Folders
  BY <1>1, <1>2, Releases DEF Init, Folders
<1>4. /\ program \in {"whole", "partial", "mode"} /\ proc \in [Procs -> Processes]
      /\ tried \in 0 .. Newest /\ told \in {"nothing", "failed", "wrong"}
      /\ cuts \in 0 .. MaxCuts
  BY <1>1, <1>2 DEF Init
<1>5. TypeOK
  BY <1>3, <1>4 DEF TypeOK, Folders, Processes
<1>6. \A q \in Procs : proc[q].pc = "idle"
  BY DEF Init, Idle
<1>7. \A q \in Procs : Knowledge(q) /\ SucceedsComplete(q)
  BY <1>6, IdleKnows
<1>8. /\ \A q \in Procs : KnowsPackage(q) /\ KnowsUpdate(q) /\ Progress(q) /\ KnowsResult(q)
      /\ SuccessMeansComplete /\ OneProcess
  BY <1>6, <1>7 DEF Knowledge, SuccessMeansComplete, SucceedsComplete, OneProcess, Runs, At
<1>9. ItemsOfPackage /\ Mixture /\ CanBeFinished
  BY <1>1 DEF Init, ItemsOfPackage, NoFolder, Mixture, From, CanBeFinished, Complete
<1>. QED  BY <1>5, <1>8, <1>9 DEF Inv

\* A process is started when none runs.
LEMMA StartInv == ASSUME Alone, Inv, NEW p \in Procs, Start(p) PROVE Inv'
<1> DEFINE r == [Idle EXCEPT !.pc = "check"]
<1>1. 0 \in 0 .. Newest
  BY Releases
<1>2. r \in Processes /\ r.pc = "check"
  BY <1>1 DEF Idle, Processes, Pcs
<1>3. /\ \A q \in Procs : proc[q].pc = "idle"
      /\ proc' = [proc EXCEPT ![p] = r]
      /\ UNCHANGED <<fs, stored, tmp, program, tried, told, cuts>>
  BY DEF Alone, Start, Become, Runs, At
<1> HIDE DEF r
<1>4. proc \in [Procs -> Processes]
  BY Types DEF Inv
<1>5. /\ proc'[p] = r /\ proc' \in [Procs -> Processes]
      /\ \A q \in Procs \ {p} : proc'[q].pc = "idle"
  BY <1>2, <1>3, <1>4
<1>6. TypeOK'
  BY <1>3, <1>5, Types, TypesPrime DEF Inv
<1>7. OneProcess'
  BY <1>5 DEF OneProcess, Runs, At
<1>8. Knowledge(p)' /\ SucceedsComplete(p)'
  BY <1>2, <1>5 DEF Knowledge, KnowsPackage, KnowsUpdate, Progress, KnowsResult,
                    SucceedsComplete, At, Moving, Installing
<1>9. \A q \in Procs : Knowledge(q)' /\ SucceedsComplete(q)'
  BY <1>5, <1>8, IdleKnowsPrime
<1>10. /\ \A q \in Procs : KnowsPackage(q)' /\ KnowsUpdate(q)' /\ Progress(q)' /\ KnowsResult(q)'
       /\ SuccessMeansComplete'
  BY <1>9 DEF Knowledge, SuccessMeansComplete, SucceedsComplete
<1>11. ItemsOfPackage' /\ Mixture' /\ CanBeFinished'
  BY <1>3 DEF Inv, ItemsOfPackage, Mixture, From, Carried, CanBeFinished, Complete
<1>. QED  BY <1>6, <1>7, <1>10, <1>11 DEF Inv

\* What the invariant says of a running process.
LEMMA Knows ==
  ASSUME Inv, NEW p \in Procs
  PROVE  proc[p] \in Processes /\ Knowledge(p) /\ SucceedsComplete(p)
BY Types DEF Inv, Knowledge, SuccessMeansComplete, SucceedsComplete

\* and of its package, from the moment it is found.
LEMMA KnowsStored ==
  ASSUME Inv, NEW p \in Procs,
         proc[p].pc \in {"unpack", "unpacking"} \cup Moving \cup Installing
  PROVE  /\ Pkg(p) \in stored /\ Pkg(p) \in Packages /\ Pkg(p) \in 0 .. Newest
         /\ Pkg(p) \in Nat /\ Pkg(p) <= tried /\ tried \in Nat
<1>1. Pkg(p) \in stored /\ Pkg(p) <= tried
  BY DEF Inv, KnowsPackage
<1>2. Pkg(p) \in Packages
  BY <1>1, Types DEF Inv
<1>. QED  BY <1>1, <1>2, Types, Releases DEF Inv

\* A step that only moves on, at places where nothing is known.
LEMMA CheckInv == ASSUME Inv, NEW p \in Procs, Check(p) PROVE Inv'
<1>1. CASE Failed(p)
  BY <1>1, FailedInv DEF Check, Runs, At
<1>2. CASE Goto(p, "find")
  <2> DEFINE r == [proc[p] EXCEPT !.pc = "find"]
  <2>1. /\ Runs(p) /\ r \in Processes /\ r.pc = "find" /\ proc' = [proc EXCEPT ![p] = r]
        /\ UNCHANGED <<fs, stored, tmp, program, tried, told, cuts>>
    BY <1>2, Knows DEF Check, Goto, Become, Runs, At, Processes, Pcs
  <2> HIDE DEF r
  <2>2. proc'[p] = r
    BY <2>1, OthersWait DEF Inv
  <2>3. KnowsPackage(p)' /\ ItemsOfPackage'
    BY <2>1, <2>2 DEF KnowsPackage, Moving, Installing, At, Inv, ItemsOfPackage
  <2>4. r.pc # "clear" /\ r.pc \notin Installing
    BY <2>1 DEF Installing
  <2>. QED  BY <2>1, <2>3, <2>4, Types, MovesOnInv DEF Inv
<1>. QED  BY <1>1, <1>2 DEF Check

\* No package is found.
LEMMA FindNoneInv == ASSUME Inv, NEW p \in Procs, FindNone(p) PROVE Inv'
BY FailedInv DEF FindNone, Runs, At

\* What the updates up to a release carry, those up to an older one carry.
LEMMA CarriedBefore ==
  ASSUME NEW f, NEW k \in Nat, NEW i \in Nat, i <= k, Carried(f, k)
  PROVE  Carried(f, i)
<1>1. 1 .. i \subseteq 1 .. k
  OBVIOUS
<1>. QED  BY <1>1 DEF Carried

\* The last package by name is taken: releases that were begun are older, or
\* it is not the newest.
LEMMA FindInv == ASSUME Inv, NEW p \in Procs, Find(p) PROVE Inv'
<1>1. PICK k \in stored :
        /\ Become(p, [proc[p] EXCEPT !.pkg = k, !.half = tmp[k].there /\ ~ Whole(k),
                        !.pc = IF tmp[k].there THEN "program" ELSE "unpack"])
        /\ tried' = IF k > tried THEN k ELSE tried
  BY DEF Find
<1> DEFINE r == [proc[p] EXCEPT !.pkg = k, !.half = tmp[k].there /\ ~ Whole(k),
                   !.pc = IF tmp[k].there THEN "program" ELSE "unpack"]
<1>2. k \in Packages /\ k \in 0 .. Newest /\ k \in Nat /\ tried \in 0 .. Newest /\ tried \in Nat
  <2>1. k \in Packages
    BY Types DEF Inv
  <2>. QED  BY <2>1, Types, Releases DEF Inv
<1>3. tried' \in 0 .. Newest /\ tried' \in Nat /\ tried <= tried' /\ k <= tried'
  BY <1>1, <1>2
<1>4. proc[p] \in Processes /\ tmp \in Folders /\ tmp[k].there \in BOOLEAN
  BY <1>2, Knows, Types DEF Inv, Folders
<1>5. /\ Runs(p) /\ r \in Processes /\ proc' = [proc EXCEPT ![p] = r]
      /\ UNCHANGED <<fs, stored, tmp, program, told, cuts>>
  BY <1>1, <1>2, <1>4 DEF Find, Become, Runs, At, Processes, Pcs
<1>6. /\ r.pkg = k /\ r.half = (tmp[k].there /\ ~ Whole(k))
      /\ r.pc = IF tmp[k].there THEN "program" ELSE "unpack"
  BY <1>4 DEF Processes
<1> HIDE DEF r
<1>7. proc'[p] = r
  BY <1>5, OthersWait DEF Inv
<1>8. KnowsPackage(p)'
  <2>1. k \in stored' /\ Pkg(p)' = k
    BY <1>5, <1>6, <1>7 DEF Pkg
  <2>2. ~ At(p, "unpacking")'
    BY <1>6, <1>7 DEF At
  <2>3. proc'[p].pc \in Moving /\ ~ proc'[p].half => Whole(k)'
    BY <1>5, <1>6, <1>7 DEF Moving, Whole
  <2>. QED  BY <1>3, <2>1, <2>2, <2>3 DEF KnowsPackage
<1>9. KnowsUpdate(p)' /\ Progress(p)'
  BY <1>6, <1>7 DEF KnowsUpdate, Progress, Installing, At
<1>10. Mixture'
  <2>1. ASSUME NEW f \in Paths, Carried(f, tried)'
        PROVE  \E i \in 0 .. tried' : From(f, i)'
    <3>1. Carried(f, tried')
      BY <2>1 DEF Carried
    <3>2. Carried(f, tried)
      BY <1>2, <1>3, <3>1, CarriedBefore
    <3>3. PICK i \in 0 .. tried : From(f, i)
      BY <3>2 DEF Inv, Mixture
    <3>4. i \in 0 .. tried'
      BY <1>2, <1>3
    <3>. QED  BY <1>5, <3>3, <3>4 DEF From
  <2>. QED  BY <2>1 DEF Mixture
<1>11. ItemsOfPackage' /\ r.pc # "clear" /\ stored # {}
  BY <1>5, <1>6 DEF Inv, ItemsOfPackage
<1>. QED  BY <1>3, <1>5, <1>8, <1>9, <1>10, <1>11, Types, GoesOnInv DEF Inv

\* What is written into, or removed from, the folder of one package leaves
\* the others.
LEMMA FolderChanges ==
  ASSUME Inv, NEW k \in Packages, NEW b \in BOOLEAN, NEW S \in SUBSET (0 .. k),
         tmp' = [tmp EXCEPT ![k] = [there |-> b, items |-> S]]
  PROVE  tmp' \in Folders /\ ItemsOfPackage' /\ tmp'[k].items = S /\ tmp'[k].there = b
<1>1. tmp \in Folders /\ k \in Nat /\ k <= Newest
  BY Types, Releases DEF Inv, Packages
<1>2. 0 .. k \subseteq 0 .. Newest
  BY <1>1, Releases
<1>3. [there |-> b, items |-> S] \in [there : BOOLEAN, items : SUBSET (0 .. Newest)]
  BY <1>2
<1>4. /\ tmp' \in Folders /\ tmp'[k] = [there |-> b, items |-> S]
      /\ \A j \in Packages \ {k} : tmp'[j] = tmp[j]
  BY <1>1, <1>3 DEF Folders
<1>5. tmp'[k].items = S /\ tmp'[k].there = b
  BY <1>4
<1>6. ASSUME NEW j \in Packages PROVE tmp'[j].items \subseteq 0 .. j
  <2>1. CASE j = k
    BY <1>5, <2>1
  <2>2. CASE j # k
    BY <1>4, <2>2 DEF Inv, ItemsOfPackage
  <2>. QED  BY <2>1, <2>2
<1>. QED  BY <1>4, <1>5, <1>6 DEF ItemsOfPackage

\* The items of the package that is worked on.
LEMMA PackageItems ==
  ASSUME Inv, NEW k \in Packages
  PROVE  tmp[k].items \in SUBSET (0 .. k) /\ tmp[k].there \in BOOLEAN
         /\ tmp[k] = [there |-> tmp[k].there, items |-> tmp[k].items]
         /\ Items(k) \in SUBSET (0 .. k) /\ 1 .. k \subseteq Items(k)
<1>1. tmp[k] \in [there : BOOLEAN, items : SUBSET (0 .. Newest)]
  BY Types DEF Inv, Folders
<1>2. tmp[k].items \subseteq 0 .. k
  BY DEF Inv, ItemsOfPackage
<1>3. Items(k) \subseteq 0 .. k /\ 1 .. k \subseteq Items(k)
  BY Releases DEF Items, Packages
<1>. QED  BY <1>1, <1>2, <1>3

\* The package is unpacked,
LEMMA UnpackOpenInv == ASSUME Inv, NEW p \in Procs, UnpackOpen(p) PROVE Inv'
<1>1. At(p, "unpack") /\ Runs(p) /\ UNCHANGED <<fs, stored, program, tried, cuts>>
  BY DEF UnpackOpen, Runs, At
<1>2. CASE Failed(p) /\ UNCHANGED tmp
  BY <1>1, <1>2, FailedInv
<1>3. CASE /\ tmp' = [tmp EXCEPT ![Pkg(p)] = [there |-> TRUE, items |-> @.items]]
           /\ Become(p, [proc[p] EXCEPT !.pc = "unpacking", !.todo = Items(Pkg(p))])
  <2> DEFINE r == [proc[p] EXCEPT !.pc = "unpacking", !.todo = Items(Pkg(p))]
             k == Pkg(p)
             S == tmp[k].items
  <2>1. k \in stored /\ k \in Packages /\ k \in Nat /\ k <= tried /\ k \in 0 .. Newest
    BY <1>1, KnowsStored DEF At
  <2>2. /\ S \in SUBSET (0 .. k) /\ Items(k) \in SUBSET (0 .. k) /\ 1 .. k \subseteq Items(k)
        /\ tmp' = [tmp EXCEPT ![k] = [there |-> TRUE, items |-> S]]
    BY <1>3, <2>1, PackageItems
  <2>3. tmp' \in Folders /\ ItemsOfPackage' /\ tmp'[k].items = S
    <3> HIDE DEF k, S
    <3>. QED  BY <2>1, <2>2, FolderChanges
  <2>4. Items(k) \in SUBSET (0 .. Newest)
    BY <2>1, <2>2, Releases
  <2>5. /\ r \in Processes /\ proc' = [proc EXCEPT ![p] = r] /\ UNCHANGED told
        /\ r.pc = "unpacking" /\ r.pkg = k /\ r.todo = Items(k)
    BY <1>3, <2>1, <2>4, Knows DEF Become, Processes, Pcs, Pkg
  <2> HIDE DEF r, k, S
  <2>6. proc'[p] = r
    BY <1>1, <2>5, OthersWait DEF Inv
  <2>7. KnowsPackage(p)'
    BY <1>1, <2>1, <2>2, <2>3, <2>5, <2>6 DEF KnowsPackage, Moving, Installing, At, Pkg
  <2>8. r.pc # "clear" /\ r.pc \notin Installing
    BY <2>5 DEF Installing
  <2>. QED  BY <1>1, <2>3, <2>5, <2>7, <2>8, Types, MovesOnInv DEF Inv
<1>. QED  BY <1>2, <1>3 DEF UnpackOpen

\* item by item,
LEMMA UnpackItemInv == ASSUME Inv, NEW p \in Procs, UnpackItem(p) PROVE Inv'
<1>1. At(p, "unpacking") /\ Runs(p) /\ UNCHANGED <<fs, stored, program, tried, cuts>>
  BY DEF UnpackItem, Runs, At
<1>2. PICK u \in proc[p].todo :
        /\ Become(p, [proc[p] EXCEPT !.todo = @ \ {u}])
        /\ tmp' = [tmp EXCEPT ![Pkg(p)] = [there |-> TRUE, items |-> @.items \cup {u}]]
  BY DEF UnpackItem
<1> DEFINE r == [proc[p] EXCEPT !.todo = @ \ {u}]
           k == Pkg(p)
           S == tmp[k].items \cup {u}
<1>3. k \in stored /\ k \in Packages /\ k <= tried
  BY <1>1, KnowsStored DEF At
<1>4. proc[p].todo \subseteq 0 .. k /\ 1 .. k \subseteq tmp[k].items \cup proc[p].todo
  BY <1>1 DEF Inv, KnowsPackage
<1>5. S \in SUBSET (0 .. k) /\ tmp' = [tmp EXCEPT ![k] = [there |-> TRUE, items |-> S]]
  BY <1>2, <1>3, <1>4, PackageItems
<1>6. tmp' \in Folders /\ ItemsOfPackage' /\ tmp'[k].items = S
  <2> HIDE DEF k, S
  <2>. QED  BY <1>3, <1>5, FolderChanges
<1>7. /\ r \in Processes /\ proc' = [proc EXCEPT ![p] = r] /\ UNCHANGED told
      /\ r.pc = "unpacking" /\ r.pkg = k /\ r.todo = proc[p].todo \ {u}
  BY <1>1, <1>2, Knows DEF Become, Processes, Pkg, At
<1>8. r.todo \subseteq 0 .. k /\ 1 .. k \subseteq S \cup r.todo
  BY <1>4, <1>7
<1> HIDE DEF r, k, S
<1>9. proc'[p] = r
  BY <1>1, <1>7, OthersWait DEF Inv
<1>10. KnowsPackage(p)'
  BY <1>1, <1>3, <1>6, <1>7, <1>8, <1>9 DEF KnowsPackage, Moving, Installing, At, Pkg
<1>11. r.pc # "clear" /\ r.pc \notin Installing
  BY <1>7 DEF Installing
<1>. QED  BY <1>1, <1>6, <1>7, <1>10, <1>11, Types, MovesOnInv DEF Inv

\* The process moves on while nothing but its place changes.
LEMMA GotoInv ==
  ASSUME Inv, NEW p \in Procs, NEW c \in Moving, Runs(p), Goto(p, c),
         Pkg(p) \in stored, Pkg(p) <= tried,
         ~ proc[p].half => Whole(Pkg(p))',
         UNCHANGED <<fs, stored, tried, cuts>>, tmp' \in Folders,
         program' \in {"whole", "partial", "mode"}, ItemsOfPackage'
  PROVE  Inv'
<1> DEFINE r == [proc[p] EXCEPT !.pc = c]
<1>1. /\ r \in Processes /\ proc' = [proc EXCEPT ![p] = r] /\ UNCHANGED told
      /\ r.pc = c /\ r.pkg = Pkg(p) /\ r.half = proc[p].half
  BY Knows DEF Goto, Become, Processes, Pcs, Moving, Pkg
<1> HIDE DEF r
<1>2. proc'[p] = r
  BY <1>1, OthersWait DEF Inv
<1>3. KnowsPackage(p)'
  BY <1>1, <1>2 DEF KnowsPackage, Moving, At, Pkg
<1>4. r.pc # "clear" /\ r.pc \notin Installing
  BY <1>1 DEF Moving, Installing
<1>. QED  BY <1>1, <1>3, <1>4, Types, MovesOnInv DEF Inv

\* to the end.
LEMMA UnpackDoneInv == ASSUME Inv, NEW p \in Procs, UnpackDone(p) PROVE Inv'
<1>1. /\ At(p, "unpacking") /\ Runs(p) /\ proc[p].todo = {}
      /\ UNCHANGED <<fs, stored, tmp, program, tried, cuts>> /\ Goto(p, "program")
  BY DEF UnpackDone, Runs, At
<1>2. Pkg(p) \in stored /\ Pkg(p) <= tried
  BY <1>1, KnowsStored DEF At
<1>3. 1 .. Pkg(p) \subseteq tmp[Pkg(p)].items
  BY <1>1 DEF Inv, KnowsPackage
<1>4. Whole(Pkg(p))'
  <2>1. proc'[p].pkg = proc[p].pkg
    BY <1>1, Types DEF Goto, Become, Inv, Processes
  <2>. QED  BY <1>1, <1>3, <2>1 DEF Whole, Pkg
<1>5. ItemsOfPackage' /\ "program" \in Moving
  BY <1>1 DEF Inv, ItemsOfPackage, Moving
<1>. QED  BY <1>1, <1>2, <1>4, <1>5, Types, GotoInv DEF Inv

\* A damaged package.
LEMMA TarFailsInv == ASSUME Inv, NEW p \in Procs, TarFails(p) PROVE Inv'
BY FailedInv DEF TarFails, Runs, At

\* The process ends with an exception.
LEMMA RaisesInv ==
  ASSUME Inv, NEW p \in Procs, Runs(p), Raises(p),
         UNCHANGED <<fs, stored, tmp, program, tried, cuts>>
  PROVE  Inv'
<1> DEFINE r == [Idle EXCEPT !.result = "died"]
<1>1. 0 \in 0 .. Newest
  BY Releases
<1>2. r \in Processes /\ r.pc = "idle" /\ proc' = [proc EXCEPT ![p] = r] /\ UNCHANGED told
  BY <1>1 DEF Raises, Become, Idle, Processes, Pcs
<1> HIDE DEF r
<1>3. ItemsOfPackage'
  BY DEF Inv, ItemsOfPackage
<1>. QED  BY <1>2, <1>3, Types, EndsInv DEF Inv

\* What a process that replaces the program knows.
LEMMA MovingKnows ==
  ASSUME Inv, NEW p \in Procs, proc[p].pc \in Moving
  PROVE  /\ Pkg(p) \in stored /\ Pkg(p) <= tried /\ Pkg(p) \in Packages
         /\ ~ proc[p].half => 1 .. Pkg(p) \subseteq tmp[Pkg(p)].items
BY KnowsStored DEF Inv, KnowsPackage, Whole

\* The new program leaves the folder, the updates stay.
LEMMA ProgramLeaves ==
  ASSUME Inv, NEW p \in Procs, proc[p].pc \in Moving, Goto(p, "chmod"),
         tmp' = [tmp EXCEPT ![Pkg(p)].items = @ \ {0}],
         UNCHANGED <<fs, stored, tried, cuts>>, program' \in {"whole", "partial", "mode"}
  PROVE  Inv'
<1> DEFINE k == Pkg(p)
           S == tmp[k].items \ {0}
           b == tmp[k].there
<1>1. /\ k \in stored /\ k <= tried /\ k \in Packages
      /\ ~ proc[p].half => 1 .. k \subseteq tmp[k].items
  BY MovingKnows
<1>2. b \in BOOLEAN /\ S \in SUBSET (0 .. k) /\ tmp[k] = [there |-> b, items |-> tmp[k].items]
  BY <1>1, PackageItems
<1>3. tmp' = [tmp EXCEPT ![k] = [there |-> b, items |-> S]]
  <2>1. [tmp[k] EXCEPT !.items = @ \ {0}] = [there |-> b, items |-> S]
    <3>1. ASSUME NEW i, NEW c, NEW v, v = [there |-> c, items |-> i]
          PROVE  [v EXCEPT !.items = @ \ {0}] = [there |-> c, items |-> i \ {0}]
      BY <3>1
    <3>. QED  BY <1>2, <3>1
  <2>. QED  BY <2>1
<1>4. tmp' \in Folders /\ ItemsOfPackage' /\ tmp'[k].items = S
  <2> HIDE DEF k, S, b
  <2>. QED  BY <1>1, <1>2, <1>3, FolderChanges
<1>5. ~ proc[p].half => Whole(Pkg(p))'
  <2>1. proc'[p].pkg = k
    BY Types DEF Goto, Become, Inv, Processes, Pkg
  <2>2. ~ proc[p].half => 1 .. k \subseteq S
    BY <1>1
  <2> HIDE DEF k, S
  <2>. QED  BY <1>4, <2>1, <2>2 DEF Whole, Pkg
<1>6. Runs(p) /\ "chmod" \in Moving
  BY DEF Runs, At, Moving
<1>. QED  BY <1>1, <1>4, <1>5, <1>6, GotoInv

\* The process moves on, the folders stay.
LEMMA GoesAlong ==
  ASSUME Inv, NEW p \in Procs, proc[p].pc \in Moving, NEW c \in Moving, Goto(p, c),
         UNCHANGED <<fs, stored, tmp, tried, cuts>>,
         program' \in {"whole", "partial", "mode"}
  PROVE  Inv'
<1>1. /\ Pkg(p) \in stored /\ Pkg(p) <= tried
      /\ ~ proc[p].half => 1 .. Pkg(p) \subseteq tmp[Pkg(p)].items
  BY MovingKnows
<1>2. proc'[p].pkg = proc[p].pkg
  BY Types DEF Goto, Become, Inv, Processes
<1>3. ~ proc[p].half => Whole(Pkg(p))'
  BY <1>1, <1>2 DEF Whole, Pkg
<1>4. Runs(p) /\ ItemsOfPackage'
  BY DEF Runs, At, Moving, Inv, ItemsOfPackage
<1>. QED  BY <1>1, <1>3, <1>4, Types, GotoInv DEF Inv

\* The new program takes the old one's place, renamed or copied, or there is
\* none and the updates are listed.
LEMMA NewProgramInv == ASSUME Inv, NEW p \in Procs, NewProgram(p) PROVE Inv'
<1>1. /\ proc[p].pc \in Moving /\ Runs(p) /\ UNCHANGED <<fs, stored, tried, cuts>>
      /\ {"copy", "list"} \subseteq Moving
  BY DEF NewProgram, Runs, At, Moving
<1>2. CASE /\ tmp' = [tmp EXCEPT ![Pkg(p)].items = @ \ {0}]
           /\ program' = "mode" /\ Goto(p, "chmod")
  BY <1>1, <1>2, ProgramLeaves
<1>3. CASE program' = "partial" /\ Goto(p, "copy") /\ UNCHANGED tmp
  BY <1>1, <1>3, GoesAlong
<1>4. CASE Goto(p, "list") /\ UNCHANGED <<tmp, program>>
  BY <1>1, <1>4, Types, GoesAlong DEF Inv
<1>5. CASE Raises(p) /\ UNCHANGED <<tmp, program>>
  BY <1>1, <1>5, RaisesInv
<1>. QED  BY <1>2, <1>3, <1>4, <1>5 DEF NewProgram

\* The copy is whole, or not.
LEMMA CopyProgramInv == ASSUME Inv, NEW p \in Procs, CopyProgram(p) PROVE Inv'
<1>1. /\ proc[p].pc \in Moving /\ Runs(p) /\ UNCHANGED <<fs, stored, tmp, tried, cuts>>
      /\ "unlink" \in Moving
  BY DEF CopyProgram, Runs, At, Moving
<1>2. CASE program' = "mode" /\ Goto(p, "unlink")
  BY <1>1, <1>2, GoesAlong
<1>3. CASE Raises(p) /\ UNCHANGED program
  BY <1>1, <1>3, RaisesInv
<1>. QED  BY <1>2, <1>3 DEF CopyProgram

\* What was copied is unlinked.
LEMMA UnlinkProgramInv == ASSUME Inv, NEW p \in Procs, UnlinkProgram(p) PROVE Inv'
<1>1. proc[p].pc \in Moving /\ Runs(p) /\ UNCHANGED <<fs, stored, program, tried, cuts>>
  BY DEF UnlinkProgram, Runs, At, Moving
<1>2. CASE tmp' = [tmp EXCEPT ![Pkg(p)].items = @ \ {0}] /\ Goto(p, "chmod")
  BY <1>1, <1>2, Types, ProgramLeaves DEF Inv
<1>3. CASE Raises(p) /\ UNCHANGED tmp
  BY <1>1, <1>3, RaisesInv
<1>. QED  BY <1>2, <1>3 DEF UnlinkProgram

\* It is made executable.
LEMMA ChmodProgramInv == ASSUME Inv, NEW p \in Procs, ChmodProgram(p) PROVE Inv'
<1> DEFINE r == [Idle EXCEPT !.result = "new program"]
<1>1. 0 \in 0 .. Newest
  BY Releases
<1>2. /\ r \in Processes /\ r.pc = "idle" /\ proc' = [proc EXCEPT ![p] = r] /\ UNCHANGED told
      /\ Runs(p) /\ UNCHANGED <<fs, stored, tmp, tried, cuts>> /\ program' = "whole"
  BY <1>1 DEF ChmodProgram, Become, Idle, Processes, Pcs, Runs, At
<1> HIDE DEF r
<1>3. ItemsOfPackage'
  BY <1>2 DEF Inv, ItemsOfPackage
<1>. QED  BY <1>2, <1>3, Types, EndsInv DEF Inv

\* All the updates of the package are to be installed.
LEMMA ListInv == ASSUME Inv, NEW p \in Procs, List(p) PROVE Inv'
<1> DEFINE k == Pkg(p)
           updates == tmp[k].items \ {0}
<1>1. At(p, "list") /\ Runs(p) /\ UNCHANGED <<fs, stored, tmp, program, tried, cuts>>
  BY DEF List, Runs, At
<1>2. /\ k \in stored /\ k <= tried /\ k \in Packages /\ k \in Nat /\ tried \in Nat
      /\ k <= Newest
      /\ ~ proc[p].half => 1 .. k \subseteq tmp[k].items
  BY <1>1, MovingKnows, KnowsStored, Releases DEF At, Moving
<1>3. CASE Failed(p)
  BY <1>1, <1>3, FailedInv
<1>4. CASE Raises(p)
  BY <1>1, <1>4, RaisesInv
<1>5. CASE Become(p, [proc[p] EXCEPT !.pc = "next", !.todo = updates])
  <2> DEFINE r == [proc[p] EXCEPT !.pc = "next", !.todo = updates]
  <2>1. tmp[k].items \subseteq 0 .. k /\ k <= Newest
    BY <1>2, PackageItems
  <2>2. updates \subseteq 1 .. k /\ updates \in SUBSET (0 .. Newest)
    BY <1>2, <2>1, Releases
  <2>3. /\ r \in Processes /\ proc' = [proc EXCEPT ![p] = r] /\ UNCHANGED told
        /\ r.pc = "next" /\ r.pkg = k /\ r.todo = updates /\ r.half = proc[p].half
    BY <1>5, <2>2, Knows DEF Become, Processes, Pcs, Pkg
  <2>4. ~ r.half /\ k = tried => updates = 1 .. tried
    BY <1>2, <2>2, <2>3
  <2> HIDE DEF r, k, updates
  <2>5. proc'[p] = r
    BY <1>1, <2>3, OthersWait DEF Inv
  <2>6. KnowsPackage(p)' /\ KnowsUpdate(p)'
    <3>1. KnowsPackage(p)'
      BY <1>1, <1>2, <2>3, <2>5 DEF KnowsPackage, Moving, At, Pkg
    <3>2. KnowsUpdate(p)'
      BY <2>2, <2>3, <2>5 DEF KnowsUpdate, At, Pkg
    <3>. QED  BY <3>1, <3>2
  <2>7. Progress(p)'
    <3>1. SUFFICES ASSUME ~ r.half, k = tried PROVE Progress(p)'
      BY <1>1, <2>3, <2>5 DEF Progress, Pkg
    <3>2. \A u \in 1 .. tried : u .. tried \subseteq 1 .. tried
      BY <1>2
    <3>3. \A f \in Paths : f \notin Done(p)'
      BY <2>3, <2>5 DEF Done, At
    <3>4. ASSUME NEW f \in Paths, Carried(f, tried) PROVE \E i \in 0 .. tried : From(f, i)
      BY <3>4 DEF Inv, Mixture
    <3>. QED  BY <1>1, <2>3, <2>4, <2>5, <3>1, <3>2, <3>3, <3>4 DEF Progress, From, Carried
  <2>8. Mixture' /\ ItemsOfPackage'
    BY <1>1 DEF Inv, Mixture, From, Carried, ItemsOfPackage
  <2>9. r.pc # "clear" /\ stored # {}
    BY <1>2, <2>3
  <2>. QED  BY <1>1, <2>3, <2>6, <2>7, <2>8, <2>9, Types, GoesOnInv DEF Inv
<1>. QED  BY <1>3, <1>4, <1>5 DEF List

\* An update puts and deletes files of the system.
LEMMA UpdateType ==
  ASSUME NEW u \in Packages
  PROVE  UpdateOf(u).put \subseteq Paths /\ UpdateOf(u).del \subseteq Paths
BY DEF UpdateOf, Update

\* The files of an update that are carried and that it neither puts nor
\* deletes are the same in the release before it.
LEMMA Untouched ==
  ASSUME NEW k \in Packages, NEW u \in 1 .. k, NEW f \in Paths, Carried(f, k),
         f \notin UpdateOf(u).put, f \notin UpdateOf(u).del
  PROVE  Release[u - 1][f] = Release[u][f]
<1>1. u \in Packages /\ u - 1 \in 0 .. Newest /\ u \in 0 .. Newest
  BY Releases DEF Packages
<1>2. SUFFICES ASSUME Release[u][f] # Release[u - 1][f] PROVE FALSE
  OBVIOUS
<1>3. IF Release[u][f] = None THEN Release[u - 1][f] \notin Kept
      ELSE Release[u][f] \notin Links /\ f \notin Uncopied[u]
  BY <1>2 DEF Carried
<1>. QED  BY <1>2, <1>3 DEF UpdateOf, Update

\* A carried file that is not a link does not become one.
LEMMA NoLinkLater ==
  ASSUME NEW k \in Packages, NEW f \in Paths, Carried(f, k),
         NEW u \in 0 .. k, NEW i \in u .. k, Release[u][f] \notin Links
  PROVE  Release[i][f] \notin Links
<1> DEFINE T == {j \in u .. k : Release[j][f] \in Links}
<1>1. k \in Nat /\ u \in Nat /\ T \subseteq Nat
  BY Releases DEF Packages
<1>2. SUFFICES ASSUME T # {} PROVE FALSE
  OBVIOUS
<1>3. PICK m \in T : \A j \in T : ~ (<<j, m>> \in OpToRel(<, Nat))
  <2> HIDE DEF T
  <2>. QED  BY <1>1, <1>2, WFMin, NatLessThanWellFounded
<1>4. \A j \in T : ~ (j < m)
  BY <1>1, <1>3 DEF OpToRel
<1>5. m \in u .. k /\ m \in Nat /\ m # u /\ Release[m][f] \in Links
  BY <1>1
<1>6. m - 1 \in u .. k /\ m \in 1 .. k /\ m - 1 < m
  BY <1>1, <1>5
<1>7. Release[m - 1][f] \notin Links
  BY <1>4, <1>6
<1>8. Release[m][f] # Release[m - 1][f] /\ Release[m][f] # None
  BY <1>5, <1>7, Releases
<1>. QED  BY <1>5, <1>6, <1>8 DEF Carried

\* The update that is installed is one of the package.
LEMMA InstallingKnows ==
  ASSUME Inv, NEW p \in Procs, proc[p].pc \in {"extract", "delete"}
  PROVE  /\ Pkg(p) \in stored /\ Pkg(p) \in Nat /\ Pkg(p) <= tried /\ tried \in Nat
         /\ proc[p].upd \in proc[p].todo /\ proc[p].todo \subseteq 1 .. Pkg(p)
         /\ \A v \in proc[p].todo : Rank[proc[p].upd] <= Rank[v]
         /\ proc[p].upd \in 1 .. tried /\ proc[p].upd \in Packages /\ proc[p].upd \in Nat
         /\ Release[proc[p].upd] \in [Paths -> Contents]
<1>1. /\ Pkg(p) \in stored /\ Pkg(p) \in Nat /\ Pkg(p) <= tried /\ tried \in Nat
      /\ Pkg(p) \in Packages
  BY KnowsStored DEF Installing
<1>2. /\ proc[p].todo \subseteq 1 .. Pkg(p) /\ proc[p].upd \in proc[p].todo
      /\ \A v \in proc[p].todo : Rank[proc[p].upd] <= Rank[v]
  BY DEF Inv, KnowsUpdate, Installing, IsNext, At
<1>3. proc[p].upd \in 1 .. tried /\ proc[p].upd \in Packages /\ proc[p].upd \in Nat
      /\ proc[p].upd \in 0 .. Newest
  BY <1>1, <1>2, Releases DEF Packages
<1>. QED  BY <1>1, <1>2, <1>3, Releases

\* Out of a whole folder of the newest release, those to install are the last.
LEMMA LastOnes ==
  ASSUME NamesSorted, Inv, NEW p \in Procs, proc[p].pc \in {"extract", "delete"},
         ~ proc[p].half, Pkg(p) = tried
  PROVE  proc[p].todo = proc[p].upd .. tried
<1> DEFINE u == proc[p].upd
           todo == proc[p].todo
<1>1. /\ tried \in Nat /\ u \in todo /\ todo \subseteq 1 .. tried /\ u \in Nat
      /\ \A v \in todo : Rank[u] <= Rank[v]
      /\ tried \in stored
  BY InstallingKnows
<1>2. \A v \in todo : v .. tried \subseteq todo
  BY DEF Inv, Progress, Installing
<1>3. tried \in Packages /\ todo \subseteq Packages
  BY <1>1, Types, Releases DEF Inv, Packages
<1>4. ASSUME NEW v \in todo PROVE u <= v
  <2>1. v \in Nat /\ v \in Packages /\ u \in Packages
    BY <1>1, <1>3
  <2>2. CASE v < u
    <3>1. Rank[v] < Rank[u] /\ Rank[u] <= Rank[v]
      BY <1>1, <2>1, <2>2 DEF NamesSorted
    <3>2. Rank[v] \in Nat /\ Rank[u] \in Nat
      BY <2>1, UpdateAssumption
    <3>. QED  BY <3>1, <3>2
  <2>. QED  BY <1>1, <2>1, <2>2
<1>5. todo \subseteq u .. tried
  BY <1>1, <1>4
<1>6. u .. tried \subseteq todo
  BY <1>1, <1>2
<1>. QED  BY <1>5, <1>6

\* A file is of a release that no installed update is newer than.
Recent(p, f) ==
  \E i \in 0 .. tried :
    /\ From(f, i)
    /\ \A v \in 1 .. tried \ proc[p].todo : v <= i
    /\ f \in Done(p) => proc[p].upd <= i

\* What Progress says of a process that installs the newest release.
LEMMA ProgressKnows ==
  ASSUME Inv, NEW p \in Procs, proc[p].pc \in Installing, ~ proc[p].half, Pkg(p) = tried
  PROVE  /\ \A u \in proc[p].todo : u .. tried \subseteq proc[p].todo
         /\ \A f \in Paths : Carried(f, tried) => Recent(p, f)
BY DEF Inv, Progress, Recent

\* An installing process takes a step to another: what it then knows.
LEMMA InstallsInv ==
  ASSUME Inv, NEW p \in Procs, proc[p].pc \in Installing, NEW r \in Processes,
         r.pc \in Installing, r.pkg = proc[p].pkg, r.half = proc[p].half,
         proc' = [proc EXCEPT ![p] = r],
         UNCHANGED <<stored, tmp, program, tried, told, cuts>>,
         fs' \in [Paths -> Contents], Mixture', KnowsUpdate(p)',
         ~ proc[p].half /\ Pkg(p) = tried =>
           /\ \A u \in r.todo : u .. tried \subseteq r.todo
           /\ \A f \in Paths : Carried(f, tried) => Recent(p, f)'
  PROVE  Inv'
<1>1. Runs(p) /\ Pkg(p) \in stored /\ Pkg(p) <= tried
  BY KnowsStored DEF Runs, At, Installing
<1>2. proc'[p] = r
  BY <1>1, OthersWait DEF Inv
<1>3. KnowsPackage(p)'
  BY <1>1, <1>2 DEF KnowsPackage, Moving, Installing, At, Pkg
<1>4. Progress(p)'
  <2>1. SUFFICES ASSUME ~ proc[p].half, Pkg(p) = tried PROVE Progress(p)'
    BY <1>2 DEF Progress, Pkg
  <2>2. /\ \A u \in r.todo : u .. tried \subseteq r.todo
        /\ \A f \in Paths : Carried(f, tried)' => Recent(p, f)'
    BY <2>1 DEF Carried
  <2>. QED  BY <1>2, <2>2 DEF Progress, Recent
<1>5. r.pc # "clear" /\ stored # {} /\ ItemsOfPackage'
  BY <1>1 DEF Installing, Inv, ItemsOfPackage
<1>. QED  BY <1>1, <1>3, <1>4, <1>5, Types, GoesOnInv DEF Inv

\* The same if no file changes, and no more are dealt with.
LEMMA FilesStayInv ==
  ASSUME Inv, NEW p \in Procs, proc[p].pc \in Installing, NEW r \in Processes,
         r.pc \in Installing, r.pkg = proc[p].pkg, r.half = proc[p].half,
         r.todo = proc[p].todo,
         proc' = [proc EXCEPT ![p] = r],
         UNCHANGED <<fs, stored, tmp, program, tried, told, cuts>>,
         KnowsUpdate(p)',
         \A f \in Paths : f \in Done(p)' => f \in Done(p) /\ r.upd = proc[p].upd
  PROVE  Inv'
<1>1. Runs(p)
  BY DEF Runs, At, Installing
<1>2. proc'[p] = r
  BY <1>1, OthersWait DEF Inv
<1>3. Mixture' /\ fs' \in [Paths -> Contents]
  BY Types DEF Inv, Mixture, From, Carried
<1>4. ASSUME ~ proc[p].half, Pkg(p) = tried
      PROVE  /\ \A u \in r.todo : u .. tried \subseteq r.todo
             /\ \A f \in Paths : Carried(f, tried) => Recent(p, f)'
  <2>1. \A u \in r.todo : u .. tried \subseteq r.todo
    BY <1>4, ProgressKnows
  <2>2. ASSUME NEW f \in Paths, Carried(f, tried) PROVE Recent(p, f)'
    <3>1. PICK i \in 0 .. tried :
            /\ From(f, i) /\ \A v \in 1 .. tried \ proc[p].todo : v <= i
            /\ f \in Done(p) => proc[p].upd <= i
      BY <1>4, <2>2, ProgressKnows DEF Recent
    <3>2. f \in Done(p)' => r.upd <= i
      BY <3>1
    <3>. QED  BY <1>2, <3>1, <3>2 DEF Recent, From
  <2>. QED  BY <2>1, <2>2
<1>. QED  BY <1>3, <1>4, InstallsInv

\* The next update is begun,
LEMMA NextUpdateInv == ASSUME Inv, NEW p \in Procs, NextUpdate(p) PROVE Inv'
<1>1. At(p, "next") /\ Runs(p) /\ UNCHANGED <<fs, stored, tmp, program, tried, cuts>>
  BY DEF NextUpdate, Runs, At
<1>2. PICK u \in proc[p].todo :
        /\ IsNext(u, proc[p].todo)
        /\ \/ Become(p, [proc[p] EXCEPT !.pc = "extract", !.upd = u, !.left = UpdateOf(u).put])
           \/ Failed(p)
  BY DEF NextUpdate
<1>3. CASE Failed(p)
  BY <1>1, <1>3, FailedInv
<1>4. CASE Become(p, [proc[p] EXCEPT !.pc = "extract", !.upd = u, !.left = UpdateOf(u).put])
  <2> DEFINE r == [proc[p] EXCEPT !.pc = "extract", !.upd = u, !.left = UpdateOf(u).put]
  <2>1. proc[p].todo \subseteq 1 .. Pkg(p) /\ Pkg(p) \in Packages
    BY <1>1, KnowsStored DEF Inv, KnowsUpdate, At, Installing
  <2>2. u \in Packages /\ u \in 0 .. Newest
    BY <2>1, Releases DEF Packages
  <2>3. /\ r \in Processes /\ proc' = [proc EXCEPT ![p] = r] /\ UNCHANGED told
        /\ r.pc = "extract" /\ r.pkg = proc[p].pkg /\ r.todo = proc[p].todo /\ r.upd = u
        /\ r.left = UpdateOf(u).put /\ r.half = proc[p].half
    BY <1>4, <2>2, UpdateType, Knows DEF Become, Processes, Pcs
  <2> HIDE DEF r
  <2>4. proc'[p] = r
    BY <1>1, <2>3, OthersWait DEF Inv
  <2>5. UpdateOf(proc'[p].upd) = UpdateOf(u) /\ (UpdateOf(proc[p].upd))' = UpdateOf(u)
    BY <2>3, <2>4 DEF UpdateOf, Update
  <2>6. KnowsUpdate(p)'
    BY <1>2, <2>1, <2>3, <2>4, <2>5 DEF KnowsUpdate, At, Pkg, IsNext
  <2>7. \A f \in Paths : f \notin Done(p)'
    BY <2>3, <2>4, <2>5 DEF Done, At
  <2>8. proc[p].pc \in Installing /\ r.pc \in Installing
    BY <1>1, <2>3 DEF Installing, At
  <2>. QED  BY <1>1, <2>3, <2>6, <2>7, <2>8, FilesStayInv
<1>. QED  BY <1>2, <1>3, <1>4

\* All of the update is unpacked.
LEMMA ExtractDoneInv == ASSUME Inv, NEW p \in Procs, ExtractDone(p) PROVE Inv'
<1> DEFINE u == proc[p].upd
           r == [proc[p] EXCEPT !.pc = "delete", !.left = UpdateOf(u).del]
<1>1. /\ At(p, "extract") /\ Runs(p)
      /\ UNCHANGED <<fs, stored, tmp, program, tried, told, cuts>>
      /\ proc[p].left = {} /\ proc' = [proc EXCEPT ![p] = r]
  BY DEF ExtractDone, Become, Runs, At
<1>2. /\ u \in Packages /\ proc[p].todo \subseteq 1 .. Pkg(p) /\ u \in proc[p].todo
      /\ \A v \in proc[p].todo : Rank[u] <= Rank[v]
  BY <1>1, InstallingKnows DEF At
<1>3. /\ r \in Processes
      /\ r.pc = "delete" /\ r.pkg = proc[p].pkg /\ r.todo = proc[p].todo /\ r.upd = u
      /\ r.left = UpdateOf(u).del /\ r.half = proc[p].half
  BY <1>1, <1>2, UpdateType, Knows DEF Processes, Pcs
<1> HIDE DEF r
<1>4. proc'[p] = r
  BY <1>1, <1>3, OthersWait DEF Inv
<1> HIDE DEF u
<1>5. (UpdateOf(proc[p].upd))' = UpdateOf(u)
  BY <1>3, <1>4 DEF UpdateOf, Update
<1>6. KnowsUpdate(p)'
  BY <1>2, <1>3, <1>4, <1>5 DEF KnowsUpdate, At, Pkg, IsNext
<1>7. \A f \in Paths : f \in Done(p)' => f \in Done(p) /\ r.upd = proc[p].upd
  <2>1. r.upd = proc[p].upd
    BY <1>3 DEF u
  <2>2. ASSUME NEW f \in Paths, f \in Done(p)' PROVE f \in UpdateOf(u).put
    BY <1>3, <1>4, <1>5, <2>2 DEF Done, At
  <2>3. ASSUME NEW f \in Paths, f \in UpdateOf(u).put PROVE f \in Done(p)
    BY <1>1, <2>3 DEF Done, At, u
  <2>. QED  BY <2>1, <2>2, <2>3
<1>8. proc[p].pc \in Installing /\ r.pc \in Installing
  BY <1>1, <1>3 DEF Installing, At
<1>. QED  BY <1>1, <1>3, <1>6, <1>7, <1>8, FilesStayInv

\* A file is put or deleted: it is then of the update's release, or stays.
LEMMA FileInstalled ==
  ASSUME NamesSorted, Inv, NEW p \in Procs, proc[p].pc \in {"extract", "delete"},
         NEW g \in proc[p].left, NEW c \in Contents,
         c = fs[g] \/ c = Release[proc[p].upd][g],
         ~ proc[p].half /\ Pkg(p) = tried /\ Carried(g, tried)
           => c = Release[proc[p].upd][g],
         fs' = [fs EXCEPT ![g] = c],
         proc' = [proc EXCEPT ![p].left = @ \ {g}],
         UNCHANGED <<stored, tmp, program, tried, told, cuts>>
  PROVE  Inv'
<1> DEFINE u == proc[p].upd
           r == [proc[p] EXCEPT !.left = @ \ {g}]
<1>1. /\ Pkg(p) \in stored /\ tried \in Nat /\ u \in 1 .. tried /\ u \in Packages /\ u \in Nat
      /\ proc[p].todo \subseteq 1 .. Pkg(p) /\ u \in proc[p].todo
      /\ \A v \in proc[p].todo : Rank[u] <= Rank[v]
  BY InstallingKnows
<1>2. proc[p] \in Processes /\ g \in Paths /\ fs \in [Paths -> Contents]
  BY Knows, Types DEF Processes, Inv
<1>3. fs' \in [Paths -> Contents] /\ fs'[g] = c /\ \A f \in Paths \ {g} : fs'[f] = fs[f]
  BY <1>2
<1>4. /\ r \in Processes /\ proc' = [proc EXCEPT ![p] = r]
      /\ r.pc = proc[p].pc /\ r.pkg = proc[p].pkg /\ r.half = proc[p].half
      /\ r.todo = proc[p].todo /\ r.upd = u /\ r.left = proc[p].left \ {g}
  BY <1>2 DEF Processes
<1> HIDE DEF r
<1>5. Runs(p) /\ proc[p].pc \in Installing /\ r.pc \in Installing
  BY <1>4 DEF Runs, At, Installing
<1>6. proc'[p] = r
  BY <1>4, <1>5, OthersWait DEF Inv
<1>7. (UpdateOf(proc[p].upd))' = UpdateOf(u)
  BY <1>4, <1>6 DEF UpdateOf, Update
<1>8. KnowsUpdate(p)'
  <2>1. /\ At(p, "extract") => proc[p].left \subseteq UpdateOf(u).put
        /\ At(p, "delete") => proc[p].left \subseteq UpdateOf(u).del
    BY DEF Inv, KnowsUpdate
  <2> HIDE DEF u
  <2>. QED  BY <1>1, <1>4, <1>6, <1>7, <2>1 DEF KnowsUpdate, At, Pkg, IsNext
<1>9. Mixture'
  <2>1. ASSUME NEW f \in Paths, Carried(f, tried) PROVE \E i \in 0 .. tried : From(f, i)'
    <3>1. PICK i \in 0 .. tried : From(f, i)
      BY <2>1 DEF Inv, Mixture
    <3>2. CASE f # g
      BY <1>3, <3>1, <3>2 DEF From
    <3>3. CASE f = g /\ c = fs[g]
      BY <1>3, <3>1, <3>3 DEF From
    <3>4. CASE f = g /\ c = Release[u][g]
      BY <1>1, <1>3, <3>4 DEF From
    <3>. QED  BY <3>2, <3>3, <3>4
  <2>. QED  BY <2>1 DEF Mixture, Carried
<1>10. ASSUME ~ proc[p].half, Pkg(p) = tried
       PROVE  /\ \A v \in r.todo : v .. tried \subseteq r.todo
              /\ \A f \in Paths : Carried(f, tried) => Recent(p, f)'
  <2>1. \A v \in r.todo : v .. tried \subseteq r.todo
    BY <1>4, <1>5, <1>10, ProgressKnows
  <2>2. \A f \in Paths \ {g} : f \in Done(p)' => f \in Done(p)
    <3>1. ASSUME NEW f \in Paths \ {g}, f \in Done(p)' PROVE f \in Done(p)
      <4> HIDE DEF u
      <4>1. \/ r.pc = "extract" /\ f \in UpdateOf(u).put \ r.left
            \/ r.pc = "delete" /\ (f \in UpdateOf(u).put \/ f \in UpdateOf(u).del \ r.left)
        BY <1>4, <1>6, <1>7, <3>1 DEF Done, At
      <4>. QED  BY <1>4, <4>1 DEF Done, At, u
    <3>. QED  BY <3>1
  <2>3. ASSUME NEW f \in Paths \ {g}, Carried(f, tried) PROVE Recent(p, f)'
    <3>1. PICK i \in 0 .. tried :
            /\ From(f, i) /\ \A v \in 1 .. tried \ proc[p].todo : v <= i
            /\ f \in Done(p) => proc[p].upd <= i
      BY <1>5, <1>10, <2>3, ProgressKnows DEF Recent
    <3>2. f \in Done(p)' => r.upd <= i
      BY <1>4, <2>2, <3>1
    <3>3. From(f, i)'
      BY <1>3, <3>1 DEF From
    <3>. QED  BY <1>4, <1>6, <3>1, <3>2, <3>3 DEF Recent
  <2>4. ASSUME Carried(g, tried) PROVE Recent(p, g)'
    <3>1. From(g, u)' /\ u \in 0 .. tried
      BY <1>1, <1>3, <1>10, <2>4 DEF From
    <3>2. proc[p].todo = u .. tried
      BY <1>10, LastOnes DEF Alone
    <3>3. \A v \in 1 .. tried \ (u .. tried) : v <= u
      BY <1>1
    <3>. QED  BY <1>1, <1>4, <1>6, <3>1, <3>2, <3>3 DEF Recent
  <2>. QED  BY <2>1, <2>3, <2>4
<1>. QED  BY <1>3, <1>4, <1>5, <1>8, <1>9, <1>10, InstallsInv

\* its files are put, each as the release has it,
LEMMA ExtractFileInv == ASSUME NamesSorted, Inv, NEW p \in Procs, ExtractFile(p) PROVE Inv'
<1>1. PICK g \in proc[p].left :
        /\ fs' = [fs EXCEPT ![g] = Release[proc[p].upd][g]]
        /\ proc' = [proc EXCEPT ![p] = [proc[p] EXCEPT !.left = @ \ {g}]]
        /\ UNCHANGED <<stored, tmp, program, tried, told, cuts>>
  BY DEF ExtractFile, Become
<1>2. proc[p].pc \in {"extract", "delete"}
  BY DEF ExtractFile, At
<1>3. g \in Paths /\ Release[proc[p].upd][g] \in Contents
  BY <1>2, Knows, InstallingKnows DEF Processes
<1>4. proc' = [proc EXCEPT ![p].left = @ \ {g}]
  BY <1>1
<1>. QED  BY <1>1, <1>2, <1>3, <1>4, FileInstalled

\* those that the release has no more are deleted: one that the update
\* carries is no link that is kept.
LEMMA DeleteFileInv == ASSUME NamesSorted, Inv, NEW p \in Procs, DeleteFile(p) PROVE Inv'
<1> DEFINE u == proc[p].upd
<1>1. PICK g \in proc[p].left :
        /\ fs' = [fs EXCEPT ![g] = IF @ \in Kept THEN @ ELSE None]
        /\ proc' = [proc EXCEPT ![p] = [proc[p] EXCEPT !.left = @ \ {g}]]
        /\ UNCHANGED <<stored, tmp, program, tried, told, cuts>>
  BY DEF DeleteFile, Become
<1>2. proc[p].pc \in {"extract", "delete"} /\ proc[p].pc \in Installing /\ At(p, "delete")
  BY DEF DeleteFile, At, Installing
<1>3. /\ u \in Packages /\ u \in Nat /\ u \in 1 .. tried /\ tried \in Nat /\ u \in proc[p].todo
      /\ proc[p].todo \subseteq 1 .. Pkg(p)
  BY <1>2, InstallingKnows
<1>4. g \in UpdateOf(u).del /\ g \in Paths /\ Release[u][g] = None
  <2>1. proc[p].left \subseteq UpdateOf(u).del
    BY <1>2 DEF Inv, KnowsUpdate
  <2>. QED  BY <1>3, <2>1 DEF UpdateOf, Update
<1> DEFINE c == IF fs[g] \in Kept THEN fs[g] ELSE None
<1>5. c \in Contents /\ (c = fs[g] \/ c = Release[u][g])
  BY <1>4, Types, Releases DEF Inv
<1>6. ASSUME ~ proc[p].half, Pkg(p) = tried, Carried(g, tried) PROVE c = Release[u][g]
  <2>1. PICK i \in 0 .. tried :
          /\ From(g, i) /\ \A v \in 1 .. tried \ proc[p].todo : v <= i
    BY <1>2, <1>4, <1>6, ProgressKnows DEF Recent
  <2>2. proc[p].todo = u .. tried
    BY <1>2, <1>6, LastOnes
  <2>3. CASE i < u
    <3>1. i = u - 1
      BY <1>3, <2>1, <2>2, <2>3
    <3>2. Release[u - 1][g] # None
      BY <1>4 DEF UpdateOf, Update
    <3>3. Release[u - 1][g] \notin Kept
      BY <1>3, <1>4, <1>6, <3>2 DEF Carried
    <3>. QED  BY <1>4, <2>1, <3>1, <3>3 DEF From
  <2>4. CASE u <= i
    <3>1. i \in u .. tried /\ u \in 0 .. tried /\ tried \in Packages
      <4>1. tried \in 1 .. Newest
        BY <1>3, Types, Releases DEF Inv
      <4>. QED  BY <1>3, <2>1, <2>4, <4>1 DEF Packages
    <3>2. Release[u][g] \notin Links
      BY <1>4, Releases
    <3>3. Release[i][g] \notin Links
      BY <1>4, <1>6, <3>1, <3>2, NoLinkLater
    <3>. QED  BY <1>4, <2>1, <3>3, Releases DEF From
  <2>. QED  BY <1>3, <2>1, <2>3, <2>4
<1>7. fs' = [fs EXCEPT ![g] = c] /\ proc' = [proc EXCEPT ![p].left = @ \ {g}]
  BY <1>1
<1>8. ~ proc[p].half /\ Pkg(p) = tried /\ Carried(g, tried) => c = Release[proc[p].upd][g]
  BY <1>6
<1> HIDE DEF c
<1>. QED  BY <1>1, <1>2, <1>5, <1>7, <1>8, FileInstalled

\* and then no carried file is older than the update: one that it does not
\* touch was no older than the release before, and is the same in both.
LEMMA DeleteDoneInv == ASSUME NamesSorted, Inv, NEW p \in Procs, DeleteDone(p) PROVE Inv'
<1> DEFINE u == proc[p].upd
           r == [proc[p] EXCEPT !.pc = "next", !.todo = @ \ {proc[p].upd}]
<1>1. /\ At(p, "delete") /\ proc[p].pc \in {"extract", "delete"}
      /\ UNCHANGED <<fs, stored, tmp, program, tried, told, cuts>>
      /\ proc[p].left = {} /\ proc' = [proc EXCEPT ![p] = r]
  BY DEF DeleteDone, Become, At
<1>2. /\ u \in Packages /\ u \in Nat /\ u \in 1 .. tried /\ tried \in Nat
      /\ proc[p].todo \subseteq 1 .. Pkg(p)
  BY <1>1, InstallingKnows
<1>3. /\ r \in Processes /\ r.pc = "next" /\ r.pkg = proc[p].pkg /\ r.half = proc[p].half
      /\ r.todo = proc[p].todo \ {u}
  BY Knows DEF Processes, Pcs
<1> HIDE DEF r
<1>4. Runs(p) /\ proc[p].pc \in Installing /\ r.pc \in Installing
  BY <1>1, <1>3 DEF Runs, At, Installing
<1>5. proc'[p] = r
  BY <1>1, <1>3, <1>4, OthersWait DEF Inv
<1>6. KnowsUpdate(p)'
  BY <1>2, <1>3, <1>5 DEF KnowsUpdate, At, Pkg
<1>7. Mixture' /\ fs' \in [Paths -> Contents]
  BY <1>1, Types DEF Inv, Mixture, From, Carried
<1>8. ASSUME ~ proc[p].half, Pkg(p) = tried
      PROVE  /\ \A v \in r.todo : v .. tried \subseteq r.todo
             /\ \A f \in Paths : Carried(f, tried) => Recent(p, f)'
  <2>1. proc[p].todo = u .. tried /\ r.todo = (u + 1) .. tried
    <3>1. proc[p].todo = u .. tried
      BY <1>1, <1>8, LastOnes
    <3>. QED  BY <1>2, <1>3, <3>1
  <2>2. \A v \in r.todo : v .. tried \subseteq r.todo
    BY <1>2, <2>1
  <2>3. ASSUME NEW f \in Paths, Carried(f, tried) PROVE Recent(p, f)'
    <3>1. PICK i \in 0 .. tried :
            /\ From(f, i) /\ \A v \in 1 .. tried \ proc[p].todo : v <= i
            /\ f \in Done(p) => u <= i
      BY <1>4, <1>8, <2>3, ProgressKnows DEF Recent
    <3>2. f \notin Done(p)'
      BY <1>3, <1>5 DEF Done, At
    <3>3. \E j \in u .. tried : From(f, j)
      <4>1. CASE u <= i
        BY <1>2, <3>1, <4>1
      <4>2. CASE i < u
        <5>1. i = u - 1
          BY <1>2, <2>1, <3>1, <4>2
        <5>2. f \notin UpdateOf(u).put /\ f \notin UpdateOf(u).del
          BY <1>1, <1>2, <3>1, <4>2 DEF Done
        <5>3. tried \in Packages
          <6>1. tried \in 1 .. Newest
            BY <1>2, Types, Releases DEF Inv
          <6>. QED  BY <6>1 DEF Packages
        <5>4. Release[u - 1][f] = Release[u][f]
          BY <1>2, <2>3, <5>2, <5>3, Untouched
        <5>5. From(f, u)
          BY <3>1, <5>1, <5>4 DEF From
        <5>. QED  BY <1>2, <5>5
      <4>. QED  BY <1>2, <3>1, <4>1, <4>2
    <3>4. PICK j \in u .. tried : From(f, j)
      BY <3>3
    <3>5. j \in 0 .. tried /\ \A v \in 1 .. tried \ ((u + 1) .. tried) : v <= j
      BY <1>2, <3>4
    <3>. QED  BY <1>1, <1>5, <2>1, <3>2, <3>4, <3>5 DEF Recent, From
  <2>. QED  BY <2>2, <2>3
<1>. QED  BY <1>1, <1>3, <1>4, <1>6, <1>7, <1>8, InstallsInv

\* When none is left, the folder is removed,
LEMMA InstallDoneInv == ASSUME Inv, NEW p \in Procs, InstallDone(p) PROVE Inv'
<1> DEFINE r == [proc[p] EXCEPT !.pc = "remove"]
<1>1. /\ At(p, "next") /\ UNCHANGED <<fs, stored, tmp, program, tried, told, cuts>>
      /\ proc[p].todo = {} /\ proc' = [proc EXCEPT ![p] = r]
  BY DEF InstallDone, Goto, Become, At
<1>2. /\ r \in Processes /\ r.pc = "remove" /\ r.pkg = proc[p].pkg /\ r.half = proc[p].half
      /\ r.todo = proc[p].todo /\ r.upd = proc[p].upd
  BY Knows DEF Processes, Pcs
<1> HIDE DEF r
<1>3. Runs(p) /\ proc[p].pc \in Installing /\ r.pc \in Installing
  BY <1>1, <1>2 DEF Runs, At, Installing
<1>4. proc'[p] = r
  BY <1>1, <1>2, <1>3, OthersWait DEF Inv
<1>5. KnowsUpdate(p)' /\ \A f \in Paths : f \notin Done(p)'
  BY <1>1, <1>2, <1>4 DEF KnowsUpdate, Done, At
<1>. QED  BY <1>1, <1>2, <1>3, <1>5, FilesStayInv

\* What rmtree removes leaves folders, with fewer items.
LEMMA RemoveType ==
  ASSUME Inv, NEW k \in Packages, Remove(k)
  PROVE  tmp' \in Folders /\ ItemsOfPackage'
<1>1. tmp[k].items \in SUBSET (0 .. k) /\ tmp[k].there \in BOOLEAN
      /\ tmp[k] = [there |-> tmp[k].there, items |-> tmp[k].items]
  BY PackageItems
<1>2. CASE tmp' = [tmp EXCEPT ![k] = NoFolder]
  <2> DEFINE S == {}
             b == FALSE
  <2>1. tmp' = [tmp EXCEPT ![k] = [there |-> b, items |-> S]]
    BY <1>2 DEF NoFolder
  <2>2. b \in BOOLEAN /\ S \in SUBSET (0 .. k)
    OBVIOUS
  <2> HIDE DEF S, b
  <2>. QED  BY <2>1, <2>2, FolderChanges
<1>3. ASSUME NEW u \in tmp[k].items, tmp' = [tmp EXCEPT ![k].items = @ \ {u}]
      PROVE  tmp' \in Folders /\ ItemsOfPackage'
  <2> DEFINE S == tmp[k].items \ {u}
             b == tmp[k].there
  <2>1. [tmp[k] EXCEPT !.items = @ \ {u}] = [there |-> b, items |-> S]
    <3>1. ASSUME NEW i, NEW c, NEW v, v = [there |-> c, items |-> i]
          PROVE  [v EXCEPT !.items = @ \ {u}] = [there |-> c, items |-> i \ {u}]
      BY <3>1
    <3>. QED  BY <1>1, <3>1
  <2>2. tmp' = [tmp EXCEPT ![k] = [there |-> b, items |-> S]]
    BY <1>3, <2>1
  <2>3. b \in BOOLEAN /\ S \in SUBSET (0 .. k)
    BY <1>1
  <2> HIDE DEF S, b
  <2>. QED  BY <2>2, <2>3, FolderChanges
<1>. QED  BY <1>2, <1>3 DEF Remove

\* item by item.
LEMMA RemoveFolderInv == ASSUME Inv, NEW p \in Procs, RemoveFolder(p) PROVE Inv'
<1>1. /\ At(p, "remove") /\ Remove(Pkg(p))
      /\ UNCHANGED <<fs, stored, program, proc, tried, told, cuts>>
  BY DEF RemoveFolder
<1>2. proc[p].pc \in Installing /\ Pkg(p) \in Packages
  BY <1>1, KnowsStored DEF At, Installing
<1>3. tmp' \in Folders /\ ItemsOfPackage'
  BY <1>1, <1>2, RemoveType
<1>4. proc' = [proc EXCEPT ![p] = proc[p]] /\ proc[p] \in Processes /\ Runs(p)
  BY <1>1, Types DEF Inv, Runs, At
<1>5. Mixture' /\ KnowsUpdate(p)' /\ Progress(p)'
  <2>1. Mixture'
    BY <1>1 DEF Inv, Mixture, From, Carried
  <2>2. KnowsUpdate(p)'
    BY <1>1 DEF Inv, KnowsUpdate, At, Installing, Pkg, IsNext, UpdateOf, Update
  <2>3. Progress(p) /\ \A f : f \in Done(p)' <=> f \in Done(p)
    BY <1>1 DEF Inv, Done, At, UpdateOf, Update
  <2>4. Progress(p)'
    BY <1>1, <2>3 DEF Progress, Installing, Pkg, From, Carried
  <2>. QED  BY <2>1, <2>2, <2>4
<1>6. KnowsPackage(p)'
  <2>1. Pkg(p) \in stored /\ Pkg(p) <= tried
    BY <1>2, KnowsStored
  <2>. QED  BY <1>1, <2>1 DEF KnowsPackage, Moving, At, Pkg
<1>7. proc[p].pc # "clear"
  BY <1>1 DEF At
<1>. QED  BY <1>1, <1>3, <1>4, <1>5, <1>6, <1>7, Types, GoesOnInv DEF Inv

\* and every carried file is of the package's release.
LEMMA SuccessInv == ASSUME Inv, NEW p \in Procs, Success(p) PROVE Inv'
<1> DEFINE r == [proc[p] EXCEPT !.pc = "clear", !.result = "success"]
<1>1. /\ At(p, "remove") /\ Runs(p) /\ UNCHANGED <<fs, stored, tmp, program, tried, cuts>>
      /\ proc' = [proc EXCEPT ![p] = r]
      /\ told' = IF proc[p].half \/ Pkg(p) < tried THEN "wrong" ELSE "nothing"
  BY DEF Success, Runs, At
<1>2. /\ r \in Processes /\ r.pc = "clear" /\ r.result = "success" /\ r.pkg = proc[p].pkg
      /\ r.half = proc[p].half
  BY Knows DEF Processes, Pcs
<1>3. /\ Pkg(p) \in stored /\ Pkg(p) \in Nat /\ tried \in Nat /\ Pkg(p) <= tried
      /\ proc[p].pc \in Installing
  BY <1>1, KnowsStored DEF At, Installing
<1>4. proc[p].todo = {}
  BY <1>1 DEF Inv, KnowsUpdate
<1>5. ASSUME ~ proc[p].half, ~ (Pkg(p) < tried) PROVE Pkg(p) = tried /\ Complete(tried)
  <2>1. Pkg(p) = tried
    BY <1>3, <1>5
  <2>2. ASSUME NEW f \in Paths, Carried(f, tried) PROVE fs[f] = Release[tried][f]
    <3>1. PICK i \in 0 .. tried : From(f, i) /\ \A v \in 1 .. tried \ {} : v <= i
      BY <1>3, <1>4, <1>5, <2>1, <2>2, ProgressKnows DEF Recent
    <3>2. tried \in 1 .. tried
      <4>1. tried \in Packages
        BY <1>3, <2>1, Types DEF Inv
      <4>. QED  BY <1>3, <4>1, Releases DEF Packages
    <3>3. i = tried
      BY <1>3, <3>1, <3>2
    <3>. QED  BY <3>1, <3>3 DEF From
  <2>. QED  BY <2>1, <2>2 DEF Complete
<1> HIDE DEF r
<1>6. proc'[p] = r
  BY <1>1, <1>2, OthersWait DEF Inv
<1>7. SucceedsComplete(p)'
  <2>1. Complete(proc[p].pkg) \/ proc[p].half \/ proc[p].pkg < tried
    BY <1>5 DEF Pkg
  <2>2. Pkg(p)' = proc[p].pkg /\ proc'[p].half = proc[p].half /\ UNCHANGED tried
    BY <1>1, <1>2, <1>6 DEF Pkg
  <2>3. Complete(proc[p].pkg) => Complete(Pkg(p))'
    BY <1>1, <2>2 DEF Complete, Carried
  <2>. QED  BY <2>1, <2>2, <2>3 DEF SucceedsComplete
<1>8. CanBeFinished'
  <2>1. Complete(tried) => Complete(tried)'
    BY <1>1 DEF Complete, Carried
  <2>. QED  BY <1>1, <1>5, <2>1 DEF CanBeFinished
<1>9. KnowsResult(p)'
  BY <1>1, <1>2, <1>3, <1>6 DEF KnowsResult, At, Pkg
<1>10. KnowsPackage(p)' /\ KnowsUpdate(p)' /\ Progress(p)'
  BY <1>2, <1>6 DEF KnowsPackage, KnowsUpdate, Progress, Moving, Installing, At
<1>11. ItemsOfPackage' /\ Mixture'
  BY <1>1 DEF Inv, ItemsOfPackage, Mixture, From, Carried
<1>12. told' \in {"nothing", "failed", "wrong"}
  BY <1>1
<1>. QED  BY <1>1, <1>2, <1>7, <1>8, <1>9, <1>10, <1>11, <1>12, Types, RunnerInv
          DEF Inv, Knowledge

\* The packages are cleared once they are not needed.
LEMMA ClearInv == ASSUME Inv, NEW p \in Procs, clear_update_folder(p) PROVE Inv'
<1>1. At(p, "clear") /\ Runs(p) /\ UNCHANGED <<fs, program, proc, tried, told, cuts>>
  BY DEF clear_update_folder, Runs, At
<1>2. stored' \subseteq Packages /\ tmp' \in Folders /\ ItemsOfPackage'
  <2>1. CASE (\E k \in Packages : Remove(k)) /\ UNCHANGED stored
    BY <2>1, RemoveType, Types DEF Inv
  <2>2. CASE \E k \in stored : stored' = stored \ {k} /\ UNCHANGED tmp
    <3>1. stored' \subseteq Packages /\ tmp' \in Folders
      BY <2>2, Types DEF Inv
    <3>. QED  BY <2>2, <3>1 DEF Inv, ItemsOfPackage
  <2>. QED  BY <2>1, <2>2 DEF clear_update_folder
<1>3. proc' = [proc EXCEPT ![p] = proc[p]] /\ proc[p] \in Processes
  BY <1>1, Types DEF Inv
<1>4. Knowledge(p)'
  <2>1. KnowsResult(p)'
    BY <1>1 DEF Inv, KnowsResult, At, Pkg
  <2>2. KnowsPackage(p)' /\ KnowsUpdate(p)' /\ Progress(p)'
    BY <1>1 DEF KnowsPackage, KnowsUpdate, Progress, Moving, Installing, At
  <2>. QED  BY <2>1, <2>2 DEF Knowledge
<1>5. SucceedsComplete(p)' /\ Mixture'
  BY <1>1, Knows DEF Inv, SucceedsComplete, At, Pkg, Complete, Carried, Mixture, From
<1>6. CanBeFinished'
  <2>1. Complete(tried) \/ told # "nothing"
    <3>1. CASE told = "nothing"
      <4>1. proc[p].result = "success" /\ ~ proc[p].half /\ ~ (Pkg(p) < tried) /\ Pkg(p) <= tried
        BY <1>1, <3>1 DEF Inv, KnowsResult
      <4>2. proc[p].pkg \in Nat /\ tried \in Nat
        <5>1. proc[p].pkg \in 0 .. Newest
          BY <1>3 DEF Processes
        <5>. QED  BY <5>1, Types, Releases DEF Inv
      <4>3. Pkg(p) = tried
        BY <4>1, <4>2 DEF Pkg
      <4>4. Complete(Pkg(p))
        BY <1>1, <4>1, Knows DEF SucceedsComplete
      <4>. QED  BY <4>3, <4>4
    <3>. QED  BY <3>1
  <2>2. Complete(tried) => Complete(tried)'
    BY <1>1 DEF Complete, Carried
  <2>. QED  BY <1>1, <2>1, <2>2 DEF CanBeFinished
<1>. QED  BY <1>1, <1>2, <1>3, <1>4, <1>5, <1>6, Types, RunnerInv DEF Inv

\* Nothing is left to clear.
LEMMA ClearDoneInv == ASSUME Inv, NEW p \in Procs, ClearDone(p) PROVE Inv'
<1> DEFINE r == [Idle EXCEPT !.result = proc[p].result]
<1>1. 0 \in 0 .. Newest /\ proc[p] \in Processes
  BY Releases, Knows
<1>2. /\ r \in Processes /\ r.pc = "idle" /\ proc' = [proc EXCEPT ![p] = r]
      /\ Runs(p) /\ UNCHANGED <<fs, stored, tmp, program, tried, told, cuts>>
  BY <1>1 DEF ClearDone, Become, Idle, Processes, Pcs, Runs, At
<1> HIDE DEF r
<1>3. ItemsOfPackage'
  BY <1>2 DEF Inv, ItemsOfPackage
<1>. QED  BY <1>2, <1>3, Types, EndsInv DEF Inv

\* A package is downloaded.
LEMMA DownloadInv == ASSUME Inv, NEW k \in Packages, Download(k) PROVE Inv'
<1>1. /\ \A q \in Procs : proc[q].pc = "idle"
      /\ stored' = stored \cup {k} /\ UNCHANGED <<fs, tmp, program, proc, tried, cuts>>
      /\ told' = "nothing"
  BY DEF Download, Runs, At
<1>2. TypeOK'
  BY <1>1, Types, TypesPrime DEF Inv
<1>3. \A q \in Procs : Knowledge(q)' /\ SucceedsComplete(q)'
  BY <1>1, IdleKnowsPrime
<1>4. /\ \A q \in Procs : KnowsPackage(q)' /\ KnowsUpdate(q)' /\ Progress(q)' /\ KnowsResult(q)'
      /\ SuccessMeansComplete'
  BY <1>3 DEF Knowledge, SuccessMeansComplete, SucceedsComplete
<1>5. OneProcess' /\ ItemsOfPackage' /\ Mixture' /\ CanBeFinished'
  BY <1>1 DEF Inv, OneProcess, Runs, At, ItemsOfPackage, Mixture, From, Carried, CanBeFinished
<1>. QED  BY <1>2, <1>4, <1>5 DEF Inv

\* One more cut is within the bound.
LEMMA OneMoreCut ==
  ASSUME TypeOK, cuts < MaxCuts, cuts' = cuts + 1
  PROVE  cuts' \in 0 .. MaxCuts
<1>1. cuts \in 0 .. MaxCuts
  BY DEF TypeOK
<1>. QED  BY <1>1, Releases

\* A process that is cut off is idle.
LEMMA CutType ==
  ASSUME TypeOK, NEW p \in Procs
  PROVE  Cut(p) \in Processes /\ Cut(p).pc = "idle"
<1>1. 0 \in 0 .. Newest /\ proc[p] \in Processes
  BY Types, Releases
<1>2. [Idle EXCEPT !.result = "cut"] \in Processes /\ [Idle EXCEPT !.result = "cut"].pc = "idle"
  BY <1>1 DEF Idle, Processes, Pcs
<1>. QED  BY <1>1, <1>2 DEF Cut, Runs, At

\* Every process is cut off, and /tmp is emptied.
LEMMA RebootInv == ASSUME Inv, Reboot PROVE Inv'
<1>1. /\ proc' \in [Procs -> Processes] /\ \A q \in Procs : proc'[q].pc = "idle"
      /\ UNCHANGED <<fs, stored, program, tried, told>> /\ tmp' = [k \in Packages |-> NoFolder]
  BY CutType DEF Inv, Reboot
<1>2. cuts' \in 0 .. MaxCuts
  BY OneMoreCut DEF Inv, Reboot
<1>3. NoFolder \in [there : BOOLEAN, items : SUBSET (0 .. Newest)] /\ NoFolder.items = {}
  BY DEF NoFolder
<1>4. tmp' \in Folders /\ \A k \in Packages : tmp'[k].items = {}
  BY <1>1, <1>3 DEF Folders
<1>5. TypeOK'
  BY <1>1, <1>2, <1>4, Types, TypesPrime DEF Inv
<1>6. \A q \in Procs : Knowledge(q)' /\ SucceedsComplete(q)'
  BY <1>1, IdleKnowsPrime
<1>7. /\ \A q \in Procs : KnowsPackage(q)' /\ KnowsUpdate(q)' /\ Progress(q)' /\ KnowsResult(q)'
      /\ SuccessMeansComplete'
  BY <1>6 DEF Knowledge, SuccessMeansComplete, SucceedsComplete
<1>8. OneProcess' /\ ItemsOfPackage' /\ Mixture' /\ CanBeFinished'
  BY <1>1, <1>4 DEF Inv, OneProcess, Runs, At, ItemsOfPackage, Mixture, From, Carried,
                    CanBeFinished, Complete
<1>. QED  BY <1>5, <1>7, <1>8 DEF Inv

\* A process is killed, in tar or rm too.
LEMMA KillInv == ASSUME Inv, NEW p \in Procs, Kill(p) PROVE Inv'
<1>1. /\ Runs(p) /\ proc' = [proc EXCEPT ![p] = Cut(p)]
      /\ UNCHANGED <<fs, stored, tmp, program, tried, told>>
  BY DEF Kill
<1>2. cuts' \in 0 .. MaxCuts
  BY OneMoreCut DEF Inv, Kill
<1>3. Cut(p) \in Processes /\ Cut(p).pc = "idle" /\ ItemsOfPackage'
  BY <1>1, CutType DEF Inv, ItemsOfPackage
<1> DEFINE r == Cut(p)
<1>4. r \in Processes /\ r.pc = "idle" /\ proc' = [proc EXCEPT ![p] = r]
  BY <1>1, <1>3
<1> HIDE DEF r
<1>. QED  BY <1>1, <1>2, <1>3, <1>4, Types, EndsInv DEF Inv

-----------------------------------------------------------------------------
\* Nothing happens.
LEMMA StutterInv == ASSUME Inv, UNCHANGED vars PROVE Inv'
<1> USE DEF vars
<1>1. TypeOK'
  BY Types, TypesPrime DEF Inv
<1>2. OneProcess' /\ ItemsOfPackage' /\ Mixture'
  BY DEF Inv, OneProcess, Runs, At, ItemsOfPackage, Mixture, From, Carried
<1>3. ASSUME NEW p \in Procs
      PROVE  KnowsPackage(p)' /\ KnowsUpdate(p)' /\ Progress(p)' /\ KnowsResult(p)'
  <2>1. KnowsPackage(p)' /\ KnowsResult(p)'
    BY DEF Inv, KnowsPackage, KnowsResult, At, Pkg, Moving, Installing, Whole
  <2>2. KnowsUpdate(p)'
    BY DEF Inv, KnowsUpdate, At, Installing, Pkg, IsNext, UpdateOf, Update
  <2>3. Progress(p) /\ \A f : f \in Done(p)' <=> f \in Done(p)
    BY DEF Inv, Done, At, UpdateOf, Update
  <2>4. Progress(p)'
    BY <2>3 DEF Progress, Installing, Pkg, From, Carried
  <2>. QED  BY <2>1, <2>2, <2>4
<1>4. SuccessMeansComplete' /\ CanBeFinished'
  BY DEF Inv, SuccessMeansComplete, CanBeFinished, At, Pkg, Complete, Carried
<1>. QED  BY <1>1, <1>2, <1>3, <1>4 DEF Inv

\* Every step keeps the invariant, if no two processes run at a time and the
\* names sort.
LEMMA StepInv == Alone /\ Inv /\ [Next]_vars => Inv'
<1> SUFFICES ASSUME Alone, Inv, [Next]_vars PROVE Inv'
  OBVIOUS
<1>1. NamesSorted
  BY DEF Alone
<1>2. ASSUME NEW p \in Procs, Start(p) PROVE Inv'
  BY <1>2, StartInv
<1>3. ASSUME NEW p \in Procs, Step(p) PROVE Inv'
  <2>1. CASE Check(p)
    BY <2>1, CheckInv
  <2>2. CASE FindNone(p)
    BY <2>2, FindNoneInv
  <2>3. CASE Find(p)
    BY <2>3, FindInv
  <2>4. CASE UnpackOpen(p)
    BY <2>4, UnpackOpenInv
  <2>5. CASE UnpackItem(p)
    BY <2>5, UnpackItemInv
  <2>6. CASE UnpackDone(p)
    BY <2>6, UnpackDoneInv
  <2>7. CASE TarFails(p)
    BY <2>7, TarFailsInv
  <2>8. CASE NewProgram(p)
    BY <2>8, NewProgramInv
  <2>9. CASE CopyProgram(p)
    BY <2>9, CopyProgramInv
  <2>10. CASE UnlinkProgram(p)
    BY <2>10, UnlinkProgramInv
  <2>11. CASE ChmodProgram(p)
    BY <2>11, ChmodProgramInv
  <2>12. CASE List(p)
    BY <2>12, ListInv
  <2>13. CASE NextUpdate(p)
    BY <2>13, NextUpdateInv
  <2>14. CASE ExtractFile(p)
    BY <1>1, <2>14, ExtractFileInv
  <2>15. CASE ExtractDone(p)
    BY <2>15, ExtractDoneInv
  <2>16. CASE DeleteFile(p)
    BY <1>1, <2>16, DeleteFileInv
  <2>17. CASE DeleteDone(p)
    BY <1>1, <2>17, DeleteDoneInv
  <2>18. CASE InstallDone(p)
    BY <2>18, InstallDoneInv
  <2>19. CASE RemoveFolder(p)
    BY <2>19, RemoveFolderInv
  <2>20. CASE Success(p)
    BY <2>20, SuccessInv
  <2>21. CASE clear_update_folder(p)
    BY <2>21, ClearInv
  <2>22. CASE ClearDone(p)
    BY <2>22, ClearDoneInv
  <2>. QED  BY <1>3, <2>1, <2>2, <2>3, <2>4, <2>5, <2>6, <2>7, <2>8, <2>9, <2>10, <2>11,
               <2>12, <2>13, <2>14, <2>15, <2>16, <2>17, <2>18, <2>19, <2>20, <2>21, <2>22
            DEF Step
<1>4. ASSUME NEW p \in Procs, Kill(p) PROVE Inv'
  BY <1>4, KillInv
<1>5. ASSUME NEW k \in Packages, Download(k) PROVE Inv'
  BY <1>5, DownloadInv
<1>6. CASE Reboot
  BY <1>6, RebootInv
<1>7. CASE UNCHANGED vars
  BY <1>7, StutterInv
<1>. QED  BY <1>2, <1>3, <1>4, <1>5, <1>6, <1>7 DEF Next

\* The inductive invariant: where files of which release may be, whatever was
\* cut off, if no two processes run at a time and the names of the updates
\* sort as their numbers do (nothing in the code ensures either: it looks for
\* other processes once, and sorts strings).
THEOREM Invariance == Alone => (Spec => []Inv)
<1> SUFFICES ASSUME Alone PROVE Spec => []Inv
  OBVIOUS
<1>1. Init => Inv
  BY InitInv
<1>2. Inv /\ [Next]_vars => Inv'
  BY StepInv
<1>. QED  BY <1>1, <1>2, PTL DEF Spec

\* When the program reports success, the files that updates carry are those of
\* the release, for any releases, any number of stored packages and of cuts at
\* any step, except out of a folder that a cut left half, or with a newer
\* release begun before; under Alone (install_update_packages, run_update).
THEOREM SuccessMeansCompleteHolds == Alone => (Spec => []SuccessMeansComplete)
<1> SUFFICES ASSUME Alone PROVE Spec => []SuccessMeansComplete
  OBVIOUS
<1>1. Inv => SuccessMeansComplete
  BY DEF Inv
<1>. QED  BY <1>1, Invariance, PTL

\* As long as files are of two releases, a package is stored, or a failure or
\* a success that is none was the last result; under Alone
\* (clear_update_folder).
THEOREM CanBeFinishedHolds == Alone => (Spec => []CanBeFinished)
<1> SUFFICES ASSUME Alone PROVE Spec => []CanBeFinished
  OBVIOUS
<1>1. Inv => CanBeFinished
  BY DEF Inv
<1>. QED  BY <1>1, Invariance, PTL
==========================================================================
