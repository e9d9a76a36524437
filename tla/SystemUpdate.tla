---------------------------- MODULE SystemUpdate ----------------------------
(***************************************************************************)
(* system-update: create_update_package.py makes from an old and a new     *)
(* file system the files to put and the list of files to delete;           *)
(* system_update.py unpacks the newest downloaded package, replaces itself *)
(* if the package has a new program, and installs the updates in it one    *)
(* after the other.  It is started from outside, again if it is cut off,   *)
(* and maybe while it runs.                                                *)
(*                                                                         *)
(* The package of release k holds the updates 1 .. k, update u leads from  *)
(* release u - 1 to u.  External: tar (one file at a time), rsync, the     *)
(* download, the reboot that clears /tmp, who starts the program again.    *)
(* An update does not carry all that a release changes: what rsync lists   *)
(* as a link is in neither list, a file whose copy fails is missing from   *)
(* the package, and some links are not deleted.                            *)
(*                                                                         *)
(* Left out: directories, the log and progress messages, the check of the  *)
(* package's name, what the new program does differently.                  *)
(***************************************************************************)
EXTENDS Naturals, FiniteSets

CONSTANTS
  Paths,
  Contents,   \* what a file may hold
  None,       \* the "content" of a file that is not there
  Links,      \* the contents that rsync -v lists as "x -> y" or "x => y"
  Kept,       \* the links that are dangling or lead to a folder
  Newest,     \* the number of the newest release
  Release,    \* Release[i] is the file system of release i
  Uncopied,   \* Uncopied[u]: the files whose rsync failed for update u
  Rank,       \* the order of the names of the packages, and of the updates
  Programs,   \* the releases whose package has a new system_update.py
  Procs,      \* processes of system_update.py
  Concurrent, \* may it be started while it runs?
  MaxCuts     \* bound: reboots and kills

Packages == 1 .. Newest

ASSUME UpdateAssumption ==
  /\ Newest \in Nat
  /\ Kept \subseteq Links /\ Links \subseteq Contents /\ None \in Contents \ Links
  /\ Release \in [0 .. Newest -> [Paths -> Contents]]
  /\ Uncopied \in [Packages -> SUBSET Paths]
  /\ Rank \in [Packages -> Nat]
  /\ \A i, j \in Packages : Rank[i] = Rank[j] => i = j
  /\ Programs \subseteq Packages
  /\ Concurrent \in BOOLEAN
  /\ MaxCuts \in Nat

VARIABLES
  fs,      \* the installed files
  stored,  \* /etc/system-update: the downloaded packages
  tmp,     \* /tmp/system-update: what is unpacked of each package
  program, \* /usr/bin/system_update.py: whole, partial, or its mode not set
  proc,    \* each process: place, package, updates and files left, result;
           \* history: was the folder it found only half there?
  tried,   \* history: the newest release that was begun
  told,    \* history: "failed" or "wrong", a success that is none, was the
           \* last result since the last download
  cuts

vars == <<fs, stored, tmp, program, proc, tried, told, cuts>>

-----------------------------------------------------------------------------
(* create_update_package.py: the files that rsync lists as changed go into *)
(* the update if they can be copied, what it deletes into del.list.        *)

Update(u, old, new) ==
  [put |-> {f \in Paths : /\ new[f] # old[f]
                          /\ new[f] \notin {None} \cup Links /\ f \notin Uncopied[u]},
   del |-> {f \in Paths : old[f] # None /\ new[f] = None}]

UpdateOf(u) == Update(u, Release[u - 1], Release[u])

-----------------------------------------------------------------------------
\* In a package, 0 stands for the new program, u for update-u.tar.bz2.
Items(k) == 1 .. k \cup (IF k \in Programs THEN {0} ELSE {})

NoFolder == [there |-> FALSE, items |-> {}]
Idle == [pc |-> "idle", pkg |-> 0, half |-> FALSE, todo |-> {}, upd |-> 0, left |-> {},
         result |-> "none"]

Whole(k) == 1 .. k \subseteq tmp[k].items

Init ==
  /\ fs = Release[0]
  /\ stored \in SUBSET Packages
  /\ tmp = [k \in Packages |-> NoFolder]
  /\ program = "whole"
  /\ proc = [p \in Procs |-> Idle]
  /\ tried = 0 /\ told = "nothing"
  /\ cuts = 0

At(p, pc) == proc[p].pc = pc
Runs(p) == ~ At(p, "idle")
Pkg(p) == proc[p].pkg

\* The process goes on with record r, and no failure.
Become(p, r) == proc' = [proc EXCEPT ![p] = r] /\ UNCHANGED told
Goto(p, pc) == Become(p, [proc[p] EXCEPT !.pc = pc])

\* return_result: what is stored and unpacked is cleared, whoever uses it.
Failed(p) ==
  /\ proc' = [proc EXCEPT ![p].pc = "clear", ![p].result = "failed"]
  /\ told' = "failed"

\* A script that is cut off in the middle does not run.
Start(p) ==
  /\ ~ Runs(p) /\ program # "partial"
  /\ Concurrent \/ \A q \in Procs : ~ Runs(q)
  /\ Become(p, [Idle EXCEPT !.pc = "check"])
  /\ UNCHANGED <<fs, stored, tmp, program, tried, cuts>>

\* check_system_update_exist.
Check(p) ==
  /\ At(p, "check")
  /\ IF \E q \in Procs \ {p} : Runs(q) THEN Failed(p) ELSE Goto(p, "find")
  /\ UNCHANGED <<fs, stored, tmp, program, tried, cuts>>

\* find_update_package_and_extract: of the packages the last by name; a folder
\* that is there is taken for one that the program's former version left.
FindNone(p) ==
  /\ At(p, "find") /\ stored = {}
  /\ Failed(p)
  /\ UNCHANGED <<fs, stored, tmp, program, tried, cuts>>

Find(p) ==
  /\ At(p, "find")
  /\ \E k \in stored :
       /\ \A j \in stored : Rank[j] <= Rank[k]
       /\ Become(p, [proc[p] EXCEPT !.pkg = k, !.half = tmp[k].there /\ ~ Whole(k),
                       !.pc = IF tmp[k].there THEN "program" ELSE "unpack"])
       /\ tried' = IF k > tried THEN k ELSE tried
  /\ UNCHANGED <<fs, stored, tmp, program, cuts>>

\* tar opens the package; what it unpacks appears a file at a time.
UnpackOpen(p) ==
  /\ At(p, "unpack")
  /\ IF Pkg(p) \in stored
       THEN /\ tmp' = [tmp EXCEPT ![Pkg(p)] = [there |-> TRUE, items |-> @.items]]
            /\ Become(p, [proc[p] EXCEPT !.pc = "unpacking", !.todo = Items(Pkg(p))])
       ELSE Failed(p) /\ UNCHANGED tmp
  /\ UNCHANGED <<fs, stored, program, tried, cuts>>

UnpackItem(p) ==
  /\ At(p, "unpacking")
  /\ \E u \in proc[p].todo :
       /\ Become(p, [proc[p] EXCEPT !.todo = @ \ {u}])
       /\ tmp' = [tmp EXCEPT ![Pkg(p)] = [there |-> TRUE, items |-> @.items \cup {u}]]
  /\ UNCHANGED <<fs, stored, program, tried, cuts>>

UnpackDone(p) ==
  /\ At(p, "unpacking") /\ proc[p].todo = {}
  /\ Goto(p, "program")
  /\ UNCHANGED <<fs, stored, tmp, program, tried, cuts>>

\* The disk is full, the package is damaged.
TarFails(p) ==
  /\ At(p, "unpacking") \/ At(p, "extract")
  /\ Failed(p)
  /\ UNCHANGED <<fs, stored, tmp, program, tried, cuts>>

\* The folder is gone: os.chdir raises, nothing is cleared.
Raises(p) == Become(p, [Idle EXCEPT !.result = "died"])

\* find_new_update_program: the new program is moved to its place: renamed,
NewProgram(p) ==
  /\ At(p, "program")
  /\ IF 0 \in tmp[Pkg(p)].items
       THEN \/ /\ tmp' = [tmp EXCEPT ![Pkg(p)].items = @ \ {0}]
               /\ program' = "mode"
               /\ Goto(p, "chmod")
            \/ /\ program' = "partial"
               /\ Goto(p, "copy")
               /\ UNCHANGED tmp
       ELSE /\ IF tmp[Pkg(p)].there THEN Goto(p, "list") ELSE Raises(p)
            /\ UNCHANGED <<tmp, program>>
  /\ UNCHANGED <<fs, stored, tried, cuts>>

\* or, if /tmp is another file system, copied with its mode, unless the disk
\* is full,
CopyProgram(p) ==
  /\ At(p, "copy")
  /\ \/ program' = "mode" /\ Goto(p, "unlink")
     \/ Raises(p) /\ UNCHANGED program
  /\ UNCHANGED <<fs, stored, tmp, tried, cuts>>

\* and unlinked.
UnlinkProgram(p) ==
  /\ At(p, "unlink")
  /\ IF 0 \in tmp[Pkg(p)].items
       THEN tmp' = [tmp EXCEPT ![Pkg(p)].items = @ \ {0}] /\ Goto(p, "chmod")
       ELSE Raises(p) /\ UNCHANGED tmp
  /\ UNCHANGED <<fs, stored, program, tried, cuts>>

\* Then it is made executable, and the old one ends without clearing.
ChmodProgram(p) ==
  /\ At(p, "chmod")
  /\ program' = "whole"
  /\ Become(p, [Idle EXCEPT !.result = "new program"])
  /\ UNCHANGED <<fs, stored, tmp, tried, cuts>>

\* install_update_packages.
List(p) ==
  /\ At(p, "list")
  /\ LET updates == tmp[Pkg(p)].items \ {0}
     IN  IF ~ tmp[Pkg(p)].there THEN Raises(p)
         ELSE IF updates = {} THEN Failed(p)
         ELSE Become(p, [proc[p] EXCEPT !.pc = "next", !.todo = updates])
  /\ UNCHANGED <<fs, stored, tmp, program, tried, cuts>>

\* Mutant of IsNext: without packages.sort().
IsNextUnsorted(u, todo) == u \in todo

\* The updates are installed in the order of their names.
IsNext(u, todo) == u \in todo /\ \A v \in todo : Rank[u] <= Rank[v]

NextUpdate(p) ==
  /\ At(p, "next")
  /\ \E u \in proc[p].todo :
       /\ IsNext(u, proc[p].todo)
       /\ IF u \in tmp[Pkg(p)].items
            THEN Become(p, [proc[p] EXCEPT !.pc = "extract", !.upd = u, !.left = UpdateOf(u).put])
            ELSE Failed(p)
  /\ UNCHANGED <<fs, stored, tmp, program, tried, cuts>>

ExtractFile(p) ==
  /\ At(p, "extract")
  /\ \E f \in proc[p].left :
       /\ fs' = [fs EXCEPT ![f] = Release[proc[p].upd][f]]
       /\ Become(p, [proc[p] EXCEPT !.left = @ \ {f}])
  /\ UNCHANGED <<stored, tmp, program, tried, cuts>>

ExtractDone(p) ==
  /\ At(p, "extract") /\ proc[p].left = {}
  /\ Become(p, [proc[p] EXCEPT !.pc = "delete", !.left = UpdateOf(proc[p].upd).del])
  /\ UNCHANGED <<fs, stored, tmp, program, tried, cuts>>

\* Mutant of DeleteFile: the first file of the list is all that is deleted.
DeleteFileOne(p) ==
  /\ At(p, "delete")
  /\ \E f \in proc[p].left :
       /\ fs' = [fs EXCEPT ![f] = None]
       /\ Become(p, [proc[p] EXCEPT !.left = {}])
  /\ UNCHANGED <<stored, tmp, program, tried, cuts>>

\* delete_useless_files: what os.access, isdir and isfile make nothing of stays.
DeleteFile(p) ==
  /\ At(p, "delete")
  /\ \E f \in proc[p].left :
       /\ fs' = [fs EXCEPT ![f] = IF @ \in Kept THEN @ ELSE None]
       /\ Become(p, [proc[p] EXCEPT !.left = @ \ {f}])
  /\ UNCHANGED <<stored, tmp, program, tried, cuts>>

DeleteDone(p) ==
  /\ At(p, "delete") /\ proc[p].left = {}
  /\ Become(p, [proc[p] EXCEPT !.pc = "next", !.todo = @ \ {proc[p].upd}])
  /\ UNCHANGED <<fs, stored, tmp, program, tried, cuts>>

\* shutil.rmtree, an item at a time.
Remove(k) ==
  /\ tmp[k].there
  /\ IF tmp[k].items = {} THEN tmp' = [tmp EXCEPT ![k] = NoFolder]
     ELSE \E u \in tmp[k].items : tmp' = [tmp EXCEPT ![k].items = @ \ {u}]

\* All are installed: the folder is removed,
InstallDone(p) ==
  /\ At(p, "next") /\ proc[p].todo = {}
  /\ Goto(p, "remove")
  /\ UNCHANGED <<fs, stored, tmp, program, tried, cuts>>

RemoveFolder(p) ==
  /\ At(p, "remove")
  /\ Remove(Pkg(p))
  /\ UNCHANGED <<fs, stored, program, proc, tried, told, cuts>>

\* success is reported, rightly if the folder was whole and no newer release
\* had been begun, then everything is cleared.
Success(p) ==
  /\ At(p, "remove") /\ ~ tmp[Pkg(p)].there
  /\ proc' = [proc EXCEPT ![p].pc = "clear", ![p].result = "success"]
  /\ told' = IF proc[p].half \/ Pkg(p) < tried THEN "wrong" ELSE "nothing"
  /\ UNCHANGED <<fs, stored, tmp, program, tried, cuts>>

\* Mutant of clear_update_folder: packages are removed as soon as unpacked.
clear_update_folderEarly(p) ==
  /\ At(p, "clear") \/ At(p, "list")
  /\ \/ At(p, "clear") /\ (\E k \in Packages : Remove(k)) /\ UNCHANGED stored
     \/ \E k \in stored : stored' = stored \ {k} /\ UNCHANGED tmp
  /\ UNCHANGED <<fs, program, proc, tried, told, cuts>>

\* clear_update_folder: first /tmp, an item at a time, then the packages.
clear_update_folder(p) ==
  /\ At(p, "clear")
  /\ IF \E k \in Packages : tmp[k].there
       THEN (\E k \in Packages : Remove(k)) /\ UNCHANGED stored
       ELSE \E k \in stored : stored' = stored \ {k} /\ UNCHANGED tmp
  /\ UNCHANGED <<fs, program, proc, tried, told, cuts>>

ClearDone(p) ==
  /\ At(p, "clear") /\ stored = {} /\ \A k \in Packages : ~ tmp[k].there
  /\ Become(p, [Idle EXCEPT !.result = proc[p].result])
  /\ UNCHANGED <<fs, stored, tmp, program, tried, cuts>>

-----------------------------------------------------------------------------
(* External.                                                               *)

\* No release older than one that was begun is downloaded.
Download(k) ==
  /\ \A p \in Procs : ~ Runs(p)
  /\ k >= tried
  /\ stored' = stored \cup {k}
  /\ told' = "nothing"
  /\ UNCHANGED <<fs, tmp, program, proc, tried, cuts>>

\* A process that is cut off.
Cut(p) == IF Runs(p) THEN [Idle EXCEPT !.result = "cut"] ELSE proc[p]

Reboot ==
  /\ cuts < MaxCuts
  /\ cuts' = cuts + 1
  /\ proc' = [p \in Procs |-> Cut(p)]
  /\ tmp' = [k \in Packages |-> NoFolder]
  /\ UNCHANGED <<fs, stored, program, tried, told>>

Kill(p) ==
  /\ Runs(p) /\ cuts < MaxCuts
  /\ cuts' = cuts + 1
  /\ proc' = [proc EXCEPT ![p] = Cut(p)]
  /\ UNCHANGED <<fs, stored, tmp, program, tried, told>>

Step(p) ==
  \/ Check(p) \/ FindNone(p) \/ Find(p) \/ UnpackOpen(p) \/ UnpackItem(p)
  \/ UnpackDone(p) \/ TarFails(p)
  \/ NewProgram(p) \/ CopyProgram(p) \/ UnlinkProgram(p) \/ ChmodProgram(p)
  \/ List(p) \/ NextUpdate(p) \/ ExtractFile(p) \/ ExtractDone(p)
  \/ DeleteFile(p) \/ DeleteDone(p) \/ InstallDone(p) \/ RemoveFolder(p)
  \/ Success(p) \/ clear_update_folder(p) \/ ClearDone(p)

Next ==
  \/ \E p \in Procs : Start(p) \/ Step(p) \/ Kill(p)
  \/ \E k \in Packages : Download(k)
  \/ Reboot

\* The program runs on, and while a package waits someone starts it, if it is
\* there and may be executed.
Fairness ==
  \A p \in Procs :
    WF_vars(Step(p)) /\ WF_vars(stored # {} /\ program = "whole" /\ Start(p))

Spec == Init /\ [][Next]_vars /\ Fairness

-----------------------------------------------------------------------------
Pcs == {"idle", "check", "find", "unpack", "unpacking", "program", "copy",
        "unlink", "chmod", "list", "next", "extract", "delete", "remove", "clear"}

TypeOK ==
  /\ fs \in [Paths -> Contents]
  /\ stored \subseteq Packages
  /\ tmp \in [Packages -> [there : BOOLEAN, items : SUBSET (0 .. Newest)]]
  /\ program \in {"whole", "partial", "mode"}
  /\ proc \in [Procs -> [pc : Pcs, pkg : 0 .. Newest, half : BOOLEAN,
                         todo : SUBSET (0 .. Newest),
                         upd : 0 .. Newest, left : SUBSET Paths,
                         result : {"none", "success", "failed", "new program", "died", "cut"}]]
  /\ tried \in 0 .. Newest /\ told \in {"nothing", "failed", "wrong"}
  /\ cuts \in 0 .. MaxCuts

\* The updates 1 .. k can bring about what the releases make of f: each change
\* of f is to a file that was copied, or is the deletion of one that goes.
Carried(f, k) ==
  \A u \in 1 .. k :
    Release[u][f] # Release[u - 1][f]
      => IF Release[u][f] = None THEN Release[u - 1][f] \notin Kept
         ELSE Release[u][f] \notin Links /\ f \notin Uncopied[u]

\* All the files that the package of release k can bring up to date are.
Complete(k) == \A f \in Paths : Carried(f, k) => fs[f] = Release[k][f]

\* When the program reports success, the installed files are those of the
\* release: wherever it was cut off before, in tar, rm, the replacement of the
\* program or the clearing, and whatever releases the files came from, except
\* after a cut that left a folder half, or an older package alone, behind
\* (run_update, install_update_packages, create_package).
SuccessMeansComplete ==
  \A p \in Procs :
    At(p, "clear") /\ proc[p].result = "success"
      => Complete(Pkg(p)) \/ proc[p].half \/ Pkg(p) < tried

\* A system with files of two releases has still the package to finish it,
\* unless a failure was reported, or a success that is none:
\* clear_update_folder removes what is stored only after the end (run_update,
\* return_result).
CanBeFinished == Complete(tried) \/ stored # {} \/ told # "nothing"

\* A cut in the replacement of the program leaves none that can be started.
Stuck == program # "whole" /\ \A p \in Procs : ~ Runs(p)

\* A stored package is in the end installed, it or a newer one, or a result is
\* reported, a failure or a success that is none: cutting the program off only
\* delays it, unless it was replacing itself.
PackageInstalled ==
  \A k \in Packages :
    k \in stored ~> (k <= tried /\ Complete(tried)) \/ told # "nothing" \/ Stuck

-----------------------------------------------------------------------------
(* Why success means complete: one process, and names that sort as the     *)
(* numbers do.                                                             *)

NamesSorted == \A i, j \in Packages : i < j => Rank[i] < Rank[j]

Alone == ~ Concurrent /\ NamesSorted

OneProcess == \A p, q \in Procs : Runs(p) /\ Runs(q) => p = q

ItemsOfPackage == \A k \in Packages : tmp[k].items \subseteq 0 .. k

Moving == {"program", "copy", "unlink", "chmod", "list"}
Installing == {"next", "extract", "delete", "remove"}

\* The package is stored as long as it is worked on, its folder is whole when
\* tar is done with it or it was found so.
KnowsPackage(p) ==
  /\ proc[p].pc \in {"unpack", "unpacking"} \cup Moving \cup Installing
       => Pkg(p) \in stored /\ Pkg(p) <= tried
  /\ At(p, "unpacking") =>
       /\ proc[p].todo \subseteq 0 .. Pkg(p)
       /\ 1 .. Pkg(p) \subseteq tmp[Pkg(p)].items \cup proc[p].todo
  /\ proc[p].pc \in Moving /\ ~ proc[p].half => Whole(Pkg(p))

\* File f has what release i made of it.
From(f, i) == fs[f] = Release[i][f]

Mixture == \A f \in Paths : Carried(f, tried) => \E i \in 0 .. tried : From(f, i)

\* The files the running update has dealt with.
Done(p) ==
  LET u == UpdateOf(proc[p].upd)
  IN  {f \in Paths : \/ (At(p, "extract") /\ f \in u.put \ proc[p].left)
                    \/ (At(p, "delete") /\ (f \in u.put \/ f \in u.del \ proc[p].left))}

\* The update that is installed is one of the package.
KnowsUpdate(p) ==
  /\ proc[p].pc \in Installing => proc[p].todo \subseteq 1 .. Pkg(p)
  /\ proc[p].pc \in {"extract", "delete"} => IsNext(proc[p].upd, proc[p].todo)
  /\ At(p, "extract") => proc[p].left \subseteq UpdateOf(proc[p].upd).put
  /\ At(p, "delete") => proc[p].left \subseteq UpdateOf(proc[p].upd).del
  /\ At(p, "remove") => proc[p].todo = {}

\* Out of a whole folder of the newest release, the updates not yet installed
\* are the last ones, and every file is from a release that no installed
\* update is newer than.
Progress(p) ==
  proc[p].pc \in Installing /\ ~ proc[p].half /\ Pkg(p) = tried =>
    /\ \A u \in proc[p].todo : u .. tried \subseteq proc[p].todo
    /\ \A f \in Paths : Carried(f, tried) =>
         \E i \in 0 .. tried :
           /\ From(f, i)
           /\ \A v \in 1 .. tried \ proc[p].todo : v <= i
           /\ f \in Done(p) => proc[p].upd <= i

KnowsResult(p) ==
  At(p, "clear") =>
    \/ proc[p].result = "failed" /\ told = "failed"
    \/ /\ proc[p].result = "success"
       /\ told = IF proc[p].half \/ Pkg(p) < tried THEN "wrong" ELSE "nothing"
       /\ Pkg(p) <= tried

Inv ==
  /\ TypeOK /\ OneProcess /\ ItemsOfPackage /\ Mixture
  /\ \A p \in Procs :
       KnowsPackage(p) /\ KnowsUpdate(p) /\ Progress(p) /\ KnowsResult(p)
  /\ SuccessMeansComplete /\ CanBeFinished
=============================================================================
