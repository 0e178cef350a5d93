---------------------------- MODULE Installation ----------------------------
(***************************************************************************)
(* objective_update_device_testbed and the files it leaves on the device:  *)
(* unzip_testbed and down_file_and_replace (logic_impl_file_opt.cpp),      *)
(* recursive_decompress (miniz_impl.inl) and move_file                     *)
(* (filesystem_impl.inl).                                                  *)
(*                                                                         *)
(* An update runs alone, on the main thread.  Any of its steps may fail,   *)
(* and then it returns at once; or the device goes down.  For the files    *)
(* the two are the same: what was done stays, and nothing is undone.  The  *)
(* next update starts from there.                                          *)
(*                                                                         *)
(* A file is its name and the update it came with.  An archive has files   *)
(* under the directory that is its first entry, if that is a directory,    *)
(* and files beside it.                                                    *)
(***************************************************************************)
EXTENDS Integers, Sequences, FiniteSets, SequencesExt

CONSTANTS
  Names,       (* names of files of the testbed                            *)
  Archives,    (* archives [rooted, inside, beside] that can be downloaded *)
  MaxUpdates,  (* bound: how many updates are made                         *)
  MaxFaults    (* bound: how many of them fail or are cut short            *)

ASSUME ArchivesAssumption ==
  \A a \in Archives :
    /\ a.rooted \in BOOLEAN
    /\ a.inside \subseteq Names /\ a.beside \subseteq Names
    /\ a.inside # {} => a.rooted
ASSUME BoundsAssumption == MaxUpdates \in Nat /\ MaxFaults \in Nat

License == "license"
ASSUME NamesAssumption == License \notin Names

Torn == -1    (* a file that was opened for writing and not yet written    *)
Files == [name : Names \cup {License}, ver : {Torn} \cup 0 .. MaxUpdates]

VARIABLES
  pc,        (* where the update is                                        *)
  part,      (* "testbed" (unzip_testbed) or "license"                     *)
  archives,  (* the archives of the updates so far                         *)
  cache,     (* what is in /var/TESTBED/tmp                                *)
  target,    (* the files in /var/TESTBED/testbed_objective; <<>>, or one  *)
             (* set of files when the directory is there                   *)
  root,      (* the same of the archive's directory in it                  *)
  spares,    (* of /var/TESTBED/tmp_for_name, tmp_for_name/tmp_for_name... *)
  todo,      (* entries that are not extracted yet                         *)
  faults,    (* how many updates failed or were cut short                  *)
  result     (* how the last update ended                                  *)

disk == <<cache, target, root, spares>>
vars == <<pc, part, archives, disk, todo, faults, result>>

Pcs == {"idle", "space", "clean", "download", "open", "root", "extract",
        "try_name", "rename_out", "remove", "rename_in", "replace", "rename",
        "tidy"}

Update == Len(archives)
Archive == archives[Update]
New(names) == {[name |-> n, ver |-> Update] : n \in names}

Init ==
  /\ pc = "idle"
  /\ part = "testbed"
  /\ archives = <<>>
  /\ cache = {}
  /\ target = <<{[name |-> n, ver |-> 0] : n \in Names \cup {License}}>>
  /\ root = <<>>
  /\ spares = <<>>
  /\ todo = {}
  /\ faults = 0
  /\ result = "none"

Goto(p) == pc' = p
Unchanged(others) == UNCHANGED <<others, archives, faults, result>>

-----------------------------------------------------------------------------
UpdateBegin(a) ==
  /\ pc = "idle"
  /\ Update < MaxUpdates
  /\ archives' = Append(archives, a)
  /\ part' = "testbed"
  /\ result' = "none"
  /\ Goto("space")
  /\ UNCHANGED <<disk, todo, faults>>

Fault ==
  /\ faults < MaxFaults
  /\ faults' = faults + 1
  /\ result' = "fail"
  /\ todo' = {}
  /\ Goto("idle")

(* Any step fails, or the device goes down.                                *)
CutShort ==
  /\ pc # "idle"
  /\ Fault
  /\ UNCHANGED <<part, archives, disk>>

(* Both parts begin with the test for room (which is passed when the size  *)
(* or the room cannot be told), an empty cache and a download.             *)
url_space_measure ==
  /\ pc = "space"
  /\ Goto("clean")
  /\ Unchanged(<<part, disk, todo>>)

clean_folder ==
  /\ pc = "clean"
  /\ cache' = {}
  /\ Goto("download")
  /\ Unchanged(<<part, target, root, spares, todo>>)

http_download ==
  /\ pc = "download"
  /\ cache' = {part}
  /\ Goto(IF part = "testbed" THEN "open" ELSE "replace")
  /\ Unchanged(<<part, target, root, spares, todo>>)

-----------------------------------------------------------------------------
(* recursive_decompress: the files go into the target, over what is there. *)

MakeDir(dir) == IF dir = <<>> THEN <<{}>> ELSE dir
Put(files, file) == {f \in files : f.name # file.name} \cup {file}

OpenArchive ==
  /\ pc = "open"
  /\ target' = MakeDir(target)
  /\ todo' = Archive.inside \cup Archive.beside
  /\ Goto(IF Archive.rooted THEN "root" ELSE "extract")
  /\ Unchanged(<<part, cache, root, spares>>)

(* The first entry of the archive is its directory.                        *)
ExtractRoot ==
  /\ pc = "root"
  /\ root' = MakeDir(root)
  /\ Goto("extract")
  /\ Unchanged(<<part, cache, target, spares, todo>>)

(* Files under the archive's directory go to root, the others beside it.   *)
PutEntry(n, ver) ==
  LET file == [name |-> n, ver |-> ver] IN
  IF n \in Archive.inside
    THEN root' = <<Put(root[1], file)>> /\ UNCHANGED target
    ELSE target' = <<Put(target[1], file)>> /\ UNCHANGED root

(* Mutant: the target is cleared first.                                    *)
ExtractEntryCleared(n) ==
  /\ pc = "extract"
  /\ n \in todo
  /\ target' = <<{}>>
  /\ root' = <<Put(MakeDir(root)[1], [name |-> n, ver |-> Update])>>
  /\ todo' = todo \ {n}
  /\ UNCHANGED pc
  /\ Unchanged(<<part, cache, spares>>)
ExtractEntry(n) ==
  /\ pc = "extract"
  /\ n \in todo
  /\ PutEntry(n, Update)
  /\ todo' = todo \ {n}
  /\ UNCHANGED pc
  /\ Unchanged(<<part, cache, spares>>)

(* The file was opened, which empties it, and then its data or the disk    *)
(* failed, or the device went down.                                        *)
ExtractTorn(n) ==
  /\ pc = "extract"
  /\ n \in todo
  /\ PutEntry(n, Torn)
  /\ Fault
  /\ UNCHANGED <<part, archives, cache, spares>>

(* Mutant: the directory of the archive is kept.                           *)
ExtractedKeepRoot ==
  /\ pc = "extract"
  /\ todo = {}
  /\ Goto("tidy")
  /\ Unchanged(<<part, disk, todo>>)
Extracted ==
  /\ pc = "extract"
  /\ todo = {}
  /\ Goto(IF Archive.rooted THEN "try_name" ELSE "tidy")
  /\ Unchanged(<<part, disk, todo>>)

-----------------------------------------------------------------------------
(* move_file, from root over the target that holds it: root goes to a name *)
(* that does not exist, next to the target or under what an earlier update *)
(* left there, the target is removed, and root gets its place.             *)

(* The name is tried: a directory of that name is made.                    *)
TryName ==
  /\ pc = "try_name"
  /\ spares' = Append(spares, {})
  /\ Goto("rename_out")
  /\ Unchanged(<<part, cache, target, root, todo>>)

(* The empty directory is removed again and root takes its name.           *)
(* Mutants: root is not saved; the name must not have been taken before.   *)
RenameOutNot ==
  /\ pc = "rename_out"
  /\ Goto("remove")
  /\ Unchanged(<<part, disk, todo>>)
RenameOutOnce ==
  /\ pc = "rename_out"
  /\ Len(spares) = 1
  /\ spares' = <<root[1]>>
  /\ root' = <<>>
  /\ Goto("remove")
  /\ Unchanged(<<part, cache, target, todo>>)
RenameOut ==
  /\ pc = "rename_out"
  /\ spares' = Append(Front(spares), root[1])
  /\ root' = <<>>
  /\ Goto("remove")
  /\ Unchanged(<<part, cache, target, todo>>)

RemoveOne(f) ==
  /\ pc = "remove"
  /\ f \in target[1]
  /\ target' = <<target[1] \ {f}>>
  /\ UNCHANGED pc
  /\ Unchanged(<<part, cache, root, spares, todo>>)

RemoveTarget ==
  /\ pc = "remove"
  /\ target = <<{}>>
  /\ target' = <<>>
  /\ Goto("rename_in")
  /\ Unchanged(<<part, cache, root, spares, todo>>)

RenameIn ==
  /\ pc = "rename_in"
  /\ target' = <<Last(spares)>>
  /\ spares' = Front(spares)
  /\ Goto("tidy")
  /\ Unchanged(<<part, cache, root, todo>>)

-----------------------------------------------------------------------------
(* mv_file_to_target of the license: remove the old one, rename.           *)

RemoveOld ==
  /\ pc = "replace"
  /\ target' = <<{f \in target[1] : f.name # License}>>
  /\ Goto("rename")
  /\ Unchanged(<<part, cache, root, spares, todo>>)

RenameNew ==
  /\ pc = "rename"
  /\ target' = <<Put(target[1], [name |-> License, ver |-> Update])>>
  /\ cache' = {}
  /\ Goto("tidy")
  /\ Unchanged(<<part, root, spares, todo>>)

(* The cache is emptied again, and the next part begins or the update is   *)
(* over.                                                                   *)
TestbedDone ==
  /\ pc = "tidy"
  /\ part = "testbed"
  /\ cache' = {}
  /\ part' = "license"
  /\ Goto("space")
  /\ Unchanged(<<target, root, spares, todo>>)

UpdateDone ==
  /\ pc = "tidy"
  /\ part = "license"
  /\ cache' = {}
  /\ result' = "ok"
  /\ Goto("idle")
  /\ UNCHANGED <<part, archives, target, root, spares, todo, faults>>

Step ==
  \/ url_space_measure
  \/ clean_folder
  \/ http_download
  \/ OpenArchive
  \/ ExtractRoot
  \/ \E n \in Names : ExtractEntry(n)
  \/ Extracted
  \/ TryName
  \/ RenameOut
  \/ \E f \in Files : RemoveOne(f)
  \/ RemoveTarget
  \/ RenameIn
  \/ RemoveOld
  \/ RenameNew
  \/ TestbedDone
  \/ UpdateDone

Next ==
  \/ \E a \in Archives : UpdateBegin(a)
  \/ CutShort
  \/ \E n \in Names : ExtractTorn(n)
  \/ Step

(* An update that has begun goes on.                                       *)
Spec == Init /\ [][Next]_vars
FairSpec == Spec /\ WF_vars(Step)

-----------------------------------------------------------------------------
(* The fields hold values of their types; what a step of move_file relies  *)
(* on, that root was saved before the target is removed, and that nothing  *)
(* is in the way when it is moved in, is there.                            *)
TypeOK ==
  /\ pc \in Pcs
  /\ part \in {"testbed", "license"}
  /\ archives \in Seq(Archives) /\ Update <= MaxUpdates
  /\ cache \subseteq {"testbed", "license"}
  /\ target \in Seq(SUBSET Files) /\ Len(target) <= 1
  /\ root \in Seq(SUBSET Files) /\ Len(root) <= 1
  /\ spares \in Seq(SUBSET Files)
  /\ todo \subseteq Names
  /\ faults \in 0 .. MaxFaults
  /\ result \in {"none", "ok", "fail"}
  /\ root # <<>> => target # <<>>
  /\ pc \in {"try_name", "rename_out"} => root # <<>>
  /\ pc \in {"remove", "rename_in"} => root = <<>> /\ spares # <<>>
  /\ pc = "rename_in" => target = <<>>
  /\ pc \in {"open", "root", "extract"} => cache = {"testbed"}

-----------------------------------------------------------------------------
(* The files an update is to install: those under the archive's directory, *)
(* if it has one.  The ones beside it are removed with the old target.     *)
Wanted(a) == IF a.rooted THEN a.inside ELSE a.beside

(* When an update reports success, the target has every file of its        *)
(* archive that is Wanted (not those beside the archive's directory),      *)
(* whole and in its version, and its license, whatever earlier             *)
(* updates have left in the target, the cache or under the spare name; and *)
(* if none was cut short, an archive with a directory leaves nothing else. *)
SuccessInstalls ==
  result = "ok" =>
    /\ target # <<>> /\ New(Wanted(Archive) \cup {License}) \subseteq target[1]
    /\ faults = 0 /\ Archive.rooted =>
         target[1] = New(Wanted(Archive) \cup {License})
    /\ cache = {}

WantedOf(u) == IF u = 0 THEN Names ELSE Wanted(archives[u])
Holds(files, u) == {[name |-> n, ver |-> u] : n \in WantedOf(u)} \subseteq files
Complete(files) == \E u \in 0 .. Update : Holds(files, u)

(* As long as archives consist of one directory, all files of some version *)
(* are on the device at any time, in the target or under a spare name,     *)
(* however often updates fail or are cut short.                            *)
CompleteSomewhere ==
  (\A u \in 1 .. Update : archives[u].beside = {})
    => \/ target # <<>> /\ Complete(target[1])
       \/ \E i \in 1 .. Len(spares) : Complete(spares[i])

(* Whatever failed updates have left behind, one that meets no failure     *)
(* itself goes through.                                                    *)
RetrySucceeds ==
  (pc # "idle" /\ faults = MaxFaults) ~> (result = "ok")
=============================================================================
