------------------------- MODULE InstallationProofs -------------------------
(***************************************************************************)
(* Proofs about Installation, for every set of names, every set of         *)
(* archives and any number of updates and failures.  The step that is hard *)
(* to see is move_file: between the removal of the target and the rename   *)
(* the new files are in one place only, and which one depends on the step. *)
(***************************************************************************)
EXTENDS Installation, SequenceTheorems, TLAPS

(* Which part the step belongs to, and which directories it finds.         *)
TestbedSteps ==
  {"open", "root", "extract", "try_name", "rename_out", "remove", "rename_in"}
StageInv ==
  /\ pc # "idle" => Update > 0
  /\ pc \in TestbedSteps => part = "testbed"
  /\ pc \in {"replace", "rename"} => part = "license"
  /\ pc \in {"root", "try_name", "rename_out", "remove", "rename_in"} =>
       Archive.rooted
  /\ pc \in {"root", "extract", "try_name", "rename_out", "remove", "tidy"} =>
       target # <<>>
  /\ pc # "idle" /\ part = "license" => target # <<>>
  /\ pc = "root" => todo = Archive.inside \cup Archive.beside
  /\ pc = "extract" => todo \subseteq Archive.inside \cup Archive.beside
  /\ pc = "extract" /\ Archive.rooted => root # <<>>
  /\ pc = "rename_out" => spares # <<>> /\ Last(spares) = {}
  /\ result = "ok" => pc = "idle" /\ Update > 0 /\ target # <<>> /\ cache = {}

(* Where the new files are, and which ones there should be by now.         *)
InRoot == pc \in {"extract", "try_name", "rename_out"} /\ Archive.rooted
InSpare == pc \in {"remove", "rename_in"}
InTarget ==
  \/ pc = "extract" /\ ~Archive.rooted
  \/ pc # "idle" /\ (pc = "tidy" \/ part = "license")
  \/ result = "ok"
Licensed == pc = "idle" \/ (pc = "tidy" /\ part = "license")
Due ==
  New(IF pc = "extract" THEN Wanted(Archive) \ todo
      ELSE IF Licensed THEN Wanted(Archive) \cup {License}
      ELSE Wanted(Archive))

InstalledInv ==
  /\ InRoot => Due \subseteq root[1]
  /\ InSpare => Due \subseteq Last(spares)
  /\ InTarget => Due \subseteq target[1]

(* While no update has failed, nothing else is in the way.                 *)
Clean == faults = 0
CleanInv ==
  Clean =>
    /\ ~InRoot => root = <<>>
    /\ InRoot => root[1] \subseteq Due
    /\ InSpare => Last(spares) \subseteq Due
    /\ InTarget /\ Archive.rooted => target[1] \subseteq Due

IInv == TypeOK /\ StageInv /\ InstalledInv /\ CleanInv /\ CompleteSomewhere

-----------------------------------------------------------------------------
(* Sequences of directories: the last one is taken away or replaced.       *)
LEMMA FrontLast ==
  ASSUME NEW S, NEW s \in Seq(S), s # <<>>
  PROVE  /\ Last(s) \in S /\ Last(s) = s[Len(s)]
         /\ Len(s) \in Nat /\ Len(s) > 0
         /\ Front(s) \in Seq(S) /\ Len(Front(s)) = Len(s) - 1
         /\ \A i \in 1 .. Len(s) - 1 : Front(s)[i] = s[i]
BY DEF Front, Last

(* A directory that is there is a sequence of one set of files.            *)
LEMMA OneDir ==
  ASSUME NEW S, NEW s \in Seq(S), Len(s) <= 1, s # <<>>
  PROVE  s[1] \in S /\ Len(s) = 1
<1>1. Len(s) \in Nat /\ Len(s) # 0
      BY EmptySeq, LenProperties
<1>2. Len(s) = 1
  <2>1. \A k \in Nat : k # 0 /\ k <= 1 => k = 1
        OBVIOUS
  <2> QED BY <1>1, <2>1, Zenon
<1> QED BY <1>2

LEMMA MadeDir ==
  ASSUME NEW s \in Seq(SUBSET Files), Len(s) <= 1
  PROVE  /\ MakeDir(s) \in Seq(SUBSET Files) /\ Len(MakeDir(s)) <= 1
         /\ MakeDir(s) # <<>>
<1>1. CASE s = <<>>
  <2>1. MakeDir(s) = <<{}>> /\ {} \in SUBSET Files
        BY <1>1 DEF MakeDir
  <2>2. <<{}>> \in Seq(SUBSET Files) /\ Len(<<{}>>) = 1
        BY <2>1
  <2>3. MakeDir(s) # <<>>
        BY <2>1
  <2> QED BY <2>1, <2>2, <2>3
<1>2. CASE s # <<>>
      BY <1>2 DEF MakeDir
<1> QED BY <1>1, <1>2

(* The new files are files, and an update that has begun has an archive.   *)
LEMMA ArchiveIs ==
  ASSUME TypeOK, Update > 0
  PROVE  /\ Archive \in Archives /\ Update \in 1 .. MaxUpdates
         /\ Archive.inside \subseteq Names /\ Archive.beside \subseteq Names
         /\ Archive.inside # {} => Archive.rooted
         /\ Wanted(Archive) \subseteq Names
         /\ \A n \in Names \cup {License} :
              [name |-> n, ver |-> Update] \in Files
BY ArchivesAssumption, BoundsAssumption
   DEF TypeOK, Update, Archive, Wanted, Files

(* What Put leaves of a directory.                                         *)
LEMMA PutFiles ==
  ASSUME NEW files \in SUBSET Files, NEW file \in Files
  PROVE  Put(files, file) \in SUBSET Files
BY DEF Put

LEMMA InitInv == Init => IInv
<1> SUFFICES ASSUME Init PROVE IInv
    OBVIOUS
<1> USE DEF Init
<1>1. Update = 0 /\ target # <<>>
      BY DEF Update
<1>2. TypeOK
      BY <1>1, BoundsAssumption DEF TypeOK, Pcs, Files, Update
<1>3. StageInv
      BY <1>1 DEF StageInv, TestbedSteps
<1>4. InstalledInv /\ CleanInv
      BY DEF InstalledInv, CleanInv, InRoot, InSpare, InTarget
<1>5. CompleteSomewhere
  <2>1. Holds(target[1], 0)
        BY DEF Holds, WantedOf
  <2>2. Complete(target[1])
        BY <1>1, <2>1 DEF Complete
  <2> QED BY <1>1, <2>2 DEF CompleteSomewhere
<1> QED BY <1>2, <1>3, <1>4, <1>5 DEF IInv

-----------------------------------------------------------------------------
(* Every step keeps the types of the variables, and what the steps of      *)
(* move_file rely on.                                                      *)
LEMMA TypeStep == TypeOK /\ StageInv /\ [Next]_vars => TypeOK'
<1> SUFFICES ASSUME TypeOK, StageInv, [Next]_vars PROVE TypeOK'
    OBVIOUS
<1> USE DEF Goto, Unchanged, disk
<1>1. ASSUME NEW a \in Archives, UpdateBegin(a) PROVE TypeOK'
  <2>1. /\ archives' \in Seq(Archives) /\ Update' <= MaxUpdates
        BY <1>1, BoundsAssumption DEF UpdateBegin, TypeOK, Update
  <2> QED BY <1>1, <2>1 DEF UpdateBegin, TypeOK, Pcs
<1>2. CASE CutShort
      BY <1>2, BoundsAssumption DEF CutShort, Fault, TypeOK, Pcs, Update
<1>3. CASE url_space_measure \/ clean_folder \/ http_download
      BY <1>3 DEF url_space_measure, clean_folder, http_download, TypeOK,
         Pcs, Update
<1>4. CASE TestbedDone \/ UpdateDone
      BY <1>4 DEF TestbedDone, UpdateDone, TypeOK, Pcs, Update
<1>5. CASE OpenArchive
  <2>1. /\ Archive.inside \cup Archive.beside \subseteq Names
        BY <1>5, ArchiveIs DEF OpenArchive, StageInv
  <2>2. /\ target' \in Seq(SUBSET Files) /\ Len(target') <= 1
        /\ target' # <<>>
        BY <1>5, MadeDir DEF OpenArchive, TypeOK
  <2> QED BY <1>5, <2>1, <2>2 DEF OpenArchive, TypeOK, Pcs, Update
<1>6. CASE ExtractRoot
  <2>1. /\ root' \in Seq(SUBSET Files) /\ Len(root') <= 1
        BY <1>6, MadeDir DEF ExtractRoot, TypeOK
  <2> QED BY <1>6, <2>1 DEF ExtractRoot, TypeOK, StageInv, Pcs, Update
<1>7. ASSUME NEW n \in Names, NEW v \in {Update, Torn},
             pc = "extract", n \in todo, PutEntry(n, v)
      PROVE  /\ target' \in Seq(SUBSET Files) /\ Len(target') <= 1
             /\ root' \in Seq(SUBSET Files) /\ Len(root') <= 1
             /\ target' # <<>>
  <2> DEFINE file == [name |-> n, ver |-> v]
  <2>1. file \in Files
        BY <1>7, BoundsAssumption DEF TypeOK, Files, Update
  <2>2. target # <<>> /\ target[1] \in SUBSET Files
        BY <1>7, OneDir DEF TypeOK, StageInv
  <2>3. CASE n \in Archive.inside
    <3>1. Archive.rooted
          BY <1>7, <2>3, ArchiveIs DEF StageInv
    <3>2. root[1] \in SUBSET Files
          BY <1>7, <3>1, OneDir DEF TypeOK, StageInv
    <3>3. root' = <<Put(root[1], file)>> /\ target' = target
          BY <1>7, <2>3 DEF PutEntry
    <3>4. Put(root[1], file) \in SUBSET Files
          BY <2>1, <3>2, PutFiles
    <3> QED BY <2>2, <3>3, <3>4 DEF TypeOK
  <2>4. CASE n \notin Archive.inside
    <3>1. target' = <<Put(target[1], file)>> /\ root' = root
          BY <1>7, <2>4 DEF PutEntry
    <3>2. Put(target[1], file) \in SUBSET Files
          BY <2>1, <2>2, PutFiles
    <3> QED BY <3>1, <3>2 DEF TypeOK
  <2> QED BY <2>3, <2>4
<1>8. ASSUME NEW n \in Names, ExtractEntry(n) PROVE TypeOK'
  <2>1. /\ target' \in Seq(SUBSET Files) /\ Len(target') <= 1
        /\ root' \in Seq(SUBSET Files) /\ Len(root') <= 1
        /\ target' # <<>>
        BY <1>7, <1>8 DEF ExtractEntry
  <2> QED BY <1>8, <2>1 DEF ExtractEntry, TypeOK, Update
<1>9. ASSUME NEW n \in Names, ExtractTorn(n) PROVE TypeOK'
  <2>1. /\ target' \in Seq(SUBSET Files) /\ Len(target') <= 1
        /\ root' \in Seq(SUBSET Files) /\ Len(root') <= 1
        /\ target' # <<>>
        BY <1>7, <1>9 DEF ExtractTorn
  <2> QED BY <1>9, <2>1, BoundsAssumption
          DEF ExtractTorn, Fault, TypeOK, Pcs, Update
<1>10. CASE Extracted
       BY <1>10 DEF Extracted, StageInv, TypeOK, Pcs, Update
<1>11. CASE TryName
  <2>1. spares' \in Seq(SUBSET Files)
        BY <1>11 DEF TryName, TypeOK
  <2> QED BY <1>11, <2>1 DEF TryName, TypeOK, Pcs, Update
<1>12. CASE RenameOut
  <2>1. root[1] \in SUBSET Files /\ root # <<>>
        BY <1>12, OneDir DEF RenameOut, TypeOK
  <2>2. Front(spares) \in Seq(SUBSET Files)
        BY <1>12, FrontLast DEF RenameOut, TypeOK, StageInv
  <2>3. spares' \in Seq(SUBSET Files) /\ spares' # <<>>
        BY <1>12, <2>1, <2>2 DEF RenameOut
  <2> QED BY <1>12, <2>3 DEF RenameOut, TypeOK, Pcs, Update
<1>13. ASSUME NEW f \in Files, RemoveOne(f) PROVE TypeOK'
  <2>1. target[1] \in SUBSET Files
        BY <1>13, OneDir DEF RemoveOne, TypeOK, StageInv
  <2>2. target' \in Seq(SUBSET Files) /\ Len(target') <= 1 /\ target' # <<>>
        BY <1>13, <2>1 DEF RemoveOne
  <2> QED BY <1>13, <2>2 DEF RemoveOne, TypeOK, Update
<1>14. CASE RemoveTarget
       BY <1>14 DEF RemoveTarget, TypeOK, Pcs, Update
<1>15. CASE RenameIn
  <2>1. Front(spares) \in Seq(SUBSET Files) /\ Last(spares) \in SUBSET Files
        BY <1>15, FrontLast DEF RenameIn, TypeOK
  <2>2. target' \in Seq(SUBSET Files) /\ Len(target') <= 1 /\ target' # <<>>
        BY <1>15, <2>1 DEF RenameIn
  <2> QED BY <1>15, <2>1, <2>2 DEF RenameIn, TypeOK, Pcs, Update
<1>16. CASE RemoveOld
  <2>1. target[1] \in SUBSET Files
        BY <1>16, OneDir DEF RemoveOld, TypeOK, StageInv
  <2>2. target' \in Seq(SUBSET Files) /\ Len(target') <= 1 /\ target' # <<>>
        BY <1>16, <2>1 DEF RemoveOld
  <2> QED BY <1>16, <2>2 DEF RemoveOld, TypeOK, Pcs, Update
<1>17. CASE RenameNew
  <2>1. target[1] \in SUBSET Files
        BY <1>17, OneDir DEF RenameNew, TypeOK, StageInv
  <2>2. [name |-> License, ver |-> Update] \in Files
        BY <1>17, ArchiveIs DEF RenameNew, StageInv
  <2>3. target' \in Seq(SUBSET Files) /\ Len(target') <= 1 /\ target' # <<>>
        BY <1>17, <2>1, <2>2, PutFiles DEF RenameNew
  <2> QED BY <1>17, <2>3 DEF RenameNew, TypeOK, Pcs, Update
<1>18. CASE UNCHANGED vars
       BY <1>18 DEF vars, TypeOK, Update
<1> QED BY <1>1, <1>2, <1>3, <1>4, <1>5, <1>6, <1>8, <1>9, <1>10, <1>11,
           <1>12, <1>13, <1>14, <1>15, <1>16, <1>17, <1>18 DEF Next, Step

(* The steps that leave the archives alone leave the update and its names. *)
LEMMA SameUpdate ==
  UNCHANGED archives =>
    /\ Archive' = Archive /\ Update' = Update
    /\ Wanted(Archive)' = Wanted(Archive)
    /\ \A names : New(names)' = New(names)
BY DEF Archive, Update, Wanted, New

LEMMA StageStep == TypeOK /\ StageInv /\ [Next]_vars => StageInv'
<1> SUFFICES ASSUME TypeOK, StageInv, [Next]_vars PROVE StageInv'
    OBVIOUS
<1> USE DEF Goto, Unchanged, disk, TestbedSteps
<1>1. ASSUME NEW a \in Archives, UpdateBegin(a) PROVE StageInv'
  <2>1. Update' > 0
        BY <1>1 DEF UpdateBegin, TypeOK, Update
  <2> QED BY <1>1, <2>1 DEF UpdateBegin, StageInv
<1>2. CASE CutShort
      BY <1>2, SameUpdate DEF CutShort, Fault, StageInv
<1>3. CASE url_space_measure \/ clean_folder \/ http_download
      BY <1>3, SameUpdate
      DEF url_space_measure, clean_folder, http_download, TypeOK, StageInv
<1>4. CASE TestbedDone \/ UpdateDone
      BY <1>4, SameUpdate DEF TestbedDone, UpdateDone, StageInv
<1>5. CASE OpenArchive
  <2>1. target' # <<>>
        BY <1>5, MadeDir DEF OpenArchive, TypeOK
  <2> QED BY <1>5, <2>1, SameUpdate DEF OpenArchive, StageInv
<1>6. CASE ExtractRoot
  <2>1. root' # <<>>
        BY <1>6, MadeDir DEF ExtractRoot, TypeOK
  <2> QED BY <1>6, <2>1, SameUpdate DEF ExtractRoot, StageInv
<1>7. ASSUME NEW n \in Names, ExtractEntry(n) PROVE StageInv'
  <2>1. (target # <<>> => target' # <<>>) /\ (root # <<>> => root' # <<>>)
        BY <1>7 DEF ExtractEntry, PutEntry
  <2> QED BY <1>7, <2>1, SameUpdate DEF ExtractEntry, StageInv
<1>8. ASSUME NEW n \in Names, ExtractTorn(n) PROVE StageInv'
      BY <1>8, SameUpdate DEF ExtractTorn, Fault, StageInv
<1>9. CASE Extracted
      BY <1>9, SameUpdate DEF Extracted, StageInv
<1>10. CASE TryName
  <2>1. spares' # <<>> /\ Last(spares') = {}
        BY <1>10 DEF TryName, TypeOK, Last
  <2> QED BY <1>10, <2>1, SameUpdate DEF TryName, StageInv
<1>11. CASE RenameOut
       BY <1>11, SameUpdate DEF RenameOut, StageInv
<1>12. ASSUME NEW f \in Files, RemoveOne(f) PROVE StageInv'
       BY <1>12, SameUpdate DEF RemoveOne, StageInv
<1>13. CASE RemoveTarget
       BY <1>13, SameUpdate DEF RemoveTarget, StageInv
<1>14. CASE RenameIn
       BY <1>14, SameUpdate DEF RenameIn, StageInv
<1>15. CASE RemoveOld
       BY <1>15, SameUpdate DEF RemoveOld, StageInv
<1>16. CASE RenameNew
       BY <1>16, SameUpdate DEF RenameNew, StageInv
<1>17. CASE UNCHANGED vars
       BY <1>17, SameUpdate DEF vars, StageInv
<1> QED BY <1>1, <1>2, <1>3, <1>4, <1>5, <1>6, <1>7, <1>8, <1>9, <1>10,
           <1>11, <1>12, <1>13, <1>14, <1>15, <1>16, <1>17 DEF Next, Step

-----------------------------------------------------------------------------
(* Every step keeps the new files where they are due, and nothing else     *)
(* with them as long as no update has failed.                              *)
PlaceInv == InstalledInv /\ CleanInv

(* A step that leaves the directories and what is due where they are.      *)
LEMMA SamePlace ==
  ASSUME InstalledInv, CleanInv,
         InRoot' <=> InRoot, InSpare' <=> InSpare, InTarget' <=> InTarget,
         Due' = Due, UNCHANGED <<archives, target, root, spares, faults>>
  PROVE  PlaceInv'
<1>1. InstalledInv'
      BY DEF InstalledInv, Last
<1>2. CleanInv'
      BY SameUpdate DEF CleanInv, Clean
<1> QED BY <1>1, <1>2 DEF PlaceInv

(* Putting a file does away with what has its name.                        *)
LEMMA PutNew ==
  ASSUME NEW dir, NEW names, NEW n
  PROVE  /\ New(names) \subseteq dir =>
              New(names \cup {n}) \subseteq Put(dir, [name |-> n, ver |-> Update])
         /\ dir \subseteq New(names) =>
              Put(dir, [name |-> n, ver |-> Update]) \subseteq New(names \cup {n})
BY DEF New, Put

LEMMA PlaceStep ==
  TypeOK /\ StageInv /\ PlaceInv /\ [Next]_vars => PlaceInv'
<1> SUFFICES ASSUME TypeOK, StageInv, InstalledInv, CleanInv, [Next]_vars
             PROVE  PlaceInv'
    BY DEF PlaceInv
<1> USE DEF Goto, Unchanged, disk
<1>0. faults \in Nat
      BY BoundsAssumption DEF TypeOK
<1>1. ASSUME NEW a \in Archives, UpdateBegin(a) PROVE PlaceInv'
  <2>1. ~InRoot' /\ ~InSpare' /\ ~InTarget' /\ ~InRoot
        BY <1>1 DEF UpdateBegin, InRoot, InSpare, InTarget
  <2> QED BY <1>1, <2>1
          DEF UpdateBegin, PlaceInv, InstalledInv, CleanInv, Clean
<1>2. ASSUME Fault PROVE PlaceInv'
  <2>1. ~InRoot' /\ ~InSpare' /\ ~InTarget' /\ ~Clean'
        BY <1>0, <1>2 DEF Fault, InRoot, InSpare, InTarget, Clean
  <2> QED BY <2>1 DEF PlaceInv, InstalledInv, CleanInv
<1>3. CASE url_space_measure \/ clean_folder \/ http_download
  <2>1. Due' = Due
        BY <1>3, SameUpdate
        DEF url_space_measure, clean_folder, http_download, Due, Licensed
  <2>2. result # "ok"
        BY <1>3 DEF url_space_measure, clean_folder, http_download, StageInv
  <2>3. /\ InRoot' <=> InRoot
        /\ InSpare' <=> InSpare
        /\ InTarget' <=> InTarget
        BY <1>3, <2>2, SameUpdate DEF url_space_measure, clean_folder,
           http_download, InRoot, InSpare, InTarget, TypeOK
  <2> QED BY <1>3, <2>1, <2>3, SamePlace
          DEF url_space_measure, clean_folder, http_download
<1>4. CASE TestbedDone \/ UpdateDone
  <2>1. Due' = Due
        BY <1>4, SameUpdate DEF TestbedDone, UpdateDone, Due, Licensed
  <2>2. /\ InRoot' <=> InRoot
        /\ InSpare' <=> InSpare
        /\ InTarget' <=> InTarget
        BY <1>4, SameUpdate
        DEF TestbedDone, UpdateDone, InRoot, InSpare, InTarget
  <2> QED BY <1>4, <2>1, <2>2, SamePlace DEF TestbedDone, UpdateDone
<1>5. CASE OpenArchive
  <2>1. ~InRoot /\ ~InRoot' /\ ~InSpare'
        BY <1>5, SameUpdate DEF OpenArchive, InRoot, InSpare
  <2>2. CASE Archive.rooted
    <3>1. ~InTarget'
          BY <1>5, <2>2 DEF OpenArchive, InTarget, StageInv, TestbedSteps
    <3> QED BY <1>5, <2>1, <3>1
            DEF OpenArchive, PlaceInv, InstalledInv, CleanInv, Clean
  <2>3. CASE ~Archive.rooted
    <3>1. Wanted(Archive)' \ todo' = {} /\ pc' = "extract"
          BY <1>5, <2>3, SameUpdate DEF OpenArchive, Wanted
    <3>2. Due' = {}
          BY <3>1 DEF Due, New
    <3> QED BY <1>5, <2>1, <2>3, <3>2, SameUpdate
            DEF OpenArchive, PlaceInv, InstalledInv, CleanInv, Clean
  <2> QED BY <2>2, <2>3
<1>6. CASE ExtractRoot
  <2>1. InRoot' /\ ~InRoot /\ ~InSpare' /\ ~InTarget'
        BY <1>6, SameUpdate DEF ExtractRoot, InRoot, InSpare, InTarget,
           StageInv, TestbedSteps
  <2>2. Wanted(Archive)' \ todo' = {} /\ pc' = "extract"
        BY <1>6, SameUpdate DEF ExtractRoot, Wanted, StageInv
  <2>3. Due' = {}
        BY <2>2 DEF Due, New
  <2>4. root = <<>> => root'[1] = {}
        BY <1>6 DEF ExtractRoot, MakeDir
  <2> QED BY <1>6, <2>1, <2>3, <2>4
          DEF ExtractRoot, PlaceInv, InstalledInv, CleanInv, Clean
<1>7. ASSUME NEW n \in Names, ExtractEntry(n) PROVE PlaceInv'
  <2>1. /\ Due = New(Wanted(Archive) \ todo)
        /\ Due' = New(Wanted(Archive) \ todo')
        BY <1>7, SameUpdate DEF ExtractEntry, Due
  <2>2. /\ InRoot <=> Archive.rooted
        /\ InRoot' <=> Archive.rooted
        /\ InTarget <=> ~Archive.rooted
        /\ InTarget' <=> ~Archive.rooted
        /\ ~InSpare /\ ~InSpare'
        BY <1>7, SameUpdate DEF ExtractEntry, InRoot, InTarget, InSpare,
           StageInv, TestbedSteps
  <2>3. CASE n \in Archive.inside
    <3>1. Archive.rooted
          BY <1>7, <2>3, ArchiveIs DEF ExtractEntry, StageInv
    <3>2. /\ root' = <<Put(root[1], [name |-> n, ver |-> Update])>>
          /\ target' = target
          BY <1>7, <2>3 DEF ExtractEntry, PutEntry
    <3>3. /\ n \in Wanted(Archive)
          /\ Wanted(Archive) \ todo' = (Wanted(Archive) \ todo) \cup {n}
          BY <1>7, <2>3, <3>1 DEF ExtractEntry, Wanted
    <3>4. /\ Due \subseteq root[1] => Due' \subseteq root'[1]
          /\ root[1] \subseteq Due => root'[1] \subseteq Due'
          BY <2>1, <3>2, <3>3, PutNew
    <3> QED BY <1>7, <2>2, <3>1, <3>4
            DEF ExtractEntry, PlaceInv, InstalledInv, CleanInv, Clean
  <2>4. CASE n \notin Archive.inside
    <3>1. /\ target' = <<Put(target[1], [name |-> n, ver |-> Update])>>
          /\ root' = root
          BY <1>7, <2>4 DEF ExtractEntry, PutEntry
    <3>2. CASE Archive.rooted
      <4>1. Wanted(Archive) \ todo' = Wanted(Archive) \ todo
            BY <1>7, <2>4, <3>2 DEF ExtractEntry, Wanted
      <4> QED BY <1>7, <2>1, <2>2, <3>1, <3>2, <4>1
              DEF ExtractEntry, PlaceInv, InstalledInv, CleanInv, Clean
    <3>3. CASE ~Archive.rooted
      <4>1. /\ n \in Wanted(Archive)
            /\ Wanted(Archive) \ todo' = (Wanted(Archive) \ todo) \cup {n}
            BY <1>7, <2>4, <3>3 DEF ExtractEntry, Wanted, StageInv
      <4>2. Due \subseteq target[1] => Due' \subseteq target'[1]
            BY <2>1, <3>1, <4>1, PutNew
      <4> QED BY <1>7, <2>2, <3>1, <3>3, <4>2, SameUpdate
              DEF ExtractEntry, PlaceInv, InstalledInv, CleanInv, Clean
    <3> QED BY <3>2, <3>3
  <2> QED BY <2>3, <2>4
<1>8. CASE Extracted
  <2>1. Due = New(Wanted(Archive)) /\ Due' = New(Wanted(Archive))
    <3>1. part = "testbed"
          BY <1>8 DEF Extracted, StageInv, TestbedSteps
    <3> QED BY <1>8, <3>1, SameUpdate DEF Extracted, Due, Licensed
  <2>2. /\ InRoot' <=> InRoot
        /\ InSpare' <=> InSpare
        /\ InTarget' <=> InTarget
        BY <1>8, SameUpdate DEF Extracted, InRoot, InSpare, InTarget,
           StageInv, TestbedSteps
  <2> QED BY <1>8, <2>1, <2>2, SamePlace DEF Extracted
<1>9. CASE TryName
  <2>1. Due' = Due
        BY <1>9, SameUpdate DEF TryName, Due, Licensed
  <2>2. InRoot' /\ InRoot /\ ~InSpare' /\ ~InTarget'
        BY <1>9, SameUpdate DEF TryName, InRoot, InSpare, InTarget, StageInv,
           TestbedSteps
  <2> QED BY <1>9, <2>1, <2>2
          DEF TryName, PlaceInv, InstalledInv, CleanInv, Clean
<1>10. CASE RenameOut
  <2>1. Due' = Due
        BY <1>10, SameUpdate DEF RenameOut, Due, Licensed
  <2>2. InRoot /\ ~InRoot' /\ InSpare' /\ ~InTarget'
        BY <1>10, SameUpdate DEF RenameOut, InRoot, InSpare, InTarget,
           StageInv, TestbedSteps
  <2>3. Last(spares') = root[1]
    <3>1. Front(spares) \in Seq(SUBSET Files)
          BY <1>10, FrontLast DEF RenameOut, TypeOK, StageInv
    <3> QED BY <1>10, <3>1 DEF RenameOut, Last
  <2> QED BY <1>10, <2>1, <2>2, <2>3
          DEF RenameOut, PlaceInv, InstalledInv, CleanInv, Clean
<1>11. ASSUME RemoveTarget \/ \E f \in Files : RemoveOne(f) PROVE PlaceInv'
  <2>1. Due' = Due
        BY <1>11, SameUpdate DEF RemoveTarget, RemoveOne, Due, Licensed
  <2>2. ~InRoot /\ ~InRoot' /\ InSpare /\ InSpare' /\ ~InTarget'
        BY <1>11, SameUpdate DEF RemoveTarget, RemoveOne, InRoot, InSpare,
           InTarget, StageInv, TestbedSteps
  <2>3. UNCHANGED <<spares, root, faults>>
        BY <1>11 DEF RemoveTarget, RemoveOne
  <2> QED BY <2>1, <2>2, <2>3 DEF PlaceInv, InstalledInv, CleanInv, Clean, Last
<1>12. CASE RenameIn
  <2>1. Due' = Due
        BY <1>12, SameUpdate
        DEF RenameIn, Due, Licensed, StageInv, TestbedSteps
  <2>2. ~InRoot /\ ~InRoot' /\ InSpare /\ ~InSpare' /\ InTarget'
        BY <1>12, SameUpdate DEF RenameIn, InRoot, InSpare, InTarget
  <2> QED BY <1>12, <2>1, <2>2
          DEF RenameIn, PlaceInv, InstalledInv, CleanInv, Clean
<1>13. CASE RemoveOld
  <2>1. Due = New(Wanted(Archive)) /\ Due' = Due
        BY <1>13, SameUpdate DEF RemoveOld, Due, Licensed
  <2>2. /\ InRoot' <=> InRoot
        /\ InTarget /\ InTarget' /\ ~InSpare' /\ ~InRoot
        BY <1>13, SameUpdate DEF RemoveOld, InRoot, InSpare, InTarget,
           StageInv
  <2>3. Wanted(Archive) \subseteq Names
        BY <1>13, ArchiveIs DEF RemoveOld, StageInv
  <2>4. target'[1] = {f \in target[1] : f.name # License}
        BY <1>13 DEF RemoveOld
  <2>5. /\ Due \subseteq target[1] => Due' \subseteq target'[1]
        /\ target'[1] \subseteq target[1]
        BY <2>1, <2>3, <2>4, NamesAssumption DEF New
  <2> QED BY <1>13, <2>1, <2>2, <2>5, SameUpdate
          DEF RemoveOld, PlaceInv, InstalledInv, CleanInv, Clean
<1>14. CASE RenameNew
  <2>1. /\ Due = New(Wanted(Archive))
        /\ Due' = New(Wanted(Archive) \cup {License})
        BY <1>14, SameUpdate DEF RenameNew, Due, Licensed, StageInv
  <2>2. ~InRoot' /\ ~InRoot /\ InTarget /\ InTarget' /\ ~InSpare'
        BY <1>14, SameUpdate DEF RenameNew, InRoot, InSpare, InTarget,
           StageInv
  <2>3. target'[1] = Put(target[1], [name |-> License, ver |-> Update])
        BY <1>14 DEF RenameNew
  <2>4. /\ Due \subseteq target[1] => Due' \subseteq target'[1]
        /\ target[1] \subseteq Due => target'[1] \subseteq Due'
        BY <2>1, <2>3, PutNew
  <2> QED BY <1>14, <2>2, <2>4, SameUpdate
          DEF RenameNew, PlaceInv, InstalledInv, CleanInv, Clean
<1>15. CASE UNCHANGED vars
  <2>1. Due' = Due
        BY <1>15, SameUpdate DEF vars, Due, Licensed
  <2>2. /\ InRoot' <=> InRoot
        /\ InSpare' <=> InSpare
        /\ InTarget' <=> InTarget
        BY <1>15, SameUpdate DEF vars, InRoot, InSpare, InTarget
  <2> QED BY <1>15, <2>1, <2>2, SamePlace DEF vars
<1>16. CutShort => Fault
       BY DEF CutShort
<1>17. \A n \in Names : ExtractTorn(n) => Fault
       BY DEF ExtractTorn
<1> QED BY <1>1, <1>2, <1>3, <1>4, <1>5, <1>6, <1>7, <1>8, <1>9, <1>10,
           <1>11, <1>12, <1>13, <1>14, <1>15, <1>16, <1>17 DEF Next, Step

-----------------------------------------------------------------------------
(* Some complete version is on the device.                                 *)
OneDirectory == \A u \in 1 .. Update : archives[u].beside = {}
Somewhere ==
  \/ target # <<>> /\ Complete(target[1])
  \/ \E i \in 1 .. Len(spares) : Complete(spares[i])

LEMMA CompleteMore ==
  ASSUME NEW files, NEW more, files \subseteq more, Complete(files)
  PROVE  Complete(more)
BY DEF Complete, Holds

(* What is complete has no license among the files that make it so.        *)
LEMMA CompleteUnlicensed ==
  ASSUME TypeOK, NEW files, Complete(files)
  PROVE  Complete({f \in files : f.name # License})
<1>1. PICK u \in 0 .. Update : Holds(files, u)
      BY DEF Complete
<1>2. WantedOf(u) \subseteq Names
  <2>1. CASE u = 0
        BY <2>1 DEF WantedOf
  <2>2. CASE u # 0
    <3>1. archives[u] \in Archives
          BY <2>2 DEF TypeOK, Update
    <3> QED BY <2>2, <3>1, ArchivesAssumption DEF WantedOf, Wanted
  <2> QED BY <2>1, <2>2
<1>3. Holds({f \in files : f.name # License}, u)
      BY <1>1, <1>2, NamesAssumption DEF Holds
<1> QED BY <1>3 DEF Complete

(* What is installed whole is complete.                                    *)
LEMMA WholeIsComplete ==
  ASSUME TypeOK, Update > 0, NEW files, New(Wanted(Archive)) \subseteq files
  PROVE  Complete(files)
<1>1. Update \in 0 .. Update /\ Update # 0
      BY DEF TypeOK, Update
<1>2. Holds(files, Update)
      BY <1>1 DEF Holds, WantedOf, Archive, New
<1> QED BY <1>1, <1>2 DEF Complete

(* A new update makes nothing incomplete, and the other steps leave what   *)
(* is complete as it is.                                                   *)
LEMMA CompleteStays ==
  ASSUME TypeOK, NEW files, Complete(files),
         \/ UNCHANGED archives
         \/ \E a \in Archives : archives' = Append(archives, a)
  PROVE  Complete(files)'
<1>1. PICK u \in 0 .. Update : Holds(files, u)
      BY DEF Complete
<1>2. CASE UNCHANGED archives
      BY <1>1, <1>2 DEF Complete, Holds, WantedOf, Update
<1>3. ASSUME NEW a \in Archives, archives' = Append(archives, a)
      PROVE  Complete(files)'
  <2>1. u \in 0 .. Update' /\ (u # 0 => archives'[u] = archives[u])
        BY <1>1, <1>3 DEF TypeOK, Update
  <2> QED BY <1>1, <2>1 DEF Complete, Holds, WantedOf
<1> QED BY <1>2, <1>3

(* A complete directory is somewhere as long as it is still on the device. *)
LEMMA MovesTo ==
  ASSUME TypeOK, NEW files, Complete(files),
         \/ UNCHANGED archives
         \/ \E a \in Archives : archives' = Append(archives, a),
         \/ target' # <<>> /\ files \subseteq target'[1]
         \/ \E i \in 1 .. Len(spares') : files \subseteq spares'[i]
  PROVE  Somewhere'
<1>1. PICK same : same = files
      OBVIOUS
<1>2. Complete(same)'
      BY <1>1, CompleteStays
<1>3. CASE target' # <<>> /\ files \subseteq target'[1]
  <2>1. Complete(target[1])'
        BY <1>1, <1>2, <1>3 DEF Complete, Holds
  <2> QED BY <1>3, <2>1 DEF Somewhere
<1>4. ASSUME NEW i \in 1 .. Len(spares'), files \subseteq spares'[i]
      PROVE  Somewhere'
  <2>1. Complete(spares[i])'
        BY <1>1, <1>2, <1>4 DEF Complete, Holds
  <2> QED BY <1>4, <2>1 DEF Somewhere
<1> QED BY <1>3, <1>4

(* A step that leaves every directory on the device, or more in it.        *)
LEMMA SomewhereStays ==
  ASSUME TypeOK, Somewhere,
         \/ UNCHANGED archives
         \/ \E a \in Archives : archives' = Append(archives, a),
         target # <<>> => target' # <<>> /\ target[1] \subseteq target'[1],
         Len(spares) <= Len(spares') /\ Len(spares') \in Nat,
         \A i \in 1 .. Len(spares) : spares[i] \subseteq spares'[i]
  PROVE  Somewhere'
<1>1. CASE target # <<>> /\ Complete(target[1])
      BY <1>1, MovesTo
<1>2. ASSUME NEW i \in 1 .. Len(spares), Complete(spares[i])
      PROVE  Somewhere'
  <2>1. i \in 1 .. Len(spares') /\ spares[i] \subseteq spares'[i]
        BY DEF TypeOK
  <2> QED BY <1>2, <2>1, MovesTo
<1> QED BY <1>1, <1>2 DEF Somewhere

LEMMA SomewhereStep ==
  TypeOK /\ StageInv /\ PlaceInv /\ CompleteSomewhere /\ [Next]_vars
    => CompleteSomewhere'
<1> SUFFICES ASSUME TypeOK, StageInv, PlaceInv, CompleteSomewhere,
                    [Next]_vars, OneDirectory'
             PROVE  Somewhere'
    BY DEF CompleteSomewhere, OneDirectory, Somewhere
<1> USE DEF Goto, Unchanged, disk
<1>0. Len(spares) \in Nat
      BY DEF TypeOK
<1>1. ASSUME NEW a \in Archives, UpdateBegin(a) PROVE Somewhere'
  <2>1. OneDirectory
        BY <1>1 DEF UpdateBegin, OneDirectory, TypeOK, Update
  <2>2. Somewhere
        BY <2>1 DEF CompleteSomewhere, OneDirectory, Somewhere
  <2> QED BY <1>0, <1>1, <2>2, SomewhereStays DEF UpdateBegin
<1>2. ASSUME UNCHANGED archives PROVE OneDirectory /\ Somewhere
      BY <1>2 DEF CompleteSomewhere, OneDirectory, Somewhere, Update
<1>3. ASSUME UNCHANGED <<archives, target, spares>> PROVE Somewhere'
      BY <1>0, <1>2, <1>3, SomewhereStays
<1>4. CutShort => UNCHANGED <<archives, target, spares>>
      BY DEF CutShort
<1>5. /\ url_space_measure => UNCHANGED <<archives, target, spares>>
      /\ clean_folder => UNCHANGED <<archives, target, spares>>
      /\ http_download => UNCHANGED <<archives, target, spares>>
      BY DEF url_space_measure, clean_folder, http_download
<1>6. /\ TestbedDone => UNCHANGED <<archives, target, spares>>
      /\ UpdateDone => UNCHANGED <<archives, target, spares>>
      /\ Extracted => UNCHANGED <<archives, target, spares>>
      /\ ExtractRoot => UNCHANGED <<archives, target, spares>>
      BY DEF TestbedDone, UpdateDone, Extracted, ExtractRoot
<1>7. CASE OpenArchive
      BY <1>0, <1>2, <1>7, SomewhereStays DEF OpenArchive, MakeDir
<1>8. ASSUME NEW n \in Names, NEW v, pc = "extract", n \in todo,
             PutEntry(n, v), UNCHANGED <<archives, spares>>
      PROVE  Somewhere'
  <2>1. Archive.beside = {}
        BY <1>2, <1>8 DEF OneDirectory, StageInv, TypeOK, Update, Archive
  <2>2. n \in Archive.inside
        BY <1>8, <2>1 DEF StageInv
  <2> QED BY <1>3, <1>8, <2>2 DEF PutEntry
<1>9. ASSUME NEW n \in Names, ExtractEntry(n) PROVE Somewhere'
      BY <1>8, <1>9 DEF ExtractEntry
<1>10. ASSUME NEW n \in Names, ExtractTorn(n) PROVE Somewhere'
       BY <1>8, <1>10 DEF ExtractTorn
<1>11. CASE TryName
  <2>1. /\ Len(spares') = Len(spares) + 1
        /\ \A i \in 1 .. Len(spares) : spares'[i] = spares[i]
        BY <1>11 DEF TryName, TypeOK
  <2> QED BY <1>0, <1>2, <1>11, <2>1, SomewhereStays DEF TryName
<1>12. CASE RenameOut
  <2>1. /\ spares # <<>> /\ spares[Len(spares)] = {}
        /\ Len(Front(spares)) = Len(spares) - 1
        /\ Front(spares) \in Seq(SUBSET Files)
        /\ \A i \in 1 .. Len(spares) - 1 : Front(spares)[i] = spares[i]
        BY <1>12, FrontLast DEF RenameOut, TypeOK, StageInv
  <2>2. /\ Len(spares') = Len(spares)
        /\ \A i \in 1 .. Len(spares) - 1 : spares'[i] = spares[i]
        BY <1>0, <1>12, <2>1 DEF RenameOut
  <2>3. \A i \in 1 .. Len(spares) : spares[i] \subseteq spares'[i]
        BY <1>0, <2>1, <2>2
  <2> QED BY <1>0, <1>2, <1>12, <2>2, <2>3, SomewhereStays DEF RenameOut
<1>13. InSpare =>
         /\ Complete(spares[Len(spares)])
         /\ Len(spares) \in 1 .. Len(spares)
  <2>1. SUFFICES ASSUME InSpare
                 PROVE  /\ Complete(spares[Len(spares)])
                        /\ Len(spares) \in 1 .. Len(spares)
        OBVIOUS
  <2>2. /\ Last(spares) = spares[Len(spares)]
        /\ Len(spares) \in 1 .. Len(spares)
    <3>1. spares \in Seq(SUBSET Files) /\ spares # <<>>
          BY <2>1 DEF InSpare, TypeOK
    <3>2. Last(spares) = spares[Len(spares)] /\ Len(spares) > 0
          BY <3>1, FrontLast
    <3> QED BY <1>0, <3>2
  <2>3. Due = New(Wanted(Archive)) /\ Update > 0
        BY <2>1 DEF InSpare, Due, Licensed, StageInv
  <2>4. New(Wanted(Archive)) \subseteq spares[Len(spares)]
        BY <2>1, <2>2, <2>3 DEF PlaceInv, InstalledInv
  <2> QED BY <2>2, <2>3, <2>4, WholeIsComplete
<1>14. ASSUME NEW f \in Files, RemoveOne(f) PROVE Somewhere'
       BY <1>13, <1>14, MovesTo DEF RemoveOne, InSpare
<1>15. CASE RemoveTarget
       BY <1>13, <1>15, MovesTo DEF RemoveTarget, InSpare
<1>16. CASE RenameIn
  <2>1. Complete(spares[Len(spares)]) /\ UNCHANGED archives
        BY <1>13, <1>16 DEF RenameIn, InSpare
  <2>2. target' # <<>> /\ target'[1] = spares[Len(spares)]
        BY <1>16, FrontLast DEF RenameIn, TypeOK
  <2> QED BY <2>1, <2>2, MovesTo
<1>17. ASSUME UNCHANGED <<archives, spares>>, target' # <<>>,
              {f \in target[1] : f.name # License} \subseteq target'[1]
       PROVE  Somewhere'
  <2>1. CASE target # <<>> /\ Complete(target[1])
    <3>1. Complete({f \in target[1] : f.name # License})
          BY <2>1, CompleteUnlicensed
    <3> QED BY <1>17, <3>1, MovesTo
  <2>2. ASSUME NEW i \in 1 .. Len(spares), Complete(spares[i])
        PROVE  Somewhere'
        BY <1>17, <2>2, MovesTo
  <2> QED BY <1>2, <1>17, <2>1, <2>2 DEF Somewhere
<1>18. CASE RemoveOld
       BY <1>17, <1>18 DEF RemoveOld
<1>19. CASE RenameNew
       BY <1>17, <1>19 DEF RenameNew, Put
<1>20. CASE UNCHANGED vars
       BY <1>3, <1>20 DEF vars
<1> QED BY <1>1, <1>3, <1>4, <1>5, <1>6, <1>7, <1>9, <1>10, <1>11, <1>12,
           <1>14, <1>15, <1>16, <1>18, <1>19, <1>20 DEF Next, Step

-----------------------------------------------------------------------------
(* The invariant: the types, what each step finds, where the new files     *)
(* are, and that a complete version is left.                               *)
THEOREM UpdateInvariance == Spec => []IInv
<1>1. IInv /\ [Next]_vars => IInv'
      BY TypeStep, StageStep, PlaceStep, SomewhereStep DEF IInv, PlaceInv
<1> QED BY <1>1, InitInv, PTL DEF Spec

(* The variables have their types, and move_file finds what it relies on:  *)
(* root is saved before the target is removed, and nothing is in the way   *)
(* when it is moved in.                                                    *)
THEOREM UpdateTypeCorrect == Spec => []TypeOK
<1>1. IInv => TypeOK
      BY DEF IInv
<1> QED BY <1>1, UpdateInvariance, PTL

(* An update that reports success has installed all files of its archive   *)
(* that are Wanted (not those beside the archive's directory), whole and   *)
(* in its version, whatever earlier updates have left behind.              *)
THEOREM SuccessIsComplete == Spec => []SuccessInstalls
<1>1. IInv => SuccessInstalls
  <2> SUFFICES ASSUME IInv, result = "ok"
               PROVE  /\ target # <<>> /\ cache = {}
                      /\ Due = New(Wanted(Archive) \cup {License})
                      /\ Due \subseteq target[1]
                      /\ faults = 0 /\ Archive.rooted =>
                           target[1] = Due
      BY DEF SuccessInstalls
  <2>1. pc = "idle" /\ target # <<>> /\ cache = {} /\ InTarget
        BY DEF IInv, StageInv, InTarget
  <2>2. Due = New(Wanted(Archive) \cup {License})
        BY <2>1 DEF Due, Licensed
  <2> QED BY <2>1, <2>2 DEF IInv, InstalledInv, CleanInv, Clean
<1> QED BY <1>1, UpdateInvariance, PTL

(* However often updates fail or are cut short, the files of one version   *)
(* are all on the device, if archives consist of one directory.            *)
THEOREM NeverWithoutTestbed == Spec => []CompleteSomewhere
<1>1. IInv => CompleteSomewhere
      BY DEF IInv
<1> QED BY <1>1, UpdateInvariance, PTL
=============================================================================
