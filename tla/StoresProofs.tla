---------------------------- MODULE StoresProofs ----------------------------
(***************************************************************************)
(* The stores of packs and images, proved for any number of processes,     *)
(* versions, challenges, images, installs and pulls, whatever is killed or *)
(* fails: first the installed packs, then the cache of images, then both.  *)
(***************************************************************************)
EXTENDS Stores, FiniteSetTheorems, TLAPS

\* The names of versions and of what is moved aside are different directories.
LEMMA Names ==
    /\ \A v \in Version : Final(v) \in Name /\ Aside(v) \in Name
    /\ \A v, w \in Version : Final(v) # Aside(w)
    /\ \A v, w \in Version : (Final(v) = Final(w) \/ Aside(v) = Aside(w)) => v = w
BY PackStoreAssumption DEF Version, Name, Final, Aside

\* A start or an export changes nothing but its own position.
LEMMA ReadersOnlyRead ==
    ASSUME NEW p \in Proc, ReadBegin(p) \/ Read(p), pc \in [Proc -> InstallLabel \cup ReadLabel \cup {"idle"}]
    PROVE  /\ UNCHANGED <<store, install, history>>
           /\ pc[p] \in ReadLabel \cup {"idle"}
           /\ pc' \in [Proc -> InstallLabel \cup ReadLabel \cup {"idle"}]
           /\ pc'[p] \in ReadLabel \cup {"idle"}
           /\ \A q \in Proc \ {p} : pc'[q] = pc[q]
BY DEF ReadBegin, Read, List, Inspect, Inspected, Loaded, LoadFails, Walk, Archive, Exported,
       ReadExit, Goto, InstallLabel, ReadLabel, store, install, history, reader

-----------------------------------------------------------------------------
(* Types *)

\* The conjuncts of TypeOK: the store, where an install is, what it has done, ...
FilesType ==
    /\ dir \in [Name -> Tree]
    /\ shipped \in [Build -> SUBSET Challenge]
    /\ builds \in Build

InstallType ==
    /\ holder \in Proc \cup {NoProc}
    /\ pc \in [Proc -> InstallLabel \cup ReadLabel \cup {"idle"}]
    /\ version \in [Proc -> Version \cup {0}]
    /\ \A p \in Proc : version[p] = 0 <=> pc[p] \notin InstallLabel
    /\ source \in [Proc -> SUBSET Challenge]
    /\ staged \in [Proc -> Build]
    /\ moved \in [Proc -> BOOLEAN]

HistoryType ==
    /\ installed \in [Version -> Build]
    /\ mishap \subseteq Version
    /\ lost \subseteq Version

\* ... and what a start or an export has read.
ReaderType ==
    /\ want \in [Proc -> SUBSET Challenge]
    /\ names \in [Proc -> SUBSET Name]
    /\ found \in [Proc -> Name \cup {0}]
    /\ left \in [Proc -> SUBSET Challenge]
    /\ archive \in [Proc -> [Challenge -> SUBSET Build]]
    /\ floor \in [Proc -> [Version -> Build]]

\* No more is installed than the bound allows, for who waits is counted.
CountInv == IsFiniteSet(Waiting) /\ builds + Cardinality(Waiting) <= MaxBuild

\* A reader that looks into a directory has one.
FoundInv == \A p \in Proc : pc[p] \in {"load", "walk", "archive"} => found[p] # 0

\* A process that begins to wait is one more, ...
LEMMA WaitingGrows ==
    ASSUME FilesType, InstallType, CountInv, NEW p \in Proc, pc[p] # "lock", pc' = [pc EXCEPT ![p] = "lock"],
           builds + Cardinality(Waiting) < MaxBuild, builds' = builds
    PROVE  CountInv'
<1>1. Waiting' = Waiting \cup {p}
    BY DEF Waiting, InstallType
<1>2. p \notin Waiting
    BY DEF Waiting
<1>3. IsFiniteSet(Waiting') /\ Cardinality(Waiting') = Cardinality(Waiting) + 1
    BY <1>1, <1>2, FS_AddElement DEF CountInv
<1>4. Cardinality(Waiting) \in Nat
    BY FS_CardinalityType DEF CountInv
<1> QED
    BY <1>3, <1>4, PackStoreAssumption DEF CountInv, FilesType, Build

\* ... and one that gets the lock or is killed is one less.
LEMMA WaitingShrinks ==
    ASSUME FilesType, InstallType, CountInv, NEW p \in Proc, pc[p] = "lock", NEW l, l # "lock",
           pc' = [pc EXCEPT ![p] = l], builds' \in {builds, builds + 1}
    PROVE  CountInv' /\ builds < MaxBuild
<1>1. Waiting' = Waiting \ {p}
    BY DEF Waiting, InstallType
<1>2. p \in Waiting
    BY DEF Waiting
<1>3. IsFiniteSet(Waiting') /\ Cardinality(Waiting') = Cardinality(Waiting) - 1
    BY <1>1, <1>2, FS_RemoveElement DEF CountInv
<1>4. Cardinality(Waiting) \in Nat /\ Cardinality(Waiting') \in Nat
    BY <1>3, FS_CardinalityType DEF CountInv
<1> QED
    BY <1>3, <1>4, PackStoreAssumption DEF CountInv, FilesType, Build

\* ... and a step in which nobody begins or ceases to wait changes nothing of it.
LEMMA WaitingStays ==
    ASSUME CountInv, \A q \in Proc : pc'[q] = "lock" <=> pc[q] = "lock", builds' = builds
    PROVE  CountInv'
<1>1. Waiting' = Waiting
    BY DEF Waiting
<1> QED
    BY <1>1 DEF CountInv

Holding == InstallLabel \ {"lock"}

\* An install that has the lock keeps it or gives it back; who else waits, waits on.
Position(p) ==
    /\ pc' \in [Proc -> InstallLabel \cup ReadLabel \cup {"idle"}]
    /\ pc[p] \in Holding
    /\ (holder' = holder /\ pc'[p] \in Holding) \/ (Release(p) /\ pc'[p] = "idle")
    /\ \A q \in Proc \ {p} : pc'[q] = pc[q]
    /\ builds' = builds

\* A step of an install moves one process between labels of installs.
LEMMA InstallMoves ==
    ASSUME NEW p \in Proc, Install(p), ~Lock(p),
           pc \in [Proc -> InstallLabel \cup ReadLabel \cup {"idle"}]
    PROVE  Position(p)
<1> USE DEF Position, Goto, Holding, InstallLabel, store
<1>1. CASE Stage(p) \/ StageFails(p) \/ Stat(p)
    BY <1>1 DEF Stage, StageFails, Stat, Release
<1>2. CASE Clear(p)
    BY <1>2 DEF Clear
<1>3. CASE MoveAside(p)
    BY <1>3 DEF MoveAside, Release
<1>4. CASE Swap(p) \/ SwapFails(p)
    BY <1>4 DEF Swap, SwapFails, Done, Release
<1>5. CASE Drop(p)
    BY <1>5 DEF Drop, Done, Release
<1>6. CASE Discard(p)
    BY <1>6 DEF Discard, Release
<1> QED
    BY <1>1, <1>2, <1>3, <1>4, <1>5, <1>6 DEF Install

\* Each process that waits for the lock leaves a build to come.
LEMMA CountStep ==
    ASSUME FilesType, InstallType, CountInv, Next PROVE CountInv'
<1> SUFFICES ASSUME NEW p \in Proc, InstallBegin(p) \/ ReadBegin(p) \/ Step(p) \/ Kill(p)
             PROVE CountInv'
    BY DEF Next
<1>1. CASE InstallBegin(p)
    BY <1>1, WaitingGrows DEF InstallBegin, Goto, store
<1>2. CASE ReadBegin(p) \/ Read(p)
    BY <1>2, ReadersOnlyRead, WaitingStays DEF InstallType, InstallLabel, ReadLabel, store
<1>3. CASE Lock(p)
    BY <1>3, WaitingShrinks DEF Lock, Goto
<1>4. CASE Kill(p)
  <2>1. pc' = [pc EXCEPT ![p] = "idle"] /\ builds' = builds
      BY <1>4 DEF Kill, Release, Goto
  <2>2. CASE pc[p] = "lock"
      BY <2>1, <2>2, WaitingShrinks
  <2>3. CASE pc[p] # "lock"
      BY <2>1, <2>3, WaitingStays DEF InstallType
  <2> QED
      BY <2>2, <2>3
<1>5. CASE Install(p) /\ ~Lock(p)
    BY <1>5, InstallMoves, WaitingStays DEF Position, Holding, InstallType
<1> QED
    BY <1>1, <1>2, <1>3, <1>4, <1>5 DEF Step, Install

\* What removing a directory step by step does to the directories.
LEMMA CrumbleFacts ==
    ASSUME dir \in [Name -> Tree], NEW n \in Name, Crumble(n)
    PROVE  /\ dir' \in [Name -> Tree]
           /\ dir'[n].build = dir[n].build
           /\ \A m \in Name \ {n} : dir'[m] = dir[m]
BY DEF Crumble, Tree

\* A directory that is erased is absent and the others stay.
LEMMA EraseFacts ==
    ASSUME dir \in [Name -> Tree], NEW n \in Name, Erase(n)
    PROVE  /\ dir' \in [Name -> Tree]
           /\ dir'[n] = Absent
           /\ \A m \in Name \ {n} : dir'[m] = dir[m]
<1>1. Absent \in Tree
    BY PackStoreAssumption DEF Absent, Tree, Build
<1> QED
    BY <1>1 DEF Erase

\* An install that has the lock has a version and with it two directories.
LEMMA HasVersion ==
    ASSUME InstallType, NEW p \in Proc, pc[p] \in InstallLabel
    PROVE  version[p] \in Version /\ Final(version[p]) \in Name /\ Aside(version[p]) \in Name
<1>1. version[p] \in Version
    BY DEF InstallType
<1> QED
    BY <1>1, Names

\* Giving the lock back keeps the types of the installs.
LEMMA ReleaseTypes ==
    ASSUME InstallType, NEW p \in Proc, Release(p)
    PROVE  InstallType'
<1>1. 0 \in Build /\ 0 \notin Version
    BY PackStoreAssumption DEF Build, Version
<1> QED
    BY <1>1 DEF InstallType, Release, Goto, InstallLabel

\* An install that goes on without releasing the lock keeps them too.
LEMMA StayTypes ==
    ASSUME InstallType, NEW p \in Proc, pc[p] \in InstallLabel,
           UNCHANGED <<holder, version, source>>,
           NEW l \in InstallLabel, pc' = [pc EXCEPT ![p] = l],
           staged' \in [Proc -> Build], moved' \in [Proc -> BOOLEAN]
    PROVE  InstallType'
BY DEF InstallType

\* What an install makes of the directories are trees.
LEMMA FilesStep ==
    ASSUME FilesType, InstallType, CountInv, NEW p \in Proc, Install(p) PROVE FilesType'
<1>1. 0 \in Build /\ builds + 0 = builds
    BY PackStoreAssumption DEF FilesType, Build
<1>2. Absent \in Tree /\ \A b \in Build : Copy(b) \in Tree
    BY <1>1 DEF FilesType, Absent, Copy, Tree
<1>3. CASE Lock(p)
  <2>1. builds < MaxBuild
      BY <1>3, WaitingShrinks DEF Lock, Goto
  <2>2. builds + 1 \in Build
      BY <2>1, PackStoreAssumption DEF FilesType, Build
  <2> QED
      BY <1>3, <2>2 DEF Lock, FilesType, InstallType
<1>4. CASE ~Lock(p)
  <2>1. Final(version[p]) \in Name /\ Aside(version[p]) \in Name
      BY <1>4, InstallMoves, HasVersion DEF Position, Holding, InstallType
  <2>2. dir' \in [Name -> Tree]
    <3>1. CASE Clear(p) \/ Drop(p) \/ Discard(p)
        BY <2>1, <3>1, CrumbleFacts, EraseFacts DEF Clear, Drop, Discard, FilesType
    <3>2. CASE MoveAside(p)
        BY <1>2, <2>1, <3>2 DEF MoveAside, FilesType
    <3>3. CASE Swap(p)
        BY <1>2, <2>1, <3>3 DEF Swap, FilesType, InstallType
    <3> QED
        BY <1>4, <3>1, <3>2, <3>3 DEF Install, Stage, StageFails, Stat, SwapFails, store, FilesType
  <2>3. UNCHANGED <<shipped, builds>>
      BY <1>4 DEF Install, Stage, StageFails, Stat, Clear, MoveAside, Swap, SwapFails, Drop,
                  Discard, store
  <2> QED
      BY <2>2, <2>3 DEF FilesType
<1> QED
    BY <1>3, <1>4

\* Every step of an install keeps the types of the installs.
LEMMA InstallStep ==
    ASSUME FilesType, InstallType, NEW p \in Proc, Install(p) PROVE InstallType'
<1> USE DEF Goto, InstallLabel, store, install
<1>1. staged \in [Proc -> Build] /\ moved \in [Proc -> BOOLEAN] /\ builds \in Build
    BY DEF FilesType, InstallType
<1>2. CASE Lock(p)
    BY <1>2 DEF Lock, InstallType
<1>3. CASE Stage(p)
    BY <1>1, <1>3, StayTypes DEF Stage
<1>4. CASE StageFails(p)
    BY <1>4, ReleaseTypes DEF StageFails
<1>5. CASE Stat(p)
    BY <1>1, <1>5, StayTypes DEF Stat
<1>6. CASE Clear(p)
  <2>1. UNCHANGED <<holder, install>> /\ pc' \in {pc, [pc EXCEPT ![p] = "aside"]}
      BY <1>6 DEF Clear
  <2> QED
      BY <1>1, <1>6, <2>1, StayTypes DEF Clear, InstallType
<1>7. CASE MoveAside(p)
    BY <1>1, <1>7, ReleaseTypes, StayTypes DEF MoveAside
<1>8. CASE Swap(p)
    BY <1>1, <1>8, ReleaseTypes, StayTypes DEF Swap, Done
<1>9. CASE SwapFails(p)
    BY <1>1, <1>9, ReleaseTypes, StayTypes DEF SwapFails
<1>10. CASE Drop(p)
  <2>1. UNCHANGED <<pc, holder, install>> \/ Release(p)
      BY <1>10 DEF Drop, Done
  <2> QED
      BY <2>1, ReleaseTypes DEF InstallType
<1>11. CASE Discard(p)
  <2>1. UNCHANGED <<pc, holder, install>> \/ Release(p)
      BY <1>11 DEF Discard
  <2> QED
      BY <2>1, ReleaseTypes DEF InstallType
<1> QED
    BY <1>2, <1>3, <1>4, <1>5, <1>6, <1>7, <1>8, <1>9, <1>10, <1>11 DEF Install

\* Every step of an install keeps the types of the history.
LEMMA HistoryStep ==
    ASSUME InstallType, HistoryType, NEW p \in Proc, Install(p) PROVE HistoryType'
<1>1. CASE Swap(p) \/ SwapFails(p) \/ Drop(p) \/ Discard(p)
  <2>1. version[p] \in Version /\ staged[p] \in Build
      BY <1>1, HasVersion DEF Swap, SwapFails, Drop, Discard, InstallLabel, InstallType
  <2>2. installed' \in {installed, [installed EXCEPT ![version[p]] = staged[p]]}
      BY <1>1 DEF Swap, SwapFails, Drop, Discard, Done, history
  <2>3. /\ mishap' \in {mishap, mishap \ {version[p]}, mishap \cup {version[p]}}
        /\ lost' \in {lost, lost \ {version[p]}, lost \cup {version[p]}}
      BY <1>1 DEF Swap, SwapFails, Drop, Discard, Done, history
  <2> QED
      BY <2>1, <2>2, <2>3 DEF HistoryType
<1>2. CASE UNCHANGED history
    BY <1>2 DEF history, HistoryType
<1> QED
    BY <1>1, <1>2 DEF Install, Lock, Stage, StageFails, Stat, Clear, MoveAside

\* A reader changes nothing of what installs work on.
LEMMA ReadKeepsInstalls ==
    ASSUME FilesType, InstallType, HistoryType, NEW p \in Proc, ReadBegin(p) \/ Read(p)
    PROVE  FilesType' /\ InstallType' /\ HistoryType'
<1>1. /\ UNCHANGED <<store, install, history>>
      /\ pc' \in [Proc -> InstallLabel \cup ReadLabel \cup {"idle"}]
      /\ \A q \in Proc : pc'[q] \in InstallLabel <=> pc[q] \in InstallLabel
  <2>1. pc[p] \notin InstallLabel /\ pc'[p] \notin InstallLabel
      BY ReadersOnlyRead DEF InstallType, InstallLabel, ReadLabel
  <2> QED
      BY <2>1, ReadersOnlyRead DEF InstallType
<1> QED
    BY <1>1 DEF FilesType, InstallType, HistoryType, store, install, history

\* A reader keeps its types and looks only into what it has found.
LEMMA ReaderStep ==
    ASSUME FilesType, InstallType, HistoryType, ReaderType, FoundInv,
           NEW p \in Proc, ReadBegin(p) \/ Read(p)
    PROVE  ReaderType' /\ FoundInv'
<1> USE DEF ReaderType, FoundInv, Goto, reader
<1>1. 0 \in Build /\ pc \in [Proc -> InstallLabel \cup ReadLabel \cup {"idle"}]
    BY PackStoreAssumption DEF Build, InstallType
<1>2. CASE ReadBegin(p)
    BY <1>1, <1>2 DEF ReadBegin, HistoryType
<1>3. CASE List(p)
    BY <1>1, <1>3 DEF List
<1>4. CASE Inspect(p)
  <2>1. PICK n \in names[p] :
          /\ names' = [names EXCEPT ![p] = @ \ {n}]
          /\ found' \in {found, [found EXCEPT ![p] = n]}
      BY <1>4 DEF Inspect
  <2> QED
      BY <1>1, <1>4, <2>1 DEF Inspect
<1>5. CASE ReadExit(p)
    BY <1>1, <1>5 DEF ReadExit
<1>6. CASE Inspected(p) /\ ~ReadExit(p)
    BY <1>1, <1>6 DEF Inspected
<1>7. CASE Walk(p) /\ ~ReadExit(p)
  <2>1. /\ pc[p] = "walk" /\ found[p] \in Name
        /\ \E cs \in SUBSET shipped[dir[found[p]].build] :
             left' = [left EXCEPT ![p] = dir[found[p]].has \cup cs]
      BY <1>7 DEF Walk
  <2>2. dir[found[p]].has \subseteq Challenge /\ shipped[dir[found[p]].build] \subseteq Challenge
      BY <2>1 DEF FilesType, Tree
  <2>3. left' \in [Proc -> SUBSET Challenge]
      BY <2>1, <2>2
  <2> QED
      BY <1>1, <1>7, <2>1, <2>3 DEF Walk
<1>8. CASE Archive(p) /\ ~ReadExit(p)
  <2>1. found[p] \in Name
      BY <1>8 DEF Archive
  <2>2. PICK c \in left[p] :
          /\ left' \in {left, [left EXCEPT ![p] = @ \ {c}]}
          /\ archive' = [archive EXCEPT ![p][c] = @ \cup {dir[found[p]].build}]
      BY <1>8 DEF Archive, Entered
  <2>3. c \in Challenge /\ dir[found[p]].build \in Build
      BY <2>1, <2>2 DEF FilesType, Tree
  <2>4. archive' \in [Proc -> [Challenge -> SUBSET Build]]
      BY <2>2, <2>3
  <2>5. left' \in [Proc -> SUBSET Challenge]
      BY <2>2
  <2>6. UNCHANGED <<pc, want, names, found, floor>>
      BY <1>8 DEF Archive
  <2> QED
      BY <2>4, <2>5, <2>6
<1> QED
    BY <1>2, <1>3, <1>4, <1>5, <1>6, <1>7, <1>8 DEF Read, Loaded, LoadFails, Exported

\* The type invariant in the parts that the steps are about.
LEMMA TypeParts == TypeOK <=> FilesType /\ InstallType /\ HistoryType /\ ReaderType
BY DEF TypeOK, FilesType, InstallType, HistoryType, ReaderType

\* Every step keeps the types.
LEMMA TypeStep ==
    ASSUME TypeOK, CountInv, FoundInv, [Next]_vars
    PROVE  TypeOK' /\ CountInv' /\ FoundInv'
<1> FilesType /\ InstallType /\ HistoryType /\ ReaderType
    BY TypeParts
<1>1. CASE UNCHANGED vars
    BY <1>1 DEF vars, store, install, reader, history, TypeOK, CountInv, Waiting, FoundInv
<1>2. CASE Next
  <2> SUFFICES ASSUME NEW p \in Proc, InstallBegin(p) \/ ReadBegin(p) \/ Step(p) \/ Kill(p)
               PROVE FilesType' /\ InstallType' /\ HistoryType' /\ ReaderType' /\ FoundInv'
    <3>1. CountInv'
        BY <1>2, CountStep
    <3> QED
        BY <1>2, <3>1 DEF Next, TypeOK, FilesType, InstallType, HistoryType, ReaderType
  <2>1. CASE ReadBegin(p) \/ Read(p)
      BY <2>1, ReadKeepsInstalls, ReaderStep
  <2>2. CASE InstallBegin(p)
    <3>1. ReaderType' /\ FoundInv' /\ FilesType' /\ HistoryType'
        BY <2>2 DEF InstallBegin, Goto, store, history, reader, FilesType, InstallType,
                    HistoryType, ReaderType, FoundInv
    <3>2. InstallType'
        BY <2>2 DEF InstallBegin, Goto, store, InstallType, InstallLabel, Manifests, Sources,
                    Version
    <3> QED
        BY <3>1, <3>2
  <2>3. CASE Install(p)
    <3>1. ReaderType' /\ FoundInv'
      <4>1. UNCHANGED reader
          BY <2>3 DEF Install, Lock, Stage, StageFails, Stat, Clear, MoveAside, Swap, SwapFails,
                      Drop, Discard
      <4>2. \A q \in Proc : pc'[q] \in {"load", "walk", "archive"} => pc'[q] = pc[q]
          BY <2>3, InstallMoves DEF Position, Holding, Lock, Goto, InstallType, InstallLabel
      <4> QED
          BY <4>1, <4>2 DEF reader, ReaderType, FoundInv
    <3> QED
        BY <2>3, <3>1, FilesStep, InstallStep, HistoryStep
  <2>4. CASE Kill(p)
    <3>1. version[p] \in Version
        BY <2>4, HasVersion DEF Kill
    <3>2. FilesType' /\ HistoryType'
        BY <2>4, <3>1 DEF Kill, FilesType, HistoryType
    <3>3. ReaderType' /\ FoundInv'
        BY <2>4 DEF Kill, Release, Goto, reader, InstallType, ReaderType, FoundInv
    <3>4. InstallType'
      <4>1. CASE pc[p] = "lock"
        <5>1. 0 \notin Version
            BY DEF Version
        <5> QED
            BY <2>4, <4>1, <5>1 DEF Kill, Goto, InstallType, InstallLabel
      <4>2. CASE pc[p] # "lock"
          BY <2>4, <4>2, ReleaseTypes DEF Kill
      <4> QED
          BY <4>1, <4>2
    <3> QED
        BY <3>2, <3>3, <3>4
  <2> QED
      BY <2>1, <2>2, <2>3, <2>4 DEF Step
<1> QED
    BY <1>1, <1>2

\* Every variable of the pack store keeps its type, and a reader that looks into
\* a directory has found one.
THEOREM TypeCorrect == Spec => [](TypeOK /\ CountInv /\ FoundInv)
<1>1. Init => TypeOK /\ FoundInv
    BY PackStoreAssumption DEF Init, TypeOK, FoundInv, Build, Tree, Absent, InstallLabel, ReadLabel
<1>2. Init => CountInv
  <2> SUFFICES ASSUME Init PROVE CountInv
      OBVIOUS
  <2>1. Waiting = {}
      BY DEF Init, Waiting
  <2> QED
      BY <2>1, FS_EmptySet, PackStoreAssumption DEF Init, CountInv
<1>3. TypeOK /\ CountInv /\ FoundInv /\ [Next]_vars => (TypeOK /\ CountInv /\ FoundInv)'
    BY TypeStep
<1> QED
    BY <1>1, <1>2, <1>3, PTL DEF Spec

-----------------------------------------------------------------------------
(* What an install may rely on *)

\* What is written down is no younger than the last source that got the lock.
AgeInv ==
    /\ \A n \in Name : dir[n].build <= builds
    /\ \A v \in Version : installed[v] <= builds

\* The install that holds the lock has staged the youngest source; while it clears
\* the place aside the version is in its own, later its replacement is.
HolderOK(p) ==
    /\ pc[p] \in Holding => builds # 0
    /\ pc[p] \in {"stat", "clear", "aside", "swap", "drop"} => staged[p] = builds
    /\ pc[p] \in {"clear", "aside"} => Present(Final(version[p]))
    /\ pc[p] = "drop" => dir[Final(version[p])].build = staged[p]
    /\ pc[p] = "discard" => version[p] \in lost

HolderInv == \A p \in Proc : HolderOK(p)

\* What is in the place of a version is whole and as new as what was installed, ...
FinalInv ==
    \A v \in Version : Present(Final(v)) =>
        dir[Final(v)].build >= installed[v] /\ Whole(dir[Final(v)])

\* ... and when there is nothing, what was moved aside is.
AsideInv ==
    \A v \in Version \ lost : installed[v] # 0 /\ ~Present(Final(v)) =>
        dir[Aside(v)].build >= installed[v] /\ Whole(dir[Aside(v)])

PackInv == LockHeldInUse /\ AgeInv /\ HolderInv /\ FinalInv /\ AsideInv

\* What was installed stays available, whatever is killed while it is replaced: a
\* complete copy of it, or of something newer, is in one of its two places.
\* Except when the second rename fails after the first one.
Available ==
    \A v \in Version \ lost : installed[v] # 0 =>
        \E n \in {Final(v), Aside(v)} :
            dir[n].build >= installed[v] /\ Whole(dir[n])

\* An install that has the lock is alone with the store.
LEMMA HolderAlone ==
    ASSUME LockHeldInUse, NEW p \in Proc, pc[p] \in Holding
    PROVE  holder = p /\ \A q \in Proc \ {p} : pc[q] \notin Holding
BY DEF LockHeldInUse, Holding

\* What the inductive invariant says of a version under its name and aside.
LEMMA PackParts == PackInv => FinalWhole /\ Available
<1> SUFFICES ASSUME PackInv PROVE FinalWhole /\ Available
    OBVIOUS
<1>1. FinalWhole
    BY DEF PackInv, FinalInv, FinalWhole
<1>2. ASSUME NEW v \in Version \ lost, installed[v] # 0
      PROVE  \E n \in {Final(v), Aside(v)} : dir[n].build >= installed[v] /\ Whole(dir[n])
    BY <1>2 DEF PackInv, FinalInv, AsideInv
<1> QED
    BY <1>1, <1>2 DEF Available

\* The lock is taken and released with the labels of the install that holds it.
LEMMA LockStep ==
    ASSUME InstallType, LockHeldInUse, NEW p \in Proc, Install(p) \/ Kill(p)
    PROVE  LockHeldInUse'
<1> USE DEF LockHeldInUse, InstallType, Holding
<1>1. CASE Lock(p)
    BY <1>1, PackStoreAssumption DEF Lock, Goto, InstallLabel
<1>2. CASE Install(p) /\ ~Lock(p) /\ ~Release(p)
    BY <1>2, InstallMoves DEF Position
<1>3. CASE Release(p) /\ pc[p] \in Holding
    BY <1>3, PackStoreAssumption DEF Release, Goto, InstallLabel
<1>4. CASE Kill(p) /\ pc[p] = "lock"
    BY <1>4 DEF Kill, Goto, InstallLabel
<1>5. CASE Kill(p) /\ pc[p] # "lock"
    BY <1>3, <1>5 DEF Kill
<1>6. Install(p) /\ ~Lock(p) => pc[p] \in Holding
    BY InstallMoves DEF Position
<1> QED
    BY <1>1, <1>2, <1>3, <1>4, <1>5, <1>6

\* What is aside may go when the version is in its place, or given up.
LEMMA AsideTouched ==
    ASSUME FilesType, AgeInv, FinalInv, AsideInv, NEW v \in Version,
           UNCHANGED <<shipped, builds>>,
           dir'[Aside(v)].build <= builds,
           \A m \in Name \ {Aside(v)} : dir'[m] = dir[m],
           \A w \in Version \ {v} : installed'[w] = installed[w] /\ (w \in lost' <=> w \in lost),
           installed'[v] \in {installed[v], dir[Final(v)].build},
           Present(Final(v)) \/ v \in lost'
    PROVE  AgeInv' /\ FinalInv' /\ AsideInv'
<1>1. \A w \in Version : dir'[Final(w)] = dir[Final(w)] /\ (w # v => dir'[Aside(w)] = dir[Aside(w)])
    BY Names
<1>2. AgeInv'
  <2>1. \A n \in Name : dir'[n].build <= builds
      BY Names DEF AgeInv
  <2>2. \A w \in Version : installed'[w] <= builds
      BY Names DEF AgeInv
  <2> QED
      BY <2>1, <2>2 DEF AgeInv
<1>3. FinalInv'
  <2>1. dir[Final(v)].build \in Nat
      BY Names DEF FilesType, Tree, Build
  <2> QED
      BY <1>1, <2>1 DEF FinalInv, Present, Whole
<1>4. AsideInv'
    BY <1>1 DEF AsideInv, Present, Whole
<1> QED
    BY <1>2, <1>3, <1>4

\* The steps that leave the directories and what was installed alone.
LEMMA FilesKept ==
    ASSUME FilesType, AgeInv, FinalInv, AsideInv,
           UNCHANGED <<dir, shipped, builds, installed>>, lost \subseteq lost'
    PROVE  AgeInv' /\ FinalInv' /\ AsideInv'
BY DEF AgeInv, FinalInv, AsideInv, Present, Whole

\* No step of an install leaves a version half copied or in neither place.
LEMMA InstallSafe ==
    ASSUME FilesType, InstallType, HistoryType, PackInv, NEW p \in Proc, Install(p),
           FilesType'
    PROVE  AgeInv' /\ FinalInv' /\ AsideInv' /\ HolderOK(p)'
<1> USE DEF PackInv, Goto, store, history
<1>1. HolderOK(p)
    BY DEF HolderInv
<1>2. \A n \in Name : dir[n].build \in Nat /\ dir[n].build <= builds
    BY DEF FilesType, Tree, Build, AgeInv
<1>3. CASE Lock(p)
  <2>1. \A n \in Name : dir'[n] = dir[n] /\ shipped'[dir[n].build] = shipped[dir[n].build]
      BY <1>2, <1>3 DEF Lock, FilesType, Build
  <2>2. AgeInv'
      BY <1>2, <1>3 DEF Lock, AgeInv, FilesType, HistoryType, Build
  <2>3. FinalInv'
      BY <1>3, <2>1, Names DEF Lock, FinalInv, Present, Whole
  <2>4. AsideInv'
      BY <1>3, <2>1, Names DEF Lock, AsideInv, Present, Whole
  <2>5. HolderOK(p)'
      BY <1>3 DEF Lock, InstallType, HolderOK, FilesType, Build
  <2> QED
      BY <2>2, <2>3, <2>4, <2>5
<1>4. CASE ~Lock(p)
  <2>1. pc[p] \in Holding /\ builds # 0 /\ pc \in [Proc -> InstallLabel \cup ReadLabel \cup {"idle"}]
      BY <1>1, <1>4, InstallMoves DEF Position, InstallType, HolderOK
  <2>2. PICK v \in Version : v = version[p]
      BY <2>1, HasVersion DEF Holding
  <2>14. /\ Final(v) \in Name /\ Aside(v) \in Name
         /\ \A w \in Version \ {v} : {Final(w), Aside(w)} \subseteq Name \ {Final(v), Aside(v)}
      BY Names
  <2>3. Release(p) => HolderOK(p)'
      BY <2>1 DEF Release, HolderOK, Holding, InstallLabel
  <2>4. CASE Stage(p)
    <3>1. AgeInv' /\ FinalInv' /\ AsideInv'
        BY <2>4, FilesKept DEF Stage
    <3>2. HolderOK(p)'
        BY <2>1, <2>4 DEF Stage, HolderOK, InstallType
    <3> QED
        BY <3>1, <3>2
  <2>5. CASE StageFails(p)
      BY <2>3, <2>5, FilesKept DEF StageFails
  <2>6. CASE Stat(p)
    <3>1. AgeInv' /\ FinalInv' /\ AsideInv'
        BY <2>6, FilesKept DEF Stat
    <3>2. HolderOK(p)'
        BY <1>1, <2>1, <2>6 DEF Stat, HolderOK, Present, install
    <3> QED
        BY <3>1, <3>2
  <2>7. CASE Clear(p)
    <3>1. Present(Final(v)) /\ UNCHANGED <<shipped, builds, installed, lost>>
        BY <1>1, <2>2, <2>7 DEF Clear, HolderOK
    <3>2. /\ dir'[Aside(v)].build <= builds
          /\ \A m \in Name \ {Aside(v)} : dir'[m] = dir[m]
        BY <1>2, <2>2, <2>14, <2>7, CrumbleFacts, EraseFacts DEF Clear, FilesType, Absent, Build
    <3>3. AgeInv' /\ FinalInv' /\ AsideInv'
        BY <2>2, <3>1, <3>2, AsideTouched
    <3>4. HolderOK(p)'
      <4>1. dir'[Final(v)] = dir[Final(v)]
          BY <2>2, <3>2, Names
      <4> QED
          BY <1>1, <2>1, <2>2, <2>7, <3>1, <4>1 DEF Clear, HolderOK, Present, install
    <3> QED
        BY <3>3, <3>4
  <2>8. CASE MoveAside(p) /\ UNCHANGED dir
    <3>1. Release(p) \/ ~Present(Final(v))
        BY <2>2, <2>14, <2>8, Names DEF MoveAside, Present, Absent, FilesType
    <3>2. Release(p)
        BY <1>1, <2>2, <2>8, <3>1 DEF MoveAside, HolderOK
    <3> QED
        BY <2>3, <2>8, <3>2, FilesKept DEF MoveAside
  <2>9. CASE MoveAside(p) /\ dir' # dir
    <3>1. /\ Present(Final(v)) /\ Whole(dir[Final(v)])
          /\ dir' = [dir EXCEPT ![Aside(v)] = dir[Final(v)], ![Final(v)] = Absent]
          /\ pc' = [pc EXCEPT ![p] = "swap"]
          /\ UNCHANGED <<staged, shipped, builds, installed, lost>>
        BY <1>1, <2>2, <2>9 DEF MoveAside, HolderOK, FinalInv
    <3>2. /\ dir'[Aside(v)] = dir[Final(v)] /\ dir'[Final(v)] = Absent
          /\ \A m \in Name \ {Aside(v), Final(v)} : dir'[m] = dir[m]
        BY <2>14, <3>1, Names DEF FilesType
    <3>3. AgeInv'
      <4>1. Absent.build <= builds
          BY DEF Absent, FilesType, Build
      <4> QED
          BY <2>14, <3>1, <3>2, <4>1 DEF AgeInv
    <3>4. /\ ~Present(Final(v))'
          /\ \A w \in Version \ {v} : dir'[Final(w)] = dir[Final(w)] /\ dir'[Aside(w)] = dir[Aside(w)]
        BY <2>14, <3>2 DEF Present, Absent
    <3>5. FinalInv'
        BY <3>1, <3>4 DEF FinalInv, Present, Whole
    <3>6. AsideInv'
      <4>1. /\ dir'[Aside(v)].build >= installed'[v] /\ Whole(dir[Aside(v)])'
          BY <3>1, <3>2 DEF FinalInv, Whole
      <4>2. ASSUME NEW w \in Version \ lost, w # v, installed[w] # 0, ~Present(Final(w))
            PROVE  dir'[Aside(w)].build >= installed[w] /\ Whole(dir[Aside(w)])'
          BY <3>1, <3>4, <4>2 DEF AsideInv, Whole
      <4> QED
          BY <3>1, <3>4, <4>1, <4>2 DEF AsideInv, Present
    <3>7. HolderOK(p)'
        BY <1>1, <2>1, <2>9, <3>1 DEF MoveAside, HolderOK
    <3> QED
        BY <3>3, <3>5, <3>6, <3>7
  <2>13. CASE Swap(p)
    <3>1. /\ staged[p] = builds
          /\ dir' = [dir EXCEPT ![Final(v)] = Copy(builds)]
          /\ UNCHANGED <<shipped, builds>>
          /\ installed' \in {installed, [installed EXCEPT ![v] = builds]}
          /\ lost' \in {lost, lost \ {v}}
        BY <1>1, <2>2, <2>13 DEF Swap, Done, HolderOK
    <3>2. /\ dir'[Final(v)] = Copy(builds)
          /\ \A m \in Name \ {Final(v)} : dir'[m] = dir[m]
        BY <2>14, <3>1 DEF FilesType
    <3>3. /\ builds \in Nat
          /\ Copy(builds).build = builds /\ Copy(builds).has = shipped[builds]
          /\ Copy(builds).rubble = FALSE
        BY <3>1 DEF FilesType, Build, Copy
    <3>4. AgeInv'
      <4>1. \A n \in Name : dir'[n].build <= builds
          BY <3>2, <3>3 DEF AgeInv
      <4>2. \A w \in Version : installed'[w] <= builds
          BY <3>1, <3>3 DEF AgeInv, HistoryType
      <4> QED
          BY <3>1, <4>1, <4>2 DEF AgeInv
    <3>5. /\ Present(Final(v))'
          /\ \A w \in Version \ {v} : dir'[Final(w)] = dir[Final(w)] /\ dir'[Aside(w)] = dir[Aside(w)]
          /\ \A w \in Version \ {v} : installed'[w] = installed[w]
        BY <2>1, <2>14, <3>1, <3>2, <3>3 DEF Present, HistoryType
    <3>6. FinalInv'
      <4>1. Whole(dir[Final(v)])'
          BY <3>1, <3>2, <3>3 DEF Whole
      <4>3. dir'[Final(v)].build >= installed'[v]
          BY <3>1, <3>2, <3>3, <3>4 DEF AgeInv
      <4>2. \A w \in Version \ {v} : Whole(dir[Final(w)]) => Whole(dir[Final(w)])'
          BY <3>1, <3>5 DEF Whole
      <4> QED
          BY <3>5, <4>1, <4>2, <4>3 DEF FinalInv, Present
    <3>7. AsideInv'
        BY <3>1, <3>5 DEF AsideInv, Present, Whole
    <3>8. HolderOK(p)'
        BY <2>1, <2>2, <2>3, <2>13, <3>1, <3>2, <3>3 DEF Swap, Done, HolderOK, install
    <3> QED
        BY <3>4, <3>6, <3>7, <3>8
  <2>10. CASE SwapFails(p)
    <3>1. AgeInv' /\ FinalInv' /\ AsideInv'
        BY <2>10, FilesKept DEF SwapFails
    <3>2. HolderOK(p)'
        BY <2>1, <2>2, <2>3, <2>10 DEF SwapFails, HolderOK, install
    <3> QED
        BY <3>1, <3>2
  <2>11. CASE Drop(p)
    <3>1. dir[Final(v)].build = staged[p] /\ staged[p] # 0 /\ UNCHANGED <<shipped, builds>>
        BY <1>1, <2>1, <2>2, <2>11 DEF Drop, HolderOK
    <3>2. /\ dir'[Aside(v)].build <= builds
          /\ \A m \in Name \ {Aside(v)} : dir'[m] = dir[m]
        BY <1>2, <2>2, <2>14, <2>11, CrumbleFacts, EraseFacts DEF Drop, FilesType, Absent, Build
    <3>3. /\ installed' \in {installed, [installed EXCEPT ![v] = staged[p]]}
          /\ lost' \in {lost, lost \ {v}}
        BY <2>2, <2>11 DEF Drop, Done
    <3>4. AgeInv' /\ FinalInv' /\ AsideInv'
        BY <2>2, <3>1, <3>2, <3>3, AsideTouched DEF Present, HistoryType
    <3>5. HolderOK(p)'
      <4>1. CASE UNCHANGED <<pc, install>>
        <5>1. dir'[Final(v)] = dir[Final(v)]
            BY <2>2, <3>2, Names
        <5> QED
            BY <1>1, <2>2, <2>11, <3>1, <4>1, <5>1 DEF Drop, HolderOK, install
      <4> QED
          BY <2>3, <2>11, <4>1 DEF Drop, Done
    <3> QED
        BY <3>4, <3>5
  <2>12. CASE Discard(p)
    <3>1. v \in lost /\ UNCHANGED <<shipped, builds, installed, lost>>
        BY <1>1, <2>2, <2>12 DEF Discard, HolderOK
    <3>2. /\ dir'[Aside(v)].build <= builds
          /\ \A m \in Name \ {Aside(v)} : dir'[m] = dir[m]
        BY <1>2, <2>2, <2>14, <2>12, CrumbleFacts, EraseFacts DEF Discard, FilesType, Absent, Build
    <3>3. AgeInv' /\ FinalInv' /\ AsideInv'
        BY <2>2, <3>1, <3>2, AsideTouched
    <3>4. HolderOK(p)'
        BY <1>1, <2>2, <2>3, <2>12, <3>1 DEF Discard, HolderOK, install
    <3> QED
        BY <3>3, <3>4
  <2> QED
      BY <1>4, <2>4, <2>5, <2>6, <2>7, <2>8, <2>9, <2>10, <2>11, <2>12, <2>13 DEF Install
<1> QED
    BY <1>3, <1>4

-----------------------------------------------------------------------------
(* Theorems *)

\* Every step keeps the inductive invariant.
LEMMA PackStep ==
    ASSUME TypeOK, CountInv, FoundInv, PackInv, [Next]_vars PROVE PackInv'
<1> FilesType /\ InstallType /\ HistoryType /\ FilesType'
  <2>1. TypeOK'
      BY TypeStep
  <2> QED
      BY <2>1 DEF TypeOK, FilesType, InstallType, HistoryType
<1> USE DEF PackInv
<1>1. CASE UNCHANGED <<store, install, history>> /\ \A q \in Proc :
            pc'[q] \in Holding \/ pc[q] \in Holding => pc'[q] = pc[q]
  <2>1. AgeInv' /\ FinalInv' /\ AsideInv'
      BY <1>1, FilesKept DEF store, history
  <2>2. LockHeldInUse'
      BY <1>1 DEF LockHeldInUse, Holding, store
  <2>3. HolderInv'
      BY <1>1 DEF HolderInv, HolderOK, Present, Holding, InstallLabel, store, install, history
  <2> QED
      BY <2>1, <2>2, <2>3
<1>2. CASE UNCHANGED vars
    BY <1>1, <1>2 DEF vars
<1>3. CASE Next
  <2> SUFFICES ASSUME NEW p \in Proc, InstallBegin(p) \/ ReadBegin(p) \/ Step(p) \/ Kill(p)
               PROVE PackInv'
      BY <1>3 DEF Next
  <2>1. CASE ReadBegin(p) \/ Read(p)
      BY <1>1, <2>1, ReadersOnlyRead DEF InstallType, Holding, InstallLabel, ReadLabel
  <2>2. CASE InstallBegin(p)
    <3>1. AgeInv' /\ FinalInv' /\ AsideInv'
        BY <2>2, FilesKept DEF InstallBegin, store, history
    <3>2. /\ pc[p] \notin Holding /\ pc'[p] = "lock"
          /\ \A q \in Proc \ {p} : pc'[q] = pc[q] /\ version'[q] = version[q]
        BY <2>2 DEF InstallBegin, Goto, InstallType, Holding, InstallLabel
    <3>3. LockHeldInUse'
        BY <2>2, <3>2 DEF InstallBegin, LockHeldInUse, Holding, store
    <3>4. HolderInv'
        BY <2>2, <3>2 DEF InstallBegin, HolderInv, HolderOK, Present, Holding, store, history
    <3> QED
        BY <3>1, <3>3, <3>4
  <2>3. CASE Install(p)
    <3>1. ASSUME NEW q \in Proc \ {p} PROVE pc'[q] \notin Holding
      <4>1. CASE Lock(p)
          BY <4>1, PackStoreAssumption DEF Lock, Goto, LockHeldInUse, InstallType, Holding
      <4>2. CASE ~Lock(p)
          BY <2>3, <4>2, InstallMoves, HolderAlone DEF Position, InstallType
      <4> QED
          BY <4>1, <4>2
    <3>2. HolderInv'
      <4>1. HolderOK(p)'
          BY <2>3, InstallSafe
      <4> QED
          BY <3>1, <4>1 DEF HolderInv, HolderOK, Holding, InstallLabel
    <3> QED
        BY <2>3, <3>2, InstallSafe, LockStep
  <2>4. CASE Kill(p)
    <3>1. AgeInv' /\ FinalInv' /\ AsideInv'
        BY <2>4, FilesKept DEF Kill
    <3>2. pc'[p] \notin Holding
        BY <2>4 DEF Kill, Release, Goto, InstallType, Holding, InstallLabel
    <3>3. ASSUME NEW q \in Proc \ {p}, pc'[q] \in Holding PROVE HolderOK(q)'
        BY <2>4, <3>3 DEF Kill, Release, Goto, InstallType, HolderInv, HolderOK, Present
    <3>4. HolderInv'
        BY <3>2, <3>3 DEF HolderInv, HolderOK, Holding, InstallLabel
    <3> QED
        BY <2>4, <3>1, <3>4, LockStep
  <2> QED
      BY <2>1, <2>2, <2>3, <2>4 DEF Step
<1> QED
    BY <1>2, <1>3

\* The inductive invariant holds for every behaviour.
LEMMA PackInvHolds == Spec => []PackInv
<1>1. Init => PackInv
  <2> SUFFICES ASSUME Init PROVE PackInv
      OBVIOUS
  <2> USE DEF Init
  <2>1. LockHeldInUse /\ HolderInv
      BY PackStoreAssumption DEF LockHeldInUse, HolderInv, HolderOK, Holding, InstallLabel
  <2>2. \A n \in Name : dir[n].build = 0
      BY DEF Absent
  <2>3. AgeInv
      BY <2>2 DEF AgeInv
  <2>4. FinalInv /\ AsideInv
      BY <2>2, Names DEF FinalInv, AsideInv, Present
  <2> QED
      BY <2>1, <2>3, <2>4 DEF PackInv
<1>2. TypeOK /\ CountInv /\ FoundInv /\ PackInv /\ [Next]_vars => PackInv'
    BY PackStep
<1> QED
    BY <1>1, <1>2, TypeCorrect, PTL DEF Spec

\* What is found under the name of a version is complete, for any pack and any
\* number of processes, whatever is killed or fails.
THEOREM InstalledIsWhole == Spec => []FinalWhole
BY PackInvHolds, PackParts, PTL

\* What was installed stays available in one of its two places while it is
\* replaced, unless the second rename fails after the first.
THEOREM InstalledStays == Spec => []Available
BY PackInvHolds, PackParts, PTL

\* The lock of a pack is never left behind by an install that failed or was killed.
THEOREM LockFreed == Spec => []LockHeldInUse
<1>1. PackInv => LockHeldInUse
    BY DEF PackInv
<1> QED
    BY <1>1, PackInvHolds, PTL

-----------------------------------------------------------------------------
(* The registry that the directories implement *)

\* Until it is in its place, what an install has staged is newer than all that is there.
NewerInv ==
    \A p \in Proc : pc[p] \in {"stage", "stat", "clear", "aside", "swap"} =>
        \A n \in Name : dir[n].build < builds

\* A directory holds challenges of its build only, so one that is being removed
\* is not whole again.
PartInv == \A n \in Name : dir[n].has \subseteq shipped[dir[n].build]

\* No install makes a directory as new as what it is about to put in place.
LEMMA NewerStep ==
    ASSUME FilesType, InstallType, PackInv, NewerInv, NEW p \in Proc, Install(p)
    PROVE  NewerInv'
<1>1. CASE Lock(p)
  <2>1. \A n \in Name : dir[n].build \in Nat /\ dir[n].build <= builds
      BY DEF FilesType, Tree, Build, PackInv, AgeInv
  <2>2. \A n \in Name : dir'[n].build < builds'
      BY <1>1, <2>1 DEF Lock, FilesType, Build
  <2> QED
      BY <2>2 DEF NewerInv
<1>2. CASE ~Lock(p)
  <2>1. Position(p) /\ \A q \in Proc \ {p} : pc'[q] \notin Holding
      BY <1>2, InstallMoves, HolderAlone DEF InstallType, Position, PackInv
  <2>2. SUFFICES ASSUME pc'[p] \in {"stage", "stat", "clear", "aside", "swap"}
                 PROVE  \A n \in Name : dir'[n].build < builds
      BY <2>1 DEF NewerInv, Position, Holding, InstallLabel
  <2>3. builds # 0 /\ builds \in Nat
      BY <2>1 DEF PackInv, HolderInv, HolderOK, Position, FilesType, Build
  <2>4. CASE Stage(p) \/ Stat(p)
      BY <2>4 DEF Stage, Stat, NewerInv, store
  <2>5. CASE Clear(p)
    <3>1. \A n \in Name : dir[n].build < builds
        BY <2>5 DEF Clear, NewerInv
    <3>2. Aside(version[p]) \in Name
        BY <2>5, HasVersion DEF Clear, InstallLabel
    <3>3. \A n \in Name : dir'[n].build \in {dir[n].build, 0}
        BY <2>5, <3>2, CrumbleFacts, EraseFacts DEF Clear, FilesType, Absent
    <3> QED
        BY <2>3, <3>1, <3>3
  <2>6. CASE MoveAside(p)
    <3>1. \A n \in Name : dir[n].build < builds
        BY <2>6 DEF MoveAside, NewerInv
    <3>2. Aside(version[p]) \in Name /\ Final(version[p]) \in Name
        BY <2>6, HasVersion DEF MoveAside, InstallLabel
    <3> QED
        BY <2>3, <2>6, <3>1, <3>2 DEF MoveAside, FilesType, Absent
  <2>7. pc'[p] \notin {"stage", "stat", "clear", "aside", "swap"}
        \/ Stage(p) \/ Stat(p) \/ Clear(p) \/ MoveAside(p)
      BY <1>2 DEF Install, StageFails, Swap, SwapFails, Done, Drop, Discard, Release, Goto, InstallType
  <2> QED
      BY <2>2, <2>4, <2>5, <2>6, <2>7
<1> QED
    BY <1>1, <1>2

\* No install puts into a directory what its build has not.
LEMMA PartStep ==
    ASSUME FilesType, InstallType, PackInv, PartInv, NEW p \in Proc, Install(p)
    PROVE  PartInv'
<1>1. CASE Lock(p)
  <2>1. \A n \in Name : shipped'[dir[n].build] = shipped[dir[n].build]
    <3>1. \A n \in Name : dir[n].build \in Nat /\ dir[n].build <= builds
        BY DEF FilesType, Tree, Build, PackInv, AgeInv
    <3> QED
        BY <1>1, <3>1 DEF Lock, FilesType, Build
  <2> QED
      BY <1>1, <2>1 DEF Lock, PartInv
<1>2. CASE Clear(p) \/ Drop(p) \/ Discard(p)
  <2>1. Aside(version[p]) \in Name /\ UNCHANGED shipped
      BY <1>2, HasVersion DEF Clear, Drop, Discard, InstallLabel
  <2>2. \A n \in Name : dir'[n] = dir[n] \/ dir'[n] = Absent
                        \/ (dir'[n].build = dir[n].build /\ dir'[n].has \subseteq dir[n].has)
    <3>1. CASE Crumble(Aside(version[p]))
        BY <2>1, <3>1 DEF Crumble, FilesType, Tree
    <3>2. CASE Erase(Aside(version[p])) \/ UNCHANGED dir
        BY <2>1, <3>2, EraseFacts DEF FilesType
    <3> QED
        BY <1>2, <3>1, <3>2 DEF Clear, Drop, Discard
  <2> QED
      BY <2>1, <2>2 DEF PartInv, Absent
<1>3. CASE MoveAside(p)
  <2>1. Aside(version[p]) \in Name /\ Final(version[p]) \in Name
      BY <1>3, HasVersion DEF MoveAside, InstallLabel
  <2> QED
      BY <1>3, <2>1 DEF MoveAside, PartInv, FilesType, Absent
<1>4. CASE Swap(p)
    BY <1>4 DEF Swap, PartInv, FilesType, Copy
<1>5. CASE UNCHANGED <<dir, shipped>>
    BY <1>5 DEF PartInv
<1> QED
    BY <1>1, <1>2, <1>3, <1>4, <1>5 DEF Install, Stage, StageFails, Stat, SwapFails, store

RegistryInv == NewerInv /\ PartInv

\* Every step keeps both.
LEMMA RegistryStep ==
    ASSUME TypeOK, PackInv, RegistryInv, [Next]_vars PROVE RegistryInv'
<1> FilesType /\ InstallType
    BY TypeParts
<1> USE DEF RegistryInv
<1>1. CASE UNCHANGED <<dir, shipped, builds>> /\ \A q \in Proc : pc'[q] \in Holding => pc'[q] = pc[q]
    BY <1>1 DEF NewerInv, PartInv, Holding, InstallLabel
<1>2. CASE UNCHANGED vars
    BY <1>1, <1>2 DEF vars, store
<1>3. CASE Next
  <2> SUFFICES ASSUME NEW p \in Proc, InstallBegin(p) \/ ReadBegin(p) \/ Step(p) \/ Kill(p)
               PROVE RegistryInv'
      BY <1>3 DEF Next
  <2>1. CASE ReadBegin(p) \/ Read(p)
      BY <1>1, <2>1, ReadersOnlyRead DEF InstallType, Holding, InstallLabel, ReadLabel, store
  <2>2. CASE InstallBegin(p)
      BY <1>1, <2>2 DEF InstallBegin, Goto, InstallType, Holding, store
  <2>3. CASE Install(p)
      BY <2>3, NewerStep, PartStep
  <2>4. CASE Kill(p)
      BY <1>1, <2>4 DEF Kill, Release, Goto, InstallType, Holding, InstallLabel
  <2> QED
      BY <2>1, <2>2, <2>3, <2>4 DEF Step
<1> QED
    BY <1>2, <1>3

\* What is kept of a version is the same while its own directory is, unless that
\* is gone and the one aside changes.
LEMMA KeptSame ==
    ASSUME NEW v \in Version, UNCHANGED shipped, dir'[Final(v)] = dir[Final(v)],
           Present(Final(v)) \/ dir'[Aside(v)] = dir[Aside(v)]
    PROVE  KeptOf(v)' = KeptOf(v)
BY DEF KeptOf, Present, Whole

\* A step that keeps what is kept, reported and failed is a stutter.
LEMMA RegistrySilent ==
    ASSUME \A v \in Version : KeptOf(v)' = KeptOf(v), UNCHANGED <<installed, lost>>
    PROVE  UNCHANGED Registry!vars
BY DEF Registry!vars

\* Every step of an install is a step of the registry, or none.
LEMMA InstallRefines ==
    ASSUME FilesType, InstallType, HistoryType, PackInv, RegistryInv, NEW p \in Proc, Install(p)
    PROVE  [Registry!Next]_Registry!vars
<1> USE DEF PackInv
<1>1. CASE Lock(p)
  <2>1. \A n \in Name : shipped'[dir[n].build] = shipped[dir[n].build]
    <3>1. \A n \in Name : dir[n].build \in Nat /\ dir[n].build <= builds
        BY DEF FilesType, Tree, Build, AgeInv
    <3> QED
        BY <1>1, <3>1 DEF Lock, FilesType, Build
  <2>2. \A v \in Version : KeptOf(v)' = KeptOf(v)
      BY <1>1, <2>1, Names DEF Lock, KeptOf, Present, Whole
  <2> QED
      BY <1>1, <2>2, RegistrySilent DEF Lock, history
<1>2. CASE Stage(p) \/ StageFails(p) \/ Stat(p)
  <2>1. UNCHANGED <<dir, shipped, installed, lost>>
      BY <1>2 DEF Stage, StageFails, Stat, store, history
  <2> QED
      BY <2>1, KeptSame, RegistrySilent
<1>3. CASE ~(Lock(p) \/ Stage(p) \/ StageFails(p) \/ Stat(p))
  <2>1. pc[p] \in Holding /\ HolderOK(p) /\ builds # 0 /\ UNCHANGED shipped
    <3>1. pc[p] \in Holding
        BY <1>3, InstallMoves DEF Position, InstallType
    <3>2. UNCHANGED shipped
        BY <1>3 DEF Install, Clear, MoveAside, Swap, SwapFails, Drop, Discard
    <3> QED
        BY <3>1, <3>2 DEF HolderInv, HolderOK
  <2>2. PICK v \in Version : v = version[p]
      BY <2>1, HasVersion DEF Holding
  <2>3. /\ Final(v) \in Name /\ Aside(v) \in Name /\ Final(v) # Aside(v)
        /\ \A w \in Version \ {v} : {Final(w), Aside(w)} \subseteq Name \ {Final(v), Aside(v)}
      BY Names
  <2>4. ASSUME \A m \in Name \ {Final(v), Aside(v)} : dir'[m] = dir[m]
        PROVE  \A w \in Version \ {v} : KeptOf(w)' = KeptOf(w)
      BY <2>1, <2>3, <2>4, KeptSame
  <2> DEFINE kept == [w \in Version |-> KeptOf(w)]
  <2>5. ASSUME NEW b, KeptOf(v)' = b, \A m \in Name \ {Final(v), Aside(v)} : dir'[m] = dir[m]
        PROVE  kept' = [kept EXCEPT ![v] = b]
      BY <2>4, <2>5
  <2>6. CASE Clear(p)
    <3>1. Present(Final(v)) /\ UNCHANGED <<installed, lost>>
        BY <2>1, <2>2, <2>6 DEF Clear, HolderOK, history
    <3>2. \A m \in Name \ {Aside(v)} : dir'[m] = dir[m]
        BY <2>2, <2>3, <2>6, CrumbleFacts, EraseFacts DEF Clear, FilesType
    <3>3. \A w \in Version : KeptOf(w)' = KeptOf(w)
        BY <2>1, <2>3, <2>4, <3>1, <3>2, KeptSame
    <3> QED
        BY <3>1, <3>3, RegistrySilent
  <2>7. CASE MoveAside(p) /\ UNCHANGED dir
      BY <2>1, <2>7, KeptSame, RegistrySilent DEF MoveAside, history
  <2>8. CASE MoveAside(p) /\ dir' # dir
    <3>1. /\ Present(Final(v)) /\ Whole(dir[Final(v)])
          /\ dir' = [dir EXCEPT ![Aside(v)] = dir[Final(v)], ![Final(v)] = Absent]
          /\ UNCHANGED <<installed, lost>>
        BY <2>1, <2>2, <2>8 DEF MoveAside, HolderOK, FinalInv, history
    <3>2. /\ dir'[Aside(v)] = dir[Final(v)] /\ dir'[Final(v)] = Absent
          /\ \A m \in Name \ {Aside(v), Final(v)} : dir'[m] = dir[m]
        BY <2>3, <3>1 DEF FilesType
    <3>3. KeptOf(v)' = KeptOf(v)
        BY <2>1, <3>1, <3>2 DEF KeptOf, Present, Whole, Absent
    <3>4. \A w \in Version : KeptOf(w)' = KeptOf(w)
        BY <2>4, <3>2, <3>3
    <3> QED
        BY <3>1, <3>4, RegistrySilent
  <2>9. CASE Swap(p)
    <3>1. staged[p] = builds /\ builds \in Nat /\ \A n \in Name : dir[n].build < builds
        BY <2>1, <2>9 DEF Swap, HolderOK, RegistryInv, NewerInv, FilesType, Build
    <3>2. /\ dir'[Final(v)] = Copy(builds)
          /\ \A m \in Name \ {Final(v)} : dir'[m] = dir[m]
        BY <2>2, <2>3, <2>9, <3>1 DEF Swap, FilesType
    <3>3. KeptOf(v)' = builds /\ KeptOf(v) < builds
      <4>1. KeptOf(v)' = builds
          BY <2>1, <3>2 DEF KeptOf, Present, Whole, Copy
      <4>2. KeptOf(v) \in {0, dir[Final(v)].build, dir[Aside(v)].build}
          BY DEF KeptOf
      <4> QED
          BY <2>1, <2>3, <3>1, <4>1, <4>2
    <3>4. kept' = [kept EXCEPT ![v] = builds] /\ kept'[v] = builds /\ kept[v] < builds
        BY <2>5, <3>2, <3>3
    <3>5. \/ installed' = [installed EXCEPT ![v] = builds] /\ lost' = lost \ {v}
          \/ UNCHANGED <<installed, lost>>
        BY <2>2, <2>9, <3>1 DEF Swap, Done, history
    <3>6. Registry!Replace(v)
        BY <3>4, <3>5 DEF Registry!Replace, Registry!Report
    <3> QED
        BY <3>6 DEF Registry!Next
  <2>10. CASE SwapFails(p)
    <3>1. UNCHANGED <<dir, installed>> /\ lost' \in {lost, lost \cup {v}}
        BY <2>2, <2>10 DEF SwapFails
    <3>2. UNCHANGED kept
        BY <2>1, <3>1, KeptSame
    <3>3. lost' = lost \cup {v} => Registry!Fail(v)
        BY <3>1, <3>2 DEF Registry!Fail
    <3>4. UNCHANGED lost => UNCHANGED Registry!vars
        BY <2>1, <3>1, KeptSame, RegistrySilent
    <3> QED
        BY <3>1, <3>3, <3>4 DEF Registry!Next
  <2>11. CASE Drop(p)
    <3>1. /\ dir[Final(v)].build = staged[p] /\ staged[p] = builds /\ Present(Final(v))
          /\ Whole(dir[Final(v)])
        BY <2>1, <2>2, <2>11 DEF Drop, HolderOK, Present, FinalInv
    <3>2. \A m \in Name \ {Aside(v)} : dir'[m] = dir[m]
        BY <2>2, <2>3, <2>11, CrumbleFacts, EraseFacts DEF Drop, FilesType
    <3>3. \A w \in Version : KeptOf(w)' = KeptOf(w)
        BY <2>1, <2>3, <2>4, <3>1, <3>2, KeptSame
    <3>4. KeptOf(v) = staged[p]
        BY <3>1 DEF KeptOf
    <3>5. \/ UNCHANGED <<installed, lost>>
          \/ installed' = [installed EXCEPT ![v] = staged[p]] /\ lost' = lost \ {v}
        BY <2>2, <2>11 DEF Drop, Done, history
    <3>6. CASE UNCHANGED <<installed, lost>>
        BY <3>3, <3>6, RegistrySilent
    <3>7. CASE installed' = [installed EXCEPT ![v] = staged[p]] /\ lost' = lost \ {v}
      <4>1. kept[v] = staged[p] /\ kept[v] # 0 /\ UNCHANGED kept
          BY <2>1, <3>1, <3>3, <3>4
      <4>2. Registry!Return(v)
          BY <3>7, <4>1 DEF Registry!Return, Registry!Report
      <4> QED
          BY <4>2 DEF Registry!Next
    <3> QED
        BY <3>5, <3>6, <3>7
  <2>12. CASE Discard(p)
    <3>1. v \in lost /\ UNCHANGED <<installed, lost>>
        BY <2>1, <2>2, <2>12 DEF Discard, HolderOK, history
    <3>2. \A m \in Name \ {Aside(v)} : dir'[m] = dir[m]
        BY <2>2, <2>3, <2>12, CrumbleFacts, EraseFacts DEF Discard, FilesType
    <3>3. KeptOf(v)' \in {0, KeptOf(v)}
      <4>1. CASE Present(Final(v)) \/ UNCHANGED dir
          BY <2>1, <2>3, <3>2, <4>1, KeptSame
      <4>2. CASE ~Present(Final(v)) /\ Erase(Aside(v))
        <5>1. dir'[Final(v)] = dir[Final(v)] /\ dir'[Aside(v)].build = 0
            BY <2>3, <3>2, <4>2, EraseFacts DEF FilesType, Absent
        <5> QED
            BY <4>2, <5>1 DEF KeptOf, Present
      <4>3. CASE ~Present(Final(v)) /\ Crumble(Aside(v))
        <5>1. PICK c \in dir[Aside(v)].has, half \in BOOLEAN :
                dir'[Aside(v)] = [build |-> dir[Aside(v)].build,
                                  has |-> dir[Aside(v)].has \ {c}, rubble |-> half]
            BY <2>3, <4>3 DEF Crumble, FilesType
        <5>2. ~Whole(dir[Aside(v)])'
            BY <2>1, <2>3, <5>1 DEF RegistryInv, PartInv, Whole
        <5>3. dir'[Final(v)] = dir[Final(v)]
            BY <2>3, <3>2
        <5> QED
            BY <4>3, <5>2, <5>3 DEF KeptOf, Present
      <4> QED
          BY <2>2, <2>12, <4>1, <4>2, <4>3 DEF Discard
    <3>4. CASE KeptOf(v)' = KeptOf(v)
      <4>1. \A w \in Version : KeptOf(w)' = KeptOf(w)
          BY <2>4, <3>2, <3>4
      <4> QED
          BY <3>1, <4>1, RegistrySilent
    <3>5. CASE KeptOf(v)' = 0
      <4>1. kept' = [kept EXCEPT ![v] = 0]
          BY <2>5, <3>2, <3>5
      <4>2. Registry!Lose(v)
          BY <3>1, <4>1 DEF Registry!Lose
      <4> QED
          BY <4>2 DEF Registry!Next
    <3> QED
        BY <3>3, <3>4, <3>5
  <2> QED
      BY <1>3, <2>6, <2>7, <2>8, <2>9, <2>10, <2>11, <2>12 DEF Install
<1> QED
    BY <1>1, <1>2, <1>3

\* Every step is a step of the registry, or none.
LEMMA StepRefines ==
    ASSUME TypeOK, PackInv, RegistryInv, [Next]_vars
    PROVE  [Registry!Next]_Registry!vars
<1> FilesType /\ InstallType /\ HistoryType
    BY TypeParts
<1>1. CASE UNCHANGED <<dir, shipped, installed, lost>>
    BY <1>1, KeptSame, RegistrySilent
<1>2. CASE UNCHANGED vars
    BY <1>1, <1>2 DEF vars, store, history
<1>3. CASE Next
  <2> SUFFICES ASSUME NEW p \in Proc, InstallBegin(p) \/ ReadBegin(p) \/ Step(p) \/ Kill(p)
               PROVE [Registry!Next]_Registry!vars
      BY <1>3 DEF Next
  <2>1. CASE ReadBegin(p) \/ Read(p)
      BY <1>1, <2>1, ReadersOnlyRead DEF InstallType, store, history
  <2>2. CASE InstallBegin(p) \/ Kill(p)
      BY <1>1, <2>2 DEF InstallBegin, Kill, store, history
  <2>3. CASE Install(p)
      BY <2>3, InstallRefines
  <2> QED
      BY <2>1, <2>2, <2>3 DEF Step
<1> QED
    BY <1>2, <1>3

\* The renames and removals implement the registry, for any number of versions,
\* builds and processes: whatever is killed or fails, each version is replaced in
\* one step by a complete and newer copy or stays, and is lost only by an install
\* whose second rename failed after the first.
THEOREM StoreImplementsRegistry == Spec => ImplementsRegistry
<1>1. Init => Registry!Init /\ RegistryInv
  <2> SUFFICES ASSUME Init PROVE Registry!Init /\ RegistryInv
      OBVIOUS
  <2> USE DEF Init
  <2>1. \A n \in Name : dir[n].build = 0 /\ dir[n].has = {}
      BY DEF Absent
  <2>2. \A v \in Version : KeptOf(v) = 0
      BY <2>1, Names DEF KeptOf
  <2>3. Registry!Init
      BY <2>2 DEF Registry!Init
  <2>4. RegistryInv
      BY <2>1 DEF RegistryInv, NewerInv, PartInv
  <2> QED
      BY <2>3, <2>4
<1>2. TypeOK /\ PackInv /\ RegistryInv /\ [Next]_vars => RegistryInv' /\ [Registry!Next]_Registry!vars
    BY RegistryStep, StepRefines
<1> QED
    BY <1>1, <1>2, TypeCorrect, PackInvHolds, PTL DEF Spec, ImplementsRegistry, Registry!Spec

-----------------------------------------------------------------------------
(* Starts beside installs *)

MovedInv ==
    \A p \in Proc :
        /\ moved[p] => pc[p] \in {"swap", "drop", "discard"}
        /\ pc[p] \in {"drop", "discard"} => moved[p]

\* What is aside was left there by a mishap, or is as new as what was installed,
\* for the install that moved it has not returned.
AsideFresh ==
    \A v \in Version \ mishap : Present(Aside(v)) =>
        /\ dir[Aside(v)].build >= installed[v]
        /\ \E p \in Proc : moved[p] /\ version[p] = v

\* A directory that is not there has no challenge.
GoneInv == \A n \in Name : ~Present(n) => dir[n].has = {}

\* A start looks for a challenge, and began when no more was installed than now.
StartInv ==
    \A p \in Proc :
        /\ pc[p] = "load" => want[p] # {}
        /\ \A v \in Version : floor[p][v] <= installed[v]

FreshInv == MovedInv /\ AsideFresh /\ GoneInv /\ StartInv

\* Every directory is that of a version, or was moved aside for one.
LEMMA NamesOfVersions ==
    \A n \in Name : VersionOf(n) \in Version /\ n \in {Final(VersionOf(n)), Aside(VersionOf(n))}
BY PackStoreAssumption DEF Name, Version, VersionOf, Final, Aside

\* A start that has found what it asked for found nothing outdated.
LEMMA StartIsFresh ==
    ASSUME TypeOK, FoundInv, PackInv, FreshInv, NEW p \in Proc, Loaded(p),
           VersionOf(found[p]) \notin mishap
    PROVE  dir[found[p]].build >= floor[p][VersionOf(found[p])]
<1> DEFINE v == VersionOf(found[p])
<1>1. found[p] \in Name /\ v \in Version /\ found[p] \in {Final(v), Aside(v)}
    BY NamesOfVersions DEF Loaded, FoundInv, TypeOK
<1>2. Present(found[p])
    BY <1>1 DEF Loaded, FreshInv, StartInv, GoneInv
<1>3. dir[found[p]].build >= installed[v]
    BY <1>1, <1>2 DEF PackInv, FinalInv, FreshInv, AsideFresh
<1>4. installed[v] >= floor[p][v]
    BY <1>1 DEF FreshInv, StartInv
<1>5. dir[found[p]].build \in Nat /\ installed[v] \in Nat /\ floor[p][v] \in Nat
    BY <1>1 DEF TypeOK, Tree, Build
<1> QED
    BY <1>3, <1>4, <1>5

\* What an install remembers of having moved stays right.
LEMMA MovedStep ==
    ASSUME InstallType, MovedInv, NEW p \in Proc, Install(p) \/ Kill(p)
    PROVE  MovedInv'
<1> USE DEF MovedInv, Goto, InstallType, InstallLabel, install, store
<1>1. CASE Release(p)
    BY <1>1 DEF Release
<1>2. CASE Install(p) /\ ~Release(p) /\ UNCHANGED moved
    BY <1>2 DEF Install, Lock, Stage, StageFails, Stat, Clear, MoveAside, Swap, SwapFails, Done,
                Drop, Discard
<1>3. CASE MoveAside(p) /\ ~Release(p)
    BY <1>3 DEF MoveAside
<1>4. CASE Kill(p) /\ pc[p] = "lock"
    BY <1>4 DEF Kill
<1>5. Install(p) /\ ~MoveAside(p) => Release(p) \/ UNCHANGED moved
    BY DEF Install, Lock, Stage, StageFails, Stat, Clear, Swap, SwapFails, Done, Drop, Discard
<1> QED
    BY <1>1, <1>2, <1>3, <1>4, <1>5 DEF Kill

\* A directory that is removed loses its challenges with it.
LEMMA GoneStep ==
    ASSUME FilesType, GoneInv, NEW p \in Proc, InstallType, HolderInv, LockHeldInUse, Install(p)
    PROVE  GoneInv'
<1> USE DEF GoneInv, Present
<1>1. CASE Clear(p) \/ Drop(p) \/ Discard(p)
  <2>1. PICK n \in Name : Crumble(n) \/ Erase(n) \/ UNCHANGED dir
      BY <1>1, HasVersion DEF Clear, Drop, Discard, InstallLabel
  <2>2. CASE Crumble(n)
      BY <2>2 DEF Crumble, FilesType, Tree
  <2>3. CASE Erase(n)
      BY <2>3 DEF Erase, Absent, FilesType
  <2> QED
      BY <2>1, <2>2, <2>3
<1>2. CASE MoveAside(p)
    BY <1>2, HasVersion DEF MoveAside, InstallLabel, Absent, FilesType
<1>3. CASE Swap(p)
  <2>1. staged[p] # 0
      BY <1>3 DEF Swap, HolderInv, HolderOK, Holding, InstallLabel
  <2> QED
      BY <1>3, <2>1, HasVersion DEF Swap, InstallLabel, Copy, FilesType
<1> QED
    BY <1>1, <1>2, <1>3 DEF Install, Lock, Stage, StageFails, Stat, SwapFails, store

\* An install that has the lock is the only one that has moved anything.
LEMMA OnlyMover ==
    ASSUME LockHeldInUse, MovedInv, NEW p \in Proc, pc[p] \in Holding, NEW q \in Proc, moved[q]
    PROVE  q = p
<1>1. pc[q] \in Holding
    BY DEF MovedInv, Holding, InstallLabel
<1> QED
    BY <1>1, HolderAlone

\* What is moved aside is as new as what was installed, or a mishap left it.
LEMMA AsideStep ==
    ASSUME FilesType, InstallType, HistoryType, PackInv, MovedInv, AsideFresh,
           NEW p \in Proc, Install(p)
    PROVE  AsideFresh'
<1> USE DEF PackInv
<1>1. CASE Lock(p) \/ Stage(p) \/ StageFails(p) \/ Stat(p)
  <2>1. ~moved[p]
      BY <1>1 DEF Lock, Stage, StageFails, Stat, MovedInv
  <2>2. UNCHANGED <<dir, installed, mishap>>
      BY <1>1 DEF Lock, Stage, StageFails, Stat, store, history
  <2>3. \A q \in Proc : moved[q] => moved'[q] /\ version'[q] = version[q]
      BY <1>1, <2>1 DEF Lock, Stage, StageFails, Stat, Release, install, InstallType
  <2> QED
      BY <2>2, <2>3 DEF AsideFresh, Present
<1>2. CASE ~(Lock(p) \/ Stage(p) \/ StageFails(p) \/ Stat(p))
  <2>1. pc[p] \in Holding
      BY <1>2, InstallMoves DEF Position, InstallType
  <2>2. PICK v \in Version : v = version[p]
      BY <2>1, HasVersion DEF Holding
  <2>3. /\ Final(v) \in Name /\ Aside(v) \in Name
        /\ \A w \in Version \ {v} : {Final(w), Aside(w)} \subseteq Name \ {Final(v), Aside(v)}
      BY Names
  <2>4. ASSUME NEW w \in Version \ mishap, Present(Aside(w))
        PROVE  w = v /\ moved[p] /\ dir[Aside(v)].build >= installed[v]
      BY <2>1, <2>2, <2>4, OnlyMover DEF AsideFresh
  <2>5. CASE MoveAside(p) /\ ~Release(p)
    <3>1. /\ dir' = [dir EXCEPT ![Aside(v)] = dir[Final(v)], ![Final(v)] = Absent]
          /\ moved'[p] /\ version'[p] = v
          /\ UNCHANGED <<installed, mishap>>
        BY <2>2, <2>5 DEF MoveAside, history, InstallType
    <3>2. Present(Final(v)) /\ dir[Final(v)].build >= installed[v]
        BY <2>2, <2>5 DEF MoveAside, HolderInv, HolderOK, FinalInv
    <3>3. dir'[Aside(v)] = dir[Final(v)] /\ \A w \in Version \ {v} : dir'[Aside(w)] = dir[Aside(w)]
        BY <2>3, <3>1, Names DEF FilesType
    <3> QED
        BY <2>4, <3>1, <3>2, <3>3 DEF AsideFresh, Present
  <2>6. CASE UNCHANGED <<installed, mishap>> /\ moved'[p] = moved[p] /\ version'[p] = v
             /\ dir'[Aside(v)].build \in {0, dir[Aside(v)].build}
             /\ \A w \in Version \ {v} : dir'[Aside(w)] = dir[Aside(w)]
      BY <2>4, <2>6 DEF AsideFresh, Present
  <2>7. CASE mishap' \cup {v} = mishap \cup {v}
             /\ (Present(Aside(v))' => v \in mishap')
             /\ \A w \in Version \ {v} : dir'[Aside(w)] = dir[Aside(w)]
      BY <2>4, <2>7 DEF AsideFresh, Present
  <2>8. CASE Clear(p)
    <3>1. Crumble(Aside(v)) \/ Erase(Aside(v)) \/ UNCHANGED dir
        BY <2>2, <2>8 DEF Clear
    <3>2. dir'[Aside(v)].build \in {0, dir[Aside(v)].build}
        BY <2>3, <3>1, CrumbleFacts, EraseFacts DEF FilesType, Absent
    <3>3. \A w \in Version \ {v} : dir'[Aside(w)] = dir[Aside(w)]
        BY <2>3, <3>1, CrumbleFacts, EraseFacts DEF FilesType
    <3> QED
        BY <2>2, <2>6, <2>8, <3>2, <3>3 DEF Clear, install, history
  <2>9. CASE MoveAside(p) /\ Release(p)
    <3>1. ~moved[p] /\ UNCHANGED <<dir, history>>
        BY <2>9 DEF MoveAside, Release, Goto, MovedInv, InstallType
    <3> QED
        BY <2>4, <2>7, <3>1 DEF history, Present
  <2>10. CASE Swap(p)
    <3>1. dir'[Aside(v)] = dir[Aside(v)] /\ \A w \in Version \ {v} : dir'[Aside(w)] = dir[Aside(w)]
        BY <2>2, <2>3, <2>10, Names DEF Swap, FilesType
    <3>2. CASE moved[p]
        BY <2>2, <2>6, <2>10, <3>1, <3>2 DEF Swap, install, history
    <3>3. CASE ~moved[p]
      <4>1. mishap' \cup {v} = mishap \cup {v} /\ (dir[Aside(v)] # Absent => mishap' = mishap)
          BY <2>2, <2>10, <3>1, <3>3 DEF Swap, Done
      <4>2. Present(Aside(v)) => v \in mishap /\ dir[Aside(v)] # Absent
          BY <2>4, <3>3 DEF Present, Absent
      <4> QED
          BY <2>7, <3>1, <4>1, <4>2 DEF Present
    <3> QED
        BY <3>2, <3>3
  <2>11. CASE SwapFails(p)
    <3>1. CASE moved[p]
        BY <2>2, <2>6, <2>11, <3>1 DEF SwapFails, install
    <3>2. CASE ~moved[p]
        BY <2>4, <2>7, <2>11, <3>2 DEF SwapFails, Present
    <3> QED
        BY <3>1, <3>2
  <2>12. CASE Drop(p) \/ Discard(p)
    <3>1. CASE Crumble(Aside(v)) /\ UNCHANGED <<install, installed, mishap>>
      <4>1. dir'[Aside(v)].build = dir[Aside(v)].build /\ \A w \in Version \ {v} : dir'[Aside(w)] = dir[Aside(w)]
          BY <2>3, <3>1, CrumbleFacts DEF FilesType
      <4> QED
          BY <2>2, <2>6, <3>1, <4>1 DEF install
    <3>2. CASE Erase(Aside(v)) /\ mishap' \cup {v} = mishap \cup {v}
        BY <2>3, <2>7, <3>2, EraseFacts DEF FilesType, Present, Absent
    <3>3. CASE UNCHANGED dir /\ mishap' = mishap \cup {v}
        BY <2>7, <3>3
    <3> QED
        BY <2>2, <2>12, <3>1, <3>2, <3>3 DEF Drop, Discard, Done, history
  <2> QED
      BY <1>2, <2>5, <2>8, <2>9, <2>10, <2>11, <2>12 DEF Install
<1> QED
    BY <1>1, <1>2

\* What is installed only becomes newer.
LEMMA InstalledGrows ==
    ASSUME InstallType, HistoryType, PackInv, NEW p \in Proc, Install(p)
    PROVE  \A v \in Version : installed[v] <= installed'[v]
<1>1. CASE UNCHANGED installed
    BY <1>1 DEF HistoryType, Build
<1>2. CASE Swap(p) \/ Drop(p)
  <2>1. staged[p] = builds
      BY <1>2 DEF Swap, Drop, PackInv, HolderInv, HolderOK
  <2>2. installed' \in {installed, [installed EXCEPT ![version[p]] = builds]}
      BY <1>2, <2>1 DEF Swap, Drop, Done, history
  <2> QED
      BY <2>2 DEF PackInv, AgeInv, HistoryType, Build
<1> QED
    BY <1>1, <1>2 DEF Install, Lock, Stage, StageFails, Stat, Clear, MoveAside, SwapFails, Discard,
                      history

\* A reader that moves on still has what it began with.
LEMMA StartStep ==
    ASSUME FilesType, InstallType, HistoryType, ReaderType, StartInv,
           NEW p \in Proc, ReadBegin(p) \/ Read(p)
    PROVE  StartInv'
<1>1. \A v \in Version : installed[v] \in Nat /\ installed'[v] = installed[v]
  <2>1. UNCHANGED installed
      BY ReadersOnlyRead DEF InstallType, history
  <2> QED
      BY <2>1 DEF HistoryType, Build
<1> USE DEF StartInv, ReaderType, InstallType, Goto, reader
<1>2. CASE ReadBegin(p)
    BY <1>1, <1>2 DEF ReadBegin
<1>3. CASE ReadExit(p)
  <2>1. pc'[p] = "idle" /\ \A v \in Version : floor'[p][v] = 0
      BY <1>3 DEF ReadExit
  <2>2. \A q \in Proc \ {p} : pc'[q] = pc[q] /\ want'[q] = want[q] /\ floor'[q] = floor[q]
      BY <1>3 DEF ReadExit
  <2>3. ASSUME NEW q \in Proc
        PROVE  /\ pc'[q] = "load" => want'[q] # {}
               /\ \A v \in Version : floor'[q][v] <= installed'[v]
    <3>1. CASE q = p
      <4>1. \A v \in Version : floor'[p][v] = 0 /\ installed'[v] \in Nat
          BY <1>1, <2>1
      <4>2. \A v \in Version : floor'[p][v] <= installed'[v]
          BY ONLY <4>1, SMT
      <4> QED
          BY <2>1, <3>1, <4>2
    <3>2. CASE q # p
      <4>1. pc'[q] = pc[q] /\ want'[q] = want[q] /\ floor'[q] = floor[q]
          BY <2>2, <3>2
      <4> QED
          BY <1>1, <4>1 DEF StartInv
    <3> QED
        BY <3>1, <3>2
  <2> QED
      BY <2>3 DEF StartInv
<1>4. CASE Inspected(p) /\ ~ReadExit(p)
    BY <1>1, <1>4 DEF Inspected
<1>5. CASE List(p) \/ Inspect(p)
    BY <1>1, <1>5 DEF List, Inspect
<1>6. CASE (Walk(p) \/ Archive(p)) /\ ~ReadExit(p)
    BY <1>1, <1>6 DEF Walk, Archive
<1> QED
    BY <1>2, <1>3, <1>4, <1>5, <1>6 DEF Read, Loaded, LoadFails, Exported

\* Every step keeps what a start relies on.
LEMMA FreshStep ==
    ASSUME TypeOK, CountInv, FoundInv, PackInv, FreshInv, [Next]_vars PROVE FreshInv'
<1> FilesType /\ InstallType /\ HistoryType /\ ReaderType
    BY TypeParts
<1> USE DEF FreshInv
<1>1. CASE UNCHANGED vars
    BY <1>1 DEF vars, store, install, reader, history, MovedInv, AsideFresh, GoneInv, StartInv, Present
<1>2. CASE Next
  <2> SUFFICES ASSUME NEW p \in Proc, InstallBegin(p) \/ ReadBegin(p) \/ Step(p) \/ Kill(p)
               PROVE FreshInv'
      BY <1>2 DEF Next
  <2>1. CASE ReadBegin(p) \/ Read(p)
    <3>1. /\ UNCHANGED <<store, install, history>>
          /\ {pc[p], pc'[p]} \cap {"swap", "drop", "discard"} = {}
          /\ \A q \in Proc \ {p} : pc'[q] = pc[q]
        BY <2>1, ReadersOnlyRead DEF InstallType, ReadLabel
    <3>2. MovedInv'
        BY <3>1 DEF MovedInv, install
    <3>3. AsideFresh' /\ GoneInv'
        BY <3>1 DEF AsideFresh, GoneInv, Present, store, install, history
    <3> QED
        BY <2>1, <3>2, <3>3, StartStep
  <2>2. CASE InstallBegin(p)
    <3>1. MovedInv'
        BY <2>2 DEF InstallBegin, Goto, InstallType, MovedInv
    <3>2. AsideFresh' /\ GoneInv'
      <4>1. ~moved[p]
          BY <2>2 DEF InstallBegin, MovedInv
      <4> QED
          BY <2>2, <4>1 DEF InstallBegin, InstallType, AsideFresh, GoneInv, Present, store, history
    <3>3. StartInv'
        BY <2>2 DEF InstallBegin, Goto, InstallType, StartInv, reader, history
    <3> QED
        BY <3>1, <3>2, <3>3
  <2>3. CASE Install(p)
    <3>1. MovedInv' /\ AsideFresh' /\ GoneInv'
        BY <2>3, MovedStep, AsideStep, GoneStep DEF PackInv
    <3>2. StartInv'
      <4>1. UNCHANGED reader
          BY <2>3 DEF Install, Lock, Stage, StageFails, Stat, Clear, MoveAside, Swap, SwapFails,
                      Drop, Discard
      <4>2. \A q \in Proc : pc'[q] = "load" => pc[q] = "load"
          BY <2>3, InstallMoves DEF Position, Holding, Lock, Goto, InstallType, InstallLabel
      <4>3. \A q \in Proc, v \in Version : floor[q][v] \in Nat /\ installed[v] \in Nat /\ installed'[v] \in Nat
        <5>1. HistoryType'
            BY <2>3, HistoryStep
        <5> QED
            BY <5>1 DEF ReaderType, HistoryType, Build
      <4> QED
          BY <2>3, <4>1, <4>2, <4>3, InstalledGrows DEF StartInv, reader
    <3> QED
        BY <3>1, <3>2
  <2>4. CASE Kill(p)
    <3>1. MovedInv'
        BY <2>4, MovedStep
    <3>2. /\ UNCHANGED <<dir, installed>>
          /\ mishap' = IF moved[p] THEN mishap \cup {version[p]} ELSE mishap
          /\ \A q \in Proc \ {p} : moved'[q] = moved[q] /\ version'[q] = version[q]
        BY <2>4 DEF Kill, Release, InstallType
    <3>3. AsideFresh' /\ GoneInv'
        BY <3>2 DEF AsideFresh, GoneInv, Present
    <3>4. StartInv'
        BY <2>4 DEF Kill, Release, Goto, InstallType, StartInv, reader
    <3> QED
        BY <3>1, <3>3, <3>4
  <2> QED
      BY <2>1, <2>2, <2>3, <2>4 DEF Step
<1> QED
    BY <1>1, <1>2

\* The invariant of starts holds for every behaviour.
LEMMA FreshInvHolds == Spec => []FreshInv
<1>1. Init => FreshInv
  <2> SUFFICES ASSUME Init PROVE FreshInv
      OBVIOUS
  <2> USE DEF Init
  <2>1. MovedInv /\ StartInv
      BY DEF MovedInv, StartInv
  <2>2. AsideFresh /\ GoneInv
      BY Names DEF AsideFresh, GoneInv, Present, Absent
  <2> QED
      BY <2>1, <2>2 DEF FreshInv
<1>2. TypeOK /\ CountInv /\ FoundInv /\ PackInv /\ FreshInv /\ [Next]_vars => FreshInv'
    BY FreshStep
<1> QED
    BY <1>1, <1>2, TypeCorrect, PackInvHolds, PTL DEF Spec

\* A start that plays a version beside installs plays nothing older than what was
\* installed when it began, unless a mishap left that version aside.
THEOREM StartsFresh == Spec => FreshOrNothing
<1>1. TypeOK /\ FoundInv /\ PackInv /\ FreshInv =>
        \A p \in Proc : Loaded(p) =>
          LET v == VersionOf(found[p]) IN
              v \in mishap \/ dir[found[p]].build >= floor[p][v]
    BY StartIsFresh
<1> QED
    BY <1>1, TypeCorrect, PackInvHolds, FreshInvHolds, PTL DEF FreshOrNothing

-----------------------------------------------------------------------------
(* What is served when nothing moves *)

\* What has the name of a version is what was installed last, or its install is
\* about to return; unless a mishap ended that install.
NewInv ==
    \A v \in Version \ mishap : Present(Final(v)) =>
        \/ dir[Final(v)].build = installed[v]
        \/ \E p \in Proc : pc[p] = "drop" /\ version[p] = v

\* Every step of an install keeps that.
LEMMA NewStep ==
    ASSUME FilesType, InstallType, HistoryType, PackInv, MovedInv, NewInv,
           NEW p \in Proc, Install(p) \/ Kill(p)
    PROVE  NewInv'
<1>1. CASE pc[p] = "lock"
  <2>1. UNCHANGED <<dir, installed>> /\ mishap \subseteq mishap'
      BY <1>1 DEF Install, Lock, Stage, StageFails, Stat, Clear, MoveAside, Swap, SwapFails, Drop,
                  Discard, Kill, history
  <2>2. \A q \in Proc : pc[q] = "drop" => pc'[q] = "drop" /\ version'[q] = version[q]
      BY <1>1 DEF Install, Lock, Stage, StageFails, Stat, Clear, MoveAside, Swap, SwapFails, Drop,
                  Discard, Kill, Goto, InstallType, install
  <2> QED
      BY <2>1, <2>2 DEF NewInv, Present
<1>2. CASE pc[p] # "lock"
  <2>1. pc[p] \in Holding
      BY <1>2, InstallMoves DEF Position, InstallType, Kill, Holding, Lock
  <2>2. PICK v \in Version : v = version[p]
      BY <2>1, HasVersion DEF Holding
  <2>3. /\ Final(v) \in Name /\ Aside(v) \in Name
        /\ \A w \in Version : Final(w) \in Name \ {Aside(v)}
        /\ \A w \in Version \ {v} : Final(w) \in Name \ {Final(v)}
      BY Names
  <2>4. ASSUME NEW w \in Version \ mishap, Present(Final(w))
        PROVE  dir[Final(w)].build = installed[w] \/ (pc[p] = "drop" /\ w = v)
      BY <2>1, <2>2, <2>4, HolderAlone DEF NewInv, PackInv, Holding, InstallLabel
  <2>5. CASE /\ \A w \in Version : dir'[Final(w)] = dir[Final(w)]
             /\ installed' = installed /\ mishap \subseteq mishap'
             /\ pc[p] = "drop" => v \in mishap' \/ (pc'[p] = "drop" /\ version'[p] = v)
      BY <2>4, <2>5 DEF NewInv, Present
  <2>6. CASE /\ \A w \in Version \ {v} : dir'[Final(w)] = dir[Final(w)]
             /\ \A w \in Version \ {v} : installed'[w] = installed[w] /\ (w \in mishap => w \in mishap')
             /\ Present(Final(v))' => dir'[Final(v)].build = installed'[v]
                                      \/ (pc'[p] = "drop" /\ version'[p] = v)
      BY <2>4, <2>6 DEF NewInv, Present
  <2>7. CASE Stage(p) \/ StageFails(p) \/ Stat(p) \/ SwapFails(p)
      BY <2>5, <2>7 DEF Stage, StageFails, Stat, SwapFails, store, history
  <2>8. CASE Clear(p) \/ Discard(p)
    <3>1. Crumble(Aside(v)) \/ Erase(Aside(v)) \/ UNCHANGED dir
        BY <2>2, <2>8 DEF Clear, Discard
    <3>2. \A w \in Version : dir'[Final(w)] = dir[Final(w)]
        BY <2>3, <3>1, CrumbleFacts, EraseFacts DEF FilesType
    <3> QED
        BY <2>5, <2>8, <3>2 DEF Clear, Discard, history
  <2>9. CASE MoveAside(p)
    <3>1. CASE UNCHANGED dir
        BY <2>5, <2>9, <3>1 DEF MoveAside, history
    <3>2. CASE dir' = [dir EXCEPT ![Aside(v)] = dir[Final(v)], ![Final(v)] = Absent]
      <4>1. dir'[Final(v)] = Absent /\ \A w \in Version \ {v} : dir'[Final(w)] = dir[Final(w)]
          BY <2>3, <3>2 DEF FilesType
      <4> QED
          BY <2>6, <2>9, <4>1 DEF MoveAside, history, Present, Absent
    <3> QED
        BY <2>2, <2>9, <3>1, <3>2 DEF MoveAside
  <2>10. CASE Swap(p)
    <3>1. dir'[Final(v)].build = staged[p] /\ \A w \in Version \ {v} : dir'[Final(w)] = dir[Final(w)]
        BY <2>2, <2>3, <2>10 DEF Swap, Copy, FilesType
    <3>2. CASE moved[p]
        BY <2>2, <2>6, <2>10, <3>1, <3>2 DEF Swap, Goto, InstallType, install, history
    <3>3. CASE ~moved[p]
        BY <2>2, <2>6, <2>10, <3>1, <3>3 DEF Swap, Done, HistoryType
    <3> QED
        BY <3>2, <3>3
  <2>11. CASE Drop(p)
    <3>1. Crumble(Aside(v)) \/ Erase(Aside(v)) \/ UNCHANGED dir
        BY <2>2, <2>11 DEF Drop
    <3>2. \A w \in Version : dir'[Final(w)] = dir[Final(w)]
        BY <2>3, <3>1, CrumbleFacts, EraseFacts DEF FilesType
    <3>3. dir[Final(v)].build = staged[p]
        BY <2>2, <2>11 DEF Drop, PackInv, HolderInv, HolderOK
    <3>4. CASE UNCHANGED <<pc, install, history>>
        BY <2>2, <2>5, <3>2, <3>4, <2>11 DEF install, history, Drop
    <3>5. CASE /\ installed' = [installed EXCEPT ![v] = staged[p]]
               /\ \A w \in Version \ {v} : w \in mishap => w \in mishap'
        BY <2>6, <3>2, <3>3, <3>5 DEF HistoryType
    <3> QED
        BY <2>2, <2>11, <3>4, <3>5 DEF Drop, Done
  <2>12. CASE Kill(p)
      BY <2>2, <2>5, <2>12 DEF Kill, MovedInv
  <2> QED
      BY <1>2, <2>7, <2>8, <2>9, <2>10, <2>11, <2>12 DEF Install, Lock
<1> QED
    BY <1>1, <1>2

\* Of the names that offer something one is the last.
LEMMA LastName ==
    ASSUME NEW S, S \subseteq Name, S # {}
    PROVE  \E n \in S : \A m \in S : Rank[m] <= Rank[n]
<1> DEFINE Behind(n) == 2 * MaxVersion - Rank[n]
           Smaller == {ij \in Nat \X Nat : ij[1] < ij[2]}
           Places == {Behind(n) : n \in S}
<1>1. IsWellFoundedOn(Smaller, Nat)
    BY NatLessThanWellFounded DEF OpToRel
<1>2. \A n \in S : Rank[n] \in Nat /\ Behind(n) \in Nat
  <2>1. \A n \in S : Rank[n] \in 1 .. 2 * MaxVersion
      BY PackStoreAssumption
  <2> QED
      BY <2>1, PackStoreAssumption
<1>3. Places \subseteq Nat /\ Places # {}
    BY <1>2
<1>4. PICK i \in Places : \A j \in Places : <<j, i>> \notin Smaller
  <2> HIDE DEF Places, Smaller
  <2> QED
      BY <1>1, <1>3, WFMin
<1>5. PICK n \in S : i = Behind(n)
    OBVIOUS
<1>6. ASSUME NEW m \in S PROVE Rank[m] <= Rank[n]
  <2>1. Behind(n) \in Nat /\ Behind(m) \in Nat /\ <<Behind(m), Behind(n)>> \notin Smaller
      BY <1>2, <1>4, <1>5
  <2>2. ~(Behind(m) < Behind(n))
    <3> HIDE DEF Behind
    <3> QED
        BY <2>1
  <2> QED
      BY <1>2, <2>2, PackStoreAssumption
<1> QED
    BY <1>6

\* When nobody installs, the invariants leave one directory that can be the last
\* to offer what was installed.
LEMMA NewestIsServed ==
    TypeOK /\ PackInv /\ FreshInv /\ NewInv => ServesNewest
<1> SUFFICES ASSUME TypeOK, PackInv, FreshInv, NewInv,
                    \A p \in Proc : pc[p] \notin InstallLabel \ {"lock"},
                    NEW v \in Version, NEW c \in Challenge,
                    installed[v] # 0, c \in shipped[installed[v]], v \notin lost,
                    \A w \in mishap : Rank[Aside(w)] < Rank[Final(v)]
             PROVE  \E w \in Version :
                        /\ Serves(c, Final(w))
                        /\ Rank[Final(v)] <= Rank[Final(w)]
                        /\ dir[Final(w)].build >= installed[w]
    BY DEF ServesNewest
<1> DEFINE S == {n \in Name : c \in Offered(n)}
<1>1. \A n \in Name : Rank[n] \in Nat
  <2>1. \A n \in Name : Rank[n] \in 1 .. 2 * MaxVersion
      BY PackStoreAssumption
  <2> QED
      BY <2>1
<1>2. Final(v) \in Name /\ Aside(v) \in Name
    BY Names
<1>3. v \notin mishap
    BY <1>1, <1>2, PackStoreAssumption
<1>4. \A w \in Version \ mishap : ~Present(Aside(w))
    BY DEF FreshInv, AsideFresh, MovedInv, InstallLabel
<1>5. installed[v] \in Nat /\ \A n \in Name : dir[n].build \in Nat
    BY DEF TypeOK, Tree, Build
<1>6. Present(Final(v)) /\ Whole(dir[Final(v)])
  <2>1. Present(Final(v))
    <3>1. SUFFICES ASSUME ~Present(Final(v)) PROVE FALSE
        OBVIOUS
    <3>2. dir[Aside(v)].build >= installed[v]
        BY <3>1 DEF PackInv, AsideInv
    <3> QED
        BY <1>2, <1>3, <1>4, <1>5, <3>2 DEF Present
  <2> QED
      BY <2>1 DEF PackInv, FinalInv
<1>7. dir[Final(v)].build = installed[v]
    BY <1>3, <1>6 DEF NewInv, InstallLabel
<1>8. Final(v) \in S
    BY <1>2, <1>6, <1>7 DEF Offered, Whole
<1>9. PICK n \in S : \A m \in S : Rank[m] <= Rank[n]
    BY <1>8, LastName
<1>10. Rank[Final(v)] <= Rank[n] /\ Present(n)
    BY <1>8, <1>9 DEF FreshInv, GoneInv, Offered
<1>11. PICK w \in Version : n \in {Final(w), Aside(w)}
    BY NamesOfVersions
<1>12. n = Final(w)
  <2> SUFFICES ASSUME n = Aside(w) PROVE FALSE
      BY <1>11
  <2>1. w \in mishap
      BY <1>4, <1>10
  <2> QED
      BY <1>1, <1>2, <1>10, <2>1
<1>13. dir[n].build >= installed[w]
    BY <1>10, <1>12 DEF PackInv, FinalInv
<1>14. Serves(c, n)
    BY <1>9 DEF Serves
<1> QED
    BY <1>10, <1>12, <1>13, <1>14

\* When no install runs, a challenge is played from the version whose name is the
\* last in the order of text among those that have it, as it was installed last,
\* unless an install was killed or failed: whatever that order is.
THEOREM NewestServed == Spec => []ServesNewest
<1>1. Init => NewInv
    BY Names DEF Init, NewInv, Present, Absent
<1>2. TypeOK /\ PackInv /\ FreshInv /\ NewInv /\ [Next]_vars => NewInv'
  <2> SUFFICES ASSUME TypeOK, PackInv, FreshInv, NewInv, [Next]_vars PROVE NewInv'
      OBVIOUS
  <2> FilesType /\ InstallType /\ HistoryType
      BY TypeParts
  <2>1. CASE UNCHANGED vars
      BY <2>1 DEF vars, store, install, history, NewInv, Present
  <2>2. CASE Next
    <3> SUFFICES ASSUME NEW p \in Proc, InstallBegin(p) \/ ReadBegin(p) \/ Step(p) \/ Kill(p)
                 PROVE NewInv'
        BY <2>2 DEF Next
    <3>1. CASE ReadBegin(p) \/ Read(p)
      <4>1. /\ UNCHANGED <<store, install, history>>
            /\ pc[p] # "drop" /\ \A q \in Proc \ {p} : pc'[q] = pc[q]
          BY <3>1, ReadersOnlyRead DEF InstallType, ReadLabel
      <4> QED
          BY <4>1 DEF NewInv, Present, store, install, history
    <3>2. CASE InstallBegin(p)
        BY <3>2 DEF InstallBegin, Goto, InstallType, NewInv, Present, store, history
    <3>3. CASE Install(p) \/ Kill(p)
        BY <3>3, NewStep DEF FreshInv
    <3> QED
        BY <3>1, <3>2, <3>3 DEF Step
  <2> QED
      BY <2>1, <2>2
<1> QED
    BY <1>1, <1>2, NewestIsServed, TypeCorrect, PackInvHolds, FreshInvHolds, PTL DEF Spec

-----------------------------------------------------------------------------
(* Exports beside installs *)

Archived(p) == {c \in Challenge : archive[p][c] # {}}

\* What is archived and what is still to come are the challenges of one build, and
\* neither what is archived nor the directory is from before it.
ArchiveOK(p) ==
    LET v == VersionOf(found[p]) IN
        found[p] = Final(v) =>
            \E b \in floor[p][v] .. builds :
                /\ shipped[b] = left[p] \cup Archived(p)
                /\ \A c \in Challenge : \A d \in archive[p][c] : d >= b
                /\ Present(found[p]) => dir[found[p]].build >= b

ExportInv ==
    \A p \in Proc : IF pc[p] = "archive" THEN ArchiveOK(p) ELSE Archived(p) = {}

\* A directory with the name of a version was copied from a build no older than
\* what was installed when the export began.
LEMMA FoundIsFresh ==
    ASSUME TypeOK, FoundInv, PackInv, FreshInv, NEW p \in Proc, pc[p] \in {"walk", "archive"},
           Present(found[p]), found[p] = Final(VersionOf(found[p]))
    PROVE  /\ found[p] \in Name /\ VersionOf(found[p]) \in Version
           /\ dir[found[p]].build \in floor[p][VersionOf(found[p])] .. builds
           /\ Whole(dir[found[p]])
<1> DEFINE v == VersionOf(found[p])
<1>1. found[p] \in Name /\ v \in Version
    BY NamesOfVersions DEF FoundInv, TypeOK
<1>2. dir[found[p]].build >= installed[v] /\ Whole(dir[found[p]])
    BY <1>1 DEF PackInv, FinalInv
<1>3. installed[v] >= floor[p][v] /\ dir[found[p]].build <= builds
    BY <1>1 DEF FreshInv, StartInv, PackInv, AgeInv
<1>4. /\ dir[found[p]].build \in Nat /\ installed[v] \in Nat
      /\ floor[p][v] \in Nat /\ builds \in Nat
    BY <1>1 DEF TypeOK, Tree, Build
<1> QED
    BY <1>1, <1>2, <1>3, <1>4

\* A walk takes the challenges of one build ...
LEMMA WalkStep ==
    ASSUME TypeOK, FoundInv, PackInv, FreshInv, ExportInv, NEW p \in Proc, Walk(p), ~ReadExit(p)
    PROVE  ArchiveOK(p)'
<1> DEFINE t == dir[found[p]]
<1>1. /\ pc[p] = "walk" /\ Offered(found[p]) # {}
      /\ UNCHANGED <<dir, shipped, builds, found, archive, floor>>
    BY DEF Walk, store
<1>2. PICK cs \in SUBSET (shipped[t.build] \ t.has) : left' = [left EXCEPT ![p] = t.has \cup cs]
    BY DEF Walk
<1>3. Archived(p) = {} /\ Archived(p)' = {}
    BY <1>1 DEF ExportInv, Archived
<1>4. left'[p] = t.has \cup cs
    BY <1>2 DEF TypeOK
<1>5. found[p] \in Name
    BY <1>1 DEF FoundInv, TypeOK
<1>6. Present(found[p])
    BY <1>1, <1>5 DEF Offered, FreshInv, GoneInv
<1> SUFFICES ASSUME found[p] = Final(VersionOf(found[p]))
             PROVE  \E b \in floor[p][VersionOf(found[p])] .. builds :
                        shipped[b] = left'[p] /\ t.build >= b
    BY <1>1, <1>3 DEF ArchiveOK, Archived, Present
<1>7. t.build \in floor[p][VersionOf(found[p])] .. builds /\ t.has = shipped[t.build]
    BY <1>1, <1>6, FoundIsFresh DEF Whole
<1>8. cs = {} /\ t.build \in Nat
    BY <1>5, <1>7 DEF TypeOK, Tree, Build
<1> QED
    BY <1>4, <1>7, <1>8

\* ... and what is archived of each is taken from a build that is not older.
LEMMA ArchiveStep ==
    ASSUME TypeOK, FoundInv, PackInv, FreshInv, ExportInv, NEW p \in Proc, Archive(p), ~ReadExit(p)
    PROVE  ArchiveOK(p)'
<1> DEFINE t == dir[found[p]]
<1>1. PICK c \in left[p] :
        /\ Present(found[p])
        /\ archive' = [archive EXCEPT ![p][c] = @ \cup {t.build}]
        /\ left' = left \/ (archive[p][c] # {} /\ left' = [left EXCEPT ![p] = @ \ {c}])
    BY DEF Archive, Entered
<1>2. pc[p] = "archive" /\ UNCHANGED <<dir, shipped, builds, found, floor>>
    BY DEF Archive, ReadExit, store
<1> DEFINE v == VersionOf(found[p])
<1> SUFFICES ASSUME found[p] = Final(v) PROVE ArchiveOK(p)'
    BY <1>2 DEF ArchiveOK
<1>3. PICK b \in floor[p][v] .. builds :
        /\ shipped[b] = left[p] \cup Archived(p)
        /\ \A e \in Challenge : \A d \in archive[p][e] : d >= b
        /\ Present(found[p]) => t.build >= b
    BY <1>2 DEF ExportInv, ArchiveOK
<1>4. c \in Challenge /\ archive[p] \in [Challenge -> SUBSET Build]
    BY <1>1 DEF TypeOK
<1>5. /\ archive'[p][c] = archive[p][c] \cup {t.build}
      /\ \A e \in Challenge \ {c} : archive'[p][e] = archive[p][e]
    BY <1>1, <1>4 DEF TypeOK
<1>6. Archived(p)' = Archived(p) \cup {c}
    BY <1>4, <1>5 DEF Archived
<1>7. left'[p] \cup Archived(p)' = left[p] \cup Archived(p)
  <2>1. left'[p] = left[p] \/ left'[p] = left[p] \ {c}
      BY <1>1 DEF TypeOK
  <2> QED
      BY <1>1, <1>6, <2>1
<1>8. \A e \in Challenge : \A d \in archive'[p][e] : d >= b
    BY <1>1, <1>3, <1>5
<1> QED
    BY <1>1, <1>2, <1>3, <1>7, <1>8 DEF ArchiveOK, Present

\* What has the name of a version only becomes the youngest build, or nothing.
LEMMA FinalGrows ==
    ASSUME FilesType, InstallType, PackInv, NEW p \in Proc, Install(p), NEW v \in Version
    PROVE  dir'[Final(v)].build \in {dir[Final(v)].build, 0, builds}
<1>1. CASE Clear(p) \/ Drop(p) \/ Discard(p)
  <2>1. /\ Aside(version[p]) \in Name /\ Final(v) \in Name \ {Aside(version[p])}
      BY <1>1, Names, HasVersion DEF Clear, Drop, Discard, InstallLabel
  <2>2. Crumble(Aside(version[p])) \/ Erase(Aside(version[p])) \/ UNCHANGED dir
      BY <1>1 DEF Clear, Drop, Discard
  <2> QED
      BY <2>1, <2>2, CrumbleFacts, EraseFacts DEF FilesType
<1>2. CASE MoveAside(p)
  <2>1. /\ Aside(version[p]) \in Name /\ Final(version[p]) \in Name
        /\ Final(v) \in Name \ {Aside(version[p])}
      BY <1>2, Names, HasVersion DEF MoveAside, InstallLabel
  <2> QED
      BY <1>2, <2>1 DEF MoveAside, FilesType, Absent
<1>3. CASE Swap(p)
  <2>1. staged[p] = builds /\ Final(v) \in Name
      BY <1>3, Names DEF Swap, PackInv, HolderInv, HolderOK
  <2> QED
      BY <1>3, <2>1 DEF Swap, Copy, FilesType
<1>4. CASE UNCHANGED dir
    BY <1>4
<1> QED
    BY <1>1, <1>2, <1>3, <1>4 DEF Install, Lock, Stage, StageFails, Stat, SwapFails, store

\* Every step keeps what an export has archived in order.
LEMMA ExportStep ==
    ASSUME TypeOK, FoundInv, PackInv, FreshInv, ExportInv, [Next]_vars PROVE ExportInv'
<1> FilesType /\ InstallType /\ HistoryType /\ ReaderType
    BY TypeParts
<1>1. ASSUME UNCHANGED reader, \A q \in Proc : pc'[q] = "archive" <=> pc[q] = "archive",
             UNCHANGED <<shipped, builds>> \/ (builds' = builds + 1 /\ \A b \in 0 .. builds : shipped'[b] = shipped[b]),
             \A v \in Version : dir'[Final(v)].build \in {dir[Final(v)].build, 0, builds}
      PROVE  ExportInv'
  <2> SUFFICES ASSUME NEW q \in Proc, pc[q] = "archive", ArchiveOK(q) PROVE ArchiveOK(q)'
      BY <1>1 DEF ExportInv, Archived, reader
  <2> DEFINE v == VersionOf(found[q])
  <2>1. SUFFICES ASSUME found[q] = Final(v)
                 PROVE  \E b \in floor[q][v] .. builds' :
                          /\ shipped'[b] = left[q] \cup Archived(q)
                          /\ \A c \in Challenge : \A d \in archive[q][c] : d >= b
                          /\ Present(Final(v))' => dir'[Final(v)].build >= b
      BY <1>1 DEF ArchiveOK, Archived, reader
  <2>2. PICK b \in floor[q][v] .. builds :
          /\ shipped[b] = left[q] \cup Archived(q)
          /\ \A c \in Challenge : \A d \in archive[q][c] : d >= b
          /\ Present(Final(v)) => dir[Final(v)].build >= b
      BY <2>1 DEF ArchiveOK
  <2>3. v \in Version
      BY NamesOfVersions DEF FoundInv, TypeOK
  <2>4. floor[q][v] \in Nat /\ builds \in Nat
      BY <2>3 DEF TypeOK, Build
  <2>5. b \in floor[q][v] .. builds' /\ shipped'[b] = shipped[b]
      BY <1>1, <2>2, <2>4
  <2>6. Present(Final(v))' => dir'[Final(v)].build >= b
    <3>1. dir'[Final(v)].build \in {dir[Final(v)].build, 0, builds}
        BY <1>1, <2>3
    <3>2. b \in Int /\ b <= builds
        BY <2>2, <2>4
    <3>3. found' = found
        BY <1>1 DEF reader
    <3>4. CASE dir'[Final(v)].build = dir[Final(v)].build
        BY <2>2, <3>3, <3>4 DEF Present
    <3> QED
        BY <2>4, <3>1, <3>2, <3>3, <3>4 DEF Present
  <2> QED
      BY <2>2, <2>5, <2>6
<1>2. CASE UNCHANGED vars
    BY <1>1, <1>2 DEF vars, store
<1>3. CASE Next
  <2> SUFFICES ASSUME NEW p \in Proc, InstallBegin(p) \/ ReadBegin(p) \/ Step(p) \/ Kill(p)
               PROVE ExportInv'
      BY <1>3 DEF Next
  <2>1. CASE ReadBegin(p) \/ Read(p)
    <3>1. UNCHANGED <<dir, shipped, builds>> /\ \A q \in Proc \ {p} : pc'[q] = pc[q]
        BY <2>1, ReadersOnlyRead DEF InstallType, store
    <3>2. \A q \in Proc \ {p} : /\ found'[q] = found[q] /\ left'[q] = left[q]
                                /\ archive'[q] = archive[q] /\ floor'[q] = floor[q]
        BY <2>1 DEF ReadBegin, Read, List, Inspect, Inspected, Loaded, LoadFails, Walk, Archive,
                    Exported, ReadExit, reader, ReaderType
    <3>3. ASSUME NEW q \in Proc \ {p}
          PROVE  IF pc'[q] = "archive" THEN ArchiveOK(q)' ELSE Archived(q)' = {}
        BY <3>1, <3>2 DEF ExportInv, ArchiveOK, Archived, Present
    <3>4. IF pc'[p] = "archive" THEN ArchiveOK(p)' ELSE Archived(p)' = {}
      <4>1. CASE ReadExit(p)
          BY <4>1 DEF ReadExit, Goto, InstallType, Archived, ReaderType
      <4>2. CASE ReadBegin(p) \/ List(p) \/ Inspect(p) \/ (Inspected(p) /\ ~ReadExit(p))
        <5>1. pc[p] # "archive" /\ pc'[p] # "archive" /\ archive' = archive
            BY <4>2 DEF ReadBegin, List, Inspect, Inspected, Goto, InstallType, reader
        <5> QED
            BY <5>1 DEF ExportInv, Archived
      <4>3. CASE Walk(p) /\ ~ReadExit(p)
        <5>1. pc'[p] = "archive"
            BY <4>3 DEF Walk, Goto, InstallType
        <5> QED
            BY <4>3, <5>1, WalkStep
      <4>4. CASE Archive(p) /\ ~ReadExit(p)
        <5>1. pc'[p] = "archive"
            BY <4>4 DEF Archive
        <5> QED
            BY <4>4, <5>1, ArchiveStep
      <4> QED
          BY <2>1, <4>1, <4>2, <4>3, <4>4 DEF Read, Loaded, LoadFails, Exported
    <3> QED
        BY <3>3, <3>4 DEF ExportInv
  <2>2. CASE InstallBegin(p)
      BY <1>1, <2>2 DEF InstallBegin, Goto, InstallType, store
  <2>3. CASE Lock(p)
      BY <1>1, <2>3 DEF Lock, Goto, InstallType, FilesType, Build
  <2>4. CASE Install(p) /\ ~Lock(p)
    <3>1. UNCHANGED reader /\ UNCHANGED <<shipped, builds>>
        BY <2>4 DEF Install, Stage, StageFails, Stat, Clear, MoveAside, Swap, SwapFails, Drop,
                    Discard, store
    <3>2. \A q \in Proc : pc'[q] = "archive" <=> pc[q] = "archive"
        BY <2>4, InstallMoves DEF Position, Holding, InstallType, InstallLabel
    <3> QED
        BY <1>1, <2>4, <3>1, <3>2, FinalGrows
  <2>5. CASE Kill(p)
      BY <1>1, <2>5 DEF Kill, Release, Goto, InstallType, InstallLabel
  <2> QED
      BY <2>1, <2>2, <2>3, <2>4, <2>5 DEF Step, Install
<1> QED
    BY <1>2, <1>3

\* An export that succeeds beside installs has every challenge of one build no
\* older than what was installed when it began, and no file from before that one.
THEOREM ExportIsComplete == Spec => ExportComplete
<1>1. Init => ExportInv
    BY DEF Init, ExportInv, Archived
<1>2. TypeOK /\ FoundInv /\ PackInv /\ FreshInv /\ ExportInv /\ [Next]_vars => ExportInv'
    BY ExportStep
<1>3. ExportInv =>
        \A p \in Proc : Exported(p) =>
          LET v == VersionOf(found[p]) IN
              found[p] = Final(v) =>
                  \E b \in floor[p][v] .. builds :
                      /\ shipped[b] = {c \in Challenge : archive[p][c] # {}}
                      /\ \A c \in Challenge : \A d \in archive[p][c] : d >= b
    BY DEF ExportInv, Exported, ArchiveOK, Archived
<1> QED
    BY <1>1, <1>2, <1>3, TypeCorrect, PackInvHolds, FreshInvHolds, PTL DEF Spec, ExportComplete

-----------------------------------------------------------------------------
(* The cache of images *)

\* Nobody is called NoProc.
Named == NoPuller \notin Puller

\* The labels under the lock, and those among them where something was fetched.
Locked == {"recheck", "pull", "temp", "save", "rename"}
Fetched == {"temp", "save", "rename"}

\* The variables that the argument is about keep their types, and a pull past
\* the first look-up works on a reference.
CacheType ==
    /\ file \in [Ref -> FileState]
    /\ temp \in [Puller -> FileState]
    /\ call \in [Puller -> {"idle", "next", "lock"} \cup Locked]
    /\ refs \in [Puller -> SUBSET Ref]
    /\ ref \in [Puller -> Ref \cup {NoRef}]
    /\ pulls \in [Ref -> Nat]
    /\ failed \in [Ref -> Nat]
    /\ \A p \in Puller : call[p] \in Locked \cup {"lock"} => ref[p] \in Ref

\* What is renamed is complete, and what is fetched is not cached.
FetchInv ==
    \A p \in Puller :
        /\ call[p] = "rename" => temp[p] = "whole"
        /\ call[p] \in Fetched \cup {"pull"} => ~Has(ref[p])

Fetching(r) == \E p \in Puller : call[p] \in Fetched /\ ref[p] = r

\* An image that is neither cached nor being fetched is only on record with
\* fetches that failed.
SpentInv == \A r \in Ref : Has(r) \/ Fetching(r) \/ pulls[r] <= failed[r]

CacheInv ==
    CacheType /\ CacheLockInUse /\ ArchivesWhole /\ FetchInv /\ SpentInv /\ PulledOnce

\* At most one process is under the lock.
LEMMA OneLocked ==
    ASSUME CacheLockInUse,
           NEW p \in Puller, NEW q \in Puller, call[p] \in Locked, call[q] \in Locked
    PROVE  p = q
BY DEF CacheLockInUse, Locked

\* Each step keeps the types.
LEMMA CacheTypeStep ==
    ASSUME CacheType, NEW p \in Puller, PullBegin(p) \/ PullStep(p) \/ PullKill(p)
    PROVE  CacheType'
<1> USE DEF CacheType, Locked, FileState, PullGoto, PullFail, Pulled, Wasted, pullHistory
<1>1. CASE PullBegin(p) \/ PullEnd(p) \/ PullLock(p)
    BY <1>1 DEF PullBegin, PullEnd, PullLock
<1>2. CASE Check(p)
    BY <1>2 DEF Check
<1>3. CASE Recheck(p)
    BY <1>3 DEF Recheck
<1>4. CASE DockerPull(p)
    BY <1>4 DEF DockerPull
<1>5. CASE CreateTemp(p)
    BY <1>5 DEF CreateTemp
<1>6. CASE Save(p)
    BY <1>6 DEF Save
<1>7. CASE Rename(p)
    BY <1>7 DEF Rename
<1>8. CASE PullKill(p)
    BY <1>8 DEF PullKill
<1> QED
    BY <1>1, <1>2, <1>3, <1>4, <1>5, <1>6, <1>7, <1>8 DEF PullStep

\* The lock is taken and released with the labels.
LEMMA CacheLockStep ==
    ASSUME Named, CacheType, CacheLockInUse, NEW p \in Puller, PullBegin(p) \/ PullStep(p) \/ PullKill(p)
    PROVE  CacheLockInUse'
<1> USE DEF Named, CacheType, CacheLockInUse, Locked, PullGoto, PullFail, Pulled
<1>1. CASE PullBegin(p) \/ PullEnd(p) \/ PullLock(p)
    BY <1>1 DEF PullBegin, PullEnd, PullLock
<1>2. CASE Check(p)
    BY <1>2 DEF Check
<1>3. CASE Recheck(p)
    BY <1>3 DEF Recheck
<1>4. CASE DockerPull(p) \/ CreateTemp(p) \/ Save(p)
    BY <1>4 DEF DockerPull, CreateTemp, Save
<1>5. CASE Rename(p)
    BY <1>5 DEF Rename
<1>6. CASE PullKill(p)
    BY <1>6 DEF PullKill
<1> QED
    BY <1>1, <1>2, <1>3, <1>4, <1>5, <1>6 DEF PullStep

\* A step of one process leaves the others where they are.
LEMMA OthersStay ==
    ASSUME CacheType, NEW p \in Puller, PullBegin(p) \/ PullStep(p) \/ PullKill(p),
           NEW q \in Puller \ {p}
    PROVE  call'[q] = call[q] /\ ref'[q] = ref[q] /\ temp'[q] = temp[q]
<1> USE DEF CacheType, PullGoto, PullFail, Pulled
<1>1. CASE PullBegin(p) \/ Check(p) \/ PullEnd(p) \/ PullLock(p) \/ Recheck(p)
    BY <1>1 DEF PullBegin, Check, PullEnd, PullLock, Recheck
<1>2. CASE DockerPull(p) \/ CreateTemp(p) \/ Save(p) \/ Rename(p) \/ PullKill(p)
    BY <1>2 DEF DockerPull, CreateTemp, Save, Rename, PullKill
<1> QED
    BY <1>1, <1>2 DEF PullStep

\* What is in the cache changes by a rename only, which makes one archive whole.
LEMMA FileStep ==
    ASSUME CacheType, CacheLockInUse, FetchInv, NEW p \in Puller, PullBegin(p) \/ PullStep(p) \/ PullKill(p)
    PROVE  \/ UNCHANGED file
           \/ Rename(p) /\ file' = [file EXCEPT ![ref[p]] = "whole"]
<1>1. CASE Rename(p)
    BY <1>1 DEF Rename, FetchInv
<1>2. CASE ~Rename(p)
    BY <1>2 DEF PullStep, PullBegin, Check, PullEnd, PullLock, Recheck, DockerPull, CreateTemp, Save, PullKill
<1> QED
    BY <1>1, <1>2

\* What is renamed stays complete and what is fetched stays uncached, for only
\* the holder of the lock renames.
LEMMA FetchStep ==
    ASSUME CacheInv, NEW p \in Puller, PullBegin(p) \/ PullStep(p) \/ PullKill(p)
    PROVE  FetchInv'
<1> USE DEF CacheInv
<1>1. ASSUME NEW q \in Puller, call'[q] \in Fetched \cup {"pull"} PROVE ~Has(ref[q])'
  <2>1. CASE q = p
    <3>1. call[p] \in {"recheck", "pull", "temp", "save"} /\ ref'[p] = ref[p] /\ UNCHANGED file
        BY <1>1, <2>1 DEF CacheType, PullStep, PullBegin, Check, PullEnd, PullLock, Recheck, DockerPull,
           CreateTemp, Save, Rename, PullKill, PullGoto, PullFail, Pulled, Fetched, pullHistory
    <3>2. CASE call[p] = "recheck"
      <4>1. Recheck(p)
          BY <1>1, <2>1, <3>2 DEF CacheType, PullStep, PullBegin, Check, PullEnd, PullLock, DockerPull, CreateTemp,
             Save, Rename, PullKill, PullGoto, PullFail, Fetched
      <4> QED
          BY <1>1, <2>1, <3>1, <4>1 DEF Recheck, CacheType, Pulled, PullGoto, Fetched, Has
    <3>3. CASE call[p] # "recheck"
        BY <2>1, <3>1, <3>3 DEF FetchInv, Fetched, Has
    <3> QED
        BY <3>2, <3>3
  <2>2. CASE q # p
    <3>1. call[q] \in Fetched \cup {"pull"} /\ ref'[q] = ref[q]
        BY <1>1, <2>2, OthersStay
    <3>2. ~Rename(p)
        BY <2>2, <3>1, OneLocked DEF Rename, Fetched, Locked
    <3> QED
        BY <3>1, <3>2, FileStep DEF Has, FetchInv
  <2> QED
      BY <2>1, <2>2
<1>2. ASSUME NEW q \in Puller, call'[q] = "rename" PROVE temp'[q] = "whole"
  <2>1. CASE q = p
      BY <1>2, <2>1 DEF CacheType, FetchInv, PullStep, PullBegin, Check, PullEnd, PullLock, Recheck, DockerPull,
         CreateTemp, Save, Rename, PullKill, PullGoto, PullFail, Pulled
  <2>2. CASE q # p
      BY <1>2, <2>2, OthersStay DEF FetchInv
  <2> QED
      BY <2>1, <2>2
<1> QED
    BY <1>1, <1>2 DEF FetchInv

\* A fetch begins where the image is not cached and nobody fetches it; it ends
\* in the cache or as a failure.
LEMMA SpentStep ==
    ASSUME CacheInv, NEW p \in Puller, PullBegin(p) \/ PullStep(p) \/ PullKill(p)
    PROVE  SpentInv' /\ PulledOnce'
<1> USE DEF CacheInv
<1> SUFFICES ASSUME NEW r \in Ref
             PROVE  /\ Has(r)' \/ Fetching(r)' \/ pulls'[r] <= failed'[r]
                    /\ pulls'[r] <= 1 + failed'[r]
    BY DEF SpentInv, PulledOnce
<1>1. pulls[r] \in Nat /\ failed[r] \in Nat
    BY DEF CacheType
<1>2. Has(r) => Has(r)'
    BY FileStep DEF Has, CacheType, FileState
<1>3. \A q \in Puller \ {p} : call[q] \in Fetched /\ ref[q] = r => Fetching(r)'
    BY OthersStay DEF Fetching
<1>4. CASE DockerPull(p)
  <2>1. \/ pulls'[r] = pulls[r] /\ failed'[r] = failed[r] /\ r # ref[p]
        \/ /\ r = ref[p] /\ pulls'[r] = pulls[r] + 1
           /\ \/ failed'[r] = failed[r] + 1
              \/ failed'[r] = failed[r] /\ call'[p] = "temp" /\ ref'[p] = r
      BY <1>4 DEF DockerPull, CacheType, Wasted, PullGoto, Locked
  <2>2. r = ref[p] => pulls[r] <= failed[r]
    <3>1. call[p] = "pull" /\ ~Has(ref[p])
        BY <1>4 DEF DockerPull, FetchInv
    <3>2. ~\E q \in Puller : call[q] \in Fetched
        BY <3>1, OneLocked DEF Locked, Fetched
    <3> QED
        BY <3>1, <3>2 DEF SpentInv, Fetching
  <2>3. r # ref[p] /\ Fetching(r) => Fetching(r)'
      BY <1>3, <1>4 DEF Fetching
  <2>4. call'[p] = "temp" /\ ref'[p] = r => Fetching(r)'
      BY DEF Fetching, Fetched
  <2> QED
      BY <1>1, <1>2, <2>1, <2>2, <2>3, <2>4 DEF SpentInv, PulledOnce
<1>5. CASE ~DockerPull(p)
  <2>1. UNCHANGED pulls
      BY <1>5 DEF PullStep, PullBegin, Check, PullEnd, PullLock, Recheck, CreateTemp, Save, Rename, PullKill, pullHistory
  <2>2. \/ failed'[r] = failed[r]
        \/ failed'[r] = failed[r] + 1
      BY <1>5 DEF CacheType, PullStep, PullBegin, Check, PullEnd, PullLock, Recheck, CreateTemp, Save, Rename, PullKill,
         Wasted, pullHistory
  <2>3. call[p] \in Fetched /\ ref[p] = r =>
            Has(r)' \/ Fetching(r)' \/ failed'[r] = failed[r] + 1
    <3> SUFFICES ASSUME call[p] \in Fetched, ref[p] = r
                 PROVE  Has(r)' \/ Fetching(r)' \/ failed'[r] = failed[r] + 1
        OBVIOUS
    <3>1. CASE CreateTemp(p)
      <4>1. (call'[p] \in Fetched /\ ref'[p] = r) \/ failed'[r] = failed[r] + 1
          BY <3>1 DEF CreateTemp, CacheType, PullGoto, Fetched, Wasted
      <4> QED
          BY <4>1 DEF Fetching
    <3>2. CASE Save(p)
      <4>1. (call'[p] \in Fetched /\ ref'[p] = r) \/ failed'[r] = failed[r] + 1
          BY <3>2 DEF Save, CacheType, PullGoto, Fetched, Wasted
      <4> QED
          BY <4>1 DEF Fetching
    <3>3. CASE Rename(p)
      <4>1. Has(r)' \/ failed'[r] = failed[r] + 1
          BY <3>3 DEF Rename, CacheType, Has, FetchInv, Wasted
      <4> QED
          BY <4>1
    <3>4. CASE PullKill(p)
        BY <3>4 DEF PullKill, CacheType, Wasted, Fetched
    <3> QED
        BY <1>5, <3>1, <3>2, <3>3, <3>4
           DEF PullStep, PullBegin, Check, PullEnd, PullLock, Recheck, Fetched
  <2>4. Fetching(r) => Has(r)' \/ Fetching(r)' \/ failed'[r] = failed[r] + 1
      BY <1>3, <2>3 DEF Fetching
  <2> QED
      BY <1>1, <1>2, <2>1, <2>2, <2>4 DEF SpentInv, PulledOnce
<1> QED
    BY <1>4, <1>5

\* The invariant holds for every behaviour.
LEMMA CacheInvHolds == Named => (CacheSpec => []CacheInv)
<1> SUFFICES ASSUME Named PROVE CacheSpec => []CacheInv
    OBVIOUS
<1>1. CacheInit => CacheInv
    BY DEF Named, CacheInit, CacheInv, CacheType, CacheLockInUse, ArchivesWhole, FetchInv, SpentInv,
       PulledOnce, FileState, Locked, Fetched, Has
<1>2. CacheInv /\ [CacheNext]_cacheVars => CacheInv'
  <2> SUFFICES ASSUME CacheInv, [CacheNext]_cacheVars PROVE CacheInv'
      OBVIOUS
  <2>1. CASE UNCHANGED cacheVars
      BY <2>1 DEF cacheVars, pullHistory, CacheInv, CacheType, CacheLockInUse, ArchivesWhole, FetchInv,
         SpentInv, PulledOnce, Has, Fetching
  <2>2. CASE CacheNext
    <3> SUFFICES ASSUME NEW p \in Puller, PullBegin(p) \/ PullStep(p) \/ PullKill(p) PROVE CacheInv'
        BY <2>2 DEF CacheNext
    <3>1. CacheType' /\ CacheLockInUse'
        BY CacheTypeStep, CacheLockStep DEF CacheInv
    <3>2. ArchivesWhole'
        BY FileStep DEF CacheInv, CacheType, ArchivesWhole
    <3> QED
        BY <3>1, <3>2, FetchStep, SpentStep DEF CacheInv
  <2> QED
      BY <2>1, <2>2
<1> QED
    BY <1>1, <1>2, PTL DEF CacheSpec

-----------------------------------------------------------------------------

\* An archive that the cache reports is complete, however many processes pull
\* and wherever they are killed.
THEOREM CachedIsWhole == Named => (CacheSpec => []ArchivesWhole)
<1>1. CacheInv => ArchivesWhole
    BY DEF CacheInv
<1> QED
    BY <1>1, CacheInvHolds, PTL

\* An image is fetched once, and once more for each fetch that came to nothing,
\* for any number of processes that want it.
THEOREM FetchedOnce == Named => (CacheSpec => []PulledOnce)
<1>1. CacheInv => PulledOnce
    BY DEF CacheInv
<1> QED
    BY <1>1, CacheInvHolds, PTL

\* The lock of the cache is free or held by a pull that is under way.
THEOREM CacheLockFreed == Named => (CacheSpec => []CacheLockInUse)
<1>1. CacheInv => CacheLockInUse
    BY DEF CacheInv
<1> QED
    BY <1>1, CacheInvHolds, PTL

-----------------------------------------------------------------------------
(* Both stores *)

\* The stores do not touch each other: what they do together is what each does.
LEMMA StoresApart == StoresSpec => Spec /\ CacheSpec
<1>1. StoresInit => Init /\ CacheInit
    BY DEF StoresInit
<1>2. [StoresNext]_stores => [Next]_vars /\ [CacheNext]_cacheVars
    BY DEF StoresNext, stores
<1> QED
    BY <1>1, <1>2, PTL DEF StoresSpec, Spec, CacheSpec

\* No install and no pull waits for the lock of a process that is not under way.
THEOREM LocksFreed == Named => (StoresSpec => []LocksInUse)
<1>1. LockHeldInUse /\ CacheLockInUse => LocksInUse
    BY DEF LocksInUse
<1> QED
    BY <1>1, StoresApart, LockFreed, CacheLockFreed, PTL
=============================================================================
