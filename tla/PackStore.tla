------------------------------ MODULE PackStore ------------------------------
(***************************************************************************)
(* The store of installed challenge packs, ~/.kubedrill/store/<pack>/.     *)
(*                                                                         *)
(* Install replaces a version by two renames under a lock that only other  *)
(* installs of the pack take: start and export read the directories while  *)
(* they move.  An action is one call on the file system; the removal of a  *)
(* directory takes as many as it has entries.  The versions of one pack    *)
(* are modelled (packs have locks and directories of their own).           *)
(*                                                                         *)
(* The version v lives in the directory "v" and, while it is replaced, in  *)
(* "v.old", which is listed as a version like any other.  Directories are  *)
(* compared as text: "0.10.0" comes before "0.9.0", and "1.0.old" behind   *)
(* "1.0.1".  The versions are numbered here to tell them apart; all that   *)
(* the code knows of their order is Rank, the place of a directory's name. *)
(***************************************************************************)
EXTENDS Naturals, FiniteSets

CONSTANTS
    Challenge,   \* names of challenges in the pack
    MaxVersion,  \* there are MaxVersion versions
    Rank,        \* the place of each directory's name in the order of text
    MaxBuild,    \* bound: how often something is installed
    MaxReaders,  \* bound: starts and exports at a time (they change nothing)
    Proc,        \* kubedrill processes
    Faults,      \* what can go wrong: "kill", "copy", "rename", "remove"
    NoProc       \* the holder of a free lock

Version == 1 .. MaxVersion
Build == 0 .. MaxBuild
Name == 2 .. 2 * MaxVersion + 1
Final(v) == 2 * v
Aside(v) == 2 * v + 1
VersionOf(n) == n \div 2

\* A name sorts behind its own beginning; nothing else holds of every order.
ASSUME PackStoreAssumption ==
    /\ MaxVersion \in Nat
    /\ MaxBuild \in Nat
    /\ NoProc \notin Proc
    /\ Rank \in [Name -> 1 .. 2 * MaxVersion]
    /\ \A m, n \in Name : Rank[m] = Rank[n] => m = n
    /\ \A v \in Version : Rank[Final(v)] < Rank[Aside(v)]

VARIABLES
    dir,      \* the version directories
    shipped,  \* the challenges of each build
    builds,   \* how many sources got the lock: the n-th is build n
    holder,   \* who holds <pack>.lock
    pc,       \* the call a process makes next
    version,  \* install: the version of the source
    source,   \* install: the challenges of the source
    staged,   \* install: the build in its temporary directory, 0 if none
    moved,    \* install: whether it moved an old version aside
    want,     \* start: the challenge to play; export: empty
    names,    \* start, export: listed directories it has not looked into yet
    found,    \* start, export: the directory it takes, 0 if none so far
    left,     \* export: listed challenges that are not archived yet
    archive,  \* export: the builds that each challenge was archived from
    installed,\* history: the build of the last Install that returned
    floor,    \* history: what was installed when the start or export began
    mishap,   \* history: versions a killed or failed Install left aside
    lost      \* history: versions whose only copy a failed Install removed

store == <<dir, shipped, builds, holder>>
install == <<version, source, staged, moved>>
reader == <<want, names, found, left, archive, floor>>
history == <<installed, mishap, lost>>
vars == <<store, pc, install, reader, history>>

\* A directory: the build it was copied from, the challenges of it that are
\* still whole, and whether there is a challenge of which only a part is left.
Tree == [build : Build, has : SUBSET Challenge, rubble : BOOLEAN]
Absent == [build |-> 0, has |-> {}, rubble |-> FALSE]
Copy(b) == [build |-> b, has |-> shipped[b], rubble |-> FALSE]

Present(n) == dir[n].build # 0
Whole(t) == t.has = shipped[t.build] /\ ~t.rubble

InstallLabel == {"lock", "stage", "stat", "clear", "aside", "swap", "drop", "discard"}
ReadLabel == {"list", "inspect", "load", "walk", "archive"}

TypeOK ==
    /\ dir \in [Name -> Tree]
    /\ shipped \in [Build -> SUBSET Challenge]
    /\ builds \in Build
    /\ holder \in Proc \cup {NoProc}
    /\ pc \in [Proc -> InstallLabel \cup ReadLabel \cup {"idle"}]
    /\ version \in [Proc -> Version \cup {0}]
    /\ \A p \in Proc : version[p] = 0 <=> pc[p] \notin InstallLabel
    /\ source \in [Proc -> SUBSET Challenge]
    /\ staged \in [Proc -> Build]
    /\ moved \in [Proc -> BOOLEAN]
    /\ want \in [Proc -> SUBSET Challenge]
    /\ names \in [Proc -> SUBSET Name]
    /\ found \in [Proc -> Name \cup {0}]
    /\ left \in [Proc -> SUBSET Challenge]
    /\ archive \in [Proc -> [Challenge -> SUBSET Build]]
    /\ installed \in [Version -> Build]
    /\ floor \in [Proc -> [Version -> Build]]
    /\ mishap \subseteq Version
    /\ lost \subseteq Version

Init ==
    /\ dir = [n \in Name |-> Absent]
    /\ shipped = [b \in Build |-> {}]
    /\ builds = 0
    /\ holder = NoProc
    /\ pc = [p \in Proc |-> "idle"]
    /\ version = [p \in Proc |-> 0]
    /\ source = [p \in Proc |-> {}]
    /\ staged = [p \in Proc |-> 0]
    /\ moved = [p \in Proc |-> FALSE]
    /\ want = [p \in Proc |-> {}]
    /\ names = [p \in Proc |-> {}]
    /\ found = [p \in Proc |-> 0]
    /\ left = [p \in Proc |-> {}]
    /\ archive = [p \in Proc |-> [c \in Challenge |-> {}]]
    /\ installed = [v \in Version |-> 0]
    /\ floor = [p \in Proc |-> [v \in Version |-> 0]]
    /\ mishap = {}
    /\ lost = {}

Goto(p, label) == pc' = [pc EXCEPT ![p] = label]

-----------------------------------------------------------------------------
(* kubedrill install *)

Waiting == {p \in Proc : pc[p] = "lock"}

\* What Install accepts from a directory or a tarball it has unpacked: a manifest
\* that names a version, and challenges that all load.  Anything else is refused
\* before it changes the store.
Manifests == Version
Sources == (SUBSET Challenge) \ {{}}

InstallBegin(p) ==
    /\ pc[p] = "idle"
    /\ builds + Cardinality(Waiting) < MaxBuild
    /\ \E v \in Manifests, cs \in Sources :
         /\ version' = [version EXCEPT ![p] = v]
         /\ source' = [source EXCEPT ![p] = cs]
    /\ Goto(p, "lock")
    /\ UNCHANGED <<store, staged, moved, reader, history>>

Lock(p) ==
    /\ pc[p] = "lock"
    /\ holder = NoProc
    /\ holder' = p
    /\ builds' = builds + 1
    /\ shipped' = [shipped EXCEPT ![builds'] = source[p]]
    /\ Goto(p, "stage")
    /\ UNCHANGED <<dir, install, reader, history>>

\* The deferred calls of Install: the temporary directory goes, then the lock.
Release(p) ==
    /\ holder' = NoProc
    /\ Goto(p, "idle")
    /\ version' = [version EXCEPT ![p] = 0]
    /\ source' = [source EXCEPT ![p] = {}]
    /\ staged' = [staged EXCEPT ![p] = 0]
    /\ moved' = [moved EXCEPT ![p] = FALSE]

\* Mutant: the version is copied to where it is read.
StageInPlace(p) ==
    /\ pc[p] = "stage"
    /\ dir' = [dir EXCEPT ![Final(version[p])] =
                 [build |-> builds, has |-> {}, rubble |-> TRUE]]
    /\ staged' = [staged EXCEPT ![p] = builds]
    /\ Goto(p, "stat")
    /\ UNCHANGED <<shipped, builds, holder, version, source, moved, reader, history>>

\* copyTree fills a temporary directory beside the versions; its name begins
\* with a dot, so nobody lists it ...
Stage(p) ==
    /\ pc[p] = "stage"
    /\ staged' = [staged EXCEPT ![p] = builds]
    /\ Goto(p, "stat")
    /\ UNCHANGED <<store, version, source, moved, reader, history>>

\* Mutant: an error of the copy returns before the deferred calls are set up.
StageFailsLocked(p) ==
    /\ pc[p] = "stage"
    /\ "copy" \in Faults
    /\ Goto(p, "idle")
    /\ version' = [version EXCEPT ![p] = 0]
    /\ source' = [source EXCEPT ![p] = {}]
    /\ UNCHANGED <<store, staged, moved, reader, history>>

\* ... or the directory or the copy failed.
StageFails(p) ==
    /\ pc[p] = "stage"
    /\ "copy" \in Faults
    /\ Release(p)
    /\ UNCHANGED <<dir, shipped, builds, reader, history>>

\* Mutant: what was left aside is removed before anything else.
StatClearsFirst(p) ==
    /\ pc[p] = "stat"
    /\ dir' = [dir EXCEPT ![Aside(version[p])] = Absent]
    /\ Goto(p, IF Present(Final(version[p])) THEN "clear" ELSE "swap")
    /\ UNCHANGED <<shipped, builds, holder, install, reader, history>>

Stat(p) ==
    /\ pc[p] = "stat"
    /\ Goto(p, IF Present(Final(version[p])) THEN "clear" ELSE "swap")
    /\ UNCHANGED <<store, install, reader, history>>

\* One step of RemoveAll: a challenge goes, whole or in part.
Crumble(n) ==
    \E c \in dir[n].has, half \in BOOLEAN :
        dir' = [dir EXCEPT ![n] = [build |-> @.build, has |-> @.has \ {c}, rubble |-> half]]

Erase(n) == dir' = [dir EXCEPT ![n] = Absent]

\* RemoveAll of what is aside, a failure is ignored.
Clear(p) ==
    /\ pc[p] = "clear"
    /\ LET old == Aside(version[p]) IN
         \/ Crumble(old) /\ UNCHANGED pc
         \/ Erase(old) /\ Goto(p, "aside")
         \/ "remove" \in Faults /\ UNCHANGED dir /\ Goto(p, "aside")
    /\ UNCHANGED <<shipped, builds, holder, install, reader, history>>

\* The rename onto a directory that is still there fails.
MoveAside(p) ==
    /\ pc[p] = "aside"
    /\ LET v == version[p] IN
         \/ /\ ~Present(Aside(v))
            /\ dir' = [dir EXCEPT ![Aside(v)] = dir[Final(v)], ![Final(v)] = Absent]
            /\ moved' = [moved EXCEPT ![p] = TRUE]
            /\ Goto(p, "swap")
            /\ UNCHANGED <<holder, version, source, staged>>
         \/ /\ Present(Aside(v)) \/ "rename" \in Faults
            /\ Release(p)
            /\ UNCHANGED dir
    /\ UNCHANGED <<shipped, builds, reader, history>>

\* Install returns, the version is installed.
Done(p) ==
    /\ installed' = [installed EXCEPT ![version[p]] = staged[p]]
    /\ mishap' = IF dir'[Aside(version[p])] = Absent
                  THEN mishap \ {version[p]} ELSE mishap
    /\ lost' = lost \ {version[p]}
    /\ Release(p)

\* Mutant: success is reported while the old version is still there.
SwapReportsFirst(p) ==
    /\ pc[p] = "swap"
    /\ dir' = [dir EXCEPT ![Final(version[p])] = Copy(staged[p])]
    /\ IF moved[p]
         THEN /\ Goto(p, "drop")
              /\ installed' = [installed EXCEPT ![version[p]] = staged[p]]
              /\ UNCHANGED <<holder, install, mishap, lost>>
         ELSE Done(p)
    /\ UNCHANGED <<shipped, builds, reader>>

\* Mutant: the old version stays aside.
SwapKeepsOld(p) ==
    /\ pc[p] = "swap"
    /\ dir' = [dir EXCEPT ![Final(version[p])] = Copy(staged[p])]
    /\ Done(p)
    /\ UNCHANGED <<shipped, builds, reader>>

\* The second rename.  An old version that was moved aside is removed next.
Swap(p) ==
    /\ pc[p] = "swap"
    /\ dir' = [dir EXCEPT ![Final(version[p])] = Copy(staged[p])]
    /\ IF moved[p]
         THEN Goto(p, "drop") /\ UNCHANGED <<holder, install, history>>
         ELSE Done(p)
    /\ UNCHANGED <<shipped, builds, reader>>

\* When it fails the deferred removal takes the only copy there is.
SwapFails(p) ==
    /\ pc[p] = "swap"
    /\ "rename" \in Faults
    /\ IF moved[p]
         THEN /\ Goto(p, "discard")
              /\ lost' = lost \cup {version[p]}
              /\ UNCHANGED <<holder, install>>
         ELSE Release(p) /\ UNCHANGED lost
    /\ UNCHANGED <<dir, shipped, builds, reader, installed, mishap>>

\* The deferred RemoveAll of the old version, a failure is ignored.
Drop(p) ==
    /\ pc[p] = "drop"
    /\ LET old == Aside(version[p]) IN
         \/ Crumble(old) /\ UNCHANGED <<pc, holder, install, history>>
         \/ Erase(old) /\ Done(p)
         \/ /\ "remove" \in Faults
            /\ UNCHANGED dir
            /\ installed' = [installed EXCEPT ![version[p]] = staged[p]]
            /\ mishap' = mishap \cup {version[p]}
            /\ lost' = lost \ {version[p]}
            /\ Release(p)
    /\ UNCHANGED <<shipped, builds, reader>>

Discard(p) ==
    /\ pc[p] = "discard"
    /\ LET old == Aside(version[p]) IN
         \/ Crumble(old) /\ UNCHANGED <<pc, holder, install, mishap>>
         \/ Erase(old) /\ Release(p) /\ UNCHANGED mishap
         \/ /\ "remove" \in Faults
            /\ UNCHANGED dir
            /\ mishap' = mishap \cup {version[p]}
            /\ Release(p)
    /\ UNCHANGED <<shipped, builds, reader, installed, lost>>

\* A killed process loses its lock; its deferred calls do not run.
Kill(p) ==
    /\ "kill" \in Faults
    /\ pc[p] \in InstallLabel
    /\ mishap' = IF moved[p] THEN mishap \cup {version[p]} ELSE mishap
    /\ IF pc[p] = "lock"
         THEN /\ Goto(p, "idle")
              /\ version' = [version EXCEPT ![p] = 0]
              /\ source' = [source EXCEPT ![p] = {}]
              /\ UNCHANGED <<holder, staged, moved>>
         ELSE Release(p)
    /\ UNCHANGED <<dir, shipped, builds, reader, installed, lost>>

-----------------------------------------------------------------------------
(* kubedrill start and kubedrill pack export *)

\* discoverChallenges: one challenge that does not load and the whole directory
\* offers nothing; a challenge that is gone is just not offered.
Offered(n) == IF dir[n].rubble THEN {} ELSE dir[n].has

ReadBegin(p) ==
    /\ pc[p] = "idle"
    /\ Cardinality({q \in Proc : pc[q] \in ReadLabel}) < MaxReaders
    /\ \E cs \in {{c} : c \in Challenge} \cup {{}} : want' = [want EXCEPT ![p] = cs]
    /\ floor' = [floor EXCEPT ![p] = installed]
    /\ Goto(p, "list")
    /\ UNCHANGED <<store, install, names, found, left, archive, history>>

\* Installed lists the directories of the pack ...
List(p) ==
    /\ pc[p] = "list"
    /\ names' = [names EXCEPT ![p] = {n \in Name : Present(n)}]
    /\ Goto(p, "inspect")
    /\ UNCHANGED <<store, install, want, found, left, archive, floor, history>>

\* ... and looks into one after the other; the last that offers the challenge
\* (for an export, any challenge) wins.
Inspect(p) ==
    /\ pc[p] = "inspect"
    /\ \E n \in names[p] :
         /\ \A m \in names[p] : Rank[n] <= Rank[m]
         /\ names' = [names EXCEPT ![p] = @ \ {n}]
         /\ found' = [found EXCEPT ![p] =
                IF Offered(n) # {} /\ want[p] \subseteq Offered(n) THEN n ELSE @]
    /\ UNCHANGED <<store, pc, install, want, left, archive, floor, history>>

ReadExit(p) ==
    /\ Goto(p, "idle")
    /\ want' = [want EXCEPT ![p] = {}]
    /\ names' = [names EXCEPT ![p] = {}]
    /\ found' = [found EXCEPT ![p] = 0]
    /\ left' = [left EXCEPT ![p] = {}]
    /\ archive' = [archive EXCEPT ![p] = [c \in Challenge |-> {}]]
    /\ floor' = [floor EXCEPT ![p] = [v \in Version |-> 0]]
    /\ UNCHANGED <<store, install, history>>

Inspected(p) ==
    /\ pc[p] = "inspect"
    /\ names[p] = {}
    /\ IF found[p] = 0
         THEN ReadExit(p)
         ELSE /\ Goto(p, IF want[p] = {} THEN "walk" ELSE "load")
              /\ UNCHANGED <<store, install, reader, history>>

\* Engine.Start loads the challenge from the path it was given, if it still
\* loads from there.
Loaded(p) ==
    /\ pc[p] = "load"
    /\ want[p] \subseteq dir[found[p]].has
    /\ ReadExit(p)

LoadFails(p) ==
    /\ pc[p] = "load"
    /\ ~(want[p] \subseteq dir[found[p]].has)
    /\ ReadExit(p)

\* Export checks the directory once more and lists it; what is left of a
\* challenge that is being removed may be listed too ...
Walk(p) ==
    /\ pc[p] = "walk"
    /\ LET t == dir[found[p]] IN
         IF Offered(found[p]) = {}
           THEN ReadExit(p)
           ELSE /\ \E cs \in SUBSET (shipped[t.build] \ t.has) :
                     left' = [left EXCEPT ![p] = t.has \cup cs]
                /\ Goto(p, "archive")
                /\ UNCHANGED <<store, install, want, names, found, archive, floor, history>>

\* ... and enters one challenge after the other.
Entered(p) == {c \in left[p] : archive[p][c] # {}}

\* Mutant: what cannot be read any more is skipped.
ArchiveSkips(p) ==
    /\ pc[p] = "archive"
    /\ \E c \in left[p] :
         /\ left' = [left EXCEPT ![p] = @ \ {c}]
         /\ archive' = [archive EXCEPT ![p][c] =
                          IF c \in dir[found[p]].has THEN {dir[found[p]].build} ELSE {}]
    /\ UNCHANGED <<store, pc, install, want, names, found, floor, history>>

\* Entering a challenge lists its files, which are then opened one by one, by
\* their paths: another build may have replaced the one that was listed.  What
\* is gone by then is an error, which ends the export.  So is a file that the
\* other build does not have.  An archive cut short stays behind.
Archive(p) ==
    /\ pc[p] = "archive"
    /\ \E c \in IF Entered(p) = {} THEN left[p] ELSE Entered(p) :
         LET t == dir[found[p]] IN
         \/ /\ Present(found[p]) /\ c \in shipped[t.build]
            /\ archive' = [archive EXCEPT ![p][c] = @ \cup {t.build}]
            /\ \/ UNCHANGED left
               \/ c \in Entered(p) /\ left' = [left EXCEPT ![p] = @ \ {c}]
            /\ UNCHANGED <<store, pc, install, want, names, found, floor, history>>
         \/ /\ c \in t.has => archive[p][c] \notin {{}, {t.build}}
            /\ ReadExit(p)

Exported(p) ==
    /\ pc[p] = "archive"
    /\ left[p] = {}
    /\ ReadExit(p)

-----------------------------------------------------------------------------

Install(p) ==
    \/ Lock(p) \/ Stage(p) \/ StageFails(p) \/ Stat(p) \/ Clear(p)
    \/ MoveAside(p) \/ Swap(p) \/ SwapFails(p) \/ Drop(p) \/ Discard(p)

Read(p) ==
    \/ List(p) \/ Inspect(p) \/ Inspected(p) \/ Loaded(p) \/ LoadFails(p)
    \/ Walk(p) \/ Archive(p) \/ Exported(p)

Step(p) == Install(p) \/ Read(p)

Next == \E p \in Proc : InstallBegin(p) \/ ReadBegin(p) \/ Step(p) \/ Kill(p)

Spec == Init /\ [][Next]_vars

-----------------------------------------------------------------------------
(* Properties *)

\* What is found under the name of a version is complete, also after a kill:
\* "installs it atomically" (pack.go:54).
FinalWhole == \A v \in Version : Present(Final(v)) => Whole(dir[Final(v)])

\* The complete copy of a version that a start can find, under its name or, while
\* that is gone, aside.
KeptOf(v) ==
    LET n == IF Present(Final(v)) THEN Final(v) ELSE Aside(v) IN
        IF Whole(dir[n]) THEN dir[n].build ELSE 0

Registry == INSTANCE PackRegistry WITH
    kept <- [v \in Version |-> KeptOf(v)], reported <- installed, failed <- lost

\* The renames and removals implement the registry: seen from outside, a version
\* is replaced in one step, by something newer, or stays as it was, whatever is
\* killed or fails.  Except when the second rename fails after the first one.
ImplementsRegistry == Registry!Spec

\* What Resolve finds when nothing moves: the last name that offers c.
Serves(c, n) ==
    /\ c \in Offered(n)
    /\ \A m \in Name : c \in Offered(m) => Rank[m] <= Rank[n]

\* When no install runs, a challenge is played from the version whose name is
\* the last in the order of text among those that have it (pack.go:157; which
\* is the highest number only while numbers have as many digits), and as it was
\* installed last; no copy moved aside wins over it.  Unless an install of it
\* was killed or failed, or left a copy aside that sorts behind it.
ServesNewest ==
    (\A p \in Proc : pc[p] \notin InstallLabel \ {"lock"}) =>
        \A v \in Version, c \in Challenge :
            /\ installed[v] # 0
            /\ c \in shipped[installed[v]]
            /\ v \notin lost
            /\ \A w \in mishap : Rank[Aside(w)] < Rank[Final(v)]
            => \E w \in Version :
                 /\ Serves(c, Final(w))
                 /\ Rank[Final(v)] <= Rank[Final(w)]
                 /\ dir[Final(w)].build >= installed[w]

\* A start beside installs plays, of the version it found, nothing older than
\* what was installed when it began; or it plays nothing.
FreshOrNothing ==
    [][\A p \in Proc : Loaded(p) =>
         LET v == VersionOf(found[p]) IN
             v \in mishap \/ dir[found[p]].build >= floor[p][v]]_vars

\* An export that succeeds beside installs, of a version under its own name, has
\* every challenge of one build, no older than what was installed when it began,
\* and no file from before that build.  It may have later ones: a challenge that
\* is replaced while its files are read is archived with files of both builds.
ExportComplete ==
    [][\A p \in Proc : Exported(p) =>
         LET v == VersionOf(found[p]) IN
             found[p] = Final(v) =>
                 \E b \in floor[p][v] .. builds :
                     /\ shipped[b] = {c \in Challenge : archive[p][c] # {}}
                     /\ \A c \in Challenge : \A d \in archive[p][c] : d >= b]_vars

\* The lock of the pack is free or held by an install that is under way, so no
\* install waits for one that returned an error or was killed.
LockHeldInUse ==
    \A p \in Proc : holder = p <=> pc[p] \in InstallLabel \ {"lock"}
=============================================================================
