# A formal model of kubedrill

kubedrill runs break-and-fix exercises for Kubernetes on the player's own machine. `start` makes a kind
cluster, applies a challenge's setup and breaks it; the player repairs it; `verify` evaluates the
objectives, charges hints and broken rules and records a score; `reset` breaks the cluster again; `stop`
and `prune` take it away. Every command is a short-lived process. What lives longer is on disk, in docker
and in the cluster, and no transaction spans the three.

This directory holds TLA+ specifications of that machinery, TLC configurations that check them on small
instances, and proofs checked by TLAPS for instances of any size. `PROJECT.json` maps every definition to
the lines it stands for, and lists runs, mutants, findings, hazards and theorems.

## The system

| part | state it keeps | operations | what is hard about it |
|---|---|---|---|
| session store (`internal/store`) | `state.json`, `events.jsonl`, `.lock` per session, a mutex per id per process, `current` | Create, Load, Update, AppendEvent, Remove, List, LiveCount, Current, SetCurrent | processes and goroutines share the files; a process may be killed between two system calls; Remove takes no lock |
| engine (`internal/engine`) | nothing of its own; calls store, provider, cluster | Start, failStart, Verify, Reset, hardReset, NextHint, RevealHint | each works for seconds to minutes on what it loaded first, and fails half way |
| command line (`internal/cli`) | nothing | start, stop, prune, verify, hint, reset, list, status, env, shell, node-shell, export | stop, prune and the threshold of start read records and clusters at different moments |
| kind provider (`internal/providers/kind`) | the cluster, two kubeconfigs, `audit-policy.yaml` | Provision, Destroy, List, Environment, AuditEvents, NodeExec, LoadImages | a cluster is listed long before it is usable; the audit log is read while it is written |
| verify (`internal/verify`) | nothing | Evaluate (match, CEL, probe checks), NetScore | polling windows, dependencies, sums |
| rules (`internal/rules`) | the audit policy and admission policies it generates | Grade, Attribute, AuditPolicy, EnforcementPolicies | two programs (grading and the API server) must agree on who is who and what is what |
| provision (`internal/provision`) | the cluster's objects | Apply, Reset, injectFault, readiness | deletion lingers, controllers report late, waits give up; a reset that fails becomes a hard one |
| author tools (`internal/author`) | a session store of its own | lint, scaffold, schema, Test (negative, positive and idempotency phase) | checks that pass before the solution; a cluster the player's prune does not know |
| challenge (`internal/challenge`, `apis/challenge`) | nothing | LoadDir, Match, Validate | searches with a stack and with backtracking |
| packs (`internal/sources/file`) | one directory per version under `~/.kubedrill/store` | Install, Installed, Resolve, Export | two renames make a version; readers take no lock |
| images (`internal/imagecache`) | archives under `~/.kubedrill/cache/images` | Pull, TarballsFor | looked up before the lock is taken, written by docker |
| built-ins (`challenges`) | a directory they are copied to | Materialize | a copy that was cut short is reused |
| kube client, build information | nothing | wrappers, constants | nothing |

The engine is called by one command at a time in each process; it calls the store (files), the provider
(docker) and, through two kubeconfigs, the API server: the engine's identity for setup, the player's for
the player. Processes meet in the files, in docker's containers and in the cluster.

What makes each part correct:

- **store**: an acknowledged Update is never lost; a reader sees whole records; a crash neither loses the
  record nor keeps the lock; a removed record stays removed; every Update ends.
- **lifecycle**: no cluster without a record; the number of clusters is bounded by the threshold; prune
  reconciles both worlds and spares what is being played; a start does not hang in `creating`.
- **score**: attempts are appended and numbered, the best score is the best attempt in time, a hint is
  charged once, a late attempt never counts, `verified` means that everything passed at once.
- **rules**: what the player did is charged whatever name it wears, nothing else is; what was required and
  done is credited; enforcement and grading draw the same line.
- **packs and images**: what is found under a name is complete; what was installed stays available while it
  is replaced, and the newest is what is played; an image is fetched once however many want it.
- **provision**: a start or a reset that succeeds leaves the challenge broken as intended, and nothing of
  the objects that were there before.
- **evaluation**: a pass had a look that passed, a failure one that did not; what holds throughout passes,
  whatever other evaluations put into the cluster.
- **author test**: it passes only what is neither vacuous nor unsolved, and takes its cluster down.
- **format**: cycles are found and nothing else is taken for one; Match finds an assignment whenever there
  is one.

## Modules

| module | models | checked by | proofs |
|---|---|---|---|
| `Lifecycle` | session records and clusters under the commands of several processes | `MCLifecycle` | `LifecycleProofs` |
| `SessionRecord` | what a session directory promises: one record, changed by whole updates | as the specification `SessionDir` implements | |
| `SessionDir` | the files, flocks and mutexes of one session directory | `MCSessionDir` | `SessionDirProofs` |
| `Scoring` | verify, hint, reset and the end of start on one session's record | `MCScoring` | `ScoringProofs` |
| `Rules` | the audit log, its reader, grading and admission policies | `MCRules` | `RulesProofs` |
| `PackRegistry` | what an install promises: one complete copy of each version, replaced in one step | as the specification `PackStore` implements | |
| `PackStore` | the versions of an installed pack under install, start and export | `MCParts` | `StoresProofs` |
| `ImageCache` | images pull | `MCParts` | `StoresProofs` |
| `Stores` | packs and images side by side | `MCParts` | `StoresProofs` |
| `Provision` | setup, faults, readiness, reset in place | `MCParts`, `MCProvision` | `ProvisionProofs` |
| `Evaluation` | one evaluation of the objectives, look by look | `MCParts` | `GradingProofs` |
| `AuthorTest` | the phases of `author test` | `MCParts` | `GradingProofs` |
| `Validation` | what the loader accepts, and its search for cycles | `MCParts` | `GradingProofs` |
| `Format` | match and lint of a challenge that was accepted | `MCParts` | `GradingProofs` |
| `Sums` | sums of points and penalties, for `Scoring` and `AuthorTest` | `MCScoring`, `MCParts` | `SumsProofs` |

They stack: `SessionDir` shows that an Update may be taken as one step, which `Lifecycle` and `Scoring`
do; `Lifecycle` shows when a session's cluster is there, which `Scoring` takes for granted; `Rules` says
which breaches verify finds, which are a set in `Scoring`. `Provision` opens the step in which `Lifecycle`
and `Scoring` set a cluster up or reset it, `Evaluation` the choice by which an objective passes in
`Scoring`, and `Format` what a check finds in one look at one object, which is a fact in `Evaluation`.
`PackStore` and `ImageCache` share files with nothing else. `MCParts` extends all of these and runs them
side by side, one at a time in each behaviour (`focus`), because the code gives them no state in common.
Two components have an abstract specification that they are shown to implement: `SessionRecord` says of
the session directory, and `PackRegistry` of the pack store, what a caller may think it does.

### Lifecycle

`phase[s]` is the recorded phase ("none" without a record), `minted` the directories with kubeconfigs,
`cluster[s]` what docker has: "none", "booting" (kind lists it from its first container on) or "up".
A process has a program counter `pc`, its command, its session and, for `prune` and `stop --all`, what it
has read and still has to do. An action is one call on the store or the provider:

- `StartGate` (count, threshold, id), `StartCreate`, `ProvisionBegin/End/Fails`, `Apply`, `Arm`, and
  `FailMark`, `FailDestroy`, `FailRemove` for failStart, whose errors are ignored;
- `StopBegin`, `StopDestroy` (a failure is a warning), `StopRemove`;
- `PruneListSessions`, `PruneListClusters`, `PruneDestroy`, `PruneTurn`, `PruneRemove`, `PruneEnd`: two
  listings, two loops, the errors of both listings swallowed as in the code;
- `ResetBegin`, `ResetFast` with its fall back, `ResetDestroy` and then the steps of provisioning;
- `VerifyBegin`, `VerifyEvaluate`, `VerifyRecord`;
- `Crash` ends a process between any two calls.

`Faults` chooses which calls may fail: "provision", "apply", "destroy" and the listings of the provider,
"update" and "remove" of the store. An error of the last Update of a start ends it at once, without
failStart (`engine.go:131-141`), and the session stays in `creating` with its cluster: `unwritten` names
such sessions. `Overlap` says whether commands run side by side. `missed`, `undestroyed`, `unwritten` and
`settled` are history variables for the properties. Ids are drawn at random in the code and never repeat.

### SessionDir and SessionRecord

The directory, its files (`state.json`, one temporary file per writer, `kubeconfig`), the `.lock` file as
a name and an inode, the holder of each inode's flock, and the per-process mutex. A thread is a call of
Create, Update, Remove or of Provision's MkdirAll and kubeconfig writing; its actions are the system
calls: open the lock, take it, read, write the temporary file, rename, unlock, append the event, unlink
names one at a time, rmdir. The content of the record is the set of updates it holds. A crash releases
mutex and flock and leaves the files. `SessionRecord` has one step per whole update; the refinement
mapping reads the record from the files and an update's answer from its program counter.

### Scoring

The record's fields, the cluster as the set of objectives whose checks would pass now, the breaches in the
audit log and whether the enforcement policy is installed, the clock, how far start has come, and for
each process what it loaded, evaluated and graded. Load, each objective, grading and the final Update of a
verify are separate steps, so everything may change in between; an objective may pass at any moment of its
window at which its checks hold. Resets may be fast or hard, with `--clock` and `--hints`; a fast one may
fall back. A hard one loses audit log, policy and node faults, as `hardReset` does. `removed` is history.

### Rules

Requests of the engine, the control plane and the player, by name, account or impersonation, are judged by
the policies in force (`made` has them with the rules that were in force) and logged at the level of the
first audit rule that matches. `log` is what is to be logged, in order, `written` how many half lines of it
are on disk. verify remembers the complete lines it found at its begin (`begun`, history), reads complete
lines from a cursor until nothing is new, and `Grade` is the code's grading over what it read: attribution,
`targetMatches`, the three kinds of rules (`Violated`), tampering. `Denies` is the generated admission
policy. The properties compare both with what was really asked (`Meets`). A request has the verb that the
audit log has of it, the operation that admission sees (a server-side apply that creates is a `patch` and a
`CREATE`), and may be to a subresource, which grading drops (`audit.go:42`) and a policy on the resource
does not cover (`enforce.go:88`). So enforcement lets a scale or such an apply through that grading charges:
`EnforcedAsGraded` is about requests to the object itself whose operation is that of their verb. Namespaces
match as names do and are left out; whether a request succeeded is not modelled because the code does not
look at it.

### PackStore, PackRegistry and ImageCache

`PackStore` has the directories of the versions, each with the build it was copied from, the challenges
that are whole and whether a part of one is left; the lock of the pack; and for each process what an
install (`version`, `source`, `staged`, `moved`) or a reader (`want`, `names`, `found`, `left`, `archive`)
knows. The actions of an install are `Lock`, `Stage`, `Stat`, `Clear`, `MoveAside`, `Swap`, `Drop` and, when
the second rename fails, `Discard`; removing a directory takes as many steps as it has entries. A start or
an export lists, inspects and then loads or archives, without a lock. `installed` is what the last Install
that returned had installed; `mishap` and `lost` name the versions that a killed or failed Install left
under the wrong name or removed, which the code does and the properties leave out.

Names are compared as text (`pack.go:157`), so the order of versions, and of what is moved aside, is the
constant `Rank`: any order in which "v.old" is behind "v". `ServesNewest` is therefore about the version
whose name is last as text, and not the highest number that `pack.go:122` and `export.go:45` speak of:
0.10.0 comes before 0.9.0, and what a mishap left aside as "1.0.old" is behind "1.0.1". An export opens the
files of a challenge one by one by their paths. An Install in between gives it files of two builds, within
one challenge too, and it still succeeds although it "round-trips with Install" (`export.go:13-15`); it ends
in error only when a file that was listed is gone. `ExportComplete` says what is left to rely on.

`PackRegistry` has one copy per version, `kept`, and what was last reported as installed. `Replace` puts a
newer one in its place, with or without the report (an install that has the old directory still to remove
reports later, as `Return`; one that is killed never does), `Fail` is the second rename that fails after the
first, and only after that may `Lose` take a copy away. The refinement mapping (`KeptOf`) reads the copy from
the directory that has the name of the version or, when there is none, from the one aside, and takes it for
nothing when it is not complete. So `Swap` is the step that counts, while staging, clearing, moving aside and
removing the old version are not seen.

`ImageCache` has one archive per reference and one temporary file per process. `pulls` and `failed` count
for `PulledOnce`.

### Provision

Each object of the manifests has a life (with finalizers), a spec (as applied, broken by a fault, edited)
and a status that a controller reports late. The engine goes through the manifests, faults and gates by
`pc` and `at`; any of its requests may fail and any wait may time out (`Fail`), which turns a reset in place
into `Destroy` and a new setup. The player edits, deletes and makes objects at any time. `old` marks objects
that were there before the reset. Only patch faults are here: `injectFault` refuses exec faults, and node
faults are applied by the engine afterwards (`Scoring`).

### Evaluation, AuthorTest, Validation, Format

In `Evaluation` a look at the cluster is a step and the facts change in between. A probe has a pod while it
runs and leaves one when its process is killed. `steady` and `seen` say which facts held throughout and at
some time. Windows are not timed: a check that failed is retried or not. `AuthorTest` has the order of the
phases, what each accepts, and what interferes. The checks of an objective are looked at one after the
other there too; a look is one step, its retries within the window being that step or none, and an error of
a branch of an anyOf may show as a failure. So an objective passes whose checks held at different times:
`PassedMeansSolved` is a statement about each check.

`Validation` is Validate: what looks at one thing at a time is the operator `Consistent`, the depth-first
search for cycles is a state machine whose `path` is the stack of calls, each with the prerequisites it has
still to look at, and whose `gray` and `black` are the colours of the code. `Format` goes on with what was
accepted: it is linted, with CEL that is the literal true and the branches of an anyOf, and one match is
evaluated. Numbers are compared after `Float`, the rounding of integers to float64, which the instance makes
coarse enough for two integers to meet. The lint reports a match of null as vacuous, and its comment and test
say that null matches any state (`lint.go:111-112`, `lint_test.go:58-71`), while Match gives null no object;
`VacuousMatchesAll` sets null aside. A JSON value is a pair of a type and what it holds; a map gives each
of the keys `Key` a value or `Unset`, an array is a sequence, and a value has at most `Depth` levels (both are
constants; the values of a real challenge and object have finitely many keys and a depth, so some choice of
the two covers them). `Match` follows the code, one level of calls after the other, with the assignment of
array elements as a search with backtracking (`assign`); `Embeds` says what it means, an injection.

## Runs

Each passing run has mutants: plausible bugs that make TLC refute each of its properties.

| run | question | instance | distinct states |
|---|---|---|---|
| `lifecycle_sequential` | Is there a record for every cluster, no more clusters than the threshold, and do both agree after a prune, when commands are killed or a call fails on the cluster, a record's update or its removal? Clusters whose last Destroy failed aside. | 3 ids, threshold 2, one command at a time | 1.4 million |
| `lifecycle_overlap` | Does prune spare a session that stays playable, whatever another process does? | 2 ids, 2 processes, all commands, kills, failing cluster calls and removals | 5.0 million |
| `lifecycle_settles` | Does every start leave `creating`, unless it could not write how it ended? | 2 ids, 2 processes, start/stop/prune/hard reset, failing setup, updates and removals | 1.1 million |
| `dir_locks` | Are updates exclusive, kept, and do the files implement the record? | 3 updates on 2 processes, a creator, a kubeconfig writer, crashes | 35 thousand |
| `dir_removal` | Does a removed record stay removed, and does every update end beside a removal? | 2 updates, creator and remover on 3 processes, crashes | 44 thousand |
| `scoring_attempts` | Are best score, history and hints right under overlapping verify, hint and reset? | 2 processes, 1 objective, 1 hint, 2 attempts, 3 ticks | 950 thousand |
| `scoring_deadline` | Does `verified` mean that all passed, and does a late attempt never count, when resets restart the clock? | 2 dependent objectives, enforcement, a node fault | 2.3 million |
| `rules_audit` | Is exactly the player charged, for exactly what was done before the reading began, and do enforcement and grading agree? | 4 rules, 2 requests out of 11 by 6 actors | 4.2 million |
| `parts` | Is each part beside the session right, whatever is killed, fails or changes under it? | packs (with the registry they implement): 2 versions of 2 interchangeable challenges, ordered against their numbers, 3 installs, 1 reader on 2 processes; images: 2 images, 3 pulls on 3 processes; provision: 3 objects, 2 moves, 2 resets; evaluation: 4 objectives, 3 facts, 2 evaluations, 2 changes; author test: 3 objectives of 4 checks, 2 changes; format: all dependency graphs of 3 objectives, searched step by step, arrays up to 2 against 3 elements | 1.6 million |

Two processes and two or three sessions suffice for the races: each hazard is a pair of commands, on the
same session or on one that a loop visits while another is touched. Two updates suffice to lose one and a
third to wait behind both. Two attempts and three instants give every order of in time, late and moved
deadline. Two requests suffice for a reader to see one whole, one half, or one more after its first chunk.
Three installs give a first version, its replacement, and one more after a mishap or of the other version;
readers change nothing, so one sees what any sees. Three pulls make two wait behind one. Two moves let the
player undo one thing and spoil another during a reset, the second reset meets what the first left. Two
changes let a fact hold, cease and hold again between two looks. Two elements against three are the
smallest arrays in which a greedy assignment goes wrong with an element to spare. Three keys and four levels
are those of an object with an array of maps under its spec.
`MaxTime`, `MaxAttempts`, `MaxRequests`, `MaxBuild`, `MaxReaders`, `MaxPulls`, `MaxMoves`, `MaxResets`,
`MaxFlips` and `MaxRuns` are the bounds on what would grow without end. Deadlock is checked where a new
command is always possible; the others really stop (all calls done, bounds reached).

Three runs show where the code does not do what it says:

| run | what is said | what TLC finds |
|---|---|---|
| `lifecycle_listerror` | prune "removes session dirs whose cluster is already gone" | `Provider.List` fails, its error is dropped, and the records of running sessions are removed |
| `scoring_tamper` | "a missing policy means the player removed a live guardrail" | a hard reset does not restore the policies and keeps their names: the next verify fails the player |
| `provision_reset` | reset "restores a challenge to its broken-as-intended state in place" | what the player made outside the manifests stays and solves the challenge again; the gate asks before any controller has reported |

Hazards with a property, and what each property leaves out because the code does it, are listed in
`PROJECT.json`. Known and without a property:

- a crashed start whose record prune never takes once kind lists the cluster (`engine.go:71`);
- two starts that both pass the threshold (`play.go:68`); the bound is stated for one command at a time;
- a hint revealed while a verify polls, which that attempt is not charged (`engine.go:187`);
- node faults, which a hard reset does not restore (`reset.go:109`);
- an audit log that cannot be read, which charges nobody (`grade.go:26`);
- the event of a deletecollection, which has no name for a named protect rule (`grade.go:135`), and kinds
  outside the table of plurals (`policy.go:141`);
- objectives of no points, which a verify may fail and still pass (`score.go:98`);
- the challenge directory, which is not frozen while a session is played (`engine.go:171`);
- versions ordered as text, so that 0.10.0 sorts before 0.9.0 (`pack.go:157`; `ServesNewest` states the order
  of text);
- `Poll.Window`, documented as a demand to hold continuously and read nowhere (`types.go:159-160`);
- Materialize, which reuses a directory that a killed copy left (`embed.go:53`), and SetCurrent, which
  writes a temporary file of a fixed name (`store.go:240`);
- a signal during `author test`, which skips its teardown (`harness.go:103`).

## Fairness

`Lifecycle!FairSpec` and `SessionDir!FairSpec` assume weak fairness of the steps of each process or thread
that is under way: a command that runs goes on. The code justifies it: every wait is bounded by a deadline
(readiness, polling, deletion), docker calls return or fail, and flock is released by its holder's next
steps or its death. Nobody has to issue a command, and crashes are not fair. In `SessionDir` weak fairness
is enough although a lock is contended, because each call takes it a bounded number of times.
`lifecycle_settles` has no crashes: a killed start stays in `creating` until somebody stops it.

## Proofs

TLC's instances are small; the theorems hold for any number of sessions, processes, commands, threads,
objectives, hints, rules and any bounds. The assumptions on the constants are named in each module; a
theorem that needs more names it as a hypothesis, listed at the end.

`LifecycleProofs`
- `TypeCorrect`: type invariant, strengthened by "a process with a targeted call has a session".
- `PruneIsSafe` (`PruneSparesPlayable`): if both listings answer. A session in `settled[p]` was on record
  and up when each listing was read, so it is in both answers and in neither difference. The inductive
  invariant carries that through both loops.
- `NoOrphans` (`ClusterHasRecord`): one command at a time, the listings answer; clusters whose last Destroy
  failed (`undestroyed`) aside. The invariant says for each label what its command may assume of record and
  cluster, above all that FailRemove, StopRemove and PruneRemove come when the cluster is gone.
- `Bounded` (`ClustersBelowThreshold`): the same, without `--force`. Records, counting the one a gated
  start is about to make, do not exceed the threshold, and clusters are among the records.
- `PruneLeavesNothing` (`PruneReconciles`): one command at a time, listings that answer. What prune has read
  is how things are, but for the clusters it still has to destroy or could not and the records it still has
  to remove.

`SessionDirProofs`, the first three for one creator and no removal (`Undisturbed`)
- `UpdatesSerialized` (`Serialized`): without a removal `.lock` keeps its inode, so all hold the same lock.
- `NoUpdateLost` (`NoLostUpdate`): what a thread loaded is what the file holds until its rename.
- `DirImplementsRecord` (`ImplementsRecord`): initial states map to initial states, and each step to a
  step of `SessionRecord` or to a stutter; a rename is the step `Apply`, a crash is `Abort`.
- `NeverBroughtBack` (`RemovedForGood`), for one creator, one removal and no Provision (`RemovedOnce`): what
  is not there has no files in it, and a rename needs its temporary file (`DirInv`); a removal that found no
  directory came before the creation, when no Update had anything to write (`RemovalInv`).

`ScoringProofs`
- `TypeCorrect`; `BestIsMax` (`BestIsMaxOnTime`): the Update compares with the record it changes, not with
  the one loaded; `HintsRecordedOnce` (`HintsOnce`); `LateNeverCounts` (`NoLateBest`): deadlines only move
  away, so a stale one is never the later one.
- `AttemptsStay` (`AttemptsKept`): each attempt carries its position, and only the final Update of a verify
  appends one.
- `VerifiedIsPassed` (`VerifiedWasPassed`), which says nothing of deadline or penalties, for an attempt that is
  late or failed by a penalty is marked verified too (`engine.go:212`): the sum that decides has a term for
  each objective that passed (`TallyInv`), and it is full only if none of points is missing (`SumComplete`).
  That ids are not given twice (`IdAssumption`) is what Validate demands.

`SumsProofs`: `SumType`, `SumAgrees`, `SumComplete`, for lists of any length. A recursive function is by
definition *some* function that satisfies its equation. That there is one, that any two agree, and what
holds of all its values is shown by induction in the form of a statement about a set of numbers
(`Induction`), which follows from the least element of what the set misses; the induction theorems of the
library take an operator as a parameter, which the provers here cannot.

`RulesProofs`
- `LogIsRead`: what is in the log was asked, and each request that is to be logged is at the line that it
  says (`LogInv`); what verify has read is what the lines before its cursor say, none missed or read twice
  (`ReadInv`). A verdict therefore covers all that was logged when its verify began.
- `NoBreachEscapes` (`BreachesCharged`): besides, the generated audit policy logs whatever changes something,
  and every kind is found under the name it is served by.
- `EngineNeverBlamed` (`OnlyPlayerCharged`), `RequirementsCredited` (`RequireCredited`): each event that was
  read has a request behind it, whom it is attributed to was its author, and the bodies that a `require` looks
  into were logged, since the kinds they are about come before the baseline in the audit policy.
- `EnforcementAgrees` (`EnforcedAsGraded`): the admission policy and grading exempt the same names and take
  the same requests for those of a rule, of those to the object itself whose operation is that of their verb.

`StoresProofs`, for any pack, versions, builds, images, processes and faults
- `InstalledIsWhole` (`FinalWhole`), `InstalledStays`: what was installed stays complete in one of its two
  places. The invariant says that only the holder of the lock is past it and has staged the latest build, and where it
  stands between the renames (`HolderInv`); that nothing is newer than that build (`AgeInv`); that what has
  the name of a version is complete and as new as what was installed (`FinalInv`); and that where nothing
  has the name, what was moved aside is (`AsideInv`), unless the version is lost. The three labels after the
  first rename are where the properties could break.
- `StoreImplementsRegistry` (`ImplementsRegistry`): initial states map to initial states and each step to one
  of `PackRegistry` or to a stutter. Besides, a staged copy that is not in its place is newer than every
  directory (`NewerInv`), so `Swap` replaces by something newer; and a directory has challenges of its build
  only (`PartInv`), so one that is being removed is never complete again.
- `StartsFresh` (`FreshOrNothing`): besides, what is aside is as new as what was installed, for the install
  that moved it has not returned (`FreshInv`); where a mishap left it the property says nothing.
- `NewestServed` (`ServesNewest`), for any order of text: what has the name of a version is what was installed
  last, or its install is about to return (`NewInv`). That one name is the last to offer a challenge is the
  well-foundedness of the natural numbers (`LastName`).
- `ExportIsComplete` (`ExportComplete`): what is archived and what is still to come are together the
  challenges of one build, and what has the name of a version only grows newer (`ExportInv`, `FinalGrows`).
- `CachedIsWhole` (`ArchivesWhole`), `FetchedOnce` (`PulledOnce`): what is being fetched is not cached and
  only the holder of the lock fetches, so an image that is neither cached nor being fetched is on record with
  failed fetches only.
- `LocksFreed` (`LocksInUse`): the locks of both, by `LockFreed` and `CacheLockFreed`.

`ProvisionProofs`
- `ResetStartsAnew` (`ResetForgets`). Behind the cursor of the deletion every object is new, for it was
  waited for; in front of the apply everything is, for the deletion or the destruction of the cluster came
  to its end.
- `SetUpIsBroken` (`BrokenAsIntended`). While the player has touched nothing, each phase leaves what the next
  one needs (`PhasesInv`): the apply finds nothing that is on its way out, the faults find what they break,
  and a gate that was passed stays passed, for nothing mends what a fault broke.

`GradingProofs`, the last two for values nested to any depth, with any keys and arrays of any length
- `PassedHeld` (`PassedWasTrue`), `SteadyIsPassed` (`SteadyPasses`), `FailedDidNotHold` (`FailedWasFalse`).
  The invariant says what the looks so far have found of the check and the objective a process is at, between
  the two histories of the facts, and what each recorded result says.
- `PassedIsNonVacuous` (`NonVacuous`): what was looked at in the negative phase and did not pass has not held
  all the time; `AlwaysTornDown` (`TornDown`).
- `PassedIsSolved` (`PassedMeansSolved`): a full score means that every objective of points passed in that
  phase (`SumComplete`), behind what it depends on; and it passed when each of its checks had a look that found
  it to hold (`SolvedInv`, `Earned`).
- `CyclesRefused` (`AcyclicAccepted`): the gray objectives are the path, which leads from prerequisite to
  prerequisite (`PathInv`), and what a call has come past is black (`RestInv`). A gray prerequisite closes a
  knot, a set of objectives that each need one of the set. Black objectives need black ones only and hold no
  knot (`BlackInv`): one that turns black is not needed by those that were black before.
- `MatchEmbeds` (`MatchIsEmbedding`): by induction over the depth (`MatchAgrees`), `Match` and `Embeds` agree
  on every pair of values. For arrays, the search from element `i` on with `used` taken succeeds exactly if
  the elements from `i` on have partners of their own outside of `used`: this is an induction downwards from
  the end of the array (`SearchExists`, `SearchFinds`), and from the first element on with nothing taken it
  is the injection (`AssignFinds`). Like those of `Sums` these are statements about sets of numbers; the
  recursive functions are shown to have the values their equations say before they are used (`JsonDef`,
  `MatchOfDef`, `WithinOfDef`).
- `VacuousMatches` (`VacuousMatchesAll`): what the lint reports is the literal true, has null or an empty map
  for its tree, or has such a branch; and an empty map asks nothing of an object.

The hypotheses, which the instances of the runs satisfy:
- `OneAtATime`, `ListingsAnswer`, `Undisturbed`, `RemovedOnce`: who works at the same time and what fails.
  Without them the properties are false of the code, as the runs and hazards tell.
- `Written`, `Declared`, `Decoded`, `Ordered`, `Named`: challenges are decoded into lists, their objectives
  have checks and their checks leaves (Validate refuses others), and nobody is called `NoProc`.
- `Breakable`: the namespaces (`Kept`) are among the manifests, which hold something else besides, and what
  faults break is declared. A challenge of nothing but namespaces would be applied beside namespaces that are
  on their way out: nothing that is made in them fails and makes the reset try again.
- `KindsApart`: no kind is served under a name that `kindToResource` gives to another one. Kinds of one
  plural in two groups, such as Event, or one that is not in the table and shares its plural with a kind of
  another group, are taken for each other by grading; the property is false for them.

Besides these, `InputAssumption` says of `Format` what decoding YAML and an API answer gives: JSON values,
and a live object that is a map.

Only model-checked are `StartSettles` and `UpdateEnds`, which are liveness under fairness and out of the
provers' reach: their proofs need the enabledness of actions. Every other property of the passing runs is
stated by a theorem. The three runs that end in a violation have none, of course.

## Not modelled

- Text and layout: the generated kind configuration, messages, scorecards, scaffold and JSON schema, the
  catalog of challenges, the export of a session (one read, printed).
- The kube client (a wrapper around client-go) and build information: nothing of their own to get wrong in
  more than one step.
- Built-in challenges: `Materialize` reuses any directory that is not empty, also one half copied; nothing
  waits for or repairs it, so there is nothing to state that holds.
- The pointer to the current session and the temporary file it shares: two writers may each undo the other,
  and no command relies on it beyond a default.
- CEL: an expression is a fact that holds or not. That files a challenge names exist and expressions compile
  is a load that fails (`PackStore`).
- Rotation of the audit log at 100 MB. The clock is one clock; changes of the system time are left out.
- `status`, `list`, `env`, `shell`, `node-shell`: they read, print and start other programs.

## What could come next

1. `Provision` as a refinement of the setup and reset steps of `Lifecycle`.
2. `BestIsMaxOnTime` and `AttemptsKept` as a refinement of an abstract score board.
