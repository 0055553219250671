------------------------------ MODULE Lifecycle ------------------------------
(***************************************************************************)
(* Session records and kind clusters under several kubedrill processes.    *)
(*                                                                         *)
(* A session is two things that no transaction ties together: a record     *)
(* (state.json below ~/.kubedrill/sessions/<id>) and a kind cluster named  *)
(* after the id.  Every command is a short-lived process that reads and    *)
(* writes both, one call at a time; it may be killed between any two of    *)
(* them, and other processes run meanwhile.  An action is one such call.   *)
(* A call of the session store is one step here (SessionDir looks inside   *)
(* it); creating a cluster takes two, because kind lists a cluster from    *)
(* its first container on.                                                 *)
(***************************************************************************)
EXTENDS Naturals, FiniteSets

CONSTANTS
    Session,    \* the ids newSessionID can draw
    Proc,       \* kubedrill processes
    Threshold,  \* resourcePressureThreshold
    Commands,   \* the commands the player issues
    Faults,     \* what can go wrong
    Overlap,    \* FALSE: the player waits for a command to end before the next
    NoSession   \* target of a process that has none

CommandKinds ==
    {"start", "force", "stop", "stopAll", "prune", "reset", "hardReset", "verify"}
FaultKinds ==
    {"crash", "provision", "apply", "destroy", "update", "remove", "listSessions",
     "listClusters"}

ASSUME LifecycleAssumption ==
    /\ Threshold \in Nat
    /\ Commands \subseteq CommandKinds
    /\ Faults \subseteq FaultKinds
    /\ Overlap \in BOOLEAN
    /\ NoSession \notin Session

VARIABLES
    phase,      \* state.json: the recorded phase, "none" without a record
    minted,     \* session directories that hold the two kubeconfigs
    cluster,    \* the kind cluster of an id, from its first container on
    drawn,      \* ids newSessionID has drawn
    pc,         \* the call a process makes next
    cmd,        \* the command it runs
    target,     \* the session it works on
    seen,       \* prune: the ids Store.List returned
    listed,     \* prune: the ids Provider.List returned
    todo,       \* the sessions a loop of stop or prune still has to visit
    missed,     \* history: sessions whose Destroy or Remove failed in this command
    undestroyed,\* history: sessions whose last Destroy failed
    unwritten,  \* history: sessions whose start could not record how it ended
    settled     \* history: sessions playable ever since this command began

store == <<phase, minted, drawn>>
infra == <<cluster, undestroyed, unwritten>>
snapshots == <<seen, listed>>
vars == <<phase, minted, cluster, drawn, pc, cmd, target, seen, listed, todo,
          missed, undestroyed, unwritten, settled>>

Phase == {"none", "creating", "running", "verified", "failed"}
ClusterState == {"none", "booting", "up"}
Label == {"idle", "create", "provision", "boot", "apply", "arm",
          "failMark", "failDestroy", "failRemove",
          "stopDestroy", "stopRemove",
          "pruneSessions", "pruneClusters", "pruneDestroy", "pruneRemove",
          "resetFast", "resetDestroy",
          "evaluate", "recordPass", "recordFail"}

TypeOK ==
    /\ phase \in [Session -> Phase]
    /\ minted \subseteq Session
    /\ cluster \in [Session -> ClusterState]
    /\ drawn \subseteq Session
    /\ pc \in [Proc -> Label]
    /\ cmd \in [Proc -> CommandKinds \cup {"none"}]
    /\ target \in [Proc -> Session \cup {NoSession}]
    /\ seen \in [Proc -> SUBSET Session]
    /\ listed \in [Proc -> SUBSET Session]
    /\ todo \in [Proc -> SUBSET Session]
    /\ missed \in [Proc -> SUBSET Session]
    /\ undestroyed \subseteq Session
    /\ unwritten \subseteq Session
    /\ settled \in [Proc -> SUBSET Session]

Init ==
    /\ phase = [s \in Session |-> "none"]
    /\ minted = {}
    /\ cluster = [s \in Session |-> "none"]
    /\ drawn = {}
    /\ pc = [p \in Proc |-> "idle"]
    /\ cmd = [p \in Proc |-> "none"]
    /\ target = [p \in Proc |-> NoSession]
    /\ seen = [p \in Proc |-> {}]
    /\ listed = [p \in Proc |-> {}]
    /\ todo = [p \in Proc |-> {}]
    /\ missed = [p \in Proc |-> {}]
    /\ undestroyed = {}
    /\ unwritten = {}
    /\ settled = [p \in Proc |-> {}]

-----------------------------------------------------------------------------
(* Vocabulary *)

Recorded == {s \in Session : phase[s] # "none"}       \* what Store.List returns
Clusters == {s \in Session : cluster[s] # "none"}     \* what Provider.List returns

\* The sessions the player can play: armed, and the cluster runs.
Playable ==
    {s \in Session : phase[s] \in {"running", "verified"} /\ cluster[s] = "up"}

\* The history variable settled follows every step: a command that begins
\* starts from the sessions playable then, one that ends drops its set.
Track(p) ==
    settled' = [q \in Proc |->
        IF q = p /\ pc'[p] = "idle" THEN {}
        ELSE {s \in (IF q = p /\ pc[p] = "idle" THEN Playable ELSE settled[q]) :
                s \in Playable'}]

Goto(p, label) == pc' = [pc EXCEPT ![p] = label]

\* A process starts a command c; nobody else is busy unless commands overlap.
Begin(p, c, label) ==
    /\ pc[p] = "idle"
    /\ c \in Commands
    /\ Overlap \/ \A q \in Proc : pc[q] = "idle"
    /\ Goto(p, label)
    /\ cmd' = [cmd EXCEPT ![p] = c]
    /\ missed' = [missed EXCEPT ![p] = {}]

\* The process exits: its local variables are gone.
Exit(p) ==
    /\ Goto(p, "idle")
    /\ cmd' = [cmd EXCEPT ![p] = "none"]
    /\ target' = [target EXCEPT ![p] = NoSession]
    /\ seen' = [seen EXCEPT ![p] = {}]
    /\ listed' = [listed EXCEPT ![p] = {}]
    /\ todo' = [todo EXCEPT ![p] = {}]
    /\ missed' = [missed EXCEPT ![p] = {}]

\* The process goes on to its next call with its loop variables as they are.
Continue(p, label) ==
    /\ Goto(p, label)
    /\ UNCHANGED <<cmd, target, snapshots, todo, missed>>

\* Provider.Destroy: the cluster is gone, or the call failed.  Idempotent.
Destroyed(s) ==
    /\ cluster' = [cluster EXCEPT ![s] = "none"]
    /\ undestroyed' = undestroyed \ {s}
    /\ UNCHANGED unwritten
DestroyFails(s) ==
    /\ "destroy" \in Faults
    /\ undestroyed' = undestroyed \cup {s}
    /\ UNCHANGED <<cluster, unwritten>>

\* Store.Remove deletes the directory, the kubeconfigs with it, or fails and
\* leaves any part of it.
Removed(s) ==
    /\ phase' = [phase EXCEPT ![s] = "none"]
    /\ minted' = minted \ {s}
    /\ UNCHANGED drawn
RemoveFails(s) ==
    /\ "remove" \in Faults
    /\ phase' \in {phase, [phase EXCEPT ![s] = "none"]}
    /\ minted' \in {minted, minted \ {s}}
    /\ UNCHANGED drawn

\* Store.Update moves a recorded session to another phase (without a record it
\* returns ErrNotFound), or fails before the rename of the new record.
Recording(s, new) ==
    /\ phase' = [phase EXCEPT ![s] = IF @ = "none" THEN @ ELSE new]
    /\ UNCHANGED infra
RecordingFails(s) ==
    /\ "update" \in Faults
    /\ UNCHANGED <<phase, cluster, undestroyed>>

-----------------------------------------------------------------------------
(* kubedrill start *)

\* Mutant: only the sessions that were armed are counted.
LiveCountArmed == Cardinality({s \in Session : phase[s] \in {"running", "verified"}})

LiveCount == Cardinality(Recorded)

\* LiveCount is 0 when the sessions cannot be listed.
BelowThreshold ==
    \/ LiveCount < Threshold
    \/ "listSessions" \in Faults /\ 0 < Threshold

\* The command counts the live sessions, refuses at the threshold unless forced
\* (a refusal changes nothing), and draws a fresh random id.
StartGate(p) ==
    /\ \/ Begin(p, "start", "create") /\ BelowThreshold
       \/ Begin(p, "force", "create")
    /\ \E s \in Session \ drawn :
         /\ drawn' = drawn \cup {s}
         /\ target' = [target EXCEPT ![p] = s]
    /\ UNCHANGED <<phase, minted, infra, snapshots, todo>>

\* Engine.Start records the session as "creating" before it touches infra, or
\* ends there.
StartCreate(p) ==
    /\ pc[p] = "create"
    /\ \/ /\ phase' = [phase EXCEPT ![target[p]] = "creating"]
          /\ Continue(p, "provision")
       \/ "update" \in Faults /\ UNCHANGED phase /\ Exit(p)
    /\ UNCHANGED <<minted, drawn, infra>>

Starting(p) == cmd[p] \in {"start", "force"}

\* Where an error of provisioning leads: Start tears down, Reset just returns.
Abandon(p) == IF Starting(p) THEN Continue(p, "failMark") ELSE Exit(p)

\* kind creates the containers; it refuses an id that already has a cluster.
ProvisionBegin(p) ==
    /\ pc[p] = "provision"
    /\ IF cluster[target[p]] = "none"
         THEN /\ cluster' = [cluster EXCEPT ![target[p]] = "booting"]
              /\ UNCHANGED <<undestroyed, unwritten>>
              /\ Continue(p, "boot")
         ELSE UNCHANGED infra /\ Abandon(p)
    /\ UNCHANGED store

\* The cluster is up and both kubeconfigs are in the session directory ...
ProvisionEnd(p) ==
    /\ pc[p] = "boot"
    /\ cluster[target[p]] # "none"
    /\ cluster' = [cluster EXCEPT ![target[p]] = "up"]
    /\ UNCHANGED <<undestroyed, unwritten>>
    /\ minted' = minted \cup {target[p]}
    /\ Continue(p, "apply")
    /\ UNCHANGED <<phase, drawn>>

\* ... or kind (or minting the engine identity) failed and the cluster was
\* deleted again, as it is when another process deleted it meanwhile.
ProvisionFails(p) ==
    /\ pc[p] = "boot"
    /\ "provision" \in Faults \/ cluster[target[p]] = "none"
    /\ Destroyed(target[p]) \/ DestroyFails(target[p])
    /\ Abandon(p)
    /\ UNCHANGED store

\* Setup, faults and readiness (for Start also enforcement and node faults)
\* need the cluster from the first call to the last.
Apply(p) ==
    /\ pc[p] = "apply"
    /\ cluster[target[p]] = "up"
    /\ Continue(p, "arm")
    /\ UNCHANGED <<store, infra>>

\* Mutant: an error of setup returns without failStart.
ApplyFailsReturns(p) ==
    /\ pc[p] = "apply"
    /\ "apply" \in Faults \/ cluster[target[p]] # "up"
    /\ Exit(p)
    /\ UNCHANGED <<store, infra>>

ApplyFails(p) ==
    /\ pc[p] = "apply"
    /\ "apply" \in Faults \/ cluster[target[p]] # "up"
    /\ Abandon(p)
    /\ UNCHANGED <<store, infra>>

\* The final Update of Start and of Reset: the session is running.  Any error of
\* it just ends the command: no failStart, so a start that could not write the
\* record leaves its session in "creating" with a live cluster.
Arm(p) ==
    /\ pc[p] = "arm"
    /\ \/ Recording(target[p], "running")
       \/ /\ RecordingFails(target[p])
          /\ unwritten' = IF Starting(p) THEN unwritten \cup {target[p]} ELSE unwritten
    /\ Exit(p)
    /\ UNCHANGED <<minted, drawn>>

\* failStart: mark, destroy, remove; each error is ignored.
FailMark(p) ==
    /\ pc[p] = "failMark"
    /\ \/ Recording(target[p], "failed")
       \/ RecordingFails(target[p]) /\ unwritten' = unwritten \cup {target[p]}
    /\ Continue(p, "failDestroy")
    /\ UNCHANGED <<minted, drawn>>

\* Mutant: failStart forgets the cluster.
FailDestroySkipped(p) ==
    /\ pc[p] = "failDestroy"
    /\ Continue(p, "failRemove")
    /\ UNCHANGED <<store, infra>>

FailDestroy(p) ==
    /\ pc[p] = "failDestroy"
    /\ Destroyed(target[p]) \/ DestroyFails(target[p])
    /\ Continue(p, "failRemove")
    /\ UNCHANGED store

FailRemove(p) ==
    /\ pc[p] = "failRemove"
    /\ Removed(target[p]) \/ RemoveFails(target[p])
    /\ Exit(p)
    /\ UNCHANGED infra

-----------------------------------------------------------------------------
(* kubedrill stop *)

\* One session the player names (it must have a record), or every listed one.
StopBegin(p) ==
    /\ \/ /\ Begin(p, "stop", "stopDestroy")
          /\ \E s \in Recorded : todo' = [todo EXCEPT ![p] = {s}]
       \/ /\ Begin(p, "stopAll", "stopDestroy")
          /\ Recorded # {}
          /\ todo' = [todo EXCEPT ![p] = Recorded]
    /\ UNCHANGED <<store, infra, target, snapshots>>

\* A failed Destroy is a warning; the loop goes on to Remove either way.
StopDestroy(p) ==
    /\ pc[p] = "stopDestroy"
    /\ \E s \in todo[p] :
         /\ target' = [target EXCEPT ![p] = s]
         /\ \/ Destroyed(s) /\ UNCHANGED missed
            \/ DestroyFails(s) /\ missed' = [missed EXCEPT ![p] = @ \cup {s}]
    /\ Goto(p, "stopRemove")
    /\ UNCHANGED <<store, cmd, snapshots, todo>>

\* A failed Remove ends the command, the sessions it has not come to untouched.
StopRemove(p) ==
    /\ pc[p] = "stopRemove"
    /\ \/ RemoveFails(target[p]) /\ Exit(p)
       \/ Removed(target[p]) /\ todo[p] = {target[p]} /\ Exit(p)
       \/ /\ Removed(target[p]) /\ todo[p] # {target[p]}
          /\ todo' = [todo EXCEPT ![p] = @ \ {target[p]}]
          /\ Goto(p, "stopDestroy")
          /\ UNCHANGED <<cmd, target, snapshots, missed>>
    /\ UNCHANGED infra

-----------------------------------------------------------------------------
(* kubedrill prune *)

PruneBegin(p) ==
    /\ Begin(p, "prune", "pruneSessions")
    /\ UNCHANGED <<store, infra, target, snapshots, todo>>

\* Mutant: a session that was verified is not listed any more.
PruneListRunning(p) ==
    /\ pc[p] = "pruneSessions"
    /\ seen' = [seen EXCEPT ![p] = {s \in Recorded : phase[s] # "verified"}]
    /\ Goto(p, "pruneClusters")
    /\ UNCHANGED <<store, infra, cmd, target, listed, todo, missed>>

\* An error of either listing counts as an empty answer.
PruneListSessions(p) ==
    /\ pc[p] = "pruneSessions"
    /\ \/ seen' = [seen EXCEPT ![p] = Recorded]
       \/ "listSessions" \in Faults /\ seen' = [seen EXCEPT ![p] = {}]
    /\ Goto(p, "pruneClusters")
    /\ UNCHANGED <<store, infra, cmd, target, listed, todo, missed>>

PruneListClusters(p) ==
    /\ pc[p] = "pruneClusters"
    /\ \/ listed' = [listed EXCEPT ![p] = Clusters]
       \/ "listClusters" \in Faults /\ listed' = [listed EXCEPT ![p] = {}]
    /\ todo' = [todo EXCEPT ![p] = listed'[p] \ seen[p]]
    /\ Goto(p, "pruneDestroy")
    /\ UNCHANGED <<store, infra, cmd, target, seen, missed>>

\* Listed clusters without a listed session are destroyed, one by one ...
PruneDestroy(p) ==
    /\ pc[p] = "pruneDestroy"
    /\ \E s \in todo[p] :
         /\ todo' = [todo EXCEPT ![p] = @ \ {s}]
         /\ \/ Destroyed(s) /\ UNCHANGED missed
            \/ DestroyFails(s) /\ missed' = [missed EXCEPT ![p] = @ \cup {s}]
    /\ UNCHANGED <<store, pc, cmd, target, snapshots>>

\* Mutant: the second loop takes the difference the wrong way round.
PruneTurnSwapped(p) ==
    /\ pc[p] = "pruneDestroy"
    /\ todo[p] = {}
    /\ todo' = [todo EXCEPT ![p] = listed[p] \ seen[p]]
    /\ Goto(p, "pruneRemove")
    /\ UNCHANGED <<store, infra, cmd, target, snapshots, missed>>

\* ... then the records of listed sessions without a listed cluster go; an error
\* of either call is ignored.
PruneTurn(p) ==
    /\ pc[p] = "pruneDestroy"
    /\ todo[p] = {}
    /\ todo' = [todo EXCEPT ![p] = seen[p] \ listed[p]]
    /\ Goto(p, "pruneRemove")
    /\ UNCHANGED <<store, infra, cmd, target, snapshots, missed>>

PruneRemove(p) ==
    /\ pc[p] = "pruneRemove"
    /\ \E s \in todo[p] :
         /\ todo' = [todo EXCEPT ![p] = @ \ {s}]
         /\ \/ Removed(s) /\ UNCHANGED missed
            \/ RemoveFails(s) /\ missed' = [missed EXCEPT ![p] = @ \cup {s}]
    /\ UNCHANGED <<infra, pc, cmd, target, snapshots>>

PruneEnd(p) ==
    /\ pc[p] = "pruneRemove"
    /\ todo[p] = {}
    /\ Exit(p)
    /\ UNCHANGED <<store, infra>>

-----------------------------------------------------------------------------
(* kubedrill reset and kubedrill verify *)

\* Both load the record first.  A fast reset reads the engine kubeconfig.
ResetBegin(p) ==
    /\ \E s \in Recorded :
         /\ \/ Begin(p, "reset", "resetFast") /\ s \in minted
            \/ Begin(p, "hardReset", "resetDestroy")
         /\ target' = [target EXCEPT ![p] = s]
    /\ UNCHANGED <<store, infra, snapshots, todo>>

\* The reset in place succeeds, or falls back to recreating the cluster.
ResetFast(p) ==
    /\ pc[p] = "resetFast"
    /\ \/ cluster[target[p]] = "up" /\ Continue(p, "arm")
       \/ /\ "apply" \in Faults \/ cluster[target[p]] # "up"
          /\ Continue(p, "resetDestroy")
    /\ UNCHANGED <<store, infra>>

\* hardReset: destroy, then provision and apply as Start does.
ResetDestroy(p) ==
    /\ pc[p] = "resetDestroy"
    /\ \/ Destroyed(target[p]) /\ Continue(p, "provision")
       \/ DestroyFails(target[p]) /\ Exit(p)
    /\ UNCHANGED store

VerifyBegin(p) ==
    /\ Begin(p, "verify", "evaluate")
    /\ \E s \in Recorded \cap minted : target' = [target EXCEPT ![p] = s]
    /\ UNCHANGED <<store, infra, snapshots, todo>>

\* Every objective can pass only against a cluster that answers.
VerifyEvaluate(p) ==
    /\ pc[p] = "evaluate"
    /\ \/ cluster[target[p]] = "up" /\ Continue(p, "recordPass")
       \/ Continue(p, "recordFail")
    /\ UNCHANGED <<store, infra>>

\* Mutant: a phase the record does not know.
VerifyRecordPassed(p) ==
    /\ pc[p] \in {"recordPass", "recordFail"}
    /\ phase' = [phase EXCEPT ![target[p]] = IF pc[p] = "recordPass" THEN "passed" ELSE @]
    /\ Exit(p)
    /\ UNCHANGED <<minted, drawn, infra>>

VerifyRecord(p) ==
    /\ pc[p] \in {"recordPass", "recordFail"}
    /\ \/ phase' = [phase EXCEPT ![target[p]] =
                      IF pc[p] = "recordPass" /\ @ # "none" THEN "verified" ELSE @]
       \/ "update" \in Faults /\ UNCHANGED phase
    /\ Exit(p)
    /\ UNCHANGED <<minted, drawn, infra>>

-----------------------------------------------------------------------------

\* Ctrl-C, a kill or a reboot ends a process between two of its calls.
Crash(p) ==
    /\ "crash" \in Faults
    /\ pc[p] # "idle"
    /\ Exit(p)
    /\ UNCHANGED <<store, infra>>

Start(p) ==
    \/ StartCreate(p)
    \/ ProvisionBegin(p) \/ ProvisionEnd(p) \/ ProvisionFails(p)
    \/ Apply(p) \/ ApplyFails(p) \/ Arm(p)
    \/ FailMark(p) \/ FailDestroy(p) \/ FailRemove(p)

Stop(p) == StopDestroy(p) \/ StopRemove(p)

Prune(p) ==
    \/ PruneListSessions(p) \/ PruneListClusters(p)
    \/ PruneDestroy(p) \/ PruneTurn(p) \/ PruneRemove(p) \/ PruneEnd(p)

Reset(p) == ResetFast(p) \/ ResetDestroy(p)

Verify(p) == VerifyEvaluate(p) \/ VerifyRecord(p)

Issue(p) ==
    \/ StartGate(p) \/ StopBegin(p) \/ PruneBegin(p)
    \/ ResetBegin(p) \/ VerifyBegin(p)

Step(p) ==
    /\ Start(p) \/ Stop(p) \/ Prune(p) \/ Reset(p) \/ Verify(p)
    /\ Track(p)

Next == \E p \in Proc : Step(p) \/ ((Issue(p) \/ Crash(p)) /\ Track(p))

Spec == Init /\ [][Next]_vars

\* A process that has a call to make makes it: every wait in the code is
\* bounded by a deadline.  Nobody has to issue a command.
FairSpec == Spec /\ \A p \in Proc : WF_vars(Step(p))

-----------------------------------------------------------------------------
(* Properties *)

\* No cluster without a record, except one whose Destroy has just failed:
\* Start writes the record before it creates the cluster and every removal
\* deletes the cluster first, so a killed command leaves at worst a record
\* without a cluster, which LiveCount still counts.  For one command at a
\* time, when both listings answer.
ClusterHasRecord == Clusters \ undestroyed \subseteq Recorded

\* A player who never forces never owns more clusters than the threshold, apart
\* from those that Destroy could not delete, even when commands are killed half
\* way.  Under the same conditions.
ClustersBelowThreshold == Cardinality(Clusters \ undestroyed) <= Threshold

\* What prune promises: when it is done, a cluster exists exactly for the
\* sessions on record, except where its own Destroy or Remove just failed;
\* whatever earlier commands, killed or failed, left behind.  For one command at
\* a time.
PruneReconciles ==
    \A p \in Proc :
        pc[p] = "pruneRemove" /\ todo[p] = {} =>
            Clusters \ missed[p] = Recorded \ missed[p]

\* Prune takes neither the cluster nor the record of a session that has been
\* playable ever since prune began, whatever the other processes do meanwhile.
\* Both listings must have answered.
PruneSparesPlayable ==
    [][\A p \in Proc :
         /\ PruneDestroy(p) => \A s \in settled[p] : cluster'[s] = cluster[s]
         /\ PruneRemove(p) => \A s \in settled[p] : phase'[s] = phase[s]]_vars

\* A start that is not killed does not leave its session in "creating", unless
\* it could not write how it ended: it arms the session, fails and marks or
\* removes it, or finds it removed by another.
StartSettles ==
    \A s \in Session :
        phase[s] = "creating" ~> phase[s] # "creating" \/ s \in unwritten

\* The comment of pruneOrphans: it "removes session dirs whose cluster is
\* already gone".
PruneRemovesOnlyGone ==
    [][\A p \in Proc : PruneRemove(p) =>
         \A s \in Session : phase'[s] # phase[s] => cluster[s] = "none"]_vars
=============================================================================
