--------------------------- MODULE LifecycleProofs ---------------------------
(***************************************************************************)
(* What TLAPS proves about Lifecycle for every set of sessions, every set  *)
(* of processes and every threshold.                                       *)
(***************************************************************************)
EXTENDS Lifecycle, FiniteSetTheorems, TLAPS

\* The calls that read or write the session the process works on.
Targeted ==
    {"create", "provision", "boot", "apply", "arm", "failMark", "failDestroy",
     "failRemove", "stopRemove", "resetFast", "resetDestroy", "evaluate",
     "recordPass", "recordFail"}

TargetOK == \A p \in Proc : pc[p] \in Targeted => target[p] \in Session

USE DEF infra

-----------------------------------------------------------------------------
(* Types *)

\* How a step leaves the local variables of the processes well typed.
LEMMA ContinueType ==
    ASSUME TypeOK, NEW p \in Proc, NEW l \in Label, Continue(p, l)
    PROVE  /\ pc' \in [Proc -> Label]
           /\ cmd' \in [Proc -> CommandKinds \cup {"none"}]
           /\ target' \in [Proc -> Session \cup {NoSession}]
           /\ seen' \in [Proc -> SUBSET Session]
           /\ listed' \in [Proc -> SUBSET Session]
           /\ todo' \in [Proc -> SUBSET Session]
           /\ missed' \in [Proc -> SUBSET Session]
  BY DEF TypeOK, Continue, Goto, snapshots

\* A process that ends its command keeps the types.
LEMMA ExitType ==
    ASSUME TypeOK, NEW p \in Proc, Exit(p)
    PROVE  /\ pc' \in [Proc -> Label]
           /\ cmd' \in [Proc -> CommandKinds \cup {"none"}]
           /\ target' \in [Proc -> Session \cup {NoSession}]
           /\ seen' \in [Proc -> SUBSET Session]
           /\ listed' \in [Proc -> SUBSET Session]
           /\ todo' \in [Proc -> SUBSET Session]
           /\ missed' \in [Proc -> SUBSET Session]
  BY DEF TypeOK, Exit, Goto, Label

\* So does one that begins a command, ...
LEMMA BeginType ==
    ASSUME TypeOK, NEW p \in Proc, NEW c, NEW l \in Label, Begin(p, c, l)
    PROVE  /\ pc' \in [Proc -> Label]
           /\ cmd' \in [Proc -> CommandKinds \cup {"none"}]
           /\ missed' \in [Proc -> SUBSET Session]
  BY LifecycleAssumption DEF TypeOK, Begin, Goto

\* ... the record of who stayed playable, ...
LEMMA TrackType ==
    ASSUME NEW p \in Proc, Track(p)
    PROVE  settled' \in [Proc -> SUBSET Session]
  BY DEF Track, Playable

\* ... and a process that is killed.
LEMMA AbandonType ==
    ASSUME TypeOK, NEW p \in Proc, Abandon(p)
    PROVE  /\ pc' \in [Proc -> Label]
           /\ cmd' \in [Proc -> CommandKinds \cup {"none"}]
           /\ target' \in [Proc -> Session \cup {NoSession}]
           /\ seen' \in [Proc -> SUBSET Session]
           /\ listed' \in [Proc -> SUBSET Session]
           /\ todo' \in [Proc -> SUBSET Session]
           /\ missed' \in [Proc -> SUBSET Session]
  BY ContinueType, ExitType DEF Abandon, Starting, Label

\* A process that goes on keeps a target where its next call needs one.
LEMMA TargetStep ==
    ASSUME TypeOK, TargetOK, [Next]_vars
    PROVE  TargetOK'
<1>1. CASE UNCHANGED vars
  BY <1>1 DEF TargetOK, vars
<1>2. ASSUME NEW p \in Proc, Start(p)
      PROVE  TargetOK'
  BY <1>2 DEF TargetOK, TypeOK, Start, StartCreate, ProvisionBegin, ProvisionEnd,
     ProvisionFails, Apply, ApplyFails, Arm, FailMark, Recording, RecordingFails, FailDestroy, FailRemove,
     Continue, Exit, Abandon, Starting, Goto, Targeted, snapshots
<1>3. ASSUME NEW p \in Proc, Stop(p)
      PROVE  TargetOK'
  BY <1>3 DEF TargetOK, TypeOK, Stop, StopDestroy, StopRemove, Exit, Goto,
     Targeted, snapshots
<1>4. ASSUME NEW p \in Proc, Prune(p)
      PROVE  TargetOK'
  BY <1>4 DEF TargetOK, TypeOK, Prune, PruneListSessions, PruneListClusters,
     PruneDestroy, PruneTurn, PruneRemove, PruneEnd, Exit, Goto, Targeted, snapshots
<1>5. ASSUME NEW p \in Proc, Reset(p) \/ Verify(p) \/ Crash(p)
      PROVE  TargetOK'
  BY <1>5 DEF TargetOK, TypeOK, Reset, ResetFast, ResetDestroy, Verify,
     VerifyEvaluate, VerifyRecord, Crash, Continue, Exit, Goto, Targeted, snapshots
<1>6. ASSUME NEW p \in Proc, Issue(p)
      PROVE  TargetOK'
  BY <1>6 DEF TargetOK, TypeOK, Issue, StartGate, StopBegin, PruneBegin, ResetBegin,
     VerifyBegin, Begin, Goto, Targeted, Recorded, snapshots
<1>7. QED
  BY <1>1, <1>2, <1>3, <1>4, <1>5, <1>6 DEF Next, Step

\* Removing a record keeps the types of the store, ...
LEMMA StoreType ==
    ASSUME TypeOK, NEW s \in Session, Removed(s) \/ RemoveFails(s)
    PROVE  phase' \in [Session -> Phase] /\ minted' \subseteq Session /\ drawn' \subseteq Session
  BY DEF TypeOK, Removed, RemoveFails, Phase

\* ... and destroying a cluster those of the clusters.
LEMMA ClusterType ==
    ASSUME TypeOK, NEW s \in Session, Destroyed(s) \/ DestroyFails(s)
    PROVE  /\ cluster' \in [Session -> ClusterState]
           /\ undestroyed' \subseteq Session /\ unwritten' \subseteq Session
  BY DEF TypeOK, Destroyed, DestroyFails, ClusterState

\* TypeOK is preserved by every step from a state in which targets are sound.
LEMMA TypeStep ==
    ASSUME TypeOK, TargetOK, [Next]_vars
    PROVE  TypeOK'
<1>1. CASE UNCHANGED vars
  BY <1>1 DEF TypeOK, vars
<1>2. ASSUME NEW p \in Proc, Start(p), Track(p)
      PROVE  TypeOK'
  <2>. settled' \in [Proc -> SUBSET Session]
    BY <1>2, TrackType
  <2>1. CASE StartCreate(p)
    <3>1. "provision" \in Label
      BY DEF Label
    <3>. QED  BY <2>1, <3>1, ContinueType, ExitType DEF StartCreate, TypeOK, Phase
  <2>2. CASE ProvisionBegin(p)
    <3>1. \/ Continue(p, "boot") /\ cluster' = [cluster EXCEPT ![target[p]] = "booting"]
             /\ UNCHANGED <<undestroyed, unwritten>>
          \/ Abandon(p) /\ UNCHANGED <<cluster, undestroyed, unwritten>>
      BY <2>2 DEF ProvisionBegin
    <3>2. "boot" \in Label
      BY DEF Label
    <3>. QED  BY <2>2, <3>1, <3>2, ContinueType, AbandonType
              DEF ProvisionBegin, TypeOK, store, ClusterState
  <2>3. CASE ProvisionEnd(p)
    <3>1. Continue(p, "apply") /\ "apply" \in Label /\ target[p] \in Session
      BY <2>3 DEF ProvisionEnd, Label, TargetOK, Targeted
    <3>. QED  BY <2>3, <3>1, ContinueType DEF ProvisionEnd, TypeOK, ClusterState
  <2>4. CASE ProvisionFails(p)
    <3>1. target[p] \in Session
      BY <2>4 DEF ProvisionFails, TargetOK, Targeted
    <3>. QED  BY <2>4, <3>1, AbandonType, ClusterType DEF ProvisionFails, TypeOK, store
  <2>5. CASE Apply(p)
    <3>1. Continue(p, "arm") /\ "arm" \in Label
      BY <2>5 DEF Apply, Label
    <3>. QED  BY <2>5, <3>1, ContinueType DEF Apply, TypeOK, store
  <2>6. CASE ApplyFails(p)
    BY <2>6, AbandonType DEF ApplyFails, TypeOK, store
  <2>7. CASE Arm(p)
    <3>1. target[p] \in Session
      BY <2>7 DEF Arm, TargetOK, Targeted
    <3>. QED  BY <2>7, <3>1, ExitType DEF Arm, Recording, RecordingFails, TypeOK, Phase
  <2>8. CASE FailMark(p)
    <3>1. Continue(p, "failDestroy") /\ "failDestroy" \in Label /\ target[p] \in Session
      BY <2>8 DEF FailMark, Label, TargetOK, Targeted
    <3>. QED  BY <2>8, <3>1, ContinueType
              DEF FailMark, Recording, RecordingFails, TypeOK, Phase
  <2>9. CASE FailDestroy(p)
    <3>1. Continue(p, "failRemove") /\ "failRemove" \in Label /\ target[p] \in Session
      BY <2>9 DEF FailDestroy, Label, TargetOK, Targeted
    <3>. QED  BY <2>9, <3>1, ContinueType, ClusterType DEF FailDestroy, TypeOK, store
  <2>10. CASE FailRemove(p)
    <3>1. target[p] \in Session
      BY <2>10 DEF FailRemove, TargetOK, Targeted
    <3>. QED  BY <2>10, <3>1, ExitType, StoreType DEF FailRemove, TypeOK
  <2>. QED
    BY <1>2, <2>1, <2>2, <2>3, <2>4, <2>5, <2>6, <2>7, <2>8, <2>9, <2>10 DEF Start
<1>3. ASSUME NEW p \in Proc, Stop(p), Track(p)
      PROVE  TypeOK'
  <2>. settled' \in [Proc -> SUBSET Session]
    BY <1>3, TrackType
  <2>1. CASE StopDestroy(p)
    <3>1. PICK s \in todo[p] :
            /\ target' = [target EXCEPT ![p] = s]
            /\ \/ Destroyed(s) /\ UNCHANGED missed
               \/ DestroyFails(s) /\ missed' = [missed EXCEPT ![p] = @ \cup {s}]
      BY <2>1 DEF StopDestroy
    <3>2. s \in Session
      BY DEF TypeOK
    <3>3. /\ cluster' \in [Session -> ClusterState]
          /\ undestroyed' \subseteq Session /\ unwritten' \subseteq Session
      BY <3>1, <3>2, ClusterType
    <3>. QED  BY <2>1, <3>1, <3>2, <3>3
              DEF StopDestroy, TypeOK, Goto, Label, store, snapshots
  <2>2. CASE StopRemove(p)
    <3>1. target[p] \in Session
      BY <2>2 DEF StopRemove, TargetOK, Targeted
    <3>2. CASE Exit(p)
      BY <2>2, <3>1, <3>2, ExitType, StoreType DEF StopRemove, TypeOK
    <3>3. CASE ~Exit(p)
      BY <2>2, <3>1, <3>3, StoreType DEF StopRemove, TypeOK, Goto, Label, snapshots
    <3>. QED  BY <2>2, <3>2, <3>3 DEF StopRemove
  <2>. QED  BY <1>3, <2>1, <2>2 DEF Stop
<1>4. ASSUME NEW p \in Proc, Prune(p), Track(p)
      PROVE  TypeOK'
  <2>. settled' \in [Proc -> SUBSET Session]
    BY <1>4, TrackType
  <2>1. CASE PruneListSessions(p)
    BY <2>1 DEF PruneListSessions, TypeOK, Goto, Label, store, Recorded
  <2>2. CASE PruneListClusters(p)
    BY <2>2 DEF PruneListClusters, TypeOK, Goto, Label, store, Clusters
  <2>3. CASE PruneDestroy(p)
    <3>1. PICK s \in todo[p] :
            /\ todo' = [todo EXCEPT ![p] = @ \ {s}]
            /\ \/ Destroyed(s) /\ UNCHANGED missed
               \/ DestroyFails(s) /\ missed' = [missed EXCEPT ![p] = @ \cup {s}]
      BY <2>3 DEF PruneDestroy
    <3>2. s \in Session
      BY DEF TypeOK
    <3>3. /\ cluster' \in [Session -> ClusterState]
          /\ undestroyed' \subseteq Session /\ unwritten' \subseteq Session
      BY <3>1, <3>2, ClusterType
    <3>. QED  BY <2>3, <3>1, <3>2, <3>3 DEF PruneDestroy, TypeOK, store, snapshots
  <2>4. CASE PruneTurn(p)
    BY <2>4 DEF PruneTurn, TypeOK, Goto, Label, store, snapshots
  <2>5. CASE PruneRemove(p)
    <3>1. PICK s \in todo[p] :
            /\ todo' = [todo EXCEPT ![p] = @ \ {s}]
            /\ \/ Removed(s) /\ UNCHANGED missed
               \/ RemoveFails(s) /\ missed' = [missed EXCEPT ![p] = @ \cup {s}]
      BY <2>5 DEF PruneRemove
    <3>2. s \in Session
      BY DEF TypeOK
    <3>3. phase' \in [Session -> Phase] /\ minted' \subseteq Session /\ drawn' \subseteq Session
      BY <3>1, <3>2, StoreType
    <3>. QED  BY <2>5, <3>1, <3>2, <3>3 DEF PruneRemove, TypeOK, snapshots
  <2>6. CASE PruneEnd(p)
    BY <2>6, ExitType DEF PruneEnd, TypeOK, store
  <2>. QED  BY <1>4, <2>1, <2>2, <2>3, <2>4, <2>5, <2>6 DEF Prune
<1>5. ASSUME NEW p \in Proc, Reset(p) \/ Verify(p) \/ Crash(p), Track(p)
      PROVE  TypeOK'
  <2>. settled' \in [Proc -> SUBSET Session]
    BY <1>5, TrackType
  <2>. {"arm", "resetDestroy", "provision", "recordPass", "recordFail"} \subseteq Label
    BY DEF Label
  <2>1. CASE ResetFast(p)
    BY <2>1, ContinueType DEF ResetFast, TypeOK, store
  <2>2. CASE ResetDestroy(p)
    <3>1. target[p] \in Session
      BY <2>2 DEF ResetDestroy, TargetOK, Targeted
    <3>. QED  BY <2>2, <3>1, ContinueType, ExitType, ClusterType
              DEF ResetDestroy, TypeOK, store
  <2>3. CASE VerifyEvaluate(p)
    BY <2>3, ContinueType DEF VerifyEvaluate, TypeOK, store
  <2>4. CASE VerifyRecord(p)
    BY <2>4, ExitType DEF VerifyRecord, TypeOK, Phase
  <2>5. CASE Crash(p)
    BY <2>5, ExitType DEF Crash, TypeOK, store
  <2>. QED  BY <1>5, <2>1, <2>2, <2>3, <2>4, <2>5 DEF Reset, Verify
<1>6. ASSUME NEW p \in Proc, Issue(p), Track(p)
      PROVE  TypeOK'
  <2>. settled' \in [Proc -> SUBSET Session]
    BY <1>6, TrackType
  <2>. {"create", "stopDestroy", "pruneSessions", "resetFast", "resetDestroy", "evaluate"}
         \subseteq Label
    BY DEF Label
  <2>1. CASE StartGate(p)
    BY <2>1, BeginType DEF StartGate, TypeOK, store, snapshots
  <2>2. CASE StopBegin(p)
    BY <2>2, BeginType DEF StopBegin, TypeOK, store, snapshots, Recorded
  <2>3. CASE PruneBegin(p)
    BY <2>3, BeginType DEF PruneBegin, TypeOK, store, snapshots
  <2>4. CASE ResetBegin(p)
    BY <2>4, BeginType DEF ResetBegin, TypeOK, store, snapshots, Recorded
  <2>5. CASE VerifyBegin(p)
    BY <2>5, BeginType DEF VerifyBegin, TypeOK, store, snapshots, Recorded
  <2>. QED  BY <1>6, <2>1, <2>2, <2>3, <2>4, <2>5 DEF Issue
<1>7. QED
  BY <1>1, <1>2, <1>3, <1>4, <1>5, <1>6 DEF Next, Step

\* Type correctness: every reachable state has the shape the code's data has,
\* and a process about to touch a session has one to touch.
THEOREM TypeCorrect == Spec => [](TypeOK /\ TargetOK)
<1>1. Init => TypeOK /\ TargetOK
  BY DEF Init, TypeOK, TargetOK, Targeted, Phase, ClusterState, Label
<1>2. TypeOK /\ TargetOK /\ [Next]_vars => (TypeOK /\ TargetOK)'
  BY TypeStep, TargetStep
<1>3. QED
  BY <1>1, <1>2, PTL DEF Spec

-----------------------------------------------------------------------------
(* Prune beside other processes *)

\* The condition under which prune may be trusted: both listings answer.
ListingsAnswer == Faults \cap {"listSessions", "listClusters"} = {}

\* Why prune spares them: a session playable ever since prune began is in both
\* snapshots, hence in neither of the two lists prune works off.
PruneInv ==
    \A p \in Proc :
        /\ settled[p] \subseteq Playable
        /\ pc[p] = "pruneClusters" => settled[p] \subseteq seen[p]
        /\ pc[p] = "pruneDestroy" =>
             /\ settled[p] \subseteq seen[p] \cap listed[p]
             /\ todo[p] \cap settled[p] = {}
        /\ pc[p] = "pruneRemove" => todo[p] \cap settled[p] = {}

\* A step of one process leaves the local variables of the others alone.
LEMMA Locality ==
    ASSUME TypeOK, NEW p \in Proc, NEW q \in Proc, q # p,
           Issue(p) \/ Step(p) \/ Crash(p)
    PROVE  /\ pc'[q] = pc[q] /\ target'[q] = target[q] /\ seen'[q] = seen[q]
           /\ listed'[q] = listed[q] /\ todo'[q] = todo[q]
<1>1. CASE Issue(p)
  BY <1>1 DEF TypeOK, Issue, StartGate, StopBegin, PruneBegin, ResetBegin,
     VerifyBegin, Begin, Goto, snapshots
<1>2. CASE Start(p)
  BY <1>2 DEF TypeOK, Start, StartCreate, ProvisionBegin, ProvisionEnd,
     ProvisionFails, Apply, ApplyFails, Arm, FailMark, Recording, RecordingFails, FailDestroy, FailRemove,
     Continue, Exit, Abandon, Starting, Goto, snapshots
<1>3. CASE Stop(p) \/ Prune(p)
  BY <1>3 DEF TypeOK, Stop, StopDestroy, StopRemove, Prune, PruneListSessions,
     PruneListClusters, PruneDestroy, PruneTurn, PruneRemove, PruneEnd, Exit,
     Goto, snapshots
<1>4. CASE Reset(p) \/ Verify(p) \/ Crash(p)
  BY <1>4 DEF TypeOK, Reset, ResetFast, ResetDestroy, Verify, VerifyEvaluate,
     VerifyRecord, Crash, Continue, Exit, Goto, snapshots
<1>. QED  BY <1>1, <1>2, <1>3, <1>4 DEF Step

\* A running command only loses settled sessions, and those it has are playable.
LEMMA TrackShrinks ==
    ASSUME NEW p \in Proc, NEW q \in Proc, Track(p)
    PROVE  /\ settled'[q] \subseteq Playable'
           /\ q # p \/ pc[p] # "idle" => settled'[q] \subseteq settled[q]
  BY DEF Track

\* Every step keeps what prune relies on.
LEMMA PruneStep ==
    ASSUME ListingsAnswer, TypeOK, PruneInv, [Next]_vars
    PROVE  PruneInv'
<1>1. CASE UNCHANGED vars
  BY <1>1 DEF PruneInv, Playable, vars
<1>2. ASSUME NEW p \in Proc, Issue(p) \/ Step(p) \/ Crash(p), Track(p)
      PROVE  PruneInv'
  <2>. SUFFICES ASSUME NEW q \in Proc
                PROVE  /\ (settled[q] \subseteq Playable)'
                       /\ (pc[q] = "pruneClusters" => settled[q] \subseteq seen[q])'
                       /\ (pc[q] = "pruneDestroy" =>
                             /\ settled[q] \subseteq seen[q] \cap listed[q]
                             /\ todo[q] \cap settled[q] = {})'
                       /\ (pc[q] = "pruneRemove" => todo[q] \cap settled[q] = {})'
    BY DEF PruneInv
  <2>0. settled'[q] \subseteq Playable'
    BY <1>2, TrackShrinks
  <2>1. CASE q # p
    <3>1. settled'[q] \subseteq settled[q]
      BY <1>2, <2>1, TrackShrinks
    <3>. QED  BY <1>2, <2>0, <2>1, <3>1, Locality DEF PruneInv
  <2>2. CASE q = p /\ Prune(p)
    <3>1. pc[p] # "idle"
      BY <2>2 DEF Prune, PruneListSessions, PruneListClusters, PruneDestroy,
         PruneTurn, PruneRemove, PruneEnd
    <3>2. settled'[p] \subseteq settled[p] /\ settled[p] \subseteq Playable
      BY <1>2, <3>1, TrackShrinks DEF PruneInv
    <3>3. CASE PruneListSessions(p)
      <4>1. seen'[p] = Recorded /\ pc'[p] = "pruneClusters"
        BY <3>3 DEF PruneListSessions, ListingsAnswer, Goto, TypeOK
      <4>2. Playable \subseteq Recorded
        BY DEF Playable, Recorded
      <4>. QED  BY <2>0, <2>2, <3>2, <4>1, <4>2
    <3>4. CASE PruneListClusters(p)
      <4>1. /\ listed'[p] = Clusters /\ pc'[p] = "pruneDestroy"
            /\ todo'[p] = Clusters \ seen[p] /\ seen'[p] = seen[p]
        BY <3>4 DEF PruneListClusters, ListingsAnswer, Goto, TypeOK
      <4>2. Playable \subseteq Clusters
        BY DEF Playable, Clusters
      <4>3. settled[p] \subseteq seen[p]
        BY <3>4 DEF PruneListClusters, PruneInv
      <4>. QED  BY <2>0, <2>2, <3>2, <4>1, <4>2, <4>3
    <3>5. CASE PruneDestroy(p)
      <4>1. /\ todo'[p] \subseteq todo[p] /\ pc'[p] = pc[p] /\ pc[p] = "pruneDestroy"
            /\ seen'[p] = seen[p] /\ listed'[p] = listed[p]
        BY <3>5 DEF PruneDestroy, TypeOK, snapshots
      <4>. QED  BY <2>0, <2>2, <3>2, <4>1 DEF PruneInv
    <3>6. CASE PruneTurn(p)
      <4>1. /\ todo'[p] = seen[p] \ listed[p] /\ pc'[p] = "pruneRemove"
            /\ pc[p] = "pruneDestroy"
        BY <3>6 DEF PruneTurn, Goto, TypeOK
      <4>. QED  BY <2>0, <2>2, <3>2, <4>1 DEF PruneInv
    <3>7. CASE PruneRemove(p)
      <4>1. todo'[p] \subseteq todo[p] /\ pc'[p] = pc[p] /\ pc[p] = "pruneRemove"
        BY <3>7 DEF PruneRemove, TypeOK
      <4>. QED  BY <2>0, <2>2, <3>2, <4>1 DEF PruneInv
    <3>8. CASE PruneEnd(p)
      BY <2>0, <2>2, <3>8 DEF PruneEnd, Exit, Goto, TypeOK
    <3>. QED  BY <2>2, <3>3, <3>4, <3>5, <3>6, <3>7, <3>8 DEF Prune
  <2>3. CASE q = p /\ ~Prune(p)
    <3>1. pc'[p] \notin {"pruneClusters", "pruneDestroy", "pruneRemove"}
      BY <1>2, <2>3 DEF TypeOK, Step, Start, StartCreate, ProvisionBegin,
         ProvisionEnd, ProvisionFails, Apply, ApplyFails, Arm, FailMark,
         FailDestroy, FailRemove, Stop, StopDestroy, StopRemove, Reset, ResetFast,
         ResetDestroy, Verify, VerifyEvaluate, VerifyRecord, Crash, Issue,
         StartGate, StopBegin, PruneBegin, ResetBegin, VerifyBegin, Begin,
         Continue, Exit, Abandon, Starting, Goto
    <3>. QED  BY <2>0, <2>3, <3>1
  <2>. QED  BY <2>1, <2>2, <2>3
<1>. QED  BY <1>1, <1>2 DEF Next, Step

\* Prune never takes the cluster or the record of a session that has been
\* playable since prune began, whatever other processes do and whatever fails,
\* as long as both of its listings answer.
THEOREM PruneIsSafe == ListingsAnswer => (Spec => PruneSparesPlayable)
<1>. SUFFICES ASSUME ListingsAnswer PROVE Spec => PruneSparesPlayable
  OBVIOUS
<1>1. Init => PruneInv
  BY DEF Init, PruneInv
<1>2. TypeOK /\ PruneInv /\ [Next]_vars => PruneInv'
  BY PruneStep
<1>3. ASSUME TypeOK, PruneInv, NEW p \in Proc
      PROVE  /\ PruneDestroy(p) => \A s \in settled[p] : cluster'[s] = cluster[s]
             /\ PruneRemove(p) => \A s \in settled[p] : phase'[s] = phase[s]
  <2>1. ASSUME PruneDestroy(p), NEW s \in settled[p]
        PROVE  cluster'[s] = cluster[s]
    <3>1. todo[p] \cap settled[p] = {}
      BY <1>3, <2>1 DEF PruneDestroy, PruneInv
    <3>2. PICK d \in todo[p] : Destroyed(d) \/ DestroyFails(d)
      BY <2>1 DEF PruneDestroy
    <3>. QED  BY <1>3, <2>1, <3>1, <3>2 DEF Destroyed, DestroyFails, TypeOK
  <2>2. ASSUME PruneRemove(p), NEW s \in settled[p]
        PROVE  phase'[s] = phase[s]
    <3>1. todo[p] \cap settled[p] = {}
      BY <1>3, <2>2 DEF PruneRemove, PruneInv
    <3>2. PICK d \in todo[p] : Removed(d) \/ RemoveFails(d)
      BY <2>2 DEF PruneRemove
    <3>. QED  BY <1>3, <2>2, <3>1, <3>2 DEF Removed, RemoveFails, TypeOK
  <2>. QED  BY <2>1, <2>2
<1>4. TypeOK /\ PruneInv /\ [Next]_vars =>
        [\A p \in Proc :
           /\ PruneDestroy(p) => \A s \in settled[p] : cluster'[s] = cluster[s]
           /\ PruneRemove(p) => \A s \in settled[p] : phase'[s] = phase[s]]_vars
  BY <1>3
<1>. QED
  BY <1>1, <1>2, <1>4, TypeCorrect, PTL DEF Spec, PruneSparesPlayable

-----------------------------------------------------------------------------
(* One command at a time *)

\* The player waits for each command to end, and Destroy and the listings
\* succeed; commands may be killed, and provisioning may fail.
OneAtATime ==
    /\ ~Overlap
    /\ Faults \cap {"listSessions", "listClusters"} = {}

\* At most one process runs, and it is always on the safe side: the record is
\* there before the cluster is made, the cluster gone before the record is.
SequentialInv ==
    /\ \A p, q \in Proc : pc[p] # "idle" /\ pc[q] # "idle" => p = q
    /\ Clusters \ undestroyed \subseteq Recorded
    /\ \A p \in Proc :
         /\ pc[p] \in {"provision", "resetFast", "resetDestroy"}
              => target[p] \in Recorded
         /\ pc[p] \in {"failRemove", "stopRemove"} => target[p] \notin Clusters \ undestroyed
         /\ pc[p] = "pruneDestroy" => (seen[p] \ listed[p]) \cap Clusters = {}
         /\ pc[p] = "pruneRemove" => todo[p] \cap Clusters = {}

\* What is left to show of a step of p when the other processes are idle.
LEMMA SequentialBy ==
    ASSUME TypeOK, SequentialInv, NEW p \in Proc,
           Issue(p) \/ Step(p) \/ Crash(p),
           \A q \in Proc : q # p => pc[q] = "idle",
           (Clusters \ undestroyed)' \subseteq Recorded',
           pc'[p] \in {"provision", "resetFast", "resetDestroy"}
             => target'[p] \in Recorded',
           pc'[p] \in {"failRemove", "stopRemove"} => target'[p] \notin (Clusters \ undestroyed)',
           pc'[p] = "pruneDestroy" => (seen'[p] \ listed'[p]) \cap Clusters' = {},
           pc'[p] = "pruneRemove" => todo'[p] \cap Clusters' = {}
    PROVE  SequentialInv'
<1>1. \A q \in Proc : q # p => pc'[q] = "idle"
  BY Locality
<1>. QED  BY <1>1 DEF SequentialInv

\* With one command at a time the others are idle while one runs.
LEMMA OthersIdle ==
    ASSUME OneAtATime, SequentialInv, NEW p \in Proc, Issue(p) \/ Step(p) \/ Crash(p)
    PROVE  \A q \in Proc : q # p => pc[q] = "idle"
<1>1. CASE Issue(p)
  BY <1>1 DEF Issue, StartGate, StopBegin, PruneBegin, ResetBegin, VerifyBegin,
     Begin, OneAtATime
<1>2. CASE Step(p) \/ Crash(p)
  <2>1. pc[p] # "idle"
    BY <1>2 DEF Step, Crash, Start, StartCreate, ProvisionBegin, ProvisionEnd,
       ProvisionFails, Apply, ApplyFails, Arm, FailMark, Recording, RecordingFails, FailDestroy, FailRemove,
       Stop, StopDestroy, StopRemove, Prune, PruneListSessions, PruneListClusters,
       PruneDestroy, PruneTurn, PruneRemove, PruneEnd, Reset, ResetFast,
       ResetDestroy, Verify, VerifyEvaluate, VerifyRecord
  <2>. QED  BY <2>1 DEF SequentialInv
<1>. QED  BY <1>1, <1>2

\* Every step keeps what a command may assume of record and cluster.
LEMMA SequentialStep ==
    ASSUME OneAtATime, TypeOK, TargetOK, SequentialInv, [Next]_vars
    PROVE  SequentialInv'
<1>1. CASE UNCHANGED vars
  BY <1>1 DEF SequentialInv, Clusters, Recorded, vars
<1>2. ASSUME NEW p \in Proc, Issue(p) \/ Step(p) \/ Crash(p)
      PROVE  \A q \in Proc : q # p => pc[q] = "idle"
  BY <1>2, OthersIdle
<1>3. ASSUME NEW p \in Proc, Issue(p)
      PROVE  SequentialInv'
  <2>1. (Clusters \ undestroyed)' \subseteq Recorded'
    BY <1>3 DEF SequentialInv, Issue, StartGate, StopBegin, PruneBegin, ResetBegin,
       VerifyBegin, Clusters, Recorded, store
  <2>2. /\ pc'[p] \in {"create", "stopDestroy", "pruneSessions", "evaluate",
                       "resetFast", "resetDestroy"}
        /\ pc'[p] \in {"resetFast", "resetDestroy"} => target'[p] \in Recorded'
    BY <1>3 DEF TypeOK, Issue, StartGate, StopBegin, PruneBegin, ResetBegin,
       VerifyBegin, Begin, Goto, Recorded, store
  <2>. QED  BY <1>2, <1>3, <2>1, <2>2, SequentialBy
<1>4. ASSUME NEW p \in Proc, Step(p), Start(p)
      PROVE  SequentialInv'
  <2>. target[p] \in Session
    BY <1>4 DEF TargetOK, Targeted, Start, StartCreate, ProvisionBegin,
       ProvisionEnd, ProvisionFails, Apply, ApplyFails, Arm, FailMark, FailDestroy,
       FailRemove
  <2>1. CASE StartCreate(p)
    <3>1. /\ (Clusters \ undestroyed)' \subseteq Recorded'
          /\ \/ target'[p] \in Recorded' /\ pc'[p] = "provision"
             \/ pc'[p] = "idle"
      BY <2>1 DEF StartCreate, SequentialInv, TypeOK, Clusters, Recorded, Continue, Exit, Goto
    <3>. QED  BY <1>2, <1>4, <3>1, SequentialBy
  <2>2. CASE ProvisionBegin(p)
    <3>1. (Clusters \ undestroyed)' \subseteq Recorded'
      BY <2>2 DEF ProvisionBegin, SequentialInv, TypeOK, Clusters, Recorded, store
    <3>2. pc'[p] \in {"boot", "failMark", "idle"}
      BY <2>2 DEF ProvisionBegin, TypeOK, Abandon, Starting, Continue, Exit, Goto
    <3>. QED  BY <1>2, <1>4, <3>1, <3>2, SequentialBy
  <2>3. CASE ProvisionEnd(p) \/ ProvisionFails(p)
    <3>1. (Clusters \ undestroyed)' \subseteq Recorded'
      BY <2>3 DEF ProvisionEnd, ProvisionFails, SequentialInv, TypeOK, Clusters,
         Recorded, store, Destroyed, DestroyFails
    <3>2. pc'[p] \in {"apply", "failMark", "idle"}
      BY <2>3 DEF ProvisionEnd, ProvisionFails, TypeOK, Abandon, Starting, Continue, Exit, Goto
    <3>. QED  BY <1>2, <1>4, <3>1, <3>2, SequentialBy
  <2>4. CASE Apply(p) \/ ApplyFails(p)
    <3>1. (Clusters \ undestroyed)' \subseteq Recorded'
      BY <2>4 DEF Apply, ApplyFails, SequentialInv, Clusters, Recorded, store
    <3>2. pc'[p] \in {"arm", "failMark", "idle"}
      BY <2>4 DEF Apply, ApplyFails, TypeOK, Abandon, Starting, Continue, Exit, Goto
    <3>. QED  BY <1>2, <1>4, <3>1, <3>2, SequentialBy
  <2>5. CASE Arm(p) \/ FailMark(p)
    <3>1. (Clusters \ undestroyed)' \subseteq Recorded'
      BY <2>5 DEF Arm, FailMark, Recording, RecordingFails, SequentialInv, TypeOK, Clusters, Recorded
    <3>2. pc'[p] \in {"idle", "failDestroy"}
      BY <2>5 DEF Arm, FailMark, Recording, RecordingFails, TypeOK, Continue, Exit, Goto
    <3>. QED  BY <1>2, <1>4, <3>1, <3>2, SequentialBy
  <2>6. CASE FailDestroy(p)
    <3>1. (Clusters \ undestroyed)' \subseteq Recorded' /\ target'[p] \notin (Clusters \ undestroyed)'
          /\ pc'[p] = "failRemove"
      BY <2>6 DEF FailDestroy, SequentialInv, TypeOK, Clusters, Recorded, store,
         Destroyed, DestroyFails, OneAtATime, Continue, Goto
    <3>. QED  BY <1>2, <1>4, <3>1, SequentialBy
  <2>7. CASE FailRemove(p)
    <3>1. (Clusters \ undestroyed)' \subseteq Recorded' /\ pc'[p] = "idle"
      BY <2>7 DEF FailRemove, SequentialInv, TypeOK, Clusters, Recorded, Removed, RemoveFails,
         Exit, Goto
    <3>. QED  BY <1>2, <1>4, <3>1, SequentialBy
  <2>. QED
    BY <1>4, <2>1, <2>2, <2>3, <2>4, <2>5, <2>6, <2>7 DEF Start
<1>5. ASSUME NEW p \in Proc, Step(p), Stop(p)
      PROVE  SequentialInv'
  <2>1. CASE StopDestroy(p)
    <3>1. PICK s \in todo[p] :
            target' = [target EXCEPT ![p] = s] /\ (Destroyed(s) \/ DestroyFails(s))
      BY <2>1 DEF StopDestroy
    <3>2. (Clusters \ undestroyed)' \subseteq Recorded' /\ target'[p] \notin (Clusters \ undestroyed)'
          /\ pc'[p] = "stopRemove"
      BY <2>1, <3>1 DEF StopDestroy, SequentialInv, TypeOK, Clusters, Recorded,
         store, Destroyed, DestroyFails, OneAtATime, Goto
    <3>. QED  BY <1>2, <1>5, <3>2, SequentialBy
  <2>2. CASE StopRemove(p)
    <3>1. (Clusters \ undestroyed)' \subseteq Recorded' /\ pc'[p] \in {"idle", "stopDestroy"}
      BY <2>2 DEF StopRemove, SequentialInv, TypeOK, Clusters, Recorded, Removed, RemoveFails,
         Exit, Goto
    <3>. QED  BY <1>2, <1>5, <3>1, SequentialBy
  <2>. QED  BY <1>5, <2>1, <2>2 DEF Stop
<1>6. ASSUME NEW p \in Proc, Step(p), Prune(p)
      PROVE  SequentialInv'
  <2>1. CASE PruneListSessions(p)
    <3>1. (Clusters \ undestroyed)' \subseteq Recorded' /\ pc'[p] = "pruneClusters"
      BY <2>1 DEF PruneListSessions, SequentialInv, TypeOK, Clusters, Recorded, store, Goto
    <3>. QED  BY <1>2, <1>6, <3>1, SequentialBy
  <2>2. CASE PruneListClusters(p)
    <3>1. /\ (Clusters \ undestroyed)' \subseteq Recorded' /\ pc'[p] = "pruneDestroy"
          /\ listed'[p] = Clusters'
      BY <2>2 DEF PruneListClusters, SequentialInv, TypeOK, Clusters, Recorded,
         store, OneAtATime, Goto
    <3>. QED  BY <1>2, <1>6, <3>1, SequentialBy
  <2>3. CASE PruneDestroy(p)
    <3>1. /\ Clusters' \subseteq Clusters /\ Recorded' = Recorded
          /\ (Clusters \ undestroyed)' \subseteq Clusters \ undestroyed
      BY <2>3 DEF PruneDestroy, TypeOK, Clusters, Recorded, store, Destroyed, DestroyFails
    <3>2. /\ pc'[p] = pc[p] /\ pc[p] = "pruneDestroy"
          /\ seen'[p] = seen[p] /\ listed'[p] = listed[p]
      BY <2>3 DEF PruneDestroy, snapshots
    <3>. QED  BY <1>2, <1>6, <3>1, <3>2, SequentialBy DEF SequentialInv
  <2>4. CASE PruneTurn(p)
    <3>1. /\ Clusters' = Clusters /\ Recorded' = Recorded /\ pc'[p] = "pruneRemove"
          /\ undestroyed' = undestroyed
          /\ todo'[p] = seen[p] \ listed[p] /\ pc[p] = "pruneDestroy"
      BY <2>4 DEF PruneTurn, TypeOK, Clusters, Recorded, store, Goto
    <3>. QED  BY <1>2, <1>6, <3>1, SequentialBy DEF SequentialInv
  <2>5. CASE PruneRemove(p)
    <3>1. PICK s \in todo[p] :
            /\ todo' = [todo EXCEPT ![p] = @ \ {s}]
            /\ \/ Removed(s) /\ UNCHANGED missed
               \/ RemoveFails(s) /\ missed' = [missed EXCEPT ![p] = @ \cup {s}]
      BY <2>5 DEF PruneRemove
    <3>2. s \notin Clusters /\ pc'[p] = pc[p] /\ pc[p] = "pruneRemove"
      BY <2>5, <3>1 DEF PruneRemove, SequentialInv
    <3>3. /\ Clusters' = Clusters /\ undestroyed' = undestroyed
          /\ Recorded \ {s} \subseteq Recorded' /\ Recorded' \subseteq Recorded
          /\ todo'[p] \subseteq todo[p]
      BY <2>5, <3>1 DEF PruneRemove, TypeOK, Clusters, Recorded, Removed, RemoveFails
    <3>. QED  BY <1>2, <1>6, <3>2, <3>3, SequentialBy DEF SequentialInv
  <2>6. CASE PruneEnd(p)
    <3>1. (Clusters \ undestroyed)' \subseteq Recorded' /\ pc'[p] = "idle"
      BY <2>6 DEF PruneEnd, SequentialInv, TypeOK, Clusters, Recorded, store, Exit, Goto
    <3>. QED  BY <1>2, <1>6, <3>1, SequentialBy
  <2>. QED  BY <1>6, <2>1, <2>2, <2>3, <2>4, <2>5, <2>6 DEF Prune
<1>7. ASSUME NEW p \in Proc, Step(p) \/ Crash(p), Reset(p) \/ Verify(p) \/ Crash(p)
      PROVE  SequentialInv'
  <2>1. CASE ResetFast(p)
    <3>1. /\ (Clusters \ undestroyed)' \subseteq Recorded' /\ pc'[p] \in {"arm", "resetDestroy"}
          /\ target'[p] \in Recorded'
      BY <2>1 DEF ResetFast, SequentialInv, TypeOK, Clusters, Recorded, store,
         Continue, Goto
    <3>. QED  BY <1>2, <1>7, <3>1, SequentialBy
  <2>2. CASE ResetDestroy(p)
    <3>1. /\ (Clusters \ undestroyed)' \subseteq Recorded' /\ pc'[p] \in {"provision", "idle"}
          /\ pc'[p] = "provision" => target'[p] \in Recorded'
      BY <2>2 DEF ResetDestroy, SequentialInv, TypeOK, Clusters, Recorded, store,
         Destroyed, DestroyFails, Continue, Exit, Goto
    <3>. QED  BY <1>2, <1>7, <3>1, SequentialBy
  <2>3. CASE Verify(p)
    <3>1. /\ (Clusters \ undestroyed)' \subseteq Recorded'
          /\ pc'[p] \in {"recordPass", "recordFail", "idle"}
      BY <2>3 DEF Verify, VerifyEvaluate, VerifyRecord, SequentialInv, TypeOK,
         Clusters, Recorded, store, Continue, Exit, Goto
    <3>. QED  BY <1>2, <1>7, <3>1, SequentialBy
  <2>4. CASE Crash(p)
    <3>1. (Clusters \ undestroyed)' \subseteq Recorded' /\ pc'[p] = "idle"
      BY <2>4 DEF Crash, SequentialInv, TypeOK, Clusters, Recorded, store, Exit, Goto
    <3>. QED  BY <1>2, <1>7, <3>1, SequentialBy
  <2>. QED  BY <1>7, <2>1, <2>2, <2>3, <2>4 DEF Reset
<1>. QED
  BY <1>1, <1>3, <1>4, <1>5, <1>6, <1>7 DEF Next, Step

\* A player who runs one command at a time never has a cluster without a
\* record, but for one whose last Destroy failed, however often commands are
\* killed or provisioning fails.
THEOREM NoOrphans == OneAtATime => (Spec => []ClusterHasRecord)
<1>. SUFFICES ASSUME OneAtATime PROVE Spec => []ClusterHasRecord
  OBVIOUS
<1>1. Init => SequentialInv
  BY DEF Init, SequentialInv, Clusters, Recorded
<1>2. TypeOK /\ TargetOK /\ SequentialInv /\ [Next]_vars => SequentialInv'
  BY SequentialStep
<1>3. SequentialInv => ClusterHasRecord
  BY DEF SequentialInv, ClusterHasRecord
<1>. QED
  BY <1>1, <1>2, <1>3, TypeCorrect, PTL DEF Spec

-----------------------------------------------------------------------------
(* The threshold *)

\* There are at most Threshold records, and one less between the gate of start
\* and the record it makes.
BoundInv ==
    /\ IsFiniteSet(Recorded)
    /\ Cardinality(Recorded) <= Threshold
    /\ \A p \in Proc : pc[p] = "create" => Cardinality(Recorded) < Threshold

\* A step that makes no record and does not pass the gate.
LEMMA BoundBy ==
    ASSUME BoundInv, NEW p \in Proc,
           Recorded' \subseteq Recorded, pc'[p] # "create",
           \A q \in Proc : q # p => pc'[q] = "idle"
    PROVE  BoundInv'
<1>1. /\ IsFiniteSet(Recorded') /\ Cardinality(Recorded') <= Cardinality(Recorded)
      /\ Cardinality(Recorded) \in Nat /\ Cardinality(Recorded') \in Nat
  BY FS_Subset, FS_CardinalityType DEF BoundInv
<1>2. Cardinality(Recorded') <= Threshold
  BY <1>1, LifecycleAssumption DEF BoundInv
<1>. QED  BY <1>1, <1>2 DEF BoundInv

\* Every step keeps the records within the threshold.
LEMMA BoundStep ==
    ASSUME OneAtATime, "force" \notin Commands,
           TypeOK, TargetOK, SequentialInv, BoundInv, [Next]_vars
    PROVE  BoundInv'
<1>. USE LifecycleAssumption
<1>1. CASE UNCHANGED vars
  BY <1>1 DEF BoundInv, Recorded, vars
<1>2. ASSUME NEW p \in Proc, Issue(p) \/ Step(p) \/ Crash(p)
      PROVE  \A q \in Proc : q # p => pc'[q] = "idle"
  BY <1>2, OthersIdle, Locality
<1>3. ASSUME NEW p \in Proc, Issue(p)
      PROVE  BoundInv'
  <2>1. Recorded' = Recorded
    BY <1>3 DEF Issue, StartGate, StopBegin, PruneBegin, ResetBegin, VerifyBegin,
       Recorded, store
  <2>2. CASE StartGate(p)
    <3>1. Cardinality(Recorded) < Threshold
      BY <2>2 DEF StartGate, Begin, BelowThreshold, LiveCount, OneAtATime
    <3>. QED  BY <2>1, <3>1 DEF BoundInv
  <2>3. CASE StopBegin(p) \/ PruneBegin(p) \/ ResetBegin(p) \/ VerifyBegin(p)
    <3>1. pc'[p] # "create"
      BY <2>3 DEF StopBegin, PruneBegin, ResetBegin, VerifyBegin, Begin, Goto, TypeOK
    <3>. QED  BY <1>2, <1>3, <2>1, <3>1, BoundBy
  <2>. QED  BY <1>3, <2>2, <2>3 DEF Issue
<1>4. ASSUME NEW p \in Proc, Step(p), StartCreate(p)
      PROVE  BoundInv'
  <2>1. target[p] \in Session /\ pc[p] = "create"
    BY <1>4 DEF StartCreate, TargetOK, Targeted
  <2>2. Recorded' = Recorded \cup {target[p]} \/ Recorded' = Recorded
    BY <1>4, <2>1 DEF StartCreate, Recorded, TypeOK
  <2>3. /\ IsFiniteSet(Recorded') /\ Cardinality(Recorded) \in Nat
        /\ Cardinality(Recorded') <= Cardinality(Recorded) + 1
    <3>1. IsFiniteSet(Recorded) /\ Cardinality(Recorded) \in Nat
      BY FS_CardinalityType DEF BoundInv
    <3>2. /\ IsFiniteSet(Recorded \cup {target[p]})
          /\ \/ Cardinality(Recorded \cup {target[p]}) = Cardinality(Recorded)
             \/ Cardinality(Recorded \cup {target[p]}) = Cardinality(Recorded) + 1
      BY <3>1, FS_AddElement
    <3>3. Cardinality(Recorded \cup {target[p]}) <= Cardinality(Recorded) + 1
      BY <3>1, <3>2
    <3>4. Cardinality(Recorded) <= Cardinality(Recorded) + 1
      BY <3>1
    <3>. QED  BY <2>2, <3>1, <3>2, <3>3, <3>4
  <2>4. Cardinality(Recorded') \in Nat
    BY <2>3, FS_CardinalityType
  <2>5. Cardinality(Recorded') <= Threshold
    BY <2>1, <2>3, <2>4 DEF BoundInv
  <2>6. \A q \in Proc : pc'[q] # "create"
    BY <1>2, <1>4 DEF StartCreate, Continue, Exit, Goto, TypeOK
  <2>. QED  BY <2>3, <2>5, <2>6 DEF BoundInv
<1>5. ASSUME NEW p \in Proc, Step(p) \/ Crash(p),
             \/ Start(p) /\ ~StartCreate(p)
             \/ Stop(p) \/ Prune(p) \/ Reset(p) \/ Verify(p) \/ Crash(p)
      PROVE  BoundInv'
  <2>1. CASE Start(p) /\ ~StartCreate(p)
    <3>1. Recorded' \subseteq Recorded
      BY <2>1 DEF Start, ProvisionBegin, ProvisionEnd, ProvisionFails, Apply,
         ApplyFails, Arm, FailMark, Recording, RecordingFails, FailDestroy, FailRemove, Removed, RemoveFails, Recorded,
         store, TypeOK
    <3>2. pc'[p] # "create"
      BY <2>1 DEF Start, ProvisionBegin, ProvisionEnd, ProvisionFails, Apply,
         ApplyFails, Arm, FailMark, Recording, RecordingFails, FailDestroy, FailRemove, Abandon, Starting, Continue,
         Exit, Goto, TypeOK
    <3>. QED  BY <1>2, <1>5, <3>1, <3>2, BoundBy
  <2>2. CASE Stop(p) \/ Prune(p)
    <3>1. Recorded' \subseteq Recorded
      BY <2>2 DEF Stop, StopDestroy, StopRemove, Prune, PruneListSessions,
         PruneListClusters, PruneDestroy, PruneTurn, PruneRemove, PruneEnd, Removed, RemoveFails,
         Recorded, store, TypeOK
    <3>2. pc'[p] # "create"
      BY <2>2 DEF Stop, StopDestroy, StopRemove, Prune, PruneListSessions,
         PruneListClusters, PruneDestroy, PruneTurn, PruneRemove, PruneEnd, Exit,
         Goto, TypeOK
    <3>. QED  BY <1>2, <1>5, <3>1, <3>2, BoundBy
  <2>3. CASE Reset(p) \/ Verify(p) \/ Crash(p)
    <3>1. Recorded' \subseteq Recorded
      BY <2>3 DEF Reset, ResetFast, ResetDestroy, Verify, VerifyEvaluate,
         VerifyRecord, Crash, Recorded, store, TypeOK
    <3>2. pc'[p] # "create"
      BY <2>3 DEF Reset, ResetFast, ResetDestroy, Verify, VerifyEvaluate,
         VerifyRecord, Crash, Continue, Exit, Goto, TypeOK
    <3>. QED  BY <1>2, <1>5, <3>1, <3>2, BoundBy
  <2>. QED  BY <1>5, <2>1, <2>2, <2>3
<1>. QED  BY <1>1, <1>3, <1>4, <1>5 DEF Next, Step, Start

\* Under the same conditions a player who never forces never has more clusters
\* than the threshold, those whose last Destroy failed aside: each other cluster
\* has a record, and LiveCount counts the records.
THEOREM Bounded ==
    OneAtATime /\ "force" \notin Commands => (Spec => []ClustersBelowThreshold)
<1>. SUFFICES ASSUME OneAtATime, "force" \notin Commands
             PROVE Spec => []ClustersBelowThreshold
  OBVIOUS
<1>1. Init => SequentialInv
  BY DEF Init, SequentialInv, Clusters, Recorded
<1>2. Init => BoundInv
  <2>. SUFFICES ASSUME Init PROVE BoundInv
    OBVIOUS
  <2>1. Recorded = {}
    BY DEF Init, Recorded
  <2>2. \A p \in Proc : pc[p] # "create"
    BY DEF Init
  <2>. QED  BY <2>1, <2>2, FS_EmptySet, LifecycleAssumption DEF BoundInv
<1>3. TypeOK /\ TargetOK /\ SequentialInv /\ [Next]_vars => SequentialInv'
  BY SequentialStep
<1>4. TypeOK /\ TargetOK /\ SequentialInv /\ BoundInv /\ [Next]_vars => BoundInv'
  BY BoundStep
<1>5. SequentialInv /\ BoundInv => ClustersBelowThreshold
  <2>. SUFFICES ASSUME SequentialInv, BoundInv PROVE ClustersBelowThreshold
    OBVIOUS
  <2>1. Clusters \ undestroyed \subseteq Recorded /\ IsFiniteSet(Recorded)
    BY DEF SequentialInv, BoundInv
  <2>2. /\ Cardinality(Clusters \ undestroyed) <= Cardinality(Recorded)
        /\ Cardinality(Clusters \ undestroyed) \in Nat /\ Cardinality(Recorded) \in Nat
    BY <2>1, FS_Subset, FS_CardinalityType
  <2>. QED  BY <2>2, LifecycleAssumption DEF BoundInv, ClustersBelowThreshold
<1>. QED
  BY <1>1, <1>2, <1>3, <1>4, <1>5, TypeCorrect, PTL DEF Spec

-----------------------------------------------------------------------------
(* prune *)

PruneLabel == {"pruneClusters", "pruneDestroy", "pruneRemove"}

\* What prune has read is how it is but for what it did since: the clusters it
\* still has to destroy or could not, and the records it still has to remove.
ReconcileOK(p) ==
    /\ pc[p] = "pruneClusters" => seen[p] = Recorded
    /\ pc[p] = "pruneDestroy" =>
         /\ seen[p] = Recorded
         /\ Clusters \subseteq listed[p]
         /\ listed[p] \cap seen[p] \subseteq Clusters
         /\ Clusters \ seen[p] \subseteq todo[p] \cup missed[p]
         /\ todo[p] \cap seen[p] = {}
    /\ pc[p] = "pruneRemove" =>
         /\ Clusters \subseteq Recorded \cup missed[p]
         /\ Recorded \subseteq Clusters \cup todo[p] \cup missed[p]
         /\ todo[p] \cap Clusters = {}

ReconcileInv == \A p \in Proc : ReconcileOK(p)

\* Every step keeps what a prune has read true of the state it leaves.
LEMMA ReconcileStep ==
    ASSUME OneAtATime, TypeOK, SequentialInv, ReconcileInv, [Next]_vars
    PROVE  ReconcileInv'
<1>1. CASE UNCHANGED vars
  BY <1>1 DEF ReconcileInv, ReconcileOK, Clusters, Recorded, vars, store, infra, snapshots
<1>2. ASSUME NEW p \in Proc, Issue(p) \/ Step(p) \/ Crash(p)
      PROVE  ReconcileInv'
  <2>1. \A q \in Proc : q # p => pc'[q] = "idle"
    BY <1>2, OthersIdle, Locality
  <2>2. \A q \in Proc : q # p => ReconcileOK(q)'
    BY <2>1 DEF ReconcileOK
  <2>3. SUFFICES ReconcileOK(p)'
    BY <2>2 DEF ReconcileInv
  <2>4. ReconcileOK(p)
    BY DEF ReconcileInv
  <2>5. CASE Issue(p)
    <3>1. pc'[p] \notin PruneLabel
      BY <2>5 DEF Issue, StartGate, StopBegin, PruneBegin, ResetBegin, VerifyBegin, Begin,
         Goto, TypeOK, PruneLabel
    <3>. QED  BY <3>1 DEF ReconcileOK, PruneLabel
  <2>6. CASE Start(p)
    <3>1. pc'[p] \notin PruneLabel
      BY <2>6 DEF Start, StartCreate, ProvisionBegin, ProvisionEnd, ProvisionFails, Apply,
         ApplyFails, Arm, FailMark, Recording, RecordingFails, FailDestroy, FailRemove, Abandon, Starting, Continue, Exit, Goto,
         TypeOK, PruneLabel
    <3>. QED  BY <3>1 DEF ReconcileOK, PruneLabel
  <2>7. CASE Stop(p) \/ Reset(p) \/ Verify(p) \/ Crash(p)
    <3>1. pc'[p] \notin PruneLabel
      BY <2>7 DEF Stop, StopDestroy, StopRemove, Reset, ResetFast, ResetDestroy, Verify,
         VerifyEvaluate, VerifyRecord, Crash, Continue, Exit, Goto, TypeOK, PruneLabel
    <3>. QED  BY <3>1 DEF ReconcileOK, PruneLabel
  <2>8. CASE PruneListSessions(p)
    <3>1. pc'[p] = "pruneClusters" /\ seen'[p] = Recorded'
      BY <2>8 DEF PruneListSessions, OneAtATime, TypeOK, Goto, Recorded, store
    <3>. QED  BY <3>1 DEF ReconcileOK
  <2>9. CASE PruneListClusters(p)
    <3>1. /\ pc[p] = "pruneClusters" /\ pc'[p] = "pruneDestroy" /\ seen'[p] = seen[p]
          /\ listed'[p] = Clusters /\ todo'[p] = Clusters \ seen[p]
          /\ Clusters' = Clusters /\ Recorded' = Recorded
      BY <2>9 DEF PruneListClusters, OneAtATime, TypeOK, Goto, Clusters, Recorded, store, infra
    <3>. QED  BY <2>4, <3>1 DEF ReconcileOK
  <2>10. CASE PruneDestroy(p)
    <3>1. PICK s \in todo[p] :
            /\ todo' = [todo EXCEPT ![p] = @ \ {s}]
            /\ \/ Destroyed(s) /\ UNCHANGED missed
               \/ DestroyFails(s) /\ missed' = [missed EXCEPT ![p] = @ \cup {s}]
      BY <2>10 DEF PruneDestroy
    <3>2. /\ pc[p] = "pruneDestroy" /\ pc'[p] = pc[p] /\ seen'[p] = seen[p]
          /\ listed'[p] = listed[p] /\ Recorded' = Recorded /\ todo'[p] = todo[p] \ {s}
      BY <2>10, <3>1 DEF PruneDestroy, snapshots, store, Recorded, TypeOK
    <3>3. \/ Clusters' = Clusters \ {s} /\ missed'[p] = missed[p]
          \/ Clusters' = Clusters /\ missed'[p] = missed[p] \cup {s}
      BY <3>1 DEF Destroyed, DestroyFails, Clusters, TypeOK
    <3>. QED  BY <2>4, <3>2, <3>3 DEF ReconcileOK
  <2>11. CASE PruneTurn(p)
    <3>1. /\ pc[p] = "pruneDestroy" /\ pc'[p] = "pruneRemove" /\ todo[p] = {}
          /\ todo'[p] = seen[p] \ listed[p] /\ missed'[p] = missed[p]
          /\ Clusters' = Clusters /\ Recorded' = Recorded
      BY <2>11 DEF PruneTurn, TypeOK, Goto, Clusters, Recorded, store, infra
    <3>. QED  BY <2>4, <3>1 DEF ReconcileOK
  <2>12. CASE PruneRemove(p)
    <3>1. PICK s \in todo[p] :
            /\ todo' = [todo EXCEPT ![p] = @ \ {s}]
            /\ \/ Removed(s) /\ UNCHANGED missed
               \/ RemoveFails(s) /\ missed' = [missed EXCEPT ![p] = @ \cup {s}]
      BY <2>12 DEF PruneRemove
    <3>2. /\ pc[p] = "pruneRemove" /\ pc'[p] = pc[p] /\ Clusters' = Clusters
          /\ todo'[p] = todo[p] \ {s} /\ s \in Session
      BY <2>12, <3>1 DEF PruneRemove, TypeOK, Clusters, infra
    <3>3. \/ missed'[p] = missed[p] /\ Recorded' = Recorded \ {s}
          \/ /\ missed'[p] = missed[p] \cup {s}
             /\ Recorded' = Recorded \/ Recorded' = Recorded \ {s}
      BY <3>1, <3>2 DEF Removed, RemoveFails, TypeOK, Recorded
    <3>. QED  BY <2>4, <3>2, <3>3 DEF ReconcileOK
  <2>13. CASE PruneEnd(p)
    <3>1. pc'[p] \notin PruneLabel
      BY <2>13 DEF PruneEnd, Exit, Goto, TypeOK, PruneLabel
    <3>. QED  BY <3>1 DEF ReconcileOK, PruneLabel
  <2>. QED
    BY <1>2, <2>5, <2>6, <2>7, <2>8, <2>9, <2>10, <2>11, <2>12, <2>13 DEF Step, Prune
<1>. QED
  BY <1>1, <1>2 DEF Next

\* With one command at a time and listings that answer, a prune that is done has
\* left clusters exactly for the sessions on record, but for those whose Destroy
\* it saw fail, whatever earlier commands had left behind.
THEOREM PruneLeavesNothing == OneAtATime => (Spec => []PruneReconciles)
<1>. SUFFICES ASSUME OneAtATime PROVE Spec => []PruneReconciles
  OBVIOUS
<1>1. Init => SequentialInv /\ ReconcileInv
  BY DEF Init, SequentialInv, ReconcileInv, ReconcileOK, Clusters, Recorded
<1>2. TypeOK /\ TargetOK /\ SequentialInv /\ [Next]_vars => SequentialInv'
  BY SequentialStep
<1>3. TypeOK /\ SequentialInv /\ ReconcileInv /\ [Next]_vars => ReconcileInv'
  BY ReconcileStep
<1>4. ReconcileInv => PruneReconciles
  BY DEF ReconcileInv, ReconcileOK, PruneReconciles
<1>. QED
  BY <1>1, <1>2, <1>3, <1>4, TypeCorrect, PTL DEF Spec
=============================================================================
