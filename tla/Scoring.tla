------------------------------- MODULE Scoring -------------------------------
(***************************************************************************)
(* The score of one session: verify, hint and reset commands that overlap  *)
(* with each other, with the end of start, with the clock and with a       *)
(* player who keeps changing the cluster.                                  *)
(*                                                                         *)
(* Every command loads the record, works for a while (a verify polls each  *)
(* failing check for up to 15 s, a reset waits for readiness), and then    *)
(* changes the record in one Update.  Update is atomic (SessionDir shows   *)
(* it), so it is one step here; what was loaded may be stale by then.      *)
(* The cluster is abstracted to the objectives whose checks would pass,    *)
(* to what the audit log holds against the player, and to whether the      *)
(* enforcement policy is installed.                                        *)
(***************************************************************************)
EXTENDS Integers, Sequences, FiniteSets, SequencesExt, Sums

CONSTANTS
    Proc,           \* kubedrill processes that run one command after another
    Objective, Hint,
    Objectives,     \* the challenge's objectives in declaration order
    DependsOn,      \* the objectives an objective depends on
    Points,         \* the points of an objective
    NodeFaulted,    \* the objectives that a node fault breaks
    Hints,          \* the challenge's hints in declaration order
    Penalty,        \* the penalty of a hint
    Breaches,       \* rules the player may breach: "points", "fail"
    RulePoints,     \* the penalty of a "points" rule
    Enforce,        \* some rule has enforce: true
    NodeAccess,     \* metadata.nodeAccess: rules are advisory
    TimeLimit,      \* metadata.timeLimit, 0 when there is none
    ResetFlags,     \* the flags the player passes to reset
    Edits,          \* the player may edit the challenge directory
    MaxTime,        \* bound on the clock
    MaxAttempts     \* bound on the verifies of a session

ASSUME ScoringAssumption ==
    /\ Objectives \in Seq(Objective)
    /\ \A o \in Objective : DependsOn[o] \subseteq Objective /\ Points[o] \in Nat
    /\ NodeFaulted \subseteq Objective
    /\ Hints \in Seq(Hint)
    /\ \A h \in Hint : Penalty[h] \in Nat
    /\ Breaches \subseteq {"points", "fail"}
    /\ RulePoints \in Nat
    /\ Enforce \in BOOLEAN /\ (Enforce => Breaches # {})
    /\ NodeAccess \in BOOLEAN
    /\ TimeLimit \in Nat
    /\ ResetFlags \subseteq SUBSET {"hard", "clock", "hints"}
    /\ Edits \in BOOLEAN
    /\ MaxTime \in Nat
    /\ MaxAttempts \in Nat

\* Challenge.Validate refuses an id that is used twice.
ASSUME IdAssumption ==
    \A i, j \in DOMAIN Objectives : Objectives[i] = Objectives[j] => i = j

\* hintPenalty sums the penalties of the hints a record lists.
hintPenalty(used) == SumTo([i \in DOMAIN used |-> Penalty[used[i]]], Len(used))

VARIABLES
    (* state.json *)
    phase, deadline, hintsUsed, attempts, bestScore, enforcedPolicies,
    (* the cluster *)
    holds,          \* the objectives whose checks pass now
    breached,       \* the breaches the audit log shows
    audited,        \* the API server writes an audit log
    policy,         \* the enforcement policy is installed
    removed,        \* history: the player removed it
    (* the world *)
    now,
    edited,         \* the challenge directory has checks that always pass
    starting,       \* how far the start command has come
    (* the commands *)
    pc,
    loaded,         \* the record as the command loaded it
    next,           \* verify: the next objective; hint: the hint to record
    passed,         \* verify: the objectives that passed
    score,          \* verify: their points
    card,           \* verify: the graded card
    flags           \* reset: the flags it was given

record == <<phase, deadline, hintsUsed, attempts, bestScore, enforcedPolicies>>
cluster == <<holds, breached, audited, policy, removed>>
locals == <<loaded, next, passed, score, card, flags>>
world == <<now, edited, starting>>
vars == <<record, cluster, world, pc, locals>>

NoDeadline == 0
NoSnapshot ==
    [deadline |-> NoDeadline, hintsUsed |-> <<>>, enforced |-> FALSE, edited |-> FALSE]
NoCard == [net |-> 0, late |-> FALSE, all |-> FALSE, at |-> 0]

Attempt == [n : Nat, score : Nat, late : BOOLEAN, objectives : SUBSET Objective]
Snapshot == [deadline : Nat, hintsUsed : Seq(Hint), enforced : BOOLEAN,
             edited : BOOLEAN]

TypeOK ==
    /\ phase \in {"creating", "running", "verified"}
    /\ deadline \in Nat
    /\ hintsUsed \in Seq(Hint)
    /\ attempts \in Seq(Attempt)
    /\ bestScore \in Nat
    /\ enforcedPolicies \in BOOLEAN
    /\ holds \subseteq Objective
    /\ breached \subseteq Breaches
    /\ audited \in BOOLEAN /\ policy \in BOOLEAN /\ removed \in BOOLEAN
    /\ now \in Nat
    /\ edited \in BOOLEAN
    /\ starting \in {"inject", "enforce", "nodeFaults", "arm", "done"}
    /\ pc \in [Proc -> {"idle", "evaluate", "recordAttempt", "recordHint",
                        "restore", "recordReset"}]
    /\ loaded \in [Proc -> Snapshot]
    /\ next \in [Proc -> Nat]
    /\ passed \in [Proc -> SUBSET Objective]
    /\ score \in [Proc -> Nat]
    /\ card \in [Proc -> [net : Nat, late : BOOLEAN, all : BOOLEAN, at : Nat]]
    /\ flags \in [Proc -> SUBSET {"hard", "clock", "hints"}]

\* The deadline a clock that starts now gives: computeDeadline.
DeadlineFromNow == IF TimeLimit = 0 THEN NoDeadline ELSE now + TimeLimit

\* The start command has recorded the session and created the cluster; setup
\* has not been applied yet.  The player's kubeconfig exists.
Init ==
    /\ phase = "creating"
    /\ now = 1
    /\ deadline = DeadlineFromNow
    /\ hintsUsed = <<>>
    /\ attempts = <<>>
    /\ bestScore = 0
    /\ enforcedPolicies = FALSE
    /\ holds \in SUBSET Objective
    /\ breached = {}
    /\ audited = (Breaches # {})
    /\ policy = FALSE
    /\ removed = FALSE
    /\ edited = FALSE
    /\ starting = "inject"
    /\ pc = [p \in Proc |-> "idle"]
    /\ loaded = [p \in Proc |-> NoSnapshot]
    /\ next = [p \in Proc |-> 0]
    /\ passed = [p \in Proc |-> {}]
    /\ score = [p \in Proc |-> 0]
    /\ card = [p \in Proc |-> NoCard]
    /\ flags = [p \in Proc |-> {}]

Goto(p, label) == pc' = [pc EXCEPT ![p] = label]

\* The command ends; the next one starts afresh.
Exit(p) ==
    /\ Goto(p, "idle")
    /\ loaded' = [loaded EXCEPT ![p] = NoSnapshot]
    /\ next' = [next EXCEPT ![p] = 0]
    /\ passed' = [passed EXCEPT ![p] = {}]
    /\ score' = [score EXCEPT ![p] = 0]
    /\ card' = [card EXCEPT ![p] = NoCard]
    /\ flags' = [flags EXCEPT ![p] = {}]

\* What a command keeps of Store.Load, and of the challenge it loads with it.
Load(p) ==
    loaded' = [loaded EXCEPT ![p] =
        [deadline |-> deadline, hintsUsed |-> hintsUsed, enforced |-> enforcedPolicies,
         edited |-> edited]]

-----------------------------------------------------------------------------
(* The clock and the player *)

Tick ==
    /\ now < MaxTime
    /\ now' = now + 1
    /\ UNCHANGED <<record, cluster, edited, starting, pc, locals>>

Play ==
    /\ \E o \in Objective : holds' \in {holds \cup {o}, holds \ {o}}
    /\ holds' # holds
    /\ UNCHANGED <<record, breached, audited, policy, removed, world, pc, locals>>

Breach ==
    /\ audited
    /\ \E b \in Breaches : breached' = breached \cup {b}
    /\ UNCHANGED <<record, holds, audited, policy, removed, world, pc, locals>>

RemovePolicy ==
    /\ policy
    /\ policy' = FALSE
    /\ removed' = TRUE
    /\ UNCHANGED <<record, holds, breached, audited, world, pc, locals>>

\* LoadDir reads the author's directory, not a copy made at start.
Edit ==
    /\ Edits
    /\ edited' = TRUE
    /\ UNCHANGED <<record, cluster, now, starting, pc, locals>>

-----------------------------------------------------------------------------
(* The end of start, seen from the record and the cluster *)

\* provision.Apply: setup and the faults that break the other objectives.
Inject ==
    /\ starting = "inject"
    /\ holds' = holds \cap NodeFaulted
    /\ starting' = "enforce"
    /\ UNCHANGED <<record, breached, audited, policy, removed, now, edited, pc, locals>>

applyEnforcement ==
    /\ starting = "enforce"
    /\ policy' = Enforce
    /\ starting' = "nodeFaults"
    /\ UNCHANGED <<record, holds, breached, audited, removed, now, edited, pc, locals>>

applyNodeFaults ==
    /\ starting = "nodeFaults"
    /\ holds' = holds \ NodeFaulted
    /\ starting' = "arm"
    /\ UNCHANGED <<record, breached, audited, policy, removed, now, edited, pc, locals>>

\* Broken as intended: the timer is armed, whatever was recorded meanwhile.
Arm ==
    /\ starting = "arm"
    /\ phase' = "running"
    /\ deadline' = DeadlineFromNow
    /\ enforcedPolicies' = Enforce
    /\ starting' = "done"
    /\ UNCHANGED <<hintsUsed, attempts, bestScore, cluster, now, edited, pc, locals>>

-----------------------------------------------------------------------------
(* kubedrill verify *)

VerifyLoad(p) ==
    /\ pc[p] = "idle"
    /\ Len(attempts) + Cardinality({q \in Proc : pc[q] \in {"evaluate", "recordAttempt"}})
         < MaxAttempts
    /\ Load(p)
    /\ next' = [next EXCEPT ![p] = 1]
    /\ Goto(p, "evaluate")
    /\ UNCHANGED <<record, cluster, world, passed, score, card, flags>>

\* What is needed of an objective's dependencies, among the ones before it.
dependenciesMet(p, o) == DependsOn[o] \subseteq passed[p]

\* evalObjective polls until the checks pass at some moment of their window.
MayPass(p, o) == o \in holds \/ loaded[p].edited

\* Evaluate takes the objectives in order.  One passes at a moment when its
\* checks hold, if the ones it depends on have passed before it; otherwise it
\* is left unevaluated, fails at the end of its window, or its check errs.
EvaluateObjective(p) ==
    /\ pc[p] = "evaluate"
    /\ next[p] <= Len(Objectives)
    /\ LET o == Objectives[next[p]]
       IN  \/ /\ dependenciesMet(p, o)
              /\ MayPass(p, o)
              /\ passed' = [passed EXCEPT ![p] = @ \cup {o}]
              /\ score' = [score EXCEPT ![p] = @ + Points[o]]
           \/ UNCHANGED <<passed, score>>
    /\ next' = [next EXCEPT ![p] = @ + 1]
    /\ UNCHANGED <<record, cluster, world, pc, loaded, card, flags>>

\* Mutant: the last objective is forgotten.
MaxScoreShort ==
    SumTo([i \in DOMAIN Objectives |-> Points[Objectives[i]]], Len(Objectives) - 1)

MaxScore == SumTo([i \in DOMAIN Objectives |-> Points[Objectives[i]]], Len(Objectives))

\* Mutant: penalties may exceed the points.
NetScoreNoFloor(points, hintPoints, rulePoints, failed) ==
    IF failed /\ ~NodeAccess THEN 0
    ELSE points - hintPoints - (IF NodeAccess THEN 0 ELSE rulePoints)

\* NetScore: what the player is awarded for a card.
NetScore(points, hintPoints, rulePoints, failed) ==
    LET n == points - hintPoints - (IF NodeAccess THEN 0 ELSE rulePoints)
    IN  IF (failed /\ ~NodeAccess) \/ n < 0 THEN 0 ELSE n

\* A policy that was installed and is not there fails the card, unless the
\* cluster does not answer.
Tampered(p) == Breaches # {} /\ loaded[p].enforced /\ ~policy

\* gradeRules charges the breaches the audit log shows, or none at all when it
\* cannot be read.
Charged == {breached, {}}

\* The card is layered: hints from the loaded record, breaches, tampering; then
\* the clock is read.
Grade(p) ==
    /\ pc[p] = "evaluate"
    /\ next[p] > Len(Objectives)
    /\ \E charged \in Charged, tampered \in {Tampered(p), FALSE} :
         card' = [card EXCEPT ![p] =
            [net  |-> NetScore(score[p], hintPenalty(loaded[p].hintsUsed),
                               IF "points" \in charged THEN RulePoints ELSE 0,
                               "fail" \in charged \/ tampered),
             late |-> loaded[p].deadline # NoDeadline /\ now > loaded[p].deadline,
             all  |-> score[p] = MaxScore /\ MaxScore > 0,
             at   |-> now]]
    /\ Goto(p, "recordAttempt")
    /\ UNCHANGED <<record, cluster, world, loaded, next, passed, score, flags>>

\* Mutant: late attempts count.
RecordAttemptLate(p) ==
    /\ pc[p] = "recordAttempt"
    /\ attempts' = Append(attempts,
         [n |-> Len(attempts) + 1, score |-> card[p].net, late |-> card[p].late,
          objectives |-> passed[p]])
    /\ bestScore' = IF card[p].net > bestScore THEN card[p].net ELSE bestScore
    /\ phase' = IF card[p].all THEN "verified" ELSE phase
    /\ Exit(p)
    /\ UNCHANGED <<deadline, hintsUsed, enforcedPolicies, cluster, world>>

RecordAttempt(p) ==
    /\ pc[p] = "recordAttempt"
    /\ attempts' = Append(attempts,
         [n |-> Len(attempts) + 1, score |-> card[p].net, late |-> card[p].late,
          objectives |-> passed[p]])
    /\ bestScore' = IF ~card[p].late /\ card[p].net > bestScore
                      THEN card[p].net ELSE bestScore
    /\ phase' = IF card[p].all THEN "verified" ELSE phase
    /\ Exit(p)
    /\ UNCHANGED <<deadline, hintsUsed, enforcedPolicies, cluster, world>>

-----------------------------------------------------------------------------
(* kubedrill hint *)

\* NextHint: the first hint in order that the loaded record does not list.
NextHint(p) ==
    /\ pc[p] = "idle"
    /\ \E i \in DOMAIN Hints :
         /\ Hints[i] \notin ToSet(hintsUsed)
         /\ \A j \in 1..(i - 1) : Hints[j] \in ToSet(hintsUsed)
         /\ next' = [next EXCEPT ![p] = i]
    /\ Goto(p, "recordHint")
    /\ UNCHANGED <<record, cluster, world, loaded, passed, score, card, flags>>

\* Mutant: what NextHint saw is not looked at again.
RevealHintBlind(p) ==
    /\ pc[p] = "recordHint"
    /\ hintsUsed' = Append(hintsUsed, Hints[next[p]])
    /\ Exit(p)
    /\ UNCHANGED <<phase, deadline, attempts, bestScore, enforcedPolicies, cluster, world>>

\* RevealHint records it, unless another process just has.
RevealHint(p) ==
    /\ pc[p] = "recordHint"
    /\ hintsUsed' = IF Hints[next[p]] \in ToSet(hintsUsed) THEN hintsUsed
                    ELSE Append(hintsUsed, Hints[next[p]])
    /\ Exit(p)
    /\ UNCHANGED <<phase, deadline, attempts, bestScore, enforcedPolicies, cluster, world>>

-----------------------------------------------------------------------------
(* kubedrill reset *)

ResetLoad(p) ==
    /\ pc[p] = "idle"
    /\ \E f \in ResetFlags : flags' = [flags EXCEPT ![p] = f]
    /\ Goto(p, "restore")
    /\ UNCHANGED <<record, cluster, world, loaded, next, passed, score, card>>

\* A fast reset re-applies setup and faults in place.  A hard one, or a fast
\* one that fails, builds a new cluster without audit log, enforcement policy
\* and node faults.  It may fail and leave the record as it is; the loss of
\* the cluster is the business of Lifecycle.
ResetRestore(p) ==
    /\ pc[p] = "restore"
    /\ \/ /\ "hard" \notin flags[p]
          /\ holds' = holds \cap NodeFaulted
          /\ UNCHANGED <<breached, audited, policy>>
       \/ /\ holds' = NodeFaulted
          /\ breached' = {}
          /\ audited' = FALSE
          /\ policy' = FALSE
    /\ Goto(p, "recordReset")
    /\ UNCHANGED <<record, removed, world, locals>>

\* Mutant: reset --hints starts the history over.
RecordResetForgets(p) ==
    /\ pc[p] = "recordReset"
    /\ phase' = "running"
    /\ attempts' = IF "hints" \in flags[p] THEN <<>> ELSE attempts
    /\ hintsUsed' = IF "hints" \in flags[p] THEN <<>> ELSE hintsUsed
    /\ Exit(p)
    /\ UNCHANGED <<deadline, bestScore, enforcedPolicies, cluster, world>>

RecordReset(p) ==
    /\ pc[p] = "recordReset"
    /\ phase' = "running"
    /\ deadline' = IF "clock" \in flags[p] /\ TimeLimit # 0
                     THEN DeadlineFromNow ELSE deadline
    /\ hintsUsed' = IF "hints" \in flags[p] THEN <<>> ELSE hintsUsed
    /\ Exit(p)
    /\ UNCHANGED <<attempts, bestScore, enforcedPolicies, cluster, world>>

-----------------------------------------------------------------------------

Start == Inject \/ applyEnforcement \/ applyNodeFaults \/ Arm

Player == Play \/ Breach \/ RemovePolicy \/ Edit

Verify(p) == VerifyLoad(p) \/ EvaluateObjective(p) \/ Grade(p) \/ RecordAttempt(p)

Reveal(p) == NextHint(p) \/ RevealHint(p)

Reset(p) == ResetLoad(p) \/ ResetRestore(p) \/ RecordReset(p)

Next ==
    \/ Tick \/ Start \/ Player
    \/ \E p \in Proc : Verify(p) \/ Reveal(p) \/ Reset(p)

Spec == Init /\ [][Next]_vars

-----------------------------------------------------------------------------
(* Properties *)

\* The best score is the best of the attempts that were in time, whatever
\* verifies, resets and the end of start record side by side.
BestIsMaxOnTime ==
    /\ \A i \in DOMAIN attempts : ~attempts[i].late => attempts[i].score <= bestScore
    /\ bestScore # 0 =>
         \E i \in DOMAIN attempts : ~attempts[i].late /\ attempts[i].score = bestScore

\* An attempt is "appended, never mutated" (Attempt) and keeps its number;
\* "bestScore is monotone" (Verify).
AttemptsKept ==
    [][/\ IsPrefix(attempts, attempts')
       /\ \A i \in DOMAIN attempts' : attempts'[i].n = i
       /\ bestScore' >= bestScore]_vars

\* "a hint's penalty is recorded exactly once" (RevealHint): no hint is listed
\* twice, even when two processes reveal it together.
HintsOnce ==
    \A i, j \in DOMAIN hintsUsed : hintsUsed[i] = hintsUsed[j] => i = j

\* A verify whose evaluation ended past the deadline never raises the recorded
\* score, by whichever deadline holds when it is recorded: deadlines only move
\* away, so a stale one errs on the strict side.
NoLateBest ==
    [][\A p \in Proc :
         RecordAttempt(p) /\ bestScore' # bestScore =>
            deadline = NoDeadline \/ card[p].at <= deadline]_vars

\* A session is verified only when one attempt passed every objective that is
\* worth points, whatever was passed, reset or recorded side by side.  (What is
\* worth none does not count for AllPassed.)
Worth == {o \in ToSet(Objectives) : Points[o] # 0}
VerifiedWasPassed ==
    phase = "verified" => \E i \in DOMAIN attempts : Worth \subseteq attempts[i].objectives

\* State.EnforcedPolicies: "a missing policy means the player removed a live
\* guardrail".
TamperedByPlayer ==
    \A p \in Proc : pc[p] = "evaluate" /\ Tampered(p) => removed
=============================================================================
