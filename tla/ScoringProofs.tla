---------------------------- MODULE ScoringProofs ----------------------------
(***************************************************************************)
(* The record of a session's score, proved for any challenge, any number   *)
(* of processes and attempts, and any bound on the clock.                   *)
(***************************************************************************)
EXTENDS Scoring, SumsProofs

\* A net score is a natural number.
LEMMA NetScoreType ==
    ASSUME NEW points \in Nat, NEW hintPoints \in Nat, NEW rulePoints \in Nat,
           NEW failed \in BOOLEAN
    PROVE  NetScore(points, hintPoints, rulePoints, failed) \in Nat
BY ScoringAssumption DEF NetScore

\* What hints cost is a natural number.
LEMMA PenaltyType ==
    ASSUME NEW used \in Seq(Hint)
    PROVE  hintPenalty(used) \in Nat
<1> DEFINE w == [i \in DOMAIN used |-> Penalty[used[i]]]
<1>1. Len(used) \in Nat /\ \A i \in 1 .. Len(used) : w[i] \in Nat
  <2>1. DOMAIN used = 1 .. Len(used) /\ \A i \in 1 .. Len(used) : used[i] \in Hint
      OBVIOUS
  <2> QED
      BY <2>1, ScoringAssumption
<1> HIDE DEF w
<1>2. SumTo(w, Len(used)) \in Nat
    BY <1>1, SumType
<1> QED
    BY <1>2 DEF hintPenalty, w

\* A cursor points into the challenge's lists while it is used.
CursorInv ==
    \A p \in Proc :
        /\ pc[p] = "evaluate" => next[p] # 0
        /\ pc[p] = "recordHint" => next[p] \in DOMAIN Hints

\* No step leaves a cursor outside its list.
LEMMA CursorStep ==
    ASSUME TypeOK, CursorInv, Next
    PROVE  CursorInv'
<1> USE DEF TypeOK, CursorInv
<1>1. CASE Tick
    BY <1>1 DEF Tick, record, cluster, world, locals
<1>2. CASE Play
    BY <1>2 DEF Play, record, cluster, world, locals
<1>3. CASE Breach
    BY <1>3 DEF Breach, record, cluster, world, locals
<1>4. CASE RemovePolicy
    BY <1>4 DEF RemovePolicy, record, cluster, world, locals
<1>5. CASE Edit
    BY <1>5 DEF Edit, record, cluster, world, locals
<1>6. CASE Inject
    BY <1>6 DEF Inject, record, cluster, world, locals
<1>7. CASE applyEnforcement
    BY <1>7 DEF applyEnforcement, record, cluster, world, locals
<1>8. CASE applyNodeFaults
    BY <1>8 DEF applyNodeFaults, record, cluster, world, locals
<1>9. CASE Arm
    BY <1>9 DEF Arm, record, cluster, world, locals
<1>10. ASSUME NEW p \in Proc, VerifyLoad(p) PROVE CursorInv'
    BY <1>10 DEF VerifyLoad, Goto, Load, record, cluster, world, locals
<1>11. ASSUME NEW p \in Proc, EvaluateObjective(p) PROVE CursorInv'
    BY <1>11 DEF EvaluateObjective, record, cluster, world, locals
<1>12. ASSUME NEW p \in Proc, Grade(p) PROVE CursorInv'
    BY <1>12 DEF Grade, Goto, record, cluster, world, locals
<1>13. ASSUME NEW p \in Proc, RecordAttempt(p) PROVE CursorInv'
    BY <1>13 DEF RecordAttempt, Goto, Exit, record, cluster, world, locals
<1>14. ASSUME NEW p \in Proc, NextHint(p) PROVE CursorInv'
    BY <1>14 DEF NextHint, Goto, record, cluster, world, locals
<1>15. ASSUME NEW p \in Proc, RevealHint(p) PROVE CursorInv'
    BY <1>15 DEF RevealHint, Goto, Exit, record, cluster, world, locals
<1>16. ASSUME NEW p \in Proc, ResetLoad(p) PROVE CursorInv'
    BY <1>16 DEF ResetLoad, Goto, record, cluster, world, locals
<1>17. ASSUME NEW p \in Proc, ResetRestore(p) PROVE CursorInv'
    BY <1>17 DEF ResetRestore, Goto, record, cluster, world, locals
<1>18. ASSUME NEW p \in Proc, RecordReset(p) PROVE CursorInv'
    BY <1>18 DEF RecordReset, Goto, Exit, record, cluster, world, locals
<1> QED
    BY <1>1, <1>2, <1>3, <1>4, <1>5, <1>6, <1>7, <1>8, <1>9, <1>10, <1>11, <1>12, <1>13,
       <1>14, <1>15, <1>16, <1>17, <1>18 DEF Next, Start, Player, Verify, Reveal, Reset

\* Every step keeps the variables in their types.
LEMMA TypeStep ==
    ASSUME TypeOK, CursorInv, Next
    PROVE  TypeOK'
<1> USE ScoringAssumption DEF TypeOK
<1>1. CASE Tick
    BY <1>1 DEF Tick, record, cluster, world, locals
<1>2. CASE Play
    BY <1>2 DEF Play, record, cluster, world, locals
<1>3. CASE Breach
    BY <1>3 DEF Breach, record, cluster, world, locals
<1>4. CASE RemovePolicy
    BY <1>4 DEF RemovePolicy, record, cluster, world, locals
<1>5. CASE Edit
    BY <1>5 DEF Edit, record, cluster, world, locals
<1>6. CASE Inject
    BY <1>6 DEF Inject, record, cluster, world, locals
<1>7. CASE applyEnforcement
    BY <1>7 DEF applyEnforcement, record, cluster, world, locals
<1>8. CASE applyNodeFaults
    BY <1>8 DEF applyNodeFaults, record, cluster, world, locals
<1>9. CASE Arm
    BY <1>9 DEF Arm, record, cluster, world, locals, DeadlineFromNow, NoDeadline
<1>10. ASSUME NEW p \in Proc, VerifyLoad(p) PROVE TypeOK'
    BY <1>10 DEF VerifyLoad, Goto, Load, record, cluster, world, locals, Snapshot
<1>11. ASSUME NEW p \in Proc, EvaluateObjective(p) PROVE TypeOK'
  <2> DEFINE o == Objectives[next[p]]
  <2>1. o \in Objective /\ Points[o] \in Nat
    BY <1>11 DEF EvaluateObjective, CursorInv
  <2>2. /\ passed' \in {passed, [passed EXCEPT ![p] = @ \cup {o}]}
        /\ score' \in {score, [score EXCEPT ![p] = @ + Points[o]]}
        /\ next' = [next EXCEPT ![p] = @ + 1]
    BY <1>11 DEF EvaluateObjective
  <2> HIDE DEF o
  <2>3. passed' \in [Proc -> SUBSET Objective]
    <3>1. passed[p] \cup {o} \in SUBSET Objective
      BY <2>1
    <3>2. [passed EXCEPT ![p] = @ \cup {o}] \in [Proc -> SUBSET Objective]
      BY <3>1
    <3> QED
      BY <2>2, <3>2
  <2>4. score' \in [Proc -> Nat] /\ next' \in [Proc -> Nat]
    <3>1. score[p] + Points[o] \in Nat /\ next[p] + 1 \in Nat
      BY <2>1
    <3>2. [score EXCEPT ![p] = @ + Points[o]] \in [Proc -> Nat]
      BY <3>1
    <3>3. [next EXCEPT ![p] = @ + 1] \in [Proc -> Nat]
      BY <3>1
    <3> QED
      BY <2>2, <3>2, <3>3
  <2> QED
    BY <1>11, <2>3, <2>4 DEF EvaluateObjective, record, cluster, world
<1>12. ASSUME NEW p \in Proc, Grade(p) PROVE TypeOK'
  <2>1. loaded[p].hintsUsed \in Seq(Hint)
    BY DEF Snapshot
  <2>2. hintPenalty(loaded[p].hintsUsed) \in Nat
    BY <2>1, PenaltyType
  <2>3. PICK charged \in {breached, {}}, tampered \in {Tampered(p), FALSE} : card' = [card EXCEPT ![p] =
            [net  |-> NetScore(score[p], hintPenalty(loaded[p].hintsUsed),
                               IF "points" \in charged THEN RulePoints ELSE 0,
                               "fail" \in charged \/ tampered),
             late |-> loaded[p].deadline # NoDeadline /\ now > loaded[p].deadline,
             all  |-> score[p] = MaxScore /\ MaxScore > 0,
             at   |-> now]]
    BY <1>12 DEF Grade, Charged
  <2>4. NetScore(score[p], hintPenalty(loaded[p].hintsUsed),
                 IF "points" \in charged THEN RulePoints ELSE 0,
                 "fail" \in charged \/ tampered) \in Nat
    BY <2>2, NetScoreType DEF Tampered, Snapshot
  <2>5. card' \in [Proc -> [net : Nat, late : BOOLEAN, all : BOOLEAN, at : Nat]]
    <3> HIDE DEF TypeOK
    <3>1. card \in [Proc -> [net : Nat, late : BOOLEAN, all : BOOLEAN, at : Nat]] /\ now \in Nat
      BY DEF TypeOK
    <3> QED
      BY <2>3, <2>4, <3>1
  <2> QED
    BY <1>12, <2>5 DEF Grade, Goto, record, cluster, world
<1>13. ASSUME NEW p \in Proc, RecordAttempt(p) PROVE TypeOK'
  <2>1. /\ card[p].net \in Nat /\ card[p].late \in BOOLEAN
        /\ passed[p] \in SUBSET Objective
        /\ Len(attempts) + 1 \in Nat
    OBVIOUS
  <2>2. [n |-> Len(attempts) + 1, score |-> card[p].net, late |-> card[p].late,
         objectives |-> passed[p]] \in Attempt
    BY <2>1 DEF Attempt
  <2>3. attempts' \in Seq(Attempt) /\ bestScore' \in Nat
    BY <1>13, <2>1, <2>2 DEF RecordAttempt
  <2>4. NoSnapshot \in Snapshot
    BY DEF NoSnapshot, Snapshot, NoDeadline
  <2> QED
    BY <1>13, <2>3, <2>4 DEF RecordAttempt, Goto, Exit, cluster, world, NoCard
<1>14. ASSUME NEW p \in Proc, NextHint(p) PROVE TypeOK'
    BY <1>14 DEF NextHint, Goto, record, cluster, world, locals
<1>15. ASSUME NEW p \in Proc, RevealHint(p) PROVE TypeOK'
  <2>1. hintsUsed' \in Seq(Hint)
    BY <1>15 DEF RevealHint, CursorInv
  <2> QED
    BY <1>15, <2>1 DEF RevealHint, Goto, Exit, record, cluster, world, NoSnapshot, NoCard,
       NoDeadline, Snapshot, Attempt
<1>16. ASSUME NEW p \in Proc, ResetLoad(p) PROVE TypeOK'
    BY <1>16 DEF ResetLoad, Goto, record, cluster, world, locals
<1>17. ASSUME NEW p \in Proc, ResetRestore(p) PROVE TypeOK'
    BY <1>17 DEF ResetRestore, Goto, record, cluster, world, locals
<1>18. ASSUME NEW p \in Proc, RecordReset(p) PROVE TypeOK'
    BY <1>18 DEF RecordReset, Goto, Exit, record, cluster, world, locals, Snapshot,
       NoSnapshot, NoCard, NoDeadline, DeadlineFromNow
<1> QED
    BY <1>1, <1>2, <1>3, <1>4, <1>5, <1>6, <1>7, <1>8, <1>9, <1>10, <1>11, <1>12, <1>13,
       <1>14, <1>15, <1>16, <1>17, <1>18 DEF Next, Start, Player, Verify, Reveal, Reset

ScoreInv == TypeOK /\ CursorInv

\* The invariant of the scores holds for every behaviour.
LEMMA ScoreInvariant == Spec => []ScoreInv
<1>1. Init => ScoreInv
  <2> SUFFICES ASSUME Init PROVE ScoreInv
    OBVIOUS
  <2>1. NoSnapshot \in Snapshot
    BY DEF NoSnapshot, Snapshot, NoDeadline
  <2>2. DeadlineFromNow \in Nat
    BY ScoringAssumption DEF Init, DeadlineFromNow, NoDeadline
  <2>3. audited \in BOOLEAN
    BY DEF Init
  <2>4. hintsUsed \in Seq(Hint) /\ attempts \in Seq(Attempt)
    BY DEF Init
  <2>5. TypeOK
    BY <2>1, <2>2, <2>3, <2>4 DEF Init, TypeOK, NoCard
  <2> QED
    BY <2>5 DEF Init, ScoreInv, CursorInv
<1>2. ScoreInv /\ [Next]_vars => ScoreInv'
  <2>1. CASE Next
    BY <2>1, TypeStep, CursorStep DEF ScoreInv
  <2>2. CASE UNCHANGED vars
    BY <2>2 DEF vars, record, cluster, world, locals, ScoreInv, TypeOK, CursorInv
  <2> QED
    BY <2>1, <2>2
<1> QED
    BY <1>1, <1>2, PTL DEF Spec

\* Every variable keeps its type, whatever the commands do side by side.
THEOREM TypeCorrect == Spec => []TypeOK
<1>1. ScoreInv => TypeOK
    BY DEF ScoreInv
<1> QED
    BY <1>1, ScoreInvariant, PTL

-----------------------------------------------------------------------------
(* Attempts and the best score *)

\* Only the Update of verify touches the attempts and the best score.
LEMMA OnlyAttempts ==
    ASSUME Next
    PROVE  \/ \E p \in Proc : RecordAttempt(p)
           \/ UNCHANGED <<attempts, bestScore>>
BY DEF Next, Start, Player, Verify, Reveal, Reset, Tick, Play, Breach, RemovePolicy, Edit,
       Inject, applyEnforcement, applyNodeFaults, Arm, VerifyLoad, EvaluateObjective, Grade,
       NextHint, RevealHint, ResetLoad, ResetRestore, RecordReset, record

\* The best score is the maximum of the attempts in time: each Update compares
\* with the record it changes, not with one loaded before.
THEOREM BestIsMax == Spec => []BestIsMaxOnTime
<1>1. Init => BestIsMaxOnTime
    BY DEF Init, BestIsMaxOnTime
<1>2. ScoreInv /\ BestIsMaxOnTime /\ [Next]_vars => BestIsMaxOnTime'
  <2> SUFFICES ASSUME ScoreInv, BestIsMaxOnTime, [Next]_vars
               PROVE  BestIsMaxOnTime'
    OBVIOUS
  <2>1. CASE UNCHANGED <<attempts, bestScore>>
    BY <2>1 DEF BestIsMaxOnTime
  <2>2. ASSUME NEW p \in Proc, RecordAttempt(p) PROVE BestIsMaxOnTime'
    <3> DEFINE a == [n |-> Len(attempts) + 1, score |-> card[p].net,
                     late |-> card[p].late, objectives |-> passed[p]]
    <3>1. /\ attempts \in Seq(Attempt)
          /\ a \in Attempt
          /\ bestScore \in Nat
          /\ card[p].net \in Nat
          /\ card[p].late \in BOOLEAN
      BY DEF ScoreInv, TypeOK, Attempt
    <3>2. attempts' = Append(attempts, a)
      BY <2>2 DEF RecordAttempt
    <3>3. bestScore' = IF ~a.late /\ a.score > bestScore THEN a.score ELSE bestScore
      BY <2>2 DEF RecordAttempt
    <3> HIDE DEF a
    <3>4. /\ DOMAIN attempts' = 1..(Len(attempts) + 1)
          /\ \A i \in DOMAIN attempts : attempts'[i] = attempts[i]
          /\ attempts'[Len(attempts) + 1] = a
          /\ DOMAIN attempts = 1..Len(attempts)
          /\ Len(attempts) \in Nat
      BY <3>1, <3>2
    <3>5. /\ a.score \in Nat /\ a.late \in BOOLEAN
          /\ \A i \in DOMAIN attempts : attempts[i].score \in Nat
      <4>1. \A i \in DOMAIN attempts : attempts[i] \in Attempt
        BY <3>1, <3>4
      <4> QED
        BY <3>1, <4>1 DEF Attempt
    <3>6. ASSUME NEW i \in DOMAIN attempts', ~attempts'[i].late
          PROVE  attempts'[i].score <= bestScore'
      <4>1. CASE i \in DOMAIN attempts
        BY <3>1, <3>3, <3>4, <3>5, <3>6, <4>1 DEF BestIsMaxOnTime
      <4>2. CASE i = Len(attempts) + 1
        BY <3>1, <3>3, <3>4, <3>5, <3>6, <4>2
      <4> QED
        BY <3>4, <4>1, <4>2
    <3>7. ASSUME bestScore' # 0
          PROVE  \E i \in DOMAIN attempts' :
                    ~attempts'[i].late /\ attempts'[i].score = bestScore'
      <4>1. CASE ~a.late /\ a.score > bestScore
        BY <3>3, <3>4, <4>1
      <4>2. CASE ~(~a.late /\ a.score > bestScore)
        BY <3>3, <3>4, <3>7, <4>2 DEF BestIsMaxOnTime
      <4> QED
        BY <4>1, <4>2
    <3> QED
      BY <3>6, <3>7 DEF BestIsMaxOnTime
  <2> QED
    BY <2>1, <2>2, OnlyAttempts DEF vars, record
<1> QED
    BY <1>1, <1>2, ScoreInvariant, PTL DEF Spec

-----------------------------------------------------------------------------
(* Hints *)

\* Only a hint and a reset change which hints are used.
LEMMA OnlyHints ==
    ASSUME Next
    PROVE  \/ \E p \in Proc : RevealHint(p) \/ RecordReset(p)
           \/ UNCHANGED hintsUsed
BY DEF Next, Start, Player, Verify, Reveal, Reset, Tick, Play, Breach, RemovePolicy, Edit,
       Inject, applyEnforcement, applyNodeFaults, Arm, VerifyLoad, EvaluateObjective, Grade,
       NextHint, RecordAttempt, ResetLoad, ResetRestore, record

\* No hint is listed, and so charged, twice: the Update looks again.
THEOREM HintsRecordedOnce == Spec => []HintsOnce
<1>1. Init => HintsOnce
    BY DEF Init, HintsOnce
<1>2. ScoreInv /\ HintsOnce /\ [Next]_vars => HintsOnce'
  <2> SUFFICES ASSUME ScoreInv, HintsOnce, [Next]_vars
               PROVE  HintsOnce'
    OBVIOUS
  <2>1. CASE UNCHANGED hintsUsed
    BY <2>1 DEF HintsOnce
  <2>2. ASSUME NEW p \in Proc, RecordReset(p) PROVE HintsOnce'
    BY <2>2 DEF RecordReset, HintsOnce
  <2>3. ASSUME NEW p \in Proc, RevealHint(p) PROVE HintsOnce'
    <3> DEFINE h == Hints[next[p]]
    <3>1. CASE h \in ToSet(hintsUsed)
      BY <2>3, <3>1 DEF RevealHint, HintsOnce
    <3>2. CASE h \notin ToSet(hintsUsed)
      <4>1. hintsUsed \in Seq(Hint) /\ h \in Hint
        BY <2>3, ScoringAssumption DEF RevealHint, ScoreInv, TypeOK, CursorInv
      <4>2. hintsUsed' = Append(hintsUsed, h)
        BY <2>3, <3>2 DEF RevealHint
      <4>3. \A i \in DOMAIN hintsUsed : hintsUsed[i] # h
        BY <3>2 DEF ToSet
      <4> HIDE DEF h
      <4>4. /\ DOMAIN hintsUsed' = 1..(Len(hintsUsed) + 1)
            /\ \A i \in DOMAIN hintsUsed : hintsUsed'[i] = hintsUsed[i]
            /\ hintsUsed'[Len(hintsUsed) + 1] = h
            /\ DOMAIN hintsUsed = 1..Len(hintsUsed)
            /\ Len(hintsUsed) \in Nat
        BY <4>1, <4>2
      <4> QED
        BY <4>3, <4>4 DEF HintsOnce
    <3> QED
      BY <3>1, <3>2
  <2> QED
    BY <2>1, <2>2, <2>3, OnlyHints DEF vars, record
<1> QED
    BY <1>1, <1>2, ScoreInvariant, PTL DEF Spec

-----------------------------------------------------------------------------
(* Deadlines *)

\* Deadlines exist or not by the challenge, lie at most TimeLimit ahead, and
\* only move away: what a verify has loaded is no later than the recorded one.
DeadlineInv ==
    /\ TimeLimit = 0 => deadline = NoDeadline
    /\ deadline <= now + TimeLimit
    /\ \A p \in Proc :
        /\ pc[p] \in {"evaluate", "recordAttempt"} =>
             /\ loaded[p].deadline <= deadline
             /\ TimeLimit # 0 => loaded[p].deadline # NoDeadline
        /\ pc[p] = "recordAttempt" /\ ~card[p].late =>
             loaded[p].deadline = NoDeadline \/ card[p].at <= loaded[p].deadline
    /\ TimeLimit # 0 => deadline # NoDeadline

\* No step brings a deadline nearer.
LEMMA DeadlineStep ==
    ASSUME ScoreInv, DeadlineInv, Next
    PROVE  DeadlineInv'
<1> USE ScoringAssumption DEF ScoreInv, TypeOK, DeadlineInv
<1>1. CASE Tick
    BY <1>1 DEF Tick, record, cluster, world, locals
<1>2. CASE Play
    BY <1>2 DEF Play, record, cluster, world, locals
<1>3. CASE Breach
    BY <1>3 DEF Breach, record, cluster, world, locals
<1>4. CASE RemovePolicy
    BY <1>4 DEF RemovePolicy, record, cluster, world, locals
<1>5. CASE Edit
    BY <1>5 DEF Edit, record, cluster, world, locals
<1>6. CASE Inject
    BY <1>6 DEF Inject, record, cluster, world, locals
<1>7. CASE applyEnforcement
    BY <1>7 DEF applyEnforcement, record, cluster, world, locals
<1>8. CASE applyNodeFaults
    BY <1>8 DEF applyNodeFaults, record, cluster, world, locals
<1>9. CASE Arm
    BY <1>9 DEF Arm, record, cluster, world, locals, NoDeadline, DeadlineFromNow, Snapshot
<1>10. ASSUME NEW p \in Proc, VerifyLoad(p) PROVE DeadlineInv'
    BY <1>10 DEF VerifyLoad, Goto, Load, record, cluster, world, locals, Snapshot, NoDeadline
<1>11. ASSUME NEW p \in Proc, EvaluateObjective(p) PROVE DeadlineInv'
    BY <1>11 DEF EvaluateObjective, record, cluster, world, locals
<1>12. ASSUME NEW p \in Proc, Grade(p) PROVE DeadlineInv'
  <2> DEFINE late == loaded[p].deadline # NoDeadline /\ now > loaded[p].deadline
  <2>1. PICK net, all : card' = [card EXCEPT ![p] =
            [net |-> net, late |-> late, all |-> all, at |-> now]]
    BY <1>12 DEF Grade
  <2>2. /\ UNCHANGED <<now, deadline, loaded>>
        /\ pc' = [pc EXCEPT ![p] = "recordAttempt"]
        /\ pc[p] = "evaluate"
    BY <1>12 DEF Grade, Goto, record, world
  <2>3. loaded[p].deadline \in Nat
    BY DEF Snapshot
  <2>4. ~late => loaded[p].deadline = NoDeadline \/ now <= loaded[p].deadline
    BY <2>3
  <2> HIDE DEF late
  <2>5. /\ card'[p].late = late /\ card'[p].at = now
        /\ \A q \in Proc \ {p} : card'[q] = card[q]
    BY <2>1
  <2> QED
    BY <2>2, <2>4, <2>5
<1>13. ASSUME NEW p \in Proc, RecordAttempt(p) PROVE DeadlineInv'
    BY <1>13 DEF RecordAttempt, Goto, Exit, record, cluster, world, locals, NoSnapshot,
       NoCard, NoDeadline, Snapshot
<1>14. ASSUME NEW p \in Proc, NextHint(p) PROVE DeadlineInv'
    BY <1>14 DEF NextHint, Goto, record, cluster, world, locals
<1>15. ASSUME NEW p \in Proc, RevealHint(p) PROVE DeadlineInv'
    BY <1>15 DEF RevealHint, Goto, Exit, record, cluster, world, locals, NoSnapshot,
       NoCard, NoDeadline, Snapshot
<1>16. ASSUME NEW p \in Proc, ResetLoad(p) PROVE DeadlineInv'
    BY <1>16 DEF ResetLoad, Goto, record, cluster, world, locals
<1>17. ASSUME NEW p \in Proc, ResetRestore(p) PROVE DeadlineInv'
    BY <1>17 DEF ResetRestore, Goto, record, cluster, world, locals
<1>18. ASSUME NEW p \in Proc, RecordReset(p) PROVE DeadlineInv'
    BY <1>18 DEF RecordReset, Goto, Exit, record, cluster, world, locals, Snapshot,
       NoSnapshot, NoCard, NoDeadline, DeadlineFromNow
<1> QED
    BY <1>1, <1>2, <1>3, <1>4, <1>5, <1>6, <1>7, <1>8, <1>9, <1>10, <1>11, <1>12, <1>13,
       <1>14, <1>15, <1>16, <1>17, <1>18 DEF Next, Start, Player, Verify, Reveal, Reset

\* A verify that was graded past the deadline does not raise the best score.
THEOREM LateNeverCounts == Spec => NoLateBest
<1>1. Init => DeadlineInv
    BY ScoringAssumption DEF Init, DeadlineInv, DeadlineFromNow, NoDeadline
<1>2. ScoreInv /\ DeadlineInv /\ [Next]_vars => DeadlineInv'
  <2>1. CASE ScoreInv /\ DeadlineInv /\ Next
    BY <2>1, DeadlineStep
  <2>2. CASE DeadlineInv /\ UNCHANGED vars
    BY <2>2 DEF vars, record, cluster, world, locals, DeadlineInv
  <2> QED
    BY <2>1, <2>2
<1>3. ScoreInv /\ DeadlineInv /\ [Next]_vars =>
        [\A p \in Proc :
            RecordAttempt(p) /\ bestScore' # bestScore =>
                deadline = NoDeadline \/ card[p].at <= deadline]_vars
  <2> SUFFICES ASSUME ScoreInv, DeadlineInv, NEW p \in Proc, RecordAttempt(p),
                      bestScore' # bestScore
               PROVE  deadline = NoDeadline \/ card[p].at <= deadline
    OBVIOUS
  <2>1. ~card[p].late /\ pc[p] = "recordAttempt"
    BY DEF RecordAttempt
  <2>2. CASE TimeLimit = 0
    BY <2>2 DEF DeadlineInv
  <2>3. CASE TimeLimit # 0
    <3>1. /\ loaded[p].deadline \in Nat /\ deadline \in Nat /\ card[p].at \in Nat
      BY DEF ScoreInv, TypeOK, Snapshot
    <3> QED
      BY <2>1, <2>3, <3>1 DEF DeadlineInv
  <2> QED
    BY <2>2, <2>3
<1> QED
    BY <1>1, <1>2, <1>3, ScoreInvariant, PTL DEF Spec, NoLateBest

-----------------------------------------------------------------------------
(* Attempts *)

\* Each attempt carries its position.
NumberInv == \A i \in DOMAIN attempts : attempts[i].n = i

\* A list is the beginning of the list with one more element.
LEMMA AppendExtends ==
    ASSUME NEW S, NEW s \in Seq(S), NEW e
    PROVE  IsPrefix(s, Append(s, e))
<1>1. Len(s) \in Nat /\ Len(Append(s, e)) = Len(s) + 1
    OBVIOUS
<1>2. \A i \in 1 .. Len(s) : Append(s, e)[i] = s[i]
    OBVIOUS
<1>3. SubSeq(s, 1, Len(s)) = SubSeq(Append(s, e), 1, Len(s))
    BY <1>1, <1>2
<1> QED
    BY <1>1, <1>3 DEF IsPrefix

\* An attempt is appended under its number and what was recorded before stays,
\* for any interleaving of commands.
THEOREM AttemptsStay == Spec => AttemptsKept
<1>1. Init => NumberInv
    BY DEF Init, NumberInv
<1>2. ScoreInv /\ NumberInv /\ [Next]_vars =>
        /\ NumberInv'
        /\ IsPrefix(attempts, attempts')
        /\ bestScore' >= bestScore
  <2> SUFFICES ASSUME ScoreInv, NumberInv, [Next]_vars
               PROVE  NumberInv' /\ IsPrefix(attempts, attempts') /\ bestScore' >= bestScore
      OBVIOUS
  <2>1. attempts \in Seq(Attempt) /\ bestScore \in Nat /\ card \in
          [Proc -> [net : Nat, late : BOOLEAN, all : BOOLEAN, at : Nat]]
      BY DEF ScoreInv, TypeOK
  <2>2. CASE UNCHANGED <<attempts, bestScore>>
    <3>1. IsPrefix(attempts, attempts)
        BY <2>1 DEF IsPrefix
    <3> QED
        BY <2>1, <2>2, <3>1 DEF NumberInv
  <2>3. ASSUME NEW p \in Proc, RecordAttempt(p)
        PROVE  NumberInv' /\ IsPrefix(attempts, attempts') /\ bestScore' >= bestScore
    <3>1. PICK e : attempts' = Append(attempts, e) /\ e.n = Len(attempts) + 1
        BY <2>3 DEF RecordAttempt
    <3>2. NumberInv'
        BY <2>1, <3>1 DEF NumberInv
    <3>3. IsPrefix(attempts, attempts')
        BY <2>1, <3>1, AppendExtends
    <3>4. bestScore' >= bestScore
        BY <2>1, <2>3 DEF RecordAttempt
    <3> QED
        BY <3>2, <3>3, <3>4
  <2> QED
      BY <2>2, <2>3, OnlyAttempts DEF vars, record
<1>3. ScoreInv /\ NumberInv /\ [Next]_vars =>
        [/\ IsPrefix(attempts, attempts')
         /\ \A i \in DOMAIN attempts' : attempts'[i].n = i
         /\ bestScore' >= bestScore]_vars
    BY <1>2 DEF NumberInv
<1> QED
    BY <1>1, <1>2, <1>3, ScoreInvariant, PTL DEF Spec, AttemptsKept

-----------------------------------------------------------------------------
(* What is passed and what is worth points *)

\* The points of each objective, and those that passing os earns.
Weights == [i \in DOMAIN Objectives |-> Points[Objectives[i]]]
Earned(os) ==
    [i \in DOMAIN Objectives |-> IF Objectives[i] \in os THEN Points[Objectives[i]] ELSE 0]

Before(n) == {Objectives[i] : i \in 1 .. n - 1}

\* A verify that is under way has the points of what it passed among the objectives
\* it has looked at; what it graded as complete is; the others have nothing.
TallyInv ==
    \A p \in Proc :
        /\ pc[p] \notin {"evaluate", "recordAttempt"} => passed[p] = {} /\ score[p] = 0
        /\ pc[p] = "evaluate" =>
             /\ next[p] \in 1 .. Len(Objectives) + 1
             /\ passed[p] \subseteq Before(next[p])
             /\ score[p] = SumTo(Earned(passed[p]), next[p] - 1)
        /\ pc[p] = "recordAttempt" /\ card[p].all => Worth \subseteq passed[p]

\* The full score is only earned by everything that is worth points.
LEMMA FullScore ==
    ASSUME NEW os, SumTo(Earned(os), Len(Objectives)) = MaxScore
    PROVE  Worth \subseteq os
<1> DEFINE n == Len(Objectives)
<1>1. n \in Nat /\ DOMAIN Objectives = 1 .. n /\ \A i \in 1 .. n : Objectives[i] \in Objective
    BY ScoringAssumption
<1>2. \A i \in 1 .. n :
        /\ Earned(os)[i] \in Nat /\ Weights[i] \in Nat
        /\ Earned(os)[i] <= Weights[i]
    BY <1>1, ScoringAssumption DEF Earned, Weights
<1>3. SumTo(Earned(os), n) = SumTo(Weights, n)
    BY DEF MaxScore, Weights
<1> HIDE DEF n
<1>4. \A i \in 1 .. n : Earned(os)[i] = Weights[i]
    BY <1>1, <1>2, <1>3, SumComplete
<1> QED
    BY <1>1, <1>4 DEF Worth, ToSet, Earned, Weights

\* An objective that is looked at adds its points when it passes.
LEMMA TallyEvaluate ==
    ASSUME ScoreInv, TallyInv, NEW p \in Proc, EvaluateObjective(p)
    PROVE  /\ next'[p] \in 1 .. Len(Objectives) + 1
           /\ passed'[p] \subseteq Before(next'[p])
           /\ score'[p] = SumTo(Earned(passed'[p]), next'[p] - 1)
<1> DEFINE n == next[p]
           o == Objectives[n]
<1>1. /\ n \in 1 .. Len(Objectives) /\ Len(Objectives) \in Nat
      /\ DOMAIN Objectives = 1 .. Len(Objectives)
      /\ passed[p] \subseteq Before(n)
      /\ score[p] = SumTo(Earned(passed[p]), n - 1)
    BY ScoringAssumption DEF EvaluateObjective, TallyInv
<1>2. /\ next'[p] = n + 1
      /\ \/ passed'[p] = passed[p] \cup {o} /\ score'[p] = score[p] + Points[o]
         \/ passed'[p] = passed[p] /\ score'[p] = score[p]
    BY DEF EvaluateObjective, ScoreInv, TypeOK
<1>3. o \notin passed[p] /\ Before(n) \subseteq Before(n + 1) /\ o \in Before(n + 1)
  <2>1. o \notin Before(n)
      BY <1>1, IdAssumption DEF Before
  <2>2. n \in 1 .. (n + 1) - 1 /\ \A i \in 1 .. n - 1 : i \in 1 .. (n + 1) - 1
      BY <1>1
  <2> QED
      BY <1>1, <2>1, <2>2 DEF Before
<1>4. passed'[p] \subseteq Before(n + 1)
    BY <1>1, <1>2, <1>3
<1>5. SumTo(Earned(passed'[p]), n - 1) = SumTo(Earned(passed[p]), n - 1)
  <2>1. n - 1 \in Nat
      BY <1>1
  <2>2. ASSUME NEW i \in 1 .. n - 1 PROVE Earned(passed'[p])[i] = Earned(passed[p])[i]
    <3>1. i \in DOMAIN Objectives /\ Objectives[i] # o
        BY <1>1, IdAssumption
    <3> QED
        BY <1>2, <3>1 DEF Earned
  <2> HIDE DEF n
  <2> QED
      BY <2>1, <2>2, SumAgrees
<1>6. SumTo(Earned(passed'[p]), n) = SumTo(Earned(passed'[p]), n - 1) + Earned(passed'[p])[n]
  <2>1. n - 1 \in Nat /\ (n - 1) + 1 = n
      BY <1>1
  <2> HIDE DEF n
  <2> QED
      BY <2>1, SumStep
<1>7. Earned(passed'[p])[n] = IF o \in passed'[p] THEN Points[o] ELSE 0
    BY <1>1 DEF Earned
<1>8. score[p] \in Nat /\ Points[o] \in Nat
    BY <1>1, ScoringAssumption DEF ScoreInv, TypeOK
<1>9. score'[p] = SumTo(Earned(passed'[p]), n)
    BY <1>1, <1>2, <1>3, <1>5, <1>6, <1>7, <1>8
<1> QED
    BY <1>1, <1>2, <1>4, <1>9

\* Only verify counts; the other commands begin and end with nothing counted.
LEMMA TallyStep ==
    ASSUME ScoreInv, TallyInv, Next
    PROVE  TallyInv'
<1> USE DEF ScoreInv, TypeOK, TallyInv
<1>1. CASE UNCHANGED <<pc, locals>>
    BY <1>1 DEF locals
<1>2. ASSUME NEW p \in Proc, VerifyLoad(p) PROVE TallyInv'
  <2>1. 1 \in 1 .. Len(Objectives) + 1 /\ SumTo(Earned({}), 0) = 0 /\ 1 - 1 = 0
      BY ScoringAssumption, SumStep
  <2>2. passed[p] = {} /\ score[p] = 0
      BY <1>2 DEF VerifyLoad
  <2> QED
      BY <1>2, <2>1, <2>2 DEF VerifyLoad, Goto, Load
<1>3. ASSUME NEW p \in Proc, EvaluateObjective(p) PROVE TallyInv'
  <2>1. /\ next'[p] \in 1 .. Len(Objectives) + 1
        /\ passed'[p] \subseteq Before(next'[p])
        /\ score'[p] = SumTo(Earned(passed'[p]), next'[p] - 1)
      BY <1>3, TallyEvaluate
  <2>2. /\ UNCHANGED <<pc, card>> /\ pc[p] = "evaluate"
        /\ \A q \in Proc \ {p} : /\ next'[q] = next[q] /\ passed'[q] = passed[q]
                               /\ score'[q] = score[q]
      BY <1>3 DEF EvaluateObjective
  <2> QED
      BY <2>1, <2>2
<1>4. ASSUME NEW p \in Proc, Grade(p) PROVE TallyInv'
  <2>1. PICK net : card' = [card EXCEPT ![p] =
            [net  |-> net,
             late |-> loaded[p].deadline # NoDeadline /\ now > loaded[p].deadline,
             all  |-> score[p] = MaxScore /\ MaxScore > 0,
             at   |-> now]]
    <3> HIDE DEF ScoreInv, TypeOK, TallyInv
    <3> QED
        BY <1>4 DEF Grade
  <2>2. /\ pc' = [pc EXCEPT ![p] = "recordAttempt"] /\ pc[p] = "evaluate"
        /\ UNCHANGED <<next, passed, score>> /\ next[p] > Len(Objectives)
      BY <1>4 DEF Grade, Goto
  <2>3. card'[p].all => Worth \subseteq passed[p]
    <3>1. next[p] - 1 = Len(Objectives)
      <4>1. next[p] \in 1 .. Len(Objectives) + 1 /\ next[p] > Len(Objectives)
          BY <2>2
      <4>2. Len(Objectives) \in Nat
          BY ScoringAssumption
      <4> HIDE DEF ScoreInv, TypeOK, TallyInv
      <4> QED
          BY <4>1, <4>2
    <3>2. score[p] = SumTo(Earned(passed[p]), Len(Objectives))
        BY <2>2, <3>1
    <3>3. card'[p].all => score[p] = MaxScore
        BY <2>1
    <3> QED
        BY <3>2, <3>3, FullScore
  <2>4. \A q \in Proc \ {p} : card'[q] = card[q]
      BY <2>1
  <2> QED
      BY <2>2, <2>3, <2>4
<1>5. ASSUME NEW p \in Proc, RecordAttempt(p) \/ RevealHint(p) \/ RecordReset(p) PROVE TallyInv'
  <2>1. Exit(p)
      BY <1>5 DEF RecordAttempt, RevealHint, RecordReset
  <2> QED
      BY <2>1 DEF Exit, Goto, NoCard
<1>6. ASSUME NEW p \in Proc, NextHint(p) \/ ResetLoad(p) PROVE TallyInv'
    BY <1>6 DEF NextHint, ResetLoad, Goto
<1>7. ASSUME NEW p \in Proc, ResetRestore(p) PROVE TallyInv'
    BY <1>7 DEF ResetRestore, Goto, locals
<1>8. CASE Tick \/ Start \/ Player
    BY <1>1, <1>8 DEF Tick, Start, Player, Play, Breach, RemovePolicy, Edit, Inject,
       applyEnforcement, applyNodeFaults, Arm
<1> QED
    BY <1>2, <1>3, <1>4, <1>5, <1>6, <1>7, <1>8 DEF Next, Verify, Reveal, Reset

\* Only a verify makes a session verified, and the record keeps its attempt.
LEMMA VerifiedStep ==
    ASSUME ScoreInv, TallyInv, VerifiedWasPassed, Next
    PROVE  VerifiedWasPassed'
<1> USE DEF VerifiedWasPassed
<1>1. ASSUME NEW p \in Proc, RecordAttempt(p) PROVE VerifiedWasPassed'
  <2>1. PICK e : attempts' = Append(attempts, e) /\ e.objectives = passed[p]
      BY <1>1 DEF RecordAttempt
  <2>2. attempts \in Seq(Attempt) /\ Len(attempts) \in Nat
      BY DEF ScoreInv, TypeOK
  <2>3. /\ \A i \in DOMAIN attempts : i \in DOMAIN attempts' /\ attempts'[i] = attempts[i]
        /\ Len(attempts) + 1 \in DOMAIN attempts' /\ attempts'[Len(attempts) + 1] = e
      BY <2>1, <2>2
  <2>4. CASE card[p].all
    <3>1. Worth \subseteq passed[p]
        BY <1>1, <2>4 DEF RecordAttempt, TallyInv
    <3> QED
        BY <2>1, <2>3, <3>1
  <2>5. CASE ~card[p].all
      BY <1>1, <2>3, <2>5 DEF RecordAttempt
  <2> QED
      BY <2>4, <2>5
<1>2. CASE \E p \in Proc : RecordReset(p)
    BY <1>2 DEF RecordReset
<1>3. CASE Arm
    BY <1>3 DEF Arm
<1>4. CASE UNCHANGED <<phase, attempts>>
    BY <1>4
<1> QED
    BY <1>1, <1>2, <1>3, <1>4 DEF Next, Start, Player, Verify, Reveal, Reset, Tick, Play,
       Breach, RemovePolicy, Edit, Inject, applyEnforcement, applyNodeFaults, VerifyLoad,
       EvaluateObjective, Grade, NextHint, RevealHint, ResetLoad, ResetRestore, record

\* A session is verified only when one attempt passed everything worth points, for
\* any challenge: equal sums are not reached another way.
THEOREM VerifiedIsPassed == Spec => []VerifiedWasPassed
<1>1. Init => TallyInv /\ VerifiedWasPassed
    BY DEF Init, TallyInv, VerifiedWasPassed
<1>2. ScoreInv /\ TallyInv /\ VerifiedWasPassed /\ [Next]_vars => TallyInv' /\ VerifiedWasPassed'
  <2>1. ASSUME TallyInv, VerifiedWasPassed, UNCHANGED vars
        PROVE  TallyInv' /\ VerifiedWasPassed'
      BY <2>1 DEF vars, record, cluster, world, locals, TallyInv, VerifiedWasPassed
  <2> QED
      BY <2>1, TallyStep, VerifiedStep
<1> QED
    BY <1>1, <1>2, ScoreInvariant, PTL DEF Spec
=============================================================================
