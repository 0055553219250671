---------------------------- MODULE GradingProofs ---------------------------
(***************************************************************************)
(* What the grading of objectives says of the cluster, proved for any      *)
(* objectives and any changes of the cluster: first an evaluation look by  *)
(* look, then the author test that builds on evaluations; that the         *)
(* objectives they are given do not wait for each other; and that a match, *)
(* the check that compares objects, means what the format says it means.   *)
(***************************************************************************)
EXTENDS Evaluation, AuthorTest, Format, SumsProofs, SequenceTheorems

\* Every objective has checks, and every check a leaf (Validate demands both);
\* objectives are counted from 1.
Leaves == [kind : {"get", "list", "probe"}, fact : Fact]
Written ==
    Objectives \in Seq([checks : Seq(Seq(Leaves) \ {<<>>}) \ {<<>>},
                        dependsOn : SUBSET (Nat \ {0})])

ResultSet == {"passed", "failed", "errored", "blocked"}
AtCheck == {"check", "probe", "checked"}

EvaluationType ==
    /\ facts \subseteq Fact
    /\ doing \in [Verifier -> {"idle", "objective"} \cup AtCheck]
    /\ obj \in [Verifier -> Nat]
    /\ check \in [Verifier -> Nat]
    /\ leaf \in [Verifier -> Nat]
    /\ verdict \in [Verifier -> {"none", "pass", "fail", "error"}]
    /\ card \in [Verifier -> Seq(ResultSet)]
    /\ steady \in [Verifier -> SUBSET Fact]
    /\ seen \in [Verifier -> SUBSET Fact]
    /\ erred \in [Verifier -> BOOLEAN]

\* The position of a process, and that it does not begin an objective before
\* what it depends on has passed.
PlaceInv(p) ==
    /\ doing[p] # "idle" => obj[p] = Len(card[p]) + 1
    /\ DOMAIN card[p] \subseteq Objective
    /\ doing[p] \in AtCheck =>
         /\ obj[p] \in Objective
         /\ check[p] \in DOMAIN Checks(obj[p])
         /\ leaf[p] \in DOMAIN Checks(obj[p])[check[p]]
         /\ dependenciesMet(p, obj[p])
    /\ doing[p] = "checked" => verdict[p] # "none"

\* The two histories enclose what holds.
WorldInv(p) ==
    /\ steady[p] \subseteq facts
    /\ doing[p] # "idle" => facts \subseteq seen[p]

Shown(p, o, c) == \E l \in DOMAIN Checks(o)[c] : Checks(o)[c][l].fact \in seen[p]
Unsteady(p, o, c, l) == Checks(o)[c][l].fact \notin steady[p]

\* Why a check fails: no leaf of it held all the time, unless one was in error,
\* which a check of a single leaf never takes for a failure.
Refuted(p, o, c) ==
    /\ ~erred[p] => \A l \in DOMAIN Checks(o)[c] : Unsteady(p, o, c, l)
    /\ Len(Checks(o)[c]) = 1 => Unsteady(p, o, c, 1)

\* What the looks of a process at its objective have found.
LooksInv(p) ==
    doing[p] \in AtCheck =>
        /\ \A c \in DOMAIN Checks(obj[p]) : c < check[p] => Shown(p, obj[p], c)
        /\ doing[p] # "checked" /\ ~erred[p] =>
             \A l \in DOMAIN Checks(obj[p])[check[p]] :
                 l < leaf[p] => Unsteady(p, obj[p], check[p], l)
        /\ doing[p] = "checked" =>
             /\ verdict[p] = "pass" => Shown(p, obj[p], check[p])
             /\ verdict[p] = "fail" => Refuted(p, obj[p], check[p])
             /\ verdict[p] = "error" => erred[p]

\* What each result says.
CardInv(p) ==
    \A o \in DOMAIN card[p] :
        /\ card[p][o] = "passed" =>
             dependenciesMet(p, o) /\ \A c \in DOMAIN Checks(o) : Shown(p, o, c)
        /\ card[p][o] = "blocked" => ~dependenciesMet(p, o)
        /\ card[p][o] = "errored" => erred[p]
        /\ card[p][o] = "failed" => \E c \in DOMAIN Checks(o) : Refuted(p, o, c)

ProcInv(p) == PlaceInv(p) /\ WorldInv(p) /\ LooksInv(p) /\ CardInv(p)
EvaluationInv == EvaluationType /\ \A p \in Verifier : ProcInv(p)

-----------------------------------------------------------------------------

\* What the challenge is made of.
LEMMA Parts ==
    ASSUME Written
    PROVE  /\ Len(Objectives) \in Nat /\ Objective = 1 .. Len(Objectives)
           /\ \A o \in Objective :
                /\ Objectives[o].dependsOn \subseteq Nat \ {0}
                /\ Len(Checks(o)) \in Nat \ {0} /\ DOMAIN Checks(o) = 1 .. Len(Checks(o))
                /\ \A c \in DOMAIN Checks(o) :
                     /\ Len(Checks(o)[c]) \in Nat \ {0}
                     /\ DOMAIN Checks(o)[c] = 1 .. Len(Checks(o)[c])
<1> DEFINE Check == Seq(Leaves) \ {<<>>}
<1>1. Len(Objectives) \in Nat /\ Objective = 1 .. Len(Objectives)
    BY DEF Written, Objective
<1>2. ASSUME NEW o \in Objective
      PROVE  Objectives[o].dependsOn \subseteq Nat \ {0} /\ Checks(o) \in Seq(Check) \ {<<>>}
  <2>1. Objectives[o] \in [checks : Seq(Check) \ {<<>>}, dependsOn : SUBSET (Nat \ {0})]
      BY <1>1, ElementOfSeq DEF Written
  <2> QED
      BY <2>1 DEF Checks
<1>3. ASSUME NEW S, NEW s \in Seq(S) \ {<<>>}
      PROVE  Len(s) \in Nat \ {0} /\ DOMAIN s = 1 .. Len(s)
    BY EmptySeq
<1>4. ASSUME NEW o \in Objective, NEW c \in DOMAIN Checks(o)
      PROVE  Checks(o)[c] \in Seq(Leaves) \ {<<>>}
  <2>1. Checks(o)[c] \in Check
      BY <1>2, ElementOfSeq
  <2> QED
      BY <2>1
<1> QED
    BY <1>1, <1>2, <1>3, <1>4

\* A step of one process leaves the others where they are, and what holds alone.
LEMMA OthersStay ==
    ASSUME EvaluationType, NEW p \in Verifier, EvalBegin(p) \/ EvalStep(p) \/ EvalKill(p)
    PROVE  /\ UNCHANGED facts
           /\ \A q \in Verifier \ {p} :
                /\ doing'[q] = doing[q] /\ obj'[q] = obj[q] /\ check'[q] = check[q]
                /\ leaf'[q] = leaf[q] /\ verdict'[q] = verdict[q] /\ card'[q] = card[q]
                /\ steady'[q] = steady[q] /\ seen'[q] = seen[q] /\ erred'[q] = erred[q]
<1> USE DEF EvaluationType, EvalGoto, At, Record, Result, world, position, evalHistory
<1>1. CASE EvalBegin(p) \/ EvalKill(p)
    BY <1>1 DEF EvalBegin, EvalKill
<1>2. CASE EvaluateObjective(p) \/ Evaluated(p) \/ Retried(p)
    BY <1>2 DEF EvaluateObjective, Evaluated, Retried
<1>3. CASE Look(p)
    BY <1>3 DEF Look
<1>4. CASE evalProbe(p)
    BY <1>4 DEF evalProbe
<1>5. CASE awaitProbe(p)
    BY <1>5 DEF awaitProbe
<1>6. CASE evalObjective(p)
    BY <1>6 DEF evalObjective
<1> QED
    BY <1>1, <1>2, <1>3, <1>4, <1>5, <1>6 DEF EvalStep

\* What is true of a process stays true in the steps of others.
LEMMA Frame ==
    ASSUME EvaluationInv, NEW p \in Verifier, EvalBegin(p) \/ EvalStep(p) \/ EvalKill(p), NEW q \in Verifier \ {p}
    PROVE  ProcInv(q)'
<1>1. ProcInv(q)
    BY DEF EvaluationInv
<1>2. /\ UNCHANGED facts
      /\ doing'[q] = doing[q] /\ obj'[q] = obj[q] /\ check'[q] = check[q]
      /\ leaf'[q] = leaf[q] /\ verdict'[q] = verdict[q] /\ card'[q] = card[q]
      /\ steady'[q] = steady[q] /\ seen'[q] = seen[q] /\ erred'[q] = erred[q]
    BY OthersStay DEF EvaluationInv
<1>3. /\ \A o : dependenciesMet(q, o)' <=> dependenciesMet(q, o)
      /\ \A o, c : Shown(q, o, c)' <=> Shown(q, o, c)
      /\ \A o, c : Refuted(q, o, c)' <=> Refuted(q, o, c)
      /\ \A o, c, l : Unsteady(q, o, c, l)' <=> Unsteady(q, o, c, l)
    BY <1>2 DEF dependenciesMet, Shown, Unsteady, Refuted
<1>4. PlaceInv(q)' /\ WorldInv(q)'
    BY <1>1, <1>2, <1>3 DEF ProcInv, PlaceInv, WorldInv
<1>5. LooksInv(q)'
    BY <1>1, <1>2, <1>3 DEF ProcInv, LooksInv
<1>6. CardInv(q)'
    BY <1>1, <1>2, <1>3 DEF ProcInv, CardInv
<1> QED
    BY <1>4, <1>5, <1>6 DEF ProcInv

\* A flip adds to what was seen and takes from what was steady.
LEMMA FlipStep ==
    ASSUME EvaluationInv, Flip
    PROVE  EvaluationInv'
<1>1. UNCHANGED <<doing, obj, check, leaf, verdict, card, erred>>
    BY DEF Flip, position
<1>2. PICK now \in SUBSET (Fact \cup facts) :
        /\ facts' = now
        /\ steady' = [p \in Verifier |-> steady[p] \cap now]
        /\ seen' = [p \in Verifier |-> seen[p] \cup now]
    BY DEF Flip
<1>3. EvaluationType'
    BY <1>1, <1>2 DEF EvaluationInv, EvaluationType
<1>4. ASSUME NEW p \in Verifier PROVE ProcInv(p)'
  <2>1. ProcInv(p) /\ steady'[p] = steady[p] \cap now /\ seen'[p] = seen[p] \cup now
      BY <1>2 DEF EvaluationInv
  <2>2. /\ \A o : dependenciesMet(p, o)' <=> dependenciesMet(p, o)
        /\ \A o, c : Shown(p, o, c) => Shown(p, o, c)'
        /\ \A o, c, l : Unsteady(p, o, c, l) => Unsteady(p, o, c, l)'
      BY <1>1, <2>1 DEF dependenciesMet, Shown, Unsteady
  <2>3. \A o, c : Refuted(p, o, c) => Refuted(p, o, c)'
      BY <1>1, <2>2 DEF Refuted
  <2>4. PlaceInv(p)' /\ WorldInv(p)'
      BY <1>1, <1>2, <2>1, <2>2 DEF ProcInv, PlaceInv, WorldInv
  <2>5. LooksInv(p)'
      BY <1>1, <2>1, <2>2, <2>3 DEF ProcInv, LooksInv
  <2>6. CardInv(p)'
      BY <1>1, <2>1, <2>2, <2>3 DEF ProcInv, CardInv
  <2> QED
      BY <2>4, <2>5, <2>6 DEF ProcInv
<1> QED
    BY <1>3, <1>4 DEF EvaluationInv

\* A look that finds a leaf to hold or not moves on with what it found.
LEMMA ResultStep ==
    ASSUME Written, EvaluationInv, NEW p \in Verifier, doing[p] \in {"check", "probe"},
           NEW r \in {"pass", "fail", "error"}, Result(p, r),
           UNCHANGED <<facts, card, steady, seen>>,
           erred' \in {erred, [erred EXCEPT ![p] = TRUE]},
           r = "pass" => Leaf(p).fact \in facts,
           r = "fail" => Leaf(p).fact \notin facts,
           r = "error" => erred'[p]
    PROVE  EvaluationType' /\ ProcInv(p)'
<1> DEFINE o == obj[p]
           c == check[p]
           l == leaf[p]
           n == Len(Checks(o)[c])
           out == IF n > 1 THEN evalAnyOf(p, r) ELSE r
<1>1. EvaluationType /\ ProcInv(p)
    BY DEF EvaluationInv
<1>2. /\ o \in Objective /\ c \in DOMAIN Checks(o) /\ l \in DOMAIN Checks(o)[c]
      /\ dependenciesMet(p, o)
    BY <1>1 DEF ProcInv, PlaceInv, AtCheck
<1>3. /\ n \in Nat \ {0} /\ DOMAIN Checks(o)[c] = 1 .. n /\ l \in 1 .. n
      /\ c \in Nat
    BY <1>2, Parts
<1>4. /\ out \in {"pass", "fail", "error"}
      /\ out = "pass" => r = "pass"
      /\ out = "fail" => r \in {"fail", "error"}
      /\ out = "error" => r = "error"
      /\ n = 1 => out = r
  <2>1. CASE n > 1
    <3>1. out = (IF r = "error" THEN "fail" ELSE r)
        BY <2>1 DEF evalAnyOf
    <3> HIDE DEF n, out
    <3>2. n # 1
        BY <1>3, <2>1
    <3> QED
        BY <3>1, <3>2
  <2>2. CASE ~(n > 1)
      BY <1>3, <2>2
  <2> QED
      BY <2>1, <2>2
<1>5. /\ r = "pass" => Checks(o)[c][l].fact \in seen[p]
      /\ r = "fail" => Unsteady(p, o, c, l)
    BY <1>1 DEF ProcInv, WorldInv, Leaf, Unsteady
<1>6. erred' \in [Verifier -> BOOLEAN] /\ (~erred'[p] => ~erred[p])
    BY <1>1 DEF EvaluationType
<1>7. /\ \A x : dependenciesMet(p, x)' <=> dependenciesMet(p, x)
      /\ \A x, y : Shown(p, x, y)' <=> Shown(p, x, y)
      /\ \A x, y, z : Unsteady(p, x, y, z)' <=> Unsteady(p, x, y, z)
    BY DEF dependenciesMet, Shown, Unsteady
<1>8. CardInv(p)'
  <2>1. \A x, y : Refuted(p, x, y) => Refuted(p, x, y)'
      BY <1>6, <1>7 DEF Refuted
  <2> QED
      BY <1>1, <1>6, <1>7, <2>1 DEF ProcInv, CardInv
<1>9. WorldInv(p)'
    BY <1>1 DEF ProcInv, WorldInv
<1>10. CASE out = "fail" /\ l < n
  <2>1. /\ obj' = [obj EXCEPT ![p] = o] /\ check' = [check EXCEPT ![p] = c]
        /\ leaf' = [leaf EXCEPT ![p] = l + 1]
        /\ doing' = [doing EXCEPT ![p] = "check"] /\ UNCHANGED verdict
      BY <1>10 DEF Result, At, EvalGoto
  <2>2. /\ obj'[p] = o /\ check'[p] = c /\ leaf'[p] = l + 1 /\ doing'[p] = "check"
        /\ EvaluationType'
      BY <1>1, <1>3, <1>6, <2>1 DEF EvaluationType, AtCheck
  <2>3. PlaceInv(p)'
      BY <1>1, <1>2, <1>3, <1>7, <1>10, <2>2 DEF ProcInv, PlaceInv, AtCheck
  <2>4. ~erred'[p] => \A k \in 1 .. n : k < l + 1 => Unsteady(p, o, c, k)
    <3>1. ~erred'[p] => Unsteady(p, o, c, l)
        BY <1>4, <1>5, <1>10
    <3>2. ~erred[p] => \A k \in 1 .. n : k < l => Unsteady(p, o, c, k)
        BY <1>1, <1>3 DEF ProcInv, LooksInv, AtCheck
    <3>3. \A k \in 1 .. n : k < l + 1 => k < l \/ k = l
        BY <1>3
    <3> QED
        BY <1>6, <3>1, <3>2, <3>3
  <2>5. LooksInv(p)'
      BY <1>1, <1>3, <1>7, <2>2, <2>4 DEF ProcInv, LooksInv, AtCheck
  <2> QED
      BY <1>8, <1>9, <2>2, <2>3, <2>5 DEF ProcInv
<1>11. CASE ~(out = "fail" /\ l < n)
  <2>1. /\ verdict' = [verdict EXCEPT ![p] = out] /\ doing' = [doing EXCEPT ![p] = "checked"]
        /\ UNCHANGED <<obj, check, leaf>>
      BY <1>11 DEF Result, EvalGoto
  <2>2. /\ obj'[p] = o /\ check'[p] = c /\ leaf'[p] = l /\ doing'[p] = "checked" /\ verdict'[p] = out
        /\ EvaluationType'
      BY <1>1, <1>4, <1>6, <2>1 DEF EvaluationType, AtCheck
  <2>3. PlaceInv(p)'
      BY <1>1, <1>2, <1>4, <1>7, <2>2 DEF ProcInv, PlaceInv, AtCheck
  <2>4. out = "pass" => Shown(p, o, c)
      BY <1>2, <1>4, <1>5 DEF Shown
  <2>5. out = "fail" => Refuted(p, o, c)'
    <3> SUFFICES ASSUME out = "fail" PROVE Refuted(p, o, c)'
        OBVIOUS
    <3>1. l = n
        BY <1>3, <1>11
    <3>2. ~erred'[p] => \A k \in 1 .. n : Unsteady(p, o, c, k)
      <4>1. ~erred'[p] => Unsteady(p, o, c, n)
          BY <1>4, <1>5, <3>1
      <4>2. ~erred[p] => \A k \in 1 .. n : k < n => Unsteady(p, o, c, k)
          BY <1>1, <1>3, <3>1 DEF ProcInv, LooksInv, AtCheck
      <4> QED
          BY <1>3, <1>6, <4>1, <4>2
    <3>3. n = 1 => Unsteady(p, o, c, 1)
        BY <1>4, <1>5, <3>1
    <3> QED
        BY <1>3, <1>7, <2>2, <3>2, <3>3 DEF Refuted
  <2>6. LooksInv(p)'
      BY <1>1, <1>4, <1>7, <2>2, <2>4, <2>5 DEF ProcInv, LooksInv, AtCheck
  <2> QED
      BY <1>8, <1>9, <2>2, <2>3, <2>6 DEF ProcInv
<1> QED
    BY <1>10, <1>11

\* A result is added behind those there are, which say what they said.
LEMMA RecordStep ==
    ASSUME Written, EvaluationInv, NEW p \in Verifier, doing[p] # "idle", obj[p] \in Objective,
           NEW r \in ResultSet, Record(p, r),
           UNCHANGED <<facts, steady, seen, erred>>,
           r = "passed" =>
               dependenciesMet(p, obj[p]) /\ \A c \in DOMAIN Checks(obj[p]) : Shown(p, obj[p], c),
           r = "blocked" => ~dependenciesMet(p, obj[p]),
           r = "errored" => erred[p],
           r = "failed" => \E c \in DOMAIN Checks(obj[p]) : Refuted(p, obj[p], c)
    PROVE  EvaluationType' /\ ProcInv(p)'
<1>1. EvaluationType /\ ProcInv(p)
    BY DEF EvaluationInv
<1>2. PICK o \in Objective : o = obj[p]
    OBVIOUS
<1>3. card[p] \in Seq(ResultSet) /\ Len(card[p]) \in Nat /\ o = Len(card[p]) + 1
    BY <1>1, <1>2 DEF EvaluationType, ProcInv, PlaceInv
<1>4. /\ obj'[p] = o + 1 /\ doing'[p] = "objective" /\ card'[p] = Append(card[p], r)
      /\ EvaluationType'
    BY <1>1, <1>2, <1>3 DEF EvaluationType, AtCheck, Record, At, EvalGoto
<1>5. /\ card'[p] \in Seq(ResultSet) /\ Len(card'[p]) = o /\ DOMAIN card'[p] = 1 .. o
      /\ card'[p][o] = r /\ \A i \in 1 .. o : i # o => i \in DOMAIN card[p] /\ card'[p][i] = card[p][i]
    BY <1>3, <1>4
<1>6. 1 .. o \subseteq Objective
    BY <1>2, Parts
<1>7. \A x \in 1 .. o : dependenciesMet(p, x)' <=> dependenciesMet(p, x)
  <2> SUFFICES ASSUME NEW x \in 1 .. o, NEW d \in Objectives[x].dependsOn, d < x
               PROVE  card'[p][d] = card[p][d]
      BY DEF dependenciesMet
  <2>1. d \in Nat \ {0} /\ x \in Nat /\ o \in Nat
      BY <1>3, <1>6, Parts
  <2>2. d \in 1 .. o /\ d # o
      BY <2>1
  <2> QED
      BY <1>5, <2>2
<1>8. /\ \A x, y : Shown(p, x, y)' <=> Shown(p, x, y)
      /\ \A x, y : Refuted(p, x, y)' <=> Refuted(p, x, y)
    BY DEF Shown, Unsteady, Refuted
<1>9. PlaceInv(p)'
    BY <1>4, <1>5, <1>6 DEF PlaceInv, AtCheck
<1>10. WorldInv(p)'
    BY <1>1 DEF ProcInv, WorldInv
<1>11. LooksInv(p)'
    BY <1>4 DEF LooksInv, AtCheck
<1>12. CardInv(p)'
  <2> SUFFICES ASSUME NEW x \in 1 .. o
               PROVE  /\ card'[p][x] = "passed" =>
                           dependenciesMet(p, x) /\ \A c \in DOMAIN Checks(x) : Shown(p, x, c)
                      /\ card'[p][x] = "blocked" => ~dependenciesMet(p, x)
                      /\ card'[p][x] = "errored" => erred[p]
                      /\ card'[p][x] = "failed" => \E c \in DOMAIN Checks(x) : Refuted(p, x, c)
      BY <1>5, <1>7, <1>8 DEF CardInv
  <2>1. CASE x = o
      BY <1>2, <1>5, <2>1
  <2>2. CASE x # o
      BY <1>1, <1>5, <2>2 DEF ProcInv, CardInv
  <2> QED
      BY <2>1, <2>2
<1> QED
    BY <1>4, <1>9, <1>10, <1>11, <1>12 DEF ProcInv

\* A process that goes on to the first leaf of a check of its objective.
LEMMA CheckStep ==
    ASSUME Written, EvaluationInv, NEW p \in Verifier, doing[p] # "idle", obj[p] \in Objective,
           dependenciesMet(p, obj[p]),
           NEW c \in DOMAIN Checks(obj[p]), At(p, obj[p], c, 1), EvalGoto(p, "check"),
           verdict' \in {verdict, [verdict EXCEPT ![p] = "none"]},
           UNCHANGED <<facts, card, steady, seen, erred>>,
           \A k \in DOMAIN Checks(obj[p]) : k < c => Shown(p, obj[p], k)
    PROVE  EvaluationType' /\ ProcInv(p)'
<1>1. EvaluationType /\ ProcInv(p)
    BY DEF EvaluationInv
<1>2. PICK o \in Objective : o = obj[p]
    OBVIOUS
<1>3. c \in Nat /\ Len(Checks(o)[c]) \in Nat \ {0} /\ DOMAIN Checks(o)[c] = 1 .. Len(Checks(o)[c])
    BY <1>2, Parts
<1>4. /\ obj'[p] = o /\ check'[p] = c /\ leaf'[p] = 1 /\ doing'[p] = "check"
      /\ EvaluationType'
    BY <1>1, <1>2, <1>3 DEF EvaluationType, AtCheck, At, EvalGoto
<1>5. /\ \A x : dependenciesMet(p, x)' <=> dependenciesMet(p, x)
      /\ \A x, y : Shown(p, x, y)' <=> Shown(p, x, y)
      /\ \A x, y : Refuted(p, x, y)' <=> Refuted(p, x, y)
    BY DEF dependenciesMet, Shown, Unsteady, Refuted
<1>6. PlaceInv(p)'
    BY <1>1, <1>2, <1>3, <1>4, <1>5 DEF ProcInv, PlaceInv, AtCheck
<1>7. WorldInv(p)'
    BY <1>1 DEF ProcInv, WorldInv
<1>8. LooksInv(p)'
  <2>1. \A l \in DOMAIN Checks(o)[c] : ~(l < 1)
      BY <1>3
  <2> QED
      BY <1>2, <1>4, <1>5, <2>1 DEF LooksInv
<1>9. CardInv(p)'
    BY <1>1, <1>5 DEF ProcInv, CardInv
<1> QED
    BY <1>4, <1>6, <1>7, <1>8, <1>9 DEF ProcInv

\* Each step of a process keeps what is true of it.
LEMMA ProcStep ==
    ASSUME Written, EvaluationInv, NEW p \in Verifier, EvalBegin(p) \/ EvalStep(p) \/ EvalKill(p)
    PROVE  EvaluationType' /\ ProcInv(p)'
<1>1. EvaluationType /\ ProcInv(p)
    BY DEF EvaluationInv
<1>2. CASE EvalBegin(p)
  <2>1. /\ doing'[p] = "objective" /\ obj'[p] = 1 /\ card'[p] = <<>> /\ erred'[p] = FALSE
        /\ steady'[p] = facts /\ seen'[p] = facts /\ facts' = facts
      BY <1>1, <1>2 DEF EvalBegin, EvaluationType, EvalGoto, At, world
  <2>2. EvaluationType'
      BY <1>1, <1>2, EmptySeq DEF EvalBegin, EvaluationType, EvalGoto, At, world
  <2> QED
      BY <2>1, <2>2, EmptySeq DEF ProcInv, PlaceInv, WorldInv, LooksInv, CardInv, AtCheck
<1>3. CASE EvalKill(p)
  <2>1. /\ doing'[p] = "idle" /\ card'[p] = <<>> /\ UNCHANGED <<facts, steady, seen, erred>>
      BY <1>1, <1>3 DEF EvalKill, EvaluationType, EvalGoto, evalHistory
  <2>2. EvaluationType'
      BY <1>1, <1>3, EmptySeq DEF EvalKill, EvaluationType, EvalGoto, At, evalHistory
  <2> QED
      BY <1>1, <2>1, <2>2, EmptySeq DEF ProcInv, PlaceInv, WorldInv, LooksInv, CardInv, AtCheck
<1>4. CASE EvaluateObjective(p)
  <2>1. doing[p] = "objective" /\ obj[p] \in Objective /\ UNCHANGED <<facts, steady, seen, erred>>
      BY <1>4 DEF EvaluateObjective, world, evalHistory
  <2>2. CASE dependenciesMet(p, obj[p])
    <3>1. 1 \in DOMAIN Checks(obj[p]) /\ \A k \in DOMAIN Checks(obj[p]) : ~(k < 1)
        BY <2>1, Parts
    <3>2. At(p, obj[p], 1, 1) /\ EvalGoto(p, "check") /\ UNCHANGED <<card, verdict>>
        BY <1>4, <2>2 DEF EvaluateObjective
    <3> QED
        BY <2>1, <2>2, <3>1, <3>2, CheckStep
  <2>3. CASE ~dependenciesMet(p, obj[p])
    <3>1. Record(p, "blocked")
        BY <1>4, <2>3 DEF EvaluateObjective
    <3> QED
        BY <2>1, <2>3, <3>1, RecordStep DEF ResultSet
  <2> QED
      BY <2>2, <2>3
<1>5. CASE Evaluated(p)
  <2>1. doing' = [doing EXCEPT ![p] = "idle"] /\ UNCHANGED <<world, position, evalHistory>>
      BY <1>5 DEF Evaluated, EvalGoto
  <2>2. EvaluationType' /\ doing'[p] = "idle"
      BY <1>1, <2>1 DEF EvaluationType, world, position, evalHistory
  <2> QED
      BY <1>1, <2>1, <2>2 DEF ProcInv, PlaceInv, WorldInv, LooksInv, CardInv, AtCheck, world,
         position, evalHistory, dependenciesMet, Shown, Unsteady, Refuted
<1>6. CASE Look(p) \/ awaitProbe(p)
  <2>1. /\ doing[p] \in {"check", "probe"}
        /\ UNCHANGED <<facts, card, steady, seen>>
      BY <1>6 DEF Look, awaitProbe, world
  <2>2. Holds(p) <=> Leaf(p).fact \in facts
      BY DEF Holds, listTargets
  <2>3. CASE Result(p, IF Holds(p) THEN "pass" ELSE "fail") /\ UNCHANGED erred
    <3>1. PICK r \in {"pass", "fail"} : r = IF Holds(p) THEN "pass" ELSE "fail"
        OBVIOUS
    <3> QED
        BY <2>1, <2>2, <2>3, <3>1, ResultStep
  <2>4. CASE Result(p, "error") /\ erred' = [erred EXCEPT ![p] = TRUE]
    <3>1. erred'[p]
        BY <1>1, <2>4 DEF EvaluationType
    <3> QED
        BY <2>1, <2>4, <3>1, ResultStep
  <2> QED
      BY <1>6, <2>3, <2>4 DEF Look, awaitProbe
<1>7. CASE evalProbe(p)
  <2>1. doing[p] = "check" /\ UNCHANGED <<facts, card, steady, seen>>
      BY <1>7 DEF evalProbe
  <2>2. CASE EvalGoto(p, "probe") /\ UNCHANGED <<obj, check, leaf, verdict, erred>>
    <3>1. EvaluationType' /\ doing'[p] = "probe"
        BY <1>1, <2>1, <2>2 DEF EvaluationType, EvalGoto, AtCheck
    <3> QED
        BY <1>1, <2>1, <2>2, <3>1 DEF ProcInv, PlaceInv, WorldInv, LooksInv, CardInv, AtCheck,
           dependenciesMet, Shown, Unsteady, Refuted
  <2>3. CASE Result(p, "error") /\ erred' = [erred EXCEPT ![p] = TRUE]
    <3>1. erred'[p]
        BY <1>1, <2>3 DEF EvaluationType
    <3> QED
        BY <2>1, <2>3, <3>1, ResultStep
  <2> QED
      BY <1>7, <2>2, <2>3 DEF evalProbe
<1>8. CASE Retried(p)
  <2>1. /\ doing[p] = "checked" /\ At(p, obj[p], check[p], 1) /\ EvalGoto(p, "check")
        /\ verdict' = [verdict EXCEPT ![p] = "none"]
        /\ UNCHANGED <<facts, card, steady, seen, erred>>
      BY <1>8 DEF Retried, world, evalHistory
  <2>2. /\ obj[p] \in Objective /\ dependenciesMet(p, obj[p]) /\ check[p] \in DOMAIN Checks(obj[p])
        /\ \A k \in DOMAIN Checks(obj[p]) : k < check[p] => Shown(p, obj[p], k)
      BY <1>1, <2>1 DEF ProcInv, PlaceInv, LooksInv, AtCheck
  <2> QED
      BY <2>1, <2>2, CheckStep
<1>9. CASE evalObjective(p)
  <2>1. doing[p] = "checked" /\ UNCHANGED <<facts, steady, seen, erred>>
      BY <1>9 DEF evalObjective, world, evalHistory
  <2>2. /\ obj[p] \in Objective /\ dependenciesMet(p, obj[p]) /\ check[p] \in DOMAIN Checks(obj[p])
        /\ \A k \in DOMAIN Checks(obj[p]) : k < check[p] => Shown(p, obj[p], k)
        /\ verdict[p] \in {"pass", "fail", "error"}
        /\ verdict[p] = "pass" => Shown(p, obj[p], check[p])
        /\ verdict[p] = "fail" => Refuted(p, obj[p], check[p])
        /\ verdict[p] = "error" => erred[p]
      BY <1>1, <2>1 DEF EvaluationType, ProcInv, PlaceInv, LooksInv, AtCheck
  <2>3. Len(Checks(obj[p])) \in Nat /\ DOMAIN Checks(obj[p]) = 1 .. Len(Checks(obj[p]))
      BY <2>2, Parts
  <2>4. CASE verdict[p] = "fail"
    <3>1. Record(p, "failed")
        BY <1>9, <2>4 DEF evalObjective
    <3> QED
        BY <2>1, <2>2, <2>4, <3>1, RecordStep DEF ResultSet
  <2>5. CASE verdict[p] = "error"
    <3>1. Record(p, "errored")
        BY <1>9, <2>5 DEF evalObjective
    <3> QED
        BY <2>1, <2>2, <2>5, <3>1, RecordStep DEF ResultSet
  <2>6. CASE verdict[p] = "pass" /\ check[p] = Len(Checks(obj[p]))
    <3>1. Record(p, "passed")
        BY <1>9, <2>6 DEF evalObjective
    <3>2. \A c \in DOMAIN Checks(obj[p]) : Shown(p, obj[p], c)
      <4>1. \A c \in DOMAIN Checks(obj[p]) : c < check[p] \/ c = check[p]
          BY <2>3, <2>6
      <4> QED
          BY <2>2, <2>6, <4>1
    <3> QED
        BY <2>1, <2>2, <2>6, <3>1, <3>2, RecordStep DEF ResultSet
  <2>7. CASE verdict[p] = "pass" /\ check[p] # Len(Checks(obj[p]))
    <3>1. /\ At(p, obj[p], check[p] + 1, 1) /\ EvalGoto(p, "check")
          /\ verdict' = [verdict EXCEPT ![p] = "none"] /\ UNCHANGED card
        BY <1>9, <2>7 DEF evalObjective
    <3>2. /\ check[p] + 1 \in DOMAIN Checks(obj[p])
          /\ \A k \in DOMAIN Checks(obj[p]) : k < check[p] + 1 => k < check[p] \/ k = check[p]
        BY <2>2, <2>3, <2>7
    <3>3. \A k \in DOMAIN Checks(obj[p]) : k < check[p] + 1 => Shown(p, obj[p], k)
        BY <2>2, <2>7, <3>2
    <3> QED
        BY <2>1, <2>2, <3>1, <3>2, <3>3, CheckStep
  <2> QED
      BY <2>2, <2>4, <2>5, <2>6, <2>7
<1> QED
    BY <1>2, <1>3, <1>4, <1>5, <1>6, <1>7, <1>8, <1>9 DEF EvalStep

\* The invariant holds for every behaviour.
LEMMA EvaluationInvHolds == Written => (EvalSpec => []EvaluationInv)
<1> SUFFICES ASSUME Written PROVE EvalSpec => []EvaluationInv
    OBVIOUS
<1>1. EvalInit => EvaluationInv
  <2> SUFFICES ASSUME EvalInit PROVE EvaluationInv
      OBVIOUS
  <2>1. EvaluationType
      BY EmptySeq DEF EvalInit, EvaluationType
  <2>2. \A p \in Verifier : ProcInv(p)
      BY EmptySeq DEF EvalInit, ProcInv, PlaceInv, WorldInv, LooksInv, CardInv, AtCheck
  <2> QED
      BY <2>1, <2>2 DEF EvaluationInv
<1>2. EvaluationInv /\ [EvalNext]_evalVars => EvaluationInv'
  <2> SUFFICES ASSUME EvaluationInv, [EvalNext]_evalVars PROVE EvaluationInv'
      OBVIOUS
  <2>1. CASE UNCHANGED evalVars
    <3>1. UNCHANGED <<facts, doing, obj, check, leaf, verdict, card, steady, seen, erred>>
        BY <2>1 DEF evalVars, world, position, evalHistory
    <3>2. /\ \A p, o : dependenciesMet(p, o)' <=> dependenciesMet(p, o)
          /\ \A p, o, c : Shown(p, o, c)' <=> Shown(p, o, c)
          /\ \A p, o, c : Refuted(p, o, c)' <=> Refuted(p, o, c)
          /\ \A p, o, c, l : Unsteady(p, o, c, l)' <=> Unsteady(p, o, c, l)
        BY <3>1 DEF dependenciesMet, Shown, Unsteady, Refuted
    <3>3. ASSUME NEW p \in Verifier PROVE ProcInv(p)'
      <4>1. PlaceInv(p)' /\ WorldInv(p)'
          BY <3>1, <3>2 DEF EvaluationInv, ProcInv, PlaceInv, WorldInv
      <4>2. LooksInv(p)' /\ CardInv(p)'
          BY <3>1, <3>2 DEF EvaluationInv, ProcInv, LooksInv, CardInv
      <4> QED
          BY <4>1, <4>2 DEF ProcInv
    <3> QED
        BY <3>1, <3>3 DEF EvaluationInv, EvaluationType
  <2>2. CASE Flip
      BY <2>2, FlipStep
  <2>3. ASSUME NEW p \in Verifier, EvalBegin(p) \/ EvalStep(p) \/ EvalKill(p) PROVE EvaluationInv'
    <3>1. EvaluationType' /\ ProcInv(p)'
        BY <2>3, ProcStep
    <3>2. \A q \in Verifier \ {p} : ProcInv(q)'
        BY <2>3, Frame
    <3> QED
        BY <3>1, <3>2 DEF EvaluationInv
  <2> QED
      BY <2>1, <2>2, <2>3 DEF EvalNext
<1> QED
    BY <1>1, <1>2, PTL DEF EvalSpec

-----------------------------------------------------------------------------

\* An objective is passed only if a fact of each of its checks held at some time
\* of the evaluation and all it depends on was passed, for any objectives.
THEOREM PassedHeld == Written => (EvalSpec => []PassedWasTrue)
<1>1. EvaluationInv => PassedWasTrue
    BY DEF EvaluationInv, ProcInv, CardInv, PassedWasTrue, Results, dependenciesMet, Shown
<1> QED
    BY <1>1, EvaluationInvHolds, PTL

\* Where no request failed, an objective whose facts held all the time and whose
\* dependencies were passed is passed, whatever other evaluations run.
THEOREM SteadyIsPassed == Written => (EvalSpec => []SteadyPasses)
<1>1. ASSUME EvaluationInv, NEW p \in Verifier, ~erred[p], NEW o \in DOMAIN card[p],
             dependenciesMet(p, o),
             \A c \in DOMAIN Checks(o) : \E l \in DOMAIN Checks(o)[c] : ~Unsteady(p, o, c, l)
      PROVE  card[p][o] = "passed"
  <2>1. card[p][o] \in ResultSet
      BY <1>1, ElementOfSeq DEF EvaluationInv, EvaluationType
  <2>2. card[p][o] \notin {"failed", "errored", "blocked"}
      BY <1>1 DEF EvaluationInv, ProcInv, CardInv, Refuted
  <2> QED
      BY <2>1, <2>2 DEF ResultSet
<1>2. EvaluationInv => SteadyPasses
    BY <1>1 DEF SteadyPasses, Unerred, Results, dependenciesMet, Unsteady
<1> QED
    BY <1>2, EvaluationInvHolds, PTL

\* An objective without an anyOf is reported failed only if one of its facts did
\* not hold at some time, also when requests failed.
THEOREM FailedDidNotHold == Written => (EvalSpec => []FailedWasFalse)
<1>1. EvaluationInv => FailedWasFalse
    BY DEF EvaluationInv, ProcInv, CardInv, Refuted, Unsteady, FailedWasFalse, Results
<1> QED
    BY <1>1, EvaluationInvHolds, PTL

-----------------------------------------------------------------------------
(* The author test *)

\* The objectives are declared in some order, and depend on each other only.
Declared == Authored \in Seq([points : Nat, checks : Seq(Asserted), dependsOn : SUBSET Tested,
                                expectInitiallyPassing : BOOLEAN])

Marks == {"passed", "failed", "errored", "blocked"}

\* Where the test is, and which phase that can be.
PhaseInv ==
    /\ scored \in Seq(Marks)
    /\ Len(scored) <= Len(Authored)
    /\ checked \in Nat
    /\ passing \subseteq Asserted
    /\ stage = "start" => phase = "none" /\ scored = <<>>
    /\ stage = "evaluate" => phase \in {"negative"} \cup Verified
    /\ stage = "solve" => phase = "negative"
    /\ outcome = "passed" => phase \in Verified
    /\ stage \in {"start", "evaluate", "solve"} => outcome = "none"

\* What held all the time holds now.
WatchInv == phase = "negative" /\ stage = "evaluate" => fresh \subseteq passing

\* An objective that was looked at in the negative phase and did not pass has
\* not held all the time, or a request failed.
LookedInv ==
    phase = "negative" /\ stage = "evaluate" /\ ~upset =>
        \A o \in DOMAIN scored : scored[o] = "passed" \/ ~(Asks(o) \subseteq fresh)

\* Behind the negative phase what held all through it was expected to.
VettedInv ==
    (stage = "solve" \/ phase \in Verified) /\ ~upset =>
        \A o \in Tested : Asks(o) \subseteq fresh => Authored[o].expectInitiallyPassing

VacuityInv == PhaseInv /\ WatchInv /\ LookedInv /\ VettedInv

\* The objectives are the numbers up to the length of the list.
LEMMA Numbered == Declared => Len(Authored) \in Nat /\ Tested = 1 .. Len(Authored)
BY DEF Declared, Tested

\* So are the checks of an objective.
LEMMA Listed ==
    ASSUME Declared, NEW o \in Tested
    PROVE  /\ Authored[o].checks \in Seq(Asserted)
           /\ Len(Authored[o].checks) \in Nat
           /\ \A i \in 1 .. Len(Authored[o].checks) : Authored[o].checks[i] \in Asks(o)
           /\ \A c \in Asks(o) : \E i \in 1 .. Len(Authored[o].checks) : c = Authored[o].checks[i]
           /\ Authored[o].dependsOn \subseteq Tested /\ Authored[o].points \in Nat
<1>1. Authored[o] \in [points : Nat, checks : Seq(Asserted), dependsOn : SUBSET Tested,
                       expectInitiallyPassing : BOOLEAN]
    BY Numbered, ElementOfSeq DEF Declared
<1> DEFINE checks == Authored[o].checks
<1>2. checks \in Seq(Asserted) /\ Authored[o].dependsOn \subseteq Tested /\ Authored[o].points \in Nat
    BY <1>1
<1>3. Len(checks) \in Nat /\ DOMAIN checks = 1 .. Len(checks)
  <2> HIDE DEF checks
  <2> QED
      BY <1>2
<1> QED
    BY <1>2, <1>3 DEF Asks

\* What changes in the cluster only shortens the list of what held all the time.
LEMMA WorldStep ==
    ASSUME VacuityInv, Turn \/ Prune
    PROVE  VacuityInv'
<1>1. UNCHANGED <<stage, phase, results, outcome, upset>> /\ fresh' \subseteq fresh /\ passing' \subseteq Asserted
  <2>1. CASE Turn
      BY <2>1 DEF Turn, VacuityInv, PhaseInv
  <2>2. CASE Prune
      BY <2>2 DEF Prune
  <2> QED
      BY <2>1, <2>2
<1>2. WatchInv'
    BY <1>1 DEF VacuityInv, WatchInv, Turn, Prune
<1> QED
    BY <1>1, <1>2 DEF VacuityInv, PhaseInv, LookedInv, VettedInv, results

\* A look says passed only of what holds, and of all that holds unless a request
\* failed.
LEMMA OutcomesMean ==
    ASSUME NEW c, NEW r \in Outcomes(c)
    PROVE  /\ r[1] \in {"passed", "failed", "errored"} /\ r[2] \in BOOLEAN
           /\ r[1] = "passed" => c \in passing
           /\ c \in passing /\ ~r[2] => r[1] = "passed"
<1>1. \/ r = <<IF c \in passing THEN "passed" ELSE "failed", FALSE>>
      \/ r \in {"errored", "failed"} \X {TRUE}
    BY DEF Outcomes
<1>2. CASE r = <<IF c \in passing THEN "passed" ELSE "failed", FALSE>>
    BY <1>2
<1>3. CASE r \in {"errored", "failed"} \X {TRUE}
    BY <1>3
<1> QED
    BY <1>1, <1>2, <1>3

\* A look of the negative phase finds what does not hold failed or in error.
LEMMA EvaluateStep ==
    ASSUME Declared, VacuityInv, Evaluate
    PROVE  VacuityInv'
<1> DEFINE o == Len(scored) + 1
           checks == Authored[o].checks
<1> USE DEF VacuityInv
<1>1. UNCHANGED <<stage, phase, outcome, fresh, passing>> /\ stage = "evaluate"
    BY DEF Evaluate
<1>2. o \in Tested /\ Len(scored) \in Nat
    BY Numbered DEF Evaluate, PhaseInv
<1>3. ASSUME NEW r \in Marks, Score(r), upset => upset',
             phase = "negative" /\ ~upset' => r = "passed" \/ ~(Asks(o) \subseteq fresh)
      PROVE  VacuityInv'
  <2>1. scored' \in Seq(Marks) /\ Len(scored') = Len(scored) + 1 /\ Len(scored') <= Len(Authored)
      BY <1>3, Numbered DEF PhaseInv, Evaluate, Score
  <2>2. \A i \in DOMAIN scored' : i = o \/ (i \in DOMAIN scored /\ scored'[i] = scored[i])
      BY <1>3 DEF PhaseInv, Score
  <2>3. scored'[o] = r
      BY <1>3 DEF PhaseInv, Score
  <2>4. LookedInv'
      BY <1>1, <1>3, <2>2, <2>3 DEF LookedInv
  <2> QED
      BY <1>1, <1>3, <2>1, <2>4 DEF PhaseInv, WatchInv, VettedInv, Score
<1>4. CASE ~Reached(o) /\ Score("blocked") /\ UNCHANGED upset
    BY <1>3, <1>4 DEF Reached, Marks
<1>5. CASE Reached(o) /\ checked = Len(checks) /\ Score("passed") /\ UNCHANGED upset
    BY <1>3, <1>5 DEF Marks
<1>6. CASE /\ Reached(o) /\ checked < Len(checks)
           /\ \E r \in Outcomes(checks[checked + 1]) :
                 /\ IF r[1] = "passed" THEN checked' = checked + 1 /\ UNCHANGED scored
                                       ELSE Score(r[1])
                 /\ upset' = (upset \/ (phase = "negative" /\ r[2]))
  <2>1. PICK r \in Outcomes(checks[checked + 1]) :
          /\ IF r[1] = "passed" THEN checked' = checked + 1 /\ UNCHANGED scored ELSE Score(r[1])
          /\ upset' = (upset \/ (phase = "negative" /\ r[2]))
      BY <1>6
  <2>2. checks[checked + 1] \in Asks(o)
    <3>1. checked + 1 \in 1 .. Len(checks)
        BY <1>2, <1>6, Listed DEF PhaseInv
    <3> QED
        BY <1>2, <3>1, Listed
  <2>3. r[1] \in {"passed", "failed", "errored"}
      BY OutcomesMean
  <2>4. CASE r[1] = "passed"
    <3>1. checked' = checked + 1 /\ UNCHANGED scored /\ (upset => upset')
        BY <2>1, <2>4
    <3> QED
        BY <1>1, <3>1 DEF PhaseInv, WatchInv, LookedInv, VettedInv
  <2>5. CASE r[1] # "passed"
    <3>1. phase = "negative" /\ ~upset' => checks[checked + 1] \notin passing
        BY <2>1, <2>5, OutcomesMean
    <3>2. phase = "negative" /\ ~upset' => ~(Asks(o) \subseteq fresh)
        BY <1>1, <2>1, <2>2, <3>1 DEF WatchInv
    <3> QED
        BY <1>3, <2>1, <2>3, <2>5, <3>2 DEF Marks
  <2> QED
      BY <2>4, <2>5
<1> QED
    BY <1>4, <1>5, <1>6 DEF Evaluate

\* The other steps go on to the next phase or to the end.
LEMMA TestStep ==
    ASSUME Declared, VacuityInv,
           \/ Start \/ NegativeDone \/ EvaluateFails \/ runSolution
           \/ PhaseDone \/ Teardown \/ TestKill
    PROVE  VacuityInv'
<1> Len(Authored) \in Nat /\ Tested = 1 .. Len(Authored)
    BY Numbered
<1> <<>> \in Seq(Marks) /\ Len(<<>>) <= Len(Authored)
    BY EmptySeq
<1> USE DEF VacuityInv, PhaseInv, WatchInv, LookedInv, VettedInv, Verified
<1>1. CASE Start
  <2>1. DOMAIN scored' = {} /\ Len(scored') <= Len(Authored) /\ scored' \in Seq(Marks) /\ checked' \in Nat
      BY <1>1 DEF Start, results
  <2>2. PhaseInv' /\ WatchInv'
      BY <1>1, <2>1 DEF Start
  <2>3. LookedInv' /\ VettedInv'
      BY <1>1, <2>1 DEF Start
  <2> QED
      BY <2>2, <2>3
<1>3. CASE NegativeDone
  <2>1. stage' = "solve" => \A o \in Tested : scored[o] = "passed" => Authored[o].expectInitiallyPassing
      BY <1>3 DEF NegativeDone, negativePhase, TestEnd
  <2>2. ~upset => \A o \in Tested : Asks(o) \subseteq fresh => scored[o] = "passed"
      BY <1>3 DEF NegativeDone
  <2> QED
      BY <1>3, <2>1, <2>2 DEF NegativeDone, TestEnd, testHistory, results
<1>4. CASE EvaluateFails
    BY <1>4 DEF EvaluateFails, TestEnd, testHistory, results
<1>5. CASE runSolution
  <2>1. scored' \in Seq(Marks) /\ Len(scored') <= Len(Authored) /\ passing' \subseteq Asserted /\ checked' \in Nat
    <3>1. passing' \subseteq Asserted
        BY <1>5 DEF runSolution
    <3>2. (scored' = <<>> /\ checked' = 0) \/ (scored' = scored /\ checked' = checked)
        BY <1>5 DEF runSolution, results
    <3> HIDE DEF WatchInv, LookedInv, VettedInv, Marks
    <3>3. CASE scored' = <<>> /\ checked' = 0
        BY <3>1, <3>3
    <3>4. CASE scored' = scored /\ checked' = checked
        BY <3>1, <3>4
    <3> QED
        BY <3>2, <3>3, <3>4
  <2>2. PhaseInv' /\ WatchInv'
      BY <1>5, <2>1 DEF runSolution, TestEnd
  <2>3. LookedInv' /\ VettedInv'
      BY <1>5, <2>1 DEF runSolution, TestEnd
  <2> QED
      BY <2>2, <2>3
<1>6. CASE PhaseDone
  <2>1. scored' \in Seq(Marks) /\ Len(scored') <= Len(Authored) /\ checked' \in Nat
    <3>1. (scored' = <<>> /\ checked' = 0) \/ (scored' = scored /\ checked' = checked)
        BY <1>6 DEF PhaseDone, EvaluateBegin, results
    <3> HIDE DEF WatchInv, LookedInv, VettedInv, Marks
    <3>3. CASE scored' = <<>> /\ checked' = 0
        BY <3>3
    <3>4. CASE scored' = scored /\ checked' = checked
        BY <3>4
    <3> QED
        BY <3>1, <3>3, <3>4
  <2>2. PhaseInv' /\ WatchInv'
      BY <1>6, <2>1 DEF PhaseDone, EvaluateBegin, TestEnd
  <2>3. LookedInv' /\ VettedInv'
      BY <1>6, <2>1 DEF PhaseDone, EvaluateBegin, TestEnd
  <2> QED
      BY <2>2, <2>3
<1>7. CASE Teardown \/ TestKill
    BY <1>7 DEF Teardown, TestKill, testHistory, results
<1> QED
    BY <1>1, <1>3, <1>4, <1>5, <1>6, <1>7

-----------------------------------------------------------------------------

\* The invariant of the negative phase holds for every behaviour.
LEMMA VacuityInvHolds == Declared => (TestSpec => []VacuityInv)
<1> SUFFICES ASSUME Declared PROVE TestSpec => []VacuityInv
    OBVIOUS
<1>1. TestInit => VacuityInv
    BY Numbered DEF TestInit, VacuityInv, PhaseInv, WatchInv, LookedInv, VettedInv, Verified
<1>2. VacuityInv /\ [TestNext]_testVars => VacuityInv'
  <2>1. CASE UNCHANGED testVars
      BY <2>1 DEF testVars, testHistory, results, VacuityInv, PhaseInv, WatchInv, LookedInv, VettedInv
  <2> QED
      BY <2>1, WorldStep, EvaluateStep, TestStep DEF TestNext
<1> QED
    BY <1>1, <1>2, PTL DEF TestSpec

\* No challenge is reported non-vacuous of which an objective held, with all its
\* checks, all through the negative phase, unless it is expected to, or a request
\* failed.
THEOREM PassedIsNonVacuous == Declared => (TestSpec => []NonVacuous)
<1>1. VacuityInv => NonVacuous
    BY DEF VacuityInv, PhaseInv, VettedInv, NonVacuous
<1> QED
    BY <1>1, VacuityInvHolds, PTL

\* A test that ended leaves its cluster only when told to, killed, or unable to
\* destroy it, whatever failed before.
THEOREM AlwaysTornDown == TestSpec => []TornDown
<1>1. TestInit => TornDown
    BY DEF TestInit, TornDown
<1>2. TornDown /\ [TestNext]_testVars => TornDown'
  <2> SUFFICES ASSUME TornDown, [TestNext]_testVars PROVE TornDown'
      OBVIOUS
  <2> USE DEF TornDown
  <2>1. CASE UNCHANGED testVars
      BY <2>1 DEF testVars, testHistory
  <2>2. CASE Turn \/ Prune
      BY <2>2 DEF Turn, Prune
  <2>3. CASE Start \/ Evaluate \/ NegativeDone \/ EvaluateFails \/ runSolution \/ PhaseDone
      BY <2>3 DEF Start, Evaluate, NegativeDone, EvaluateFails, runSolution, PhaseDone,
         EvaluateBegin, TestEnd
  <2>4. CASE Teardown \/ TestKill
      BY <2>4 DEF Teardown, TestKill
  <2> QED
      BY <2>1, <2>2, <2>3, <2>4 DEF TestNext
<1> QED
    BY <1>1, <1>2, PTL DEF TestSpec

-----------------------------------------------------------------------------
(* What a solution solves *)

\* The objectives that count for AllPassed.
Worth == {o \in Tested : Authored[o].points # 0}

\* The checks of an objective and of what it depends on are among those that held.
Earned(o, past) == \A d \in Authored[o].dependsOn \cup {o} : Asks(d) \subseteq past

\* What a verify has passed has held in its phase, each check at its look, and
\* what it passed as a whole is on record as proven.
SolvedInv ==
    /\ proven \in [Verified -> SUBSET Asserted]
    /\ held \subseteq Asserted
    /\ stage = "evaluate" /\ phase \in Verified =>
         /\ passing \subseteq held
         /\ \A o \in DOMAIN scored : scored[o] = "passed" => Earned(o, held)
         /\ Len(scored) < Len(Authored) =>
              \A i \in 1 .. checked : Authored[Len(scored) + 1].checks[i] \in held
    /\ phase = "idempotency" => \A o \in Worth : Earned(o, proven["positive"])
    /\ outcome = "passed" =>
         phase = "idempotency" /\ \A o \in Worth : Earned(o, proven["idempotency"])

\* All points are earned by the objectives that have them, and by no others.
LEMMA AllPassedMeans ==
    ASSUME Declared, AllPassed
    PROVE  \A o \in Worth : scored[o] = "passed"
<1> DEFINE n == Len(Authored)
           earned(os) == [o \in Tested |-> IF o \in os THEN Authored[o].points ELSE 0]
           got == {o \in Tested : scored[o] = "passed"}
<1>1. n \in Nat /\ Tested = 1 .. n /\ \A o \in 1 .. n : Authored[o].points \in Nat
    BY Numbered, Listed
<1>2. \A o \in 1 .. n : /\ earned(got)[o] \in Nat /\ earned(Tested)[o] \in Nat
                       /\ earned(got)[o] <= earned(Tested)[o]
    BY <1>1
<1>3. SumTo(earned(got), n) = SumTo(earned(Tested), n)
    BY DEF AllPassed, Points
<1>4. \A o \in 1 .. n : earned(got)[o] = earned(Tested)[o]
  <2> HIDE DEF n, earned, got
  <2> QED
      BY <1>1, <1>2, <1>3, SumComplete
<1> QED
    BY <1>1, <1>4 DEF Worth

\* An objective passes when each of its checks was found to hold, and those of
\* what it depends on were.
LEMMA SolvedEvaluate ==
    ASSUME Declared, VacuityInv, SolvedInv, Evaluate
    PROVE  SolvedInv'
<1> DEFINE o == Len(scored) + 1
           checks == Authored[o].checks
<1>1. UNCHANGED <<passing, stage, phase, outcome, held, proven>> /\ stage = "evaluate"
    BY DEF Evaluate
<1>2. /\ scored \in Seq(Marks) /\ Len(scored) \in Nat /\ DOMAIN scored = 1 .. Len(scored)
      /\ checked \in Nat /\ o \in Tested /\ Len(scored) < Len(Authored)
    BY Numbered DEF VacuityInv, PhaseInv, Evaluate
<1>3. ASSUME NEW r, Score(r), phase \in Verified /\ r = "passed" => Earned(o, held)
      PROVE  SolvedInv'
  <2>1. \A i \in DOMAIN scored' :
          \/ i = o /\ scored'[i] = r
          \/ i \in DOMAIN scored /\ scored'[i] = scored[i]
      BY <1>2, <1>3 DEF Score
  <2>2. phase \in Verified => \A i \in DOMAIN scored' : scored'[i] = "passed" => Earned(i, held)
      BY <1>1, <1>3, <2>1 DEF SolvedInv
  <2>3. 1 .. checked' = {}
      BY <1>3 DEF Score
  <2> QED
      BY <1>1, <2>2, <2>3 DEF SolvedInv, Earned
<1>4. CASE ~Reached(o) /\ Score("blocked") /\ UNCHANGED upset
    BY <1>3, <1>4
<1>5. CASE Reached(o) /\ checked = Len(checks) /\ Score("passed") /\ UNCHANGED upset
  <2> SUFFICES ASSUME phase \in Verified PROVE Earned(o, held)
      BY <1>3, <1>5
  <2>1. Asks(o) \subseteq held
      BY <1>1, <1>2, <1>5, Listed DEF SolvedInv
  <2>2. ASSUME NEW d \in Authored[o].dependsOn PROVE Asks(d) \subseteq held
    <3>1. d \in Tested /\ d < o /\ scored[d] = "passed"
        BY <1>2, <1>5, Listed DEF Reached, testDependenciesMet, Verified
    <3>2. d \in DOMAIN scored
        BY <1>2, <3>1, Numbered
    <3> QED
        BY <1>1, <3>1, <3>2 DEF SolvedInv, Earned
  <2> QED
      BY <2>1, <2>2 DEF Earned
<1>6. CASE /\ Reached(o) /\ checked < Len(checks)
           /\ \E r \in Outcomes(checks[checked + 1]) :
                 /\ IF r[1] = "passed" THEN checked' = checked + 1 /\ UNCHANGED scored
                                       ELSE Score(r[1])
                 /\ upset' = (upset \/ (phase = "negative" /\ r[2]))
  <2>1. PICK r \in Outcomes(checks[checked + 1]) :
          IF r[1] = "passed" THEN checked' = checked + 1 /\ UNCHANGED scored ELSE Score(r[1])
      BY <1>6
  <2>2. CASE r[1] # "passed"
      BY <1>3, <2>1, <2>2
  <2>3. CASE r[1] = "passed"
    <3>1. checks[checked + 1] \in passing /\ checked' = checked + 1 /\ UNCHANGED scored
        BY <2>1, <2>3, OutcomesMean
    <3>2. \A i \in 1 .. checked' : i \in 1 .. checked \/ i = checked + 1
        BY <1>2, <3>1
    <3>3. phase \in Verified => \A i \in 1 .. checked' : checks[i] \in held
        BY <1>1, <1>2, <3>1, <3>2 DEF SolvedInv
    <3> QED
        BY <1>1, <3>1, <3>3 DEF SolvedInv, Earned
  <2> QED
      BY <2>2, <2>3
<1> QED
    BY <1>4, <1>5, <1>6 DEF Evaluate

\* The other steps.
LEMMA SolvedStep ==
    ASSUME Declared, VacuityInv, SolvedInv, TestNext, ~Evaluate
    PROVE  SolvedInv'
<1> USE DEF SolvedInv
<1>1. CASE Turn
    BY <1>1 DEF Turn, VacuityInv, PhaseInv, Earned, results
<1>2. CASE Prune
    BY <1>2 DEF Prune, results
<1>3. CASE Start
    BY <1>3 DEF Start, Verified, VacuityInv, PhaseInv
<1>5. CASE NegativeDone
    BY <1>5 DEF NegativeDone, TestEnd, Verified, testHistory
<1>6. CASE EvaluateFails
    BY <1>6 DEF EvaluateFails, TestEnd, testHistory
<1>7. CASE runSolution
  <2>1. phase = "negative" /\ outcome = "none"
      BY <1>7 DEF runSolution, VacuityInv, PhaseInv
  <2> QED
      BY <1>7, <2>1 DEF runSolution, TestEnd, Verified, VacuityInv, PhaseInv
<1>8. CASE PhaseDone
  <2>1. Len(scored) = Len(Authored) /\ scored \in Seq(Marks) /\ DOMAIN scored = Tested
      BY <1>8, Numbered DEF PhaseDone, VacuityInv, PhaseInv
  <2>2. AllPassed => \A o \in Worth : Earned(o, held)
    <3> SUFFICES ASSUME AllPassed PROVE \A o \in Worth : Earned(o, held)
        OBVIOUS
    <3>1. \A o \in Worth : scored[o] = "passed"
        BY AllPassedMeans
    <3> QED
        BY <1>8, <2>1, <3>1 DEF PhaseDone, Worth
  <2>3. proven' = [proven EXCEPT ![phase] = held] /\ phase \in Verified
      BY <1>8 DEF PhaseDone
  <2>4. proven' \in [Verified -> SUBSET Asserted] /\ passing \subseteq Asserted
      BY <2>3 DEF VacuityInv, PhaseInv
  <2>5. CASE AllPassed /\ phase = "positive"
      BY <1>8, <2>2, <2>3, <2>4, <2>5 DEF PhaseDone, EvaluateBegin, Verified, VacuityInv, PhaseInv
  <2>6. CASE AllPassed /\ phase = "idempotency"
      BY <1>8, <2>2, <2>3, <2>4, <2>6 DEF PhaseDone, TestEnd, Verified
  <2>7. CASE ~AllPassed
      BY <1>8, <2>3, <2>4, <2>7 DEF PhaseDone, TestEnd, Verified
  <2> QED
      BY <2>3, <2>5, <2>6, <2>7 DEF Verified
<1>9. CASE Teardown
    BY <1>9 DEF Teardown
<1>10. CASE TestKill
    BY <1>10 DEF TestKill
<1> QED
    BY <1>1, <1>2, <1>3, <1>5, <1>6, <1>7, <1>8, <1>9, <1>10 DEF TestNext

\* When the test passes, every check of an objective that is worth points, and of
\* what it depends on, held at some time of each of the two verifies after the
\* solution, for any objectives.
THEOREM PassedIsSolved == Declared => (TestSpec => []PassedMeansSolved)
<1> SUFFICES ASSUME Declared PROVE TestSpec => []PassedMeansSolved
    OBVIOUS
<1>1. TestInit => SolvedInv
    BY DEF TestInit, SolvedInv, Verified
<1>2. VacuityInv /\ SolvedInv /\ [TestNext]_testVars => SolvedInv'
  <2>1. ASSUME SolvedInv, UNCHANGED testVars PROVE SolvedInv'
      BY <2>1 DEF testVars, testHistory, results, SolvedInv
  <2> QED
      BY <2>1, SolvedEvaluate, SolvedStep
<1>3. SolvedInv => PassedMeansSolved
    BY DEF SolvedInv, PassedMeansSolved, Verified, Worth, Earned
<1> QED
    BY <1>1, <1>2, <1>3, VacuityInvHolds, PTL DEF TestSpec

-----------------------------------------------------------------------------
(* The search for cycles of dependencies *)

\* The loader has decoded the documents: objectives are a list, what they depend
\* on is a list of names.
Decoded ==
    \A d \in Document :
        /\ d.objectives \in Seq(Range(d.objectives))
        /\ \A i \in DOMAIN d.objectives :
            /\ d.objectives[i].id \in STRING
            /\ d.objectives[i].dependsOn \in Seq(STRING)

\* What an id depends on.
Needs(n) == {Prerequisites(n)[k] : k \in DOMAIN Prerequisites(n)}

SearchType ==
    /\ doc \in Document
    /\ gray \subseteq STRING /\ black \subseteq STRING
    /\ path \in Seq([id : STRING, rest : Seq(STRING)])
    /\ turn \in Nat \ {0}
    /\ cycle \in BOOLEAN
    /\ validity \in {"open", "accepted", "refused"}

\* The path leads from prerequisite to prerequisite, and holds the gray objectives,
\* each once.
PathInv ==
    /\ gray = {path[k].id : k \in DOMAIN path}
    /\ gray \cap black = {}
    /\ \A j, k \in DOMAIN path : path[j].id = path[k].id => j = k
    /\ \A k \in DOMAIN path : k # 1 => path[k].id \in Needs(path[k - 1].id)

\* What a call has come past is black, or it is the next call.
RestInv ==
    \A k \in DOMAIN path :
        /\ Range(path[k].rest) \subseteq Needs(path[k].id)
        /\ \A m \in Needs(path[k].id) \ (black \cup Range(path[k].rest)) :
             k + 1 \in DOMAIN path /\ path[k + 1].id = m

\* Black objectives need black ones only, and among any of them there is one that
\* needs no other of them nor itself.
BlackInv ==
    /\ \A n \in black : Needs(n) \subseteq black
    /\ \A S \in SUBSET black : S # {} => \E n \in S : Needs(n) \cap S = {}

\* What the loop has come past was called for.
TurnInv ==
    \A i \in DOMAIN doc.objectives : i < turn => doc.objectives[i].id \in gray \cup black

\* A cycle is a set of objectives that wait for each other and no others.
Knot(S) == S # {} /\ \A n \in S : Needs(n) \cap S # {}
CycleInv == cycle => \E S \in SUBSET gray : Knot(S)

\* What Validate has returned.
DecideInv ==
    /\ validity = "accepted" =>
         /\ ~cycle
         /\ \A i \in DOMAIN doc.objectives : doc.objectives[i].id \in black
    /\ validity = "refused" => ~Consistent(doc) \/ cycle

SearchInv ==
    /\ SearchType /\ PathInv /\ RestInv /\ BlackInv
    /\ TurnInv /\ CycleInv /\ DecideInv

\* Of some places of a list one is the last.
LEMMA LastPlace ==
    ASSUME NEW n \in Nat, NEW T \in SUBSET (1 .. n), T # {}
    PROVE  \E i \in T : \A j \in T : j <= i
<1> DEFINE S == {k \in Nat : \A U \in SUBSET (1 .. k) :
                                U # {} => \E i \in U : \A j \in U : j <= i}
<1>1. 0 \in S
  <2>1. 1 .. 0 = {}
      OBVIOUS
  <2> QED
      BY <2>1
<1>2. ASSUME NEW k \in Nat, k \in S PROVE k + 1 \in S
  <2> SUFFICES ASSUME NEW U \in SUBSET (1 .. k + 1), U # {}
               PROVE  \E i \in U : \A j \in U : j <= i
      OBVIOUS
  <2>1. CASE k + 1 \in U
      BY <2>1
  <2>2. CASE k + 1 \notin U
    <3>1. U \in SUBSET (1 .. k)
        BY <2>2
    <3> QED
        BY <1>2, <3>1
  <2> QED
      BY <2>1, <2>2
<1> HIDE DEF S
<1>3. n \in S
    BY <1>1, <1>2, Induction
<1> QED
    BY <1>3 DEF S

\* What an id depends on is a list of names, and nothing when it is no objective.
LEMMA PrerequisitesType ==
    ASSUME Decoded, doc \in Document, NEW n
    PROVE  /\ Prerequisites(n) \in Seq(STRING)
           /\ Needs(n) = Range(Prerequisites(n)) /\ Needs(n) \subseteq STRING
           /\ Needs(n) # {} => \E i \in DOMAIN doc.objectives : doc.objectives[i].id = n
<1> DEFINE named == {i \in DOMAIN doc.objectives : doc.objectives[i].id = n}
<1>1. CASE named = {}
  <2>1. Prerequisites(n) = <<>>
      BY <1>1 DEF Prerequisites
  <2> QED
      BY <2>1 DEF Needs, Range
<1>2. CASE named # {}
  <2>1. Len(doc.objectives) \in Nat /\ DOMAIN doc.objectives = 1 .. Len(doc.objectives)
      BY DEF Decoded
  <2>2. named \in SUBSET (1 .. Len(doc.objectives))
      BY <2>1
  <2> DEFINE last == CHOOSE i \in named : \A j \in named : j <= i
  <2>3. last \in named
    <3> HIDE DEF named
    <3>1. \E i \in named : \A j \in named : j <= i
        BY <1>2, <2>1, <2>2, LastPlace
    <3> QED
        BY <3>1
  <2>4. Prerequisites(n) = doc.objectives[last].dependsOn
      BY <1>2 DEF Prerequisites
  <2>5. Prerequisites(n) \in Seq(STRING)
      BY <2>3, <2>4 DEF Decoded
  <2>6. Needs(n) = Range(Prerequisites(n)) /\ Needs(n) \subseteq STRING
      BY <2>5 DEF Needs, Range
  <2> QED
      BY <1>2, <2>5, <2>6
<1> QED
    BY <1>1, <1>2

\* The call on top, and the path when it has come past its next prerequisite.
LEMMA PassedType ==
    ASSUME SearchType, path # <<>>, Top.rest # <<>>
    PROVE  /\ Len(path) \in DOMAIN path /\ Top.id \in STRING
           /\ Head(Top.rest) \in STRING /\ Head(Top.rest) \in Range(Top.rest)
           /\ Tail(Top.rest) \in Seq(STRING)
           /\ Range(Top.rest) = {Head(Top.rest)} \cup Range(Tail(Top.rest))
           /\ Passed \in Seq([id : STRING, rest : Seq(STRING)])
           /\ Len(Passed) = Len(path) /\ DOMAIN Passed = DOMAIN path
           /\ \A k \in DOMAIN path : /\ Passed[k].id = path[k].id
                                     /\ k # Len(path) => Passed[k] = path[k]
           /\ Passed[Len(path)].rest = Tail(Top.rest)
<1> DEFINE R == [id : STRING, rest : Seq(STRING)]
<1>0. path \in Seq(R) /\ Len(path) \in Nat /\ DOMAIN path = 1 .. Len(path)
    BY DEF SearchType
<1>1. Len(path) \in DOMAIN path /\ Top \in R
  <2> HIDE DEF R
  <2>1. Len(path) # 0
      BY <1>0, EmptySeq
  <2> QED
      BY <1>0, <2>1 DEF Top
<1>2. /\ Head(Top.rest) \in STRING /\ Tail(Top.rest) \in Seq(STRING)
      /\ Range(Top.rest) = {Head(Top.rest)} \cup Range(Tail(Top.rest))
  <2> DEFINE r == Top.rest
  <2>1. r \in Seq(STRING) /\ r # <<>>
      BY <1>1
  <2> HIDE DEF r
  <2>2. Head(r) \in STRING /\ Tail(r) \in Seq(STRING)
      BY <2>1
  <2>3. /\ Len(r) \in Nat \ {0} /\ DOMAIN r = 1 .. Len(r) /\ Head(r) = r[1]
        /\ Len(Tail(r)) = Len(r) - 1 /\ DOMAIN Tail(r) = 1 .. Len(r) - 1
        /\ \A k \in 1 .. Len(r) - 1 : Tail(r)[k] = r[k + 1]
      BY <2>1
  <2>4. ASSUME NEW k \in DOMAIN r PROVE r[k] \in {Head(r)} \cup Range(Tail(r))
    <3>1. CASE k = 1
        BY <2>3, <3>1
    <3>2. CASE k # 1
      <4>1. k - 1 \in DOMAIN Tail(r) /\ Tail(r)[k - 1] = r[k]
          BY <2>3, <3>2
      <4> QED
          BY <4>1 DEF Range
    <3> QED
        BY <3>1, <3>2
  <2>5. ASSUME NEW k \in DOMAIN Tail(r) PROVE Tail(r)[k] \in Range(r)
    <3>1. k + 1 \in DOMAIN r /\ Tail(r)[k] = r[k + 1]
        BY <2>3
    <3> QED
        BY <3>1 DEF Range
  <2>6. Head(r) \in Range(r)
      BY <2>3 DEF Range
  <2>7. Range(r) = {Head(r)} \cup Range(Tail(r))
      BY <2>4, <2>5, <2>6 DEF Range
  <2> QED
      BY <2>2, <2>7 DEF r
<1>3. /\ DOMAIN Passed = DOMAIN path
      /\ \A k \in DOMAIN path :
            /\ Passed[k] \in [id : STRING, rest : Seq(STRING)]
            /\ Passed[k].id = path[k].id
            /\ k # Len(path) => Passed[k] = path[k]
      /\ Passed[Len(path)].rest = Tail(Top.rest)
  <2> DEFINE call == [Top EXCEPT !.rest = Tail(@)]
  <2>1. call \in R /\ call.id = Top.id /\ call.rest = Tail(Top.rest)
      BY <1>1, <1>2
  <2>2. Passed = [path EXCEPT ![Len(path)] = call]
      BY DEF Passed, Top
  <2> HIDE DEF call, R
  <2>3. Top = path[Len(path)] /\ \A k \in DOMAIN path : path[k] \in R
    <3>1. \A k \in DOMAIN path : path[k] \in R
        BY <1>0
    <3> QED
        BY <3>1 DEF Top
  <2>4. ASSUME NEW k \in DOMAIN path
        PROVE  Passed[k] = IF k = Len(path) THEN call ELSE path[k]
      BY <2>2
  <2>5. DOMAIN Passed = DOMAIN path
      BY <2>2
  <2> QED
      BY <1>1, <2>1, <2>3, <2>4, <2>5 DEF R
<1>4. Passed \in Seq([id : STRING, rest : Seq(STRING)]) /\ Len(Passed) = Len(path)
  <2> DEFINE q == Passed
  <2>1. path \in Seq(R)
      BY DEF SearchType
  <2>2. Len(path) \in Nat /\ DOMAIN q = 1 .. Len(path) /\ \A k \in 1 .. Len(path) : q[k] \in R
      BY <1>3, <2>1
  <2>3. q = [k \in 1 .. Len(path) |-> q[k]]
      BY <2>2 DEF Passed
  <2> HIDE DEF q, R
  <2>4. q \in Seq(R) /\ Len(q) = Len(path)
      BY <2>2, <2>3
  <2> QED
      BY <2>4 DEF q, R
<1> QED
    BY <1>1, <1>2, <1>3, <1>4

\* What the invariant says of the search depends on the search alone.
LEMMA Unmoved ==
    ASSUME SearchInv, UNCHANGED <<doc, gray, black, path>>
    PROVE  /\ \A x : Needs(x)' = Needs(x)
           /\ PathInv' /\ RestInv' /\ BlackInv'
           /\ cycle' = cycle => CycleInv'
           /\ turn' = turn => TurnInv'
<1>1. \A x : Needs(x)' = Needs(x)
    BY DEF Needs, Prerequisites
<1>2. PathInv'
    BY <1>1 DEF SearchInv, PathInv
<1>3. RestInv'
    BY <1>1 DEF SearchInv, RestInv
<1>4. BlackInv'
    BY <1>1 DEF SearchInv, BlackInv
<1>5. cycle' = cycle => CycleInv'
    BY <1>1 DEF SearchInv, CycleInv, Knot
<1>6. turn' = turn => TurnInv'
    BY DEF SearchInv, TurnInv
<1> QED
    BY <1>1, <1>2, <1>3, <1>4, <1>5, <1>6

\* A call of dfs for a white objective, which the call on top of calls needs.
LEMMA EnterStep ==
    ASSUME Decoded, SearchInv,
           NEW n \in STRING, n \notin gray \cup black,
           NEW calls \in Seq([id : STRING, rest : Seq(STRING)]),
           DOMAIN calls = DOMAIN path,
           \A k \in DOMAIN path : calls[k].id = path[k].id,
           \A k \in DOMAIN path : /\ Range(calls[k].rest) \subseteq Range(path[k].rest)
                                  /\ k # Len(path) => calls[k] = path[k],
           path # <<>> => Range(path[Len(path)].rest) = {n} \cup Range(calls[Len(path)].rest),
           Enter(n, calls), UNCHANGED <<doc, black, cycle, validity>>
    PROVE  /\ path' \in Seq([id : STRING, rest : Seq(STRING)])
           /\ gray' \subseteq STRING
           /\ PathInv' /\ RestInv' /\ BlackInv' /\ CycleInv'
<1> DEFINE R == [id : STRING, rest : Seq(STRING)]
           call == [id |-> n, rest |-> Prerequisites(n)]
           m == Len(path)
<1>0. /\ path \in Seq(R) /\ calls \in Seq(R)
      /\ m \in Nat /\ DOMAIN path = 1 .. m /\ DOMAIN calls = 1 .. m /\ Len(calls) = m
      /\ path # <<>> => m \in DOMAIN path
  <2>1. path \in Seq(R) /\ calls \in Seq(R)
      BY DEF SearchInv, SearchType
  <2> HIDE DEF R
  <2>2. m \in Nat /\ DOMAIN path = 1 .. m /\ DOMAIN calls = 1 .. Len(calls) /\ Len(calls) \in Nat
      BY <2>1
  <2>3. Len(calls) = m
      BY <2>2
  <2>4. path # <<>> => m # 0
      BY <2>1, EmptySeq
  <2> QED
      BY <2>1, <2>2, <2>3, <2>4
<1>1. /\ call \in R /\ call.id = n /\ Range(call.rest) = Needs(n)
      /\ Needs(n) \subseteq STRING
    BY PrerequisitesType DEF SearchInv, SearchType
<1>2. /\ path' \in Seq(R)
      /\ DOMAIN path' = 1 .. m + 1
      /\ \A k \in 1 .. m : path'[k] = calls[k]
      /\ path'[m + 1] = call
  <2>1. path' = Append(calls, call)
      BY DEF Enter
  <2> HIDE DEF R, call, m
  <2> QED
      BY <1>0, <1>1, <2>1, AppendProperties
<1>3. /\ \A k \in 1 .. m : path'[k].id = path[k].id
      /\ path'[m + 1].id = n /\ Range(path'[m + 1].rest) = Needs(n)
    BY <1>0, <1>1, <1>2
<1>4. gray' = gray \cup {n} /\ gray' \subseteq STRING
    BY DEF Enter, SearchInv, SearchType
<1>5. doc' = doc /\ black' = black /\ cycle' = cycle /\ validity' = validity
    OBVIOUS
<1>6. \A x : Needs(x)' = Needs(x)
    BY <1>5 DEF Needs, Prerequisites
<1>7. path # <<>> => n \in Needs(path[m].id)
    BY <1>0 DEF SearchInv, RestInv
<1> HIDE DEF R, call, m
<1>8. PathInv'
  <2>1. gray' = {path'[k].id : k \in DOMAIN path'}
    <3>1. gray = {path[k].id : k \in 1 .. m}
        BY <1>0 DEF SearchInv, PathInv
    <3>2. 1 .. m + 1 = (1 .. m) \cup {m + 1}
        BY <1>0
    <3>3. {path'[k].id : k \in 1 .. m + 1} = {path[k].id : k \in 1 .. m} \cup {n}
      <4>1. ASSUME NEW k \in 1 .. m + 1
            PROVE  path'[k].id \in {path[i].id : i \in 1 .. m} \cup {n}
          BY <1>3, <3>2
      <4>2. ASSUME NEW k \in 1 .. m
            PROVE  path[k].id \in {path'[i].id : i \in 1 .. m + 1}
          BY <1>3, <3>2
      <4>3. m + 1 \in 1 .. m + 1
          BY <3>2
      <4>4. n \in {path'[i].id : i \in 1 .. m + 1}
          BY <1>3, <4>3
      <4> QED
          BY <4>1, <4>2, <4>4
    <3> QED
        BY <1>2, <1>4, <3>1, <3>3
  <2>2. \A k \in 1 .. m : path[k].id # n
      BY <1>0 DEF SearchInv, PathInv
  <2>3. \A j, k \in DOMAIN path' : path'[j].id = path'[k].id => j = k
      BY <1>0, <1>2, <1>3, <2>2 DEF SearchInv, PathInv
  <2>4. ASSUME NEW k \in DOMAIN path', k # 1 PROVE path'[k].id \in Needs(path'[k - 1].id)
    <3>1. CASE k \in 1 .. m
      <4>1. k \in DOMAIN path /\ k - 1 \in 1 .. m
          BY <1>0, <2>4, <3>1
      <4>2. path[k].id \in Needs(path[k - 1].id)
          BY <2>4, <4>1 DEF SearchInv, PathInv
      <4> QED
          BY <1>3, <3>1, <4>1, <4>2
    <3>2. CASE k = m + 1
      <4>1. m # 0 /\ k - 1 = m /\ path # <<>> /\ m \in 1 .. m
          BY <1>0, <2>4, <3>2
      <4> QED
          BY <1>3, <1>7, <3>2, <4>1
    <3> QED
        BY <1>0, <1>2, <3>1, <3>2
  <2> QED
      BY <1>4, <1>5, <1>6, <2>1, <2>3, <2>4 DEF SearchInv, PathInv
<1>9. RestInv'
  <2>1. ASSUME NEW k \in DOMAIN path'
        PROVE  /\ Range(path'[k].rest) \subseteq Needs(path'[k].id)
               /\ \A x \in Needs(path'[k].id) \ (black \cup Range(path'[k].rest)) :
                    k + 1 \in DOMAIN path' /\ path'[k + 1].id = x
    <3>1. CASE k = m + 1
        BY <1>3, <3>1
    <3>2. CASE k \in 1 .. m /\ k # m
      <4>1. /\ k + 1 \in 1 .. m /\ k \in DOMAIN path /\ k + 1 \in DOMAIN path
            /\ path'[k] = path[k] /\ path'[k].id = path[k].id
            /\ path'[k + 1].id = path[k + 1].id
            /\ k + 1 \in DOMAIN path'
          BY <1>0, <1>2, <1>3, <3>2 DEF m
      <4> QED
          BY <4>1 DEF SearchInv, RestInv
    <3>3. CASE k \in 1 .. m /\ k = m
      <4>1. /\ k \in DOMAIN path /\ k + 1 \notin DOMAIN path /\ path # <<>>
            /\ k + 1 \in DOMAIN path' /\ path'[k + 1].id = n
            /\ path'[k].id = path[k].id /\ path'[k].rest = calls[k].rest
          BY <1>0, <1>2, <1>3, <3>3
      <4>2. Range(path[k].rest) = {n} \cup Range(path'[k].rest)
          BY <3>3, <4>1 DEF m
      <4> QED
          BY <4>1, <4>2 DEF SearchInv, RestInv
    <3> QED
        BY <1>0, <1>2, <3>1, <3>2, <3>3
  <2> QED
      BY <1>5, <1>6, <2>1 DEF RestInv
<1>10. BlackInv' /\ CycleInv'
    BY <1>4, <1>5, <1>6 DEF SearchInv, BlackInv, CycleInv, Knot
<1> QED
    BY <1>2, <1>4, <1>8, <1>9, <1>10 DEF R

\* A prerequisite on the path: the path from it on is a knot.
LEMMA PathKnots ==
    ASSUME Decoded, SearchInv, path # <<>>,
           NEW n \in gray, n \in Needs(path[Len(path)].id)
    PROVE  \E S \in SUBSET gray : Knot(S)
<1>1. Len(path) \in Nat /\ DOMAIN path = 1 .. Len(path)
    BY DEF SearchInv, SearchType
<1>2. PICK j \in 1 .. Len(path) : n = path[j].id
    BY <1>1 DEF SearchInv, PathInv
<1> DEFINE S == {path[k].id : k \in j .. Len(path)}
<1>3. S \subseteq gray /\ n \in S
    BY <1>1, <1>2 DEF SearchInv, PathInv
<1>4. ASSUME NEW k \in j .. Len(path) PROVE Needs(path[k].id) \cap S # {}
  <2>1. CASE k = Len(path)
      BY <1>3, <2>1
  <2>2. CASE k # Len(path)
    <3>0. j \in Nat \ {0} /\ k \in Nat /\ j <= k /\ k <= Len(path)
        BY <1>1
    <3>1. k + 1 \in DOMAIN path /\ k + 1 # 1 /\ (k + 1) - 1 = k /\ k + 1 \in j .. Len(path)
      <4> DEFINE m == Len(path)
      <4>1. m \in Nat /\ DOMAIN path = 1 .. m /\ k <= m /\ k # m
          BY <1>1, <2>2, <3>0
      <4> HIDE DEF m
      <4>2. k + 1 \in 1 .. m /\ k + 1 # 1 /\ (k + 1) - 1 = k /\ k + 1 \in j .. m
          BY <3>0, <4>1
      <4> QED
          BY <4>1, <4>2 DEF m
    <3>2. path[k + 1].id \in Needs(path[k].id)
        BY <3>1 DEF SearchInv, PathInv
    <3> QED
        BY <3>1, <3>2
  <2> QED
      BY <2>1, <2>2
<1> QED
    BY <1>3, <1>4 DEF Knot

\* What is searched is known at every step ...
LEMMA BeginStep == ASSUME Decoded, SearchInv, Begin PROVE SearchInv'
<1> DEFINE n == doc.objectives[turn].id
<1>1. /\ turn \in DOMAIN doc.objectives /\ n \in STRING /\ turn' \in Nat \ {0}
      /\ \A i \in DOMAIN doc.objectives : i \in Nat /\ (i < turn + 1 => i < turn \/ i = turn)
    BY DEF Begin, Decoded, SearchInv, SearchType
<1>2. doc' = doc /\ black' = black /\ cycle' = cycle /\ validity' = validity /\ turn' = turn + 1
    BY DEF Begin
<1>3. validity = "open" /\ path = <<>>
    BY DEF Begin, Searching
<1>4. CASE n \in gray \cup black
  <2>1. UNCHANGED <<gray, path>>
      BY <1>4 DEF Begin
  <2>2. TurnInv'
      BY <1>1, <1>2, <1>4, <2>1 DEF SearchInv, TurnInv
  <2>3. PathInv' /\ RestInv' /\ BlackInv' /\ CycleInv'
      BY <1>2, <2>1, Unmoved
  <2>4. SearchType'
      BY <1>1, <1>2, <2>1 DEF SearchInv, SearchType
  <2>5. DecideInv'
      BY <1>2, <1>3 DEF DecideInv
  <2> QED
      BY <2>2, <2>3, <2>4, <2>5 DEF SearchInv
<1>5. CASE n \notin gray \cup black
  <2>1. Enter(n, path)
      BY <1>5 DEF Begin
  <2>2. path \in Seq([id : STRING, rest : Seq(STRING)])
      BY DEF SearchInv, SearchType
  <2>3. /\ path' \in Seq([id : STRING, rest : Seq(STRING)])
        /\ gray' \subseteq STRING
        /\ PathInv' /\ RestInv' /\ BlackInv' /\ CycleInv'
    <3> HIDE DEF n
    <3> QED
        BY <1>1, <1>2, <1>3, <1>5, <2>1, <2>2, EnterStep
  <2>4. TurnInv'
      BY <1>1, <1>2, <2>1 DEF Enter, SearchInv, TurnInv
  <2>5. SearchType'
      BY <1>1, <1>2, <2>3 DEF SearchInv, SearchType
  <2>6. DecideInv'
      BY <1>2, <1>3 DEF DecideInv
  <2> QED
      BY <2>3, <2>4, <2>5, <2>6 DEF SearchInv
<1> QED
    BY <1>4, <1>5

\* ... when dfs looks at a prerequisite ...
LEMMA FollowStep == ASSUME Decoded, SearchInv, Follow PROVE SearchInv'
<1> DEFINE n == Head(Top.rest)
           R == [id : STRING, rest : Seq(STRING)]
<1>1. /\ validity = "open" /\ path # <<>> /\ Top.rest # <<>>
      /\ doc' = doc /\ black' = black /\ turn' = turn /\ validity' = validity
    BY DEF Follow, Searching
<1>2. /\ Len(path) \in DOMAIN path
      /\ n \in STRING /\ n \in Range(Top.rest)
      /\ Range(Top.rest) = {n} \cup Range(Tail(Top.rest))
      /\ Passed \in Seq(R) /\ DOMAIN Passed = DOMAIN path
      /\ \A k \in DOMAIN path : /\ Passed[k].id = path[k].id
                                /\ k # Len(path) => Passed[k] = path[k]
      /\ Passed[Len(path)].rest = Tail(Top.rest)
    BY <1>1, PassedType DEF SearchInv
<1>3. n \in Needs(path[Len(path)].id)
    BY <1>2 DEF SearchInv, RestInv, Top
<1>4. \A x : Needs(x)' = Needs(x)
    BY <1>1 DEF Needs, Prerequisites
<1>5. \A k \in DOMAIN path : Range(Passed[k].rest) \subseteq Range(path[k].rest)
    BY <1>2 DEF Top
<1> HIDE DEF n, R
<1>6. CASE n \in gray /\ cycle' = TRUE /\ UNCHANGED <<gray, path>>
  <2>1. \E S \in SUBSET gray : Knot(S)
      BY <1>1, <1>3, <1>6, PathKnots
  <2>2. CycleInv'
      BY <1>4, <1>6, <2>1 DEF CycleInv, Knot
  <2>3. PathInv' /\ RestInv' /\ BlackInv' /\ TurnInv'
      BY <1>1, <1>6, Unmoved
  <2>4. SearchType' /\ DecideInv'
      BY <1>1, <1>6 DEF SearchInv, SearchType, DecideInv
  <2> QED
      BY <2>2, <2>3, <2>4 DEF SearchInv
<1>7. CASE n \in black \ gray /\ path' = Passed /\ UNCHANGED <<gray, cycle>>
  <2>1. SearchType'
      BY <1>1, <1>2, <1>7 DEF SearchInv, SearchType, R
  <2>2. PathInv'
    <3>1. gray' = {path'[k].id : k \in DOMAIN path'}
        BY <1>2, <1>7 DEF SearchInv, PathInv
    <3>2. ASSUME NEW k \in DOMAIN path', k # 1 PROVE path'[k].id \in Needs(path'[k - 1].id)
      <4>1. k \in DOMAIN path /\ k - 1 \in DOMAIN path
          BY <1>2, <1>7, <3>2 DEF SearchInv, SearchType
      <4> QED
          BY <1>2, <1>7, <3>2, <4>1 DEF SearchInv, PathInv
    <3> QED
        BY <1>1, <1>2, <1>4, <1>7, <3>1, <3>2 DEF SearchInv, PathInv
  <2>3. RestInv'
    <3>1. ASSUME NEW k \in DOMAIN path
          PROVE  /\ Range(Passed[k].rest) \subseteq Needs(Passed[k].id)
                 /\ \A x \in Needs(Passed[k].id) \ (black \cup Range(Passed[k].rest)) :
                      k + 1 \in DOMAIN Passed /\ Passed[k + 1].id = x
      <4>1. Range(path[k].rest) \subseteq Range(Passed[k].rest) \cup black
          BY <1>2, <1>7 DEF Top
      <4> QED
          BY <1>2, <1>5, <4>1 DEF SearchInv, RestInv
    <3> QED
        BY <1>1, <1>2, <1>4, <1>7, <3>1 DEF RestInv
  <2> QED
      BY <1>1, <1>4, <1>7, <2>1, <2>2, <2>3
         DEF SearchInv, BlackInv, TurnInv, CycleInv, Knot, DecideInv
<1>8. CASE n \notin gray \cup black /\ Enter(n, Passed) /\ UNCHANGED cycle
  <2>1. Range(path[Len(path)].rest) = {n} \cup Range(Passed[Len(path)].rest)
      BY <1>2 DEF Top
  <2>2. /\ path' \in Seq(R)
        /\ gray' \subseteq STRING
        /\ PathInv' /\ RestInv' /\ BlackInv' /\ CycleInv'
      BY <1>1, <1>2, <1>5, <1>8, <2>1, EnterStep DEF R
  <2>3. TurnInv'
      BY <1>1, <1>8 DEF Enter, SearchInv, TurnInv
  <2>4. SearchType'
      BY <1>1, <1>8, <2>2 DEF SearchInv, SearchType, R
  <2>5. DecideInv'
      BY <1>1 DEF DecideInv
  <2> QED
      BY <2>2, <2>3, <2>4, <2>5 DEF SearchInv
<1> QED
    BY <1>6, <1>7, <1>8 DEF Follow, n

\* ... when it returns ...
LEMMA LeaveStep == ASSUME Decoded, SearchInv, Leave PROVE SearchInv'
<1> DEFINE R == [id : STRING, rest : Seq(STRING)]
           m == Len(path)
           n == Top.id
<1>1. /\ validity = "open" /\ path # <<>> /\ path[m].rest = <<>>
      /\ doc' = doc /\ cycle' = cycle /\ turn' = turn /\ validity' = validity
      /\ ~cycle
      /\ gray' = gray \ {n} /\ black' = black \cup {n}
      /\ path' = SubSeq(path, 1, m - 1)
    BY DEF Leave, Searching, Front, Top
<1>2. path \in Seq(R) /\ m \in Nat /\ DOMAIN path = 1 .. m /\ n = path[m].id
    BY DEF SearchInv, SearchType, Top
<1> HIDE DEF R, m, n
<1>3. m - 1 \in Nat /\ m \in DOMAIN path
  <2>1. m # 0
      BY <1>1, <1>2, EmptySeq DEF m
  <2> QED
      BY <1>2, <2>1
<1>4. /\ path' \in Seq(R) /\ DOMAIN path' = 1 .. m - 1
      /\ \A k \in 1 .. m - 1 : path'[k] = path[k]
    BY <1>1, <1>2, <1>3, SubSeqProperties DEF m
<1>5. \A x : Needs(x)' = Needs(x)
    BY <1>1 DEF Needs, Prerequisites
<1>6. n \in gray /\ n \notin black /\ n \in STRING
    BY <1>2, <1>3 DEF SearchInv, PathInv, SearchType
<1>7. Needs(n) \subseteq black
  <2>1. Range(path[m].rest) = {}
      BY <1>1 DEF Range
  <2>2. m + 1 \notin DOMAIN path
      BY <1>2, <1>3
  <2> QED
      BY <1>2, <1>3, <2>1, <2>2 DEF SearchInv, RestInv
<1>8. SearchType'
    BY <1>1, <1>4, <1>6 DEF SearchInv, SearchType, R
<1>9. PathInv'
  <2>1. gray' = {path'[k].id : k \in DOMAIN path'}
    <3>1. gray = {path[k].id : k \in 1 .. m}
        BY <1>2 DEF SearchInv, PathInv
    <3>2. 1 .. m = (1 .. m - 1) \cup {m} /\ m \notin 1 .. m - 1
        BY <1>2, <1>3
    <3>3. \A k \in 1 .. m - 1 : path[k].id # n
        BY <1>2, <1>3, <3>2 DEF SearchInv, PathInv
    <3>4. {path'[k].id : k \in 1 .. m - 1} = {path[k].id : k \in 1 .. m - 1}
        BY <1>4
    <3>5. {path[k].id : k \in 1 .. m} = {path[k].id : k \in 1 .. m - 1} \cup {n}
        BY <1>2, <3>2
    <3> QED
        BY <1>1, <1>4, <3>1, <3>3, <3>4, <3>5
  <2>2. ASSUME NEW k \in DOMAIN path'
        PROVE  /\ k \in DOMAIN path /\ path'[k] = path[k]
               /\ k # 1 => k - 1 \in DOMAIN path' /\ k - 1 \in DOMAIN path
      BY <1>2, <1>3, <1>4
  <2>3. gray' \cap black' = {}
      BY <1>1 DEF SearchInv, PathInv
  <2>4. \A j, k \in DOMAIN path' : path'[j].id = path'[k].id => j = k
      BY <2>2 DEF SearchInv, PathInv
  <2>5. ASSUME NEW k \in DOMAIN path', k # 1
        PROVE  path'[k].id \in Needs(path'[k - 1].id)
    <3>1. path'[k] = path[k] /\ path'[k - 1] = path[k - 1] /\ k \in DOMAIN path
        BY <2>2, <2>5
    <3> QED
        BY <2>5, <3>1 DEF SearchInv, PathInv
  <2> QED
      BY <1>5, <2>1, <2>3, <2>4, <2>5 DEF PathInv
<1>10. RestInv'
  <2>1. ASSUME NEW k \in DOMAIN path'
        PROVE  /\ Range(path[k].rest) \subseteq Needs(path[k].id)
               /\ \A x \in Needs(path[k].id) \ (black' \cup Range(path[k].rest)) :
                    k + 1 \in DOMAIN path' /\ path'[k + 1].id = x
    <3>1. k \in DOMAIN path /\ (k + 1 \in DOMAIN path' \/ k + 1 = m)
        BY <1>2, <1>3, <1>4
    <3> QED
        BY <1>1, <1>2, <1>4, <3>1 DEF SearchInv, RestInv
  <2> QED
      BY <1>4, <1>5, <2>1 DEF RestInv
<1>11. BlackInv'
  <2>1. \A x \in black' : Needs(x) \subseteq black
      BY <1>1, <1>7 DEF SearchInv, BlackInv
  <2>2. ASSUME NEW S \in SUBSET black', S # {}
        PROVE  \E x \in S : Needs(x) \cap S = {}
    <3>1. CASE S = {n}
        BY <1>6, <1>7, <3>1
    <3>2. CASE S # {n}
      <4>1. S \ {n} \in SUBSET black /\ S \ {n} # {}
          BY <1>1, <2>2, <3>2
      <4>2. PICK x \in S \ {n} : Needs(x) \cap (S \ {n}) = {}
          BY <4>1 DEF SearchInv, BlackInv
      <4>3. n \notin Needs(x)
          BY <1>6, <2>1, <4>1, <4>2
      <4> QED
          BY <4>2, <4>3
    <3> QED
        BY <3>1, <3>2
  <2> QED
      BY <1>1, <1>5, <2>1, <2>2 DEF BlackInv
<1> QED
    BY <1>1, <1>8, <1>9, <1>10, <1>11 DEF SearchInv, TurnInv, CycleInv, DecideInv

\* ... and when Validate does.
LEMMA DecideStep == ASSUME Decoded, SearchInv, Decide PROVE SearchInv'
<1>1. UNCHANGED <<doc, gray, black, path, turn, cycle>>
    BY DEF Decide, search
<1>2. validity' \in {"open", "accepted", "refused"}
    BY DEF Decide
<1>3. DecideInv'
  <2>1. CASE Consistent(doc) /\ ~cycle
    <3>1. validity' = "accepted" /\ path = <<>> /\ turn > Len(doc.objectives)
        BY <2>1 DEF Decide
    <3>2. gray = {}
        BY <3>1 DEF SearchInv, PathInv
    <3>3. \A i \in DOMAIN doc.objectives : i < turn
        BY <3>1 DEF SearchInv, SearchType, Decoded
    <3>4. \A i \in DOMAIN doc.objectives : doc.objectives[i].id \in black
        BY <3>2, <3>3 DEF SearchInv, TurnInv
    <3> QED
        BY <1>1, <2>1, <3>1, <3>4 DEF DecideInv
  <2>2. CASE ~(Consistent(doc) /\ ~cycle)
    <3>1. validity' = "refused"
        BY <2>2 DEF Decide
    <3> QED
        BY <1>1, <2>2, <3>1 DEF DecideInv, Consistent
  <2> QED
      BY <2>1, <2>2
<1>4. PathInv' /\ RestInv' /\ BlackInv' /\ TurnInv' /\ CycleInv'
    BY <1>1, Unmoved
<1> QED
    BY <1>1, <1>2, <1>3, <1>4 DEF SearchInv, SearchType

\* What the colours mean for a challenge that is right otherwise.
LEMMA SearchMeans == ASSUME Decoded, SearchInv PROVE AcyclicAccepted
<1> SUFFICES ASSUME validity # "open", Consistent(doc)
             PROVE  validity = "accepted" <=> Acyclic(doc.objectives)
    BY DEF AcyclicAccepted
<1> DEFINE os == doc.objectives
           Ids == {os[i].id : i \in DOMAIN os}
<1>1. doc \in Document /\ os \in Seq(Range(os)) /\ Len(os) \in Nat /\ DOMAIN os = 1 .. Len(os)
    BY DEF SearchInv, SearchType, Decoded
<1>2. \A i, j \in DOMAIN os : os[i].id = os[j].id => i = j
    BY DEF Consistent, Distinct, IsInjective
<1>3. ASSUME NEW i \in DOMAIN os
      PROVE  Prerequisites(os[i].id) = os[i].dependsOn
  <2>1. {k \in DOMAIN os : os[k].id = os[i].id} = {i}
      BY <1>2
  <2>2. (CHOOSE k \in {i} : \A j \in {i} : j <= k) = i
      BY <1>1
  <2> QED
      BY <2>1, <2>2 DEF Prerequisites
<1>4. ASSUME NEW i \in DOMAIN os, NEW x
      PROVE  x \in Needs(os[i].id) <=> Contains(os[i].dependsOn, x)
  <2>1. os[i].dependsOn \in Seq(STRING)
      BY <1>1 DEF Decoded
  <2> QED
      BY <1>3, <2>1 DEF Needs, Contains
<1>5. CASE validity = "accepted"
  <2>1. ASSUME NEW S \in (SUBSET Ids) \ {{}}
        PROVE  \E i \in DOMAIN os : os[i].id \in S /\ \A x \in S : ~Contains(os[i].dependsOn, x)
    <3>1. S \subseteq black /\ S # {}
      <4>1. \A i \in DOMAIN os : os[i].id \in black
          BY <1>5 DEF SearchInv, DecideInv
      <4>2. Ids \subseteq black
          BY <4>1
      <4> HIDE DEF Ids
      <4> QED
          BY <4>2
    <3>2. PICK n \in S : Needs(n) \cap S = {}
        BY <3>1 DEF SearchInv, BlackInv
    <3>3. PICK i \in DOMAIN os : n = os[i].id
        OBVIOUS
    <3> QED
        BY <1>4, <3>2, <3>3
  <2>2. Acyclic(os)
      BY <2>1 DEF Acyclic
  <2> QED
      BY <1>5, <2>2
<1>6. CASE validity = "refused"
  <2> SUFFICES ASSUME Acyclic(os) PROVE FALSE
      BY <1>6
  <2>1. PICK S \in SUBSET gray : Knot(S)
      BY <1>6 DEF SearchInv, DecideInv, CycleInv
  <2>2. ASSUME NEW n \in S PROVE n \in Ids
    <3>1. Needs(n) # {}
        BY <2>1 DEF Knot
    <3> QED
        BY <1>1, <3>1, PrerequisitesType
  <2>3. S \in SUBSET Ids /\ S # {}
      BY <2>1, <2>2 DEF Knot
  <2>4. PICK i \in DOMAIN os : os[i].id \in S /\ \A x \in S : ~Contains(os[i].dependsOn, x)
      BY <2>3 DEF Acyclic
  <2>5. Needs(os[i].id) \cap S # {}
      BY <2>1, <2>4 DEF Knot
  <2> QED
      BY <1>4, <2>4, <2>5
<1> QED
    BY <1>5, <1>6 DEF SearchInv, SearchType

\* Of the challenges that are right otherwise the loader accepts those whose
\* dependencies have no cycle, for any number of objectives and dependencies.
THEOREM CyclesRefused == Decoded => (ValidateSpec => []AcyclicAccepted)
<1> SUFFICES ASSUME Decoded PROVE ValidateSpec => []AcyclicAccepted
    OBVIOUS
<1>1. ValidateInit => SearchInv
  <2> SUFFICES ASSUME ValidateInit PROVE SearchInv
      OBVIOUS
  <2>1. DOMAIN path = {} /\ path \in Seq([id : STRING, rest : Seq(STRING)])
      BY DEF ValidateInit
  <2>2. \A i \in DOMAIN doc.objectives : ~(i < 1)
      BY DEF ValidateInit, Decoded
  <2>3. path = <<>> /\ gray = {} /\ black = {} /\ turn = 1 /\ ~cycle /\ cycle \in BOOLEAN
        /\ validity = "open" /\ doc \in Document
      BY DEF ValidateInit
  <2>4. SearchType
      BY <2>1, <2>3 DEF SearchType
  <2>5. PathInv /\ RestInv /\ BlackInv
      BY <2>1, <2>3 DEF PathInv, RestInv, BlackInv
  <2>6. TurnInv /\ CycleInv /\ DecideInv
      BY <2>2, <2>3 DEF TurnInv, CycleInv, DecideInv
  <2> QED
      BY <2>4, <2>5, <2>6 DEF SearchInv
<1>2. SearchInv /\ [ValidateNext]_validateVars => SearchInv'
  <2>1. CASE SearchInv /\ ValidateNext
      BY <2>1, BeginStep, FollowStep, LeaveStep, DecideStep DEF ValidateNext
  <2>2. CASE SearchInv /\ UNCHANGED validateVars
    <3>1. UNCHANGED <<doc, gray, black, path, turn, cycle, validity>>
        BY <2>2 DEF validateVars, search
    <3>2. PathInv' /\ RestInv' /\ BlackInv' /\ TurnInv' /\ CycleInv'
        BY <2>2, <3>1, Unmoved
    <3> QED
        BY <2>2, <3>1, <3>2 DEF SearchInv, SearchType, DecideInv
  <2> QED
      BY <2>1, <2>2
<1> QED
    BY <1>1, <1>2, SearchMeans, PTL DEF ValidateSpec

-----------------------------------------------------------------------------
(* Match *)

\* There are values of any number of levels.
LEMMA JsonDef ==
    ASSUME Depth \in Nat
    PROVE  Json = [n \in 0 .. Depth |-> IF n = 0 THEN {} ELSE Layer(Json[n - 1])]
<1> DEFINE IsJson(f, m) == f = [n \in 0 .. m |-> IF n = 0 THEN {} ELSE Layer(f[n - 1])]
           S == {m \in Nat : \E f : IsJson(f, m)}
<1>1. 0 \in S
  <2>1. IsJson([n \in 0 .. 0 |-> {}], 0)
      OBVIOUS
  <2> QED
      BY <2>1
<1>2. ASSUME NEW m \in Nat, m \in S PROVE m + 1 \in S
  <2>1. PICK f : IsJson(f, m)
      BY <1>2
  <2> DEFINE g == [n \in 0 .. m + 1 |-> IF n = m + 1 THEN Layer(f[m]) ELSE f[n]]
  <2>2. ASSUME NEW n \in 0 .. m + 1
        PROVE  g[n] = IF n = 0 THEN {} ELSE Layer(g[n - 1])
    <3>1. CASE n = m + 1
        BY <3>1
    <3>2. CASE n # m + 1
      <4>1. n \in 0 .. m /\ g[n] = f[n] /\ (n # 0 => g[n - 1] = f[n - 1])
          BY <3>2
      <4>2. f[n] = IF n = 0 THEN {} ELSE Layer(f[n - 1])
          BY <2>1, <4>1
      <4> QED
          BY <4>1, <4>2
    <3> QED
        BY <3>1, <3>2
  <2>3. IsJson(g, m + 1)
      BY <2>2
  <2> HIDE DEF g, IsJson
  <2>4. m + 1 \in Nat /\ \E h : IsJson(h, m + 1)
      BY <2>3
  <2> QED
      BY <2>4
<1> HIDE DEF S
<1>3. Depth \in S
    BY <1>1, <1>2, Induction
<1>4. \E f : IsJson(f, Depth)
    BY <1>3 DEF S
<1> QED
    BY <1>4 DEF Json

\* Nothing has no levels; a value of n + 1 levels holds values of n.
LEMMA JsonLevels ==
    ASSUME Depth \in Nat
    PROVE  /\ Json[0] = {}
           /\ \A n \in 1 .. Depth : Json[n] = Layer(Json[n - 1])
BY JsonDef

\* The calls of Match are answered from those on the values inside.
LEMMA MatchOfDef ==
    ASSUME Depth \in Nat
    PROVE  matchOf = [n \in 0 .. Depth |->
                       [p \in Json[n] \X Json[n] |-> compare(p[1], p[2], matchOf[n - 1])]]
<1> DEFINE level(n, below) == [p \in Json[n] \X Json[n] |-> compare(p[1], p[2], below)]
           IsMatch(f, m) == f = [n \in 0 .. m |-> level(n, f[n - 1])]
           S == {m \in Nat : \E f : IsMatch(f, m)}
<1>0. \A a, b : level(0, a) = level(0, b)
    BY JsonLevels
<1> HIDE DEF level
<1>1. 0 \in S
  <2> DEFINE f == [n \in 0 .. 0 |-> level(0, {})]
  <2>1. \A n \in 0 .. 0 : n = 0 /\ level(n, f[n - 1]) = level(0, {})
      BY <1>0
  <2>2. IsMatch(f, 0)
      BY <2>1
  <2> QED
      BY <2>2
<1>2. ASSUME NEW m \in Nat, m \in S PROVE m + 1 \in S
  <2>1. PICK f : IsMatch(f, m)
      BY <1>2
  <2> DEFINE g == [n \in 0 .. m + 1 |-> IF n = m + 1 THEN level(m + 1, f[m]) ELSE f[n]]
  <2>2. ASSUME NEW n \in 0 .. m + 1
        PROVE  g[n] = level(n, g[n - 1])
    <3>1. CASE n = m + 1
        BY <3>1
    <3>2. CASE n # m + 1
      <4>1. n \in 0 .. m /\ g[n] = f[n] /\ (n # 0 => g[n - 1] = f[n - 1])
          BY <3>2
      <4>2. f[n] = level(n, f[n - 1])
          BY <2>1, <4>1
      <4> QED
          BY <4>1, <4>2, <1>0
    <3> QED
        BY <3>1, <3>2
  <2>3. IsMatch(g, m + 1)
      BY <2>2
  <2> HIDE DEF g, IsMatch
  <2>4. m + 1 \in Nat /\ \E h : IsMatch(h, m + 1)
      BY <2>3
  <2> QED
      BY <2>4
<1> HIDE DEF S
<1>3. Depth \in S
    BY <1>1, <1>2, Induction
<1>4. \E f : IsMatch(f, Depth)
    BY <1>3 DEF S
<1> QED
    BY <1>4 DEF matchOf, level

\* So is what is within what.
LEMMA WithinOfDef ==
    ASSUME Depth \in Nat
    PROVE  withinOf = [n \in 0 .. Depth |->
                        [p \in Json[n] \X Json[n] |-> isWithin(p[1], p[2], withinOf[n - 1])]]
<1> DEFINE level(n, below) == [p \in Json[n] \X Json[n] |-> isWithin(p[1], p[2], below)]
           IsWithin(f, m) == f = [n \in 0 .. m |-> level(n, f[n - 1])]
           S == {m \in Nat : \E f : IsWithin(f, m)}
<1>0. \A a, b : level(0, a) = level(0, b)
    BY JsonLevels
<1> HIDE DEF level
<1>1. 0 \in S
  <2> DEFINE f == [n \in 0 .. 0 |-> level(0, {})]
  <2>1. \A n \in 0 .. 0 : n = 0 /\ level(n, f[n - 1]) = level(0, {})
      BY <1>0
  <2>2. IsWithin(f, 0)
      BY <2>1
  <2> QED
      BY <2>2
<1>2. ASSUME NEW m \in Nat, m \in S PROVE m + 1 \in S
  <2>1. PICK f : IsWithin(f, m)
      BY <1>2
  <2> DEFINE g == [n \in 0 .. m + 1 |-> IF n = m + 1 THEN level(m + 1, f[m]) ELSE f[n]]
  <2>2. ASSUME NEW n \in 0 .. m + 1
        PROVE  g[n] = level(n, g[n - 1])
    <3>1. CASE n = m + 1
        BY <3>1
    <3>2. CASE n # m + 1
      <4>1. n \in 0 .. m /\ g[n] = f[n] /\ (n # 0 => g[n - 1] = f[n - 1])
          BY <3>2
      <4>2. f[n] = level(n, f[n - 1])
          BY <2>1, <4>1
      <4> QED
          BY <4>1, <4>2, <1>0
    <3> QED
        BY <3>1, <3>2
  <2>3. IsWithin(g, m + 1)
      BY <2>2
  <2> HIDE DEF g, IsWithin
  <2>4. m + 1 \in Nat /\ \E h : IsWithin(h, m + 1)
      BY <2>3
  <2> QED
      BY <2>4
<1> HIDE DEF S
<1>3. Depth \in S
    BY <1>1, <1>2, Induction
<1>4. \E f : IsWithin(f, Depth)
    BY <1>3 DEF S
<1> QED
    BY <1>4 DEF withinOf, level

-----------------------------------------------------------------------------

\* The search for partners of the elements from the i-th on, as arraySubset goes
\* on when those in used are taken.
SearchFrom(t, o, matches, i, next) ==
    [used \in SUBSET DOMAIN o |->
       \/ i > Len(t)
       \/ \E j \in DOMAIN o \ used : matches[<<t[i], o[j]>>] /\ next[used \cup {j}]]

\* h holds what the search returns from the i-th element on.
IsSearch(h, t, o, matches, i) ==
    h = [k \in i .. Len(t) + 1 |-> SearchFrom(t, o, matches, k, h[k + 1])]

\* The elements from the i-th on have partners of their own that are not used.
Partners(t, o, matches, i, used) ==
    \E f \in [i .. Len(t) -> DOMAIN o \ used] :
        /\ \A a, b \in i .. Len(t) : f[a] = f[b] => a = b
        /\ \A k \in i .. Len(t) : matches[<<t[k], o[f[k]]>>]

\* The search ends, whatever the lists.
LEMMA SearchExists ==
    ASSUME NEW T, NEW t \in Seq(T), NEW o, NEW matches
    PROVE  \E h : IsSearch(h, t, o, matches, 1)
<1> DEFINE n == Len(t)
           row(i, next) == SearchFrom(t, o, matches, i, next)
           Is(h, k) == h = [i \in (n + 1) - k .. n + 1 |-> row(i, h[i + 1])]
           S == {k \in Nat : k <= n => \E h : Is(h, k)}
<1>n. n \in Nat
    BY LenProperties
<1> HIDE DEF n
<1>0. \A a, b : row(n + 1, a) = row(n + 1, b)
    BY <1>n DEF SearchFrom, n
<1> HIDE DEF row
<1>1. 0 \in S
  <2> DEFINE h == [i \in {n + 1} |-> row(n + 1, {})]
  <2>1. (n + 1) - 0 .. n + 1 = {n + 1}
      BY <1>n
  <2>2. \A i \in {n + 1} : h[i] = row(i, h[i + 1])
      BY <1>0
  <2>3. Is(h, 0)
      BY <2>1, <2>2
  <2> HIDE DEF h, Is
  <2> QED
      BY <2>3
<1>2. ASSUME NEW k \in Nat, k \in S PROVE k + 1 \in S
  <2> SUFFICES ASSUME k + 1 <= n PROVE \E h : Is(h, k + 1)
    <3> HIDE DEF Is
    <3> QED
        BY <1>2
  <2>1. PICK h : Is(h, k)
      BY <1>2, <1>n
  <2> DEFINE m == n - k
             g == [i \in m .. n + 1 |-> IF i = m THEN row(m, h[m + 1]) ELSE h[i]]
  <2>m. /\ m \in Nat /\ m >= 1 /\ (n + 1) - (k + 1) = m /\ (n + 1) - k = m + 1
        /\ m + 1 \in m + 1 .. n + 1
      BY <1>n
  <2> HIDE DEF m
  <2>2. ASSUME NEW i \in m .. n + 1
        PROVE  g[i] = row(i, g[i + 1])
    <3>1. CASE i = m
        BY <3>1, <2>m, <1>n
    <3>2. CASE i # m
      <4>1. i \in m + 1 .. n + 1 /\ g[i] = h[i]
          BY <3>2, <2>m, <1>n
      <4>2. h[i] = row(i, h[i + 1])
          BY <2>1, <4>1, <2>m
      <4>3. CASE i = n + 1
          BY <4>1, <4>2, <4>3, <1>0
      <4>4. CASE i # n + 1
        <5>1. i + 1 \in m .. n + 1 /\ i + 1 # m
            BY <4>1, <4>4, <2>m, <1>n
        <5>2. g[i + 1] = h[i + 1]
            BY <5>1
        <5> QED
            BY <4>1, <4>2, <5>2
      <4> QED
          BY <4>3, <4>4
    <3> QED
        BY <3>1, <3>2
  <2>3. Is(g, k + 1)
      BY <2>2, <2>m
  <2> HIDE DEF g, Is
  <2> QED
      BY <2>3
<1>3. n \in S
  <2> HIDE DEF S
  <2> QED
      BY <1>1, <1>2, <1>n, Induction
<1>4. PICK h : Is(h, n)
    BY <1>3, <1>n
<1>5. (n + 1) - n = 1
    BY <1>n
<1> QED
    BY <1>4, <1>5 DEF IsSearch, row, n

\* Going back when it is stuck, the search finds partners whenever there are some.
LEMMA SearchFinds ==
    ASSUME NEW T, NEW t \in Seq(T), NEW o, NEW matches,
           NEW h, IsSearch(h, t, o, matches, 1)
    PROVE  \A i \in 1 .. Len(t) + 1 : \A used \in SUBSET DOMAIN o :
             h[i][used] <=> Partners(t, o, matches, i, used)
<1> DEFINE n == Len(t)
           Found(i) == \A used \in SUBSET DOMAIN o :
                         h[i][used] <=> Partners(t, o, matches, i, used)
           S == {k \in Nat : k <= n => Found((n + 1) - k)}
<1>n. n \in Nat
    BY LenProperties
<1>0. \A i \in 1 .. n + 1 : \A used \in SUBSET DOMAIN o :
        h[i][used] <=> \/ i > n
                       \/ \E j \in DOMAIN o \ used :
                            matches[<<t[i], o[j]>>] /\ h[i + 1][used \cup {j}]
    BY DEF IsSearch, SearchFrom
<1> HIDE DEF n
<1>1. 0 \in S
  <2> SUFFICES ASSUME NEW used \in SUBSET DOMAIN o
               PROVE  h[n + 1][used] <=> Partners(t, o, matches, n + 1, used)
      BY <1>n
  <2>1. n + 1 \in 1 .. n + 1 /\ n + 1 > n /\ n + 1 .. n = {}
      BY <1>n
  <2>2. h[n + 1][used]
      BY <1>0, <2>1
  <2>3. Partners(t, o, matches, n + 1, used)
    <3> DEFINE f == [k \in {} |-> 0]
    <3>1. f \in [n + 1 .. n -> DOMAIN o \ used]
        BY <2>1
    <3> QED
        BY <2>1, <3>1 DEF Partners, n
  <2> QED
      BY <2>2, <2>3
<1>2. ASSUME NEW k \in Nat, k \in S PROVE k + 1 \in S
  <2> DEFINE i == n - k
  <2> SUFFICES ASSUME k + 1 <= n, NEW used \in SUBSET DOMAIN o
               PROVE  h[i][used] <=> Partners(t, o, matches, i, used)
      BY <1>n
  <2>1. /\ i \in 1 .. n /\ i \in 1 .. n + 1 /\ ~(i > n)
        /\ (n + 1) - k = i + 1 /\ i + 1 \in 1 .. n + 1
      BY <1>n
  <2>2. Found(i + 1)
      BY <1>2, <2>1, <1>n
  <2> HIDE DEF i
  <2>3. h[i][used] <=> \E j \in DOMAIN o \ used :
                         matches[<<t[i], o[j]>>] /\ Partners(t, o, matches, i + 1, used \cup {j})
    <3>1. \A j \in DOMAIN o \ used :
            h[i + 1][used \cup {j}] <=> Partners(t, o, matches, i + 1, used \cup {j})
        BY <2>2
    <3> HIDE DEF Found
    <3> QED
        BY <1>0, <2>1, <3>1
  <2>4. ASSUME NEW j \in DOMAIN o \ used, matches[<<t[i], o[j]>>],
               Partners(t, o, matches, i + 1, used \cup {j})
        PROVE  Partners(t, o, matches, i, used)
    <3>1. PICK f \in [i + 1 .. n -> DOMAIN o \ (used \cup {j})] :
            /\ \A a, b \in i + 1 .. n : f[a] = f[b] => a = b
            /\ \A l \in i + 1 .. n : matches[<<t[l], o[f[l]]>>]
        BY <2>4 DEF Partners, n
    <3> DEFINE g == [l \in i .. n |-> IF l = i THEN j ELSE f[l]]
    <3>2. \A l \in i .. n : l = i \/ l \in i + 1 .. n
        BY <2>1, <1>n
    <3>3. g \in [i .. n -> DOMAIN o \ used]
        BY <3>1, <3>2
    <3>4. \A a, b \in i .. n : g[a] = g[b] => a = b
        BY <3>1, <3>2
    <3>5. \A l \in i .. n : matches[<<t[l], o[g[l]]>>]
        BY <3>1, <3>2, <2>4
    <3> HIDE DEF g
    <3> QED
        BY <3>3, <3>4, <3>5 DEF Partners, n
  <2>5. ASSUME Partners(t, o, matches, i, used)
        PROVE  \E j \in DOMAIN o \ used :
                 matches[<<t[i], o[j]>>] /\ Partners(t, o, matches, i + 1, used \cup {j})
    <3>1. PICK f \in [i .. n -> DOMAIN o \ used] :
            /\ \A a, b \in i .. n : f[a] = f[b] => a = b
            /\ \A l \in i .. n : matches[<<t[l], o[f[l]]>>]
        BY <2>5 DEF Partners, n
    <3> DEFINE j == f[i]
               g == [l \in i + 1 .. n |-> f[l]]
    <3>2. i \in i .. n /\ \A l \in i + 1 .. n : l \in i .. n /\ l # i
        BY <2>1, <1>n
    <3>3. j \in DOMAIN o \ used /\ matches[<<t[i], o[j]>>]
        BY <3>1, <3>2
    <3>4. g \in [i + 1 .. n -> DOMAIN o \ (used \cup {j})]
        BY <3>1, <3>2
    <3>5. \A a, b \in i + 1 .. n : g[a] = g[b] => a = b
        BY <3>1, <3>2
    <3>6. \A l \in i + 1 .. n : matches[<<t[l], o[g[l]]>>]
        BY <3>1, <3>2
    <3> HIDE DEF g, j
    <3>7. Partners(t, o, matches, i + 1, used \cup {j})
        BY <3>4, <3>5, <3>6 DEF Partners, n
    <3> QED
        BY <3>3, <3>7
  <2> QED
      BY <2>3, <2>4, <2>5
<1>3. \A k \in Nat : k \in S
  <2> HIDE DEF S
  <2> QED
      BY <1>1, <1>2, Induction
<1>4. ASSUME NEW i \in 1 .. n + 1 PROVE Found(i)
  <2>1. (n + 1) - i \in Nat /\ (n + 1) - i <= n /\ (n + 1) - ((n + 1) - i) = i
      BY <1>n
  <2> HIDE DEF Found
  <2> QED
      BY <1>3, <2>1
<1> QED
    BY <1>4 DEF n

\* arraySubset assigns every element of the tree an element of its own that it
\* matches, if that can be done.
LEMMA AssignFinds ==
    ASSUME NEW T, NEW t \in Seq(T), NEW o, NEW matches
    PROVE  assign(t, o, matches) <=>
             \E f \in Injection(DOMAIN t, DOMAIN o) :
               \A i \in DOMAIN t : matches[<<t[i], o[f[i]]>>]
<1> DEFINE h == CHOOSE from : IsSearch(from, t, o, matches, 1)
<1>1. IsSearch(h, t, o, matches, 1)
    BY SearchExists
<1>2. assign(t, o, matches) = h[1][{}]
    BY DEF assign, IsSearch, SearchFrom
<1> HIDE DEF h
<1>3. Len(t) \in Nat /\ DOMAIN t = 1 .. Len(t) /\ 1 \in 1 .. Len(t) + 1
    BY LenProperties
<1>4. h[1][{}] <=> Partners(t, o, matches, 1, {})
    BY <1>1, <1>3, SearchFinds
<1>5. Partners(t, o, matches, 1, {}) <=>
        \E f \in Injection(DOMAIN t, DOMAIN o) :
          \A i \in DOMAIN t : matches[<<t[i], o[f[i]]>>]
    BY <1>3 DEF Partners, Injection, IsInjective
<1> QED
    BY <1>2, <1>4, <1>5

-----------------------------------------------------------------------------

\* A value is a pair; it is a scalar, a map or an array, and null in one way only.
LEMMA Shapes ==
    ASSUME NEW values, NEW v \in Layer(values)
    PROVE  /\ v = <<v[1], v[2]>>
           /\ v[1] = "map" => v[2] \in [Key -> values \cup {Unset}]
           /\ v[1] = "array" => v[2] \in Seq(values)
           /\ v[1] \notin {"map", "array"} => v \in Scalar
           /\ v[1] = "null" => v = Null
BY DEF Layer, Scalar, Null

\* What a call of Match returns means the same as what is within what, when it does
\* of the values inside.
LEMMA CompareAgrees ==
    ASSUME NEW values, NEW t \in Layer(values), NEW o \in Layer(values),
           NEW matches, NEW within,
           \A a, b \in values : matches[<<a, b>>] <=> within[<<a, b>>],
           \A b \in values : within[<<Null, b>>] <=> b = Null
    PROVE  compare(t, o, matches) <=> isWithin(t, o, within)
<1> HIDE DEF Layer
<1>t. /\ t = <<t[1], t[2]>>
      /\ t[1] = "map" => t[2] \in [Key -> values \cup {Unset}]
      /\ t[1] = "array" => t[2] \in Seq(values)
      /\ t[1] = "null" => t = Null
    BY Shapes
<1>o. /\ o = <<o[1], o[2]>>
      /\ o[1] = "map" => o[2] \in [Key -> values \cup {Unset}]
      /\ o[1] = "array" => o[2] \in Seq(values)
    BY Shapes
<1>1. CASE t = Null
  <2>1. t[1] = "null"
      BY <1>1 DEF Null
  <2>2. compare(t, o, matches) <=> o = Null
      BY <1>1, <2>1 DEF compare
  <2>3. isWithin(t, o, within) <=> o = t
      BY <2>1 DEF isWithin
  <2> QED
      BY <1>1, <2>2, <2>3
<1>2. CASE t[1] = "map"
  <2>1. t # Null
      BY <1>2 DEF Null
  <2>2. compare(t, o, matches) <=>
          /\ o[1] = "map"
          /\ \A k \in Key : t[2][k] # Unset =>
               IF t[2][k] = Null THEN o[2][k] \in {Unset, Null}
               ELSE o[2][k] # Unset /\ matches[<<t[2][k], o[2][k]>>]
      BY <1>2, <2>1 DEF compare
  <2>3. isWithin(t, o, within) <=>
          /\ o[1] = "map"
          /\ \A k \in Key : t[2][k] # Unset =>
               IF o[2][k] = Unset THEN t[2][k] = Null ELSE within[<<t[2][k], o[2][k]>>]
      BY <1>2 DEF isWithin
  <2>4. ASSUME o[1] = "map", NEW k \in Key, t[2][k] # Unset
        PROVE  (IF t[2][k] = Null THEN o[2][k] \in {Unset, Null}
                ELSE o[2][k] # Unset /\ matches[<<t[2][k], o[2][k]>>])
               <=> IF o[2][k] = Unset THEN t[2][k] = Null ELSE within[<<t[2][k], o[2][k]>>]
    <3>1. t[2][k] \in values /\ (o[2][k] = Unset \/ o[2][k] \in values)
        BY <1>2, <1>t, <1>o, <2>4
    <3> QED
        BY <3>1
  <2> QED
      BY <2>2, <2>3, <2>4
<1>3. CASE t[1] = "array"
  <2>1. t # Null
      BY <1>3 DEF Null
  <2>2. compare(t, o, matches) <=> o[1] = "array" /\ assign(t[2], o[2], matches)
      BY <1>3, <2>1 DEF compare
  <2>3. isWithin(t, o, within) <=>
          /\ o[1] = "array"
          /\ \E f \in Injection(DOMAIN t[2], DOMAIN o[2]) :
               \A i \in DOMAIN t[2] : within[<<t[2][i], o[2][f[i]]>>]
      BY <1>3 DEF isWithin
  <2>4. ASSUME o[1] = "array", NEW f \in Injection(DOMAIN t[2], DOMAIN o[2]),
               NEW i \in DOMAIN t[2]
        PROVE  matches[<<t[2][i], o[2][f[i]]>>] <=> within[<<t[2][i], o[2][f[i]]>>]
    <3>1. t[2] \in Seq(values) /\ o[2] \in Seq(values) /\ f[i] \in DOMAIN o[2]
        BY <1>3, <1>t, <1>o, <2>4 DEF Injection
    <3>2. t[2][i] \in values /\ o[2][f[i]] \in values
        BY <3>1, ElementOfSeq, LenProperties
    <3> QED
        BY <3>2
  <2>5. assign(t[2], o[2], matches) <=>
          \E f \in Injection(DOMAIN t[2], DOMAIN o[2]) :
            \A i \in DOMAIN t[2] : matches[<<t[2][i], o[2][f[i]]>>]
      BY <1>3, <1>t, AssignFinds
  <2> QED
      BY <2>2, <2>3, <2>4, <2>5
<1>4. CASE t # Null /\ t[1] \notin {"map", "array"}
  <2>1. compare(t, o, matches) <=> scalarEqual(t, o)
      BY <1>4 DEF compare
  <2>2. CASE t[1] \in {"int", "float"}
    <3>1. isWithin(t, o, within) <=> o[1] \in {"int", "float"} /\ asFloat(o) = asFloat(t)
        BY <2>2 DEF isWithin
    <3>2. asFloat(t) # {}
        BY <2>2 DEF asFloat
    <3>3. asFloat(o) # {} <=> o[1] \in {"int", "float"}
        BY DEF asFloat
    <3>4. scalarEqual(t, o) <=> asFloat(t) = asFloat(o)
        BY <3>2 DEF scalarEqual
    <3> HIDE DEF asFloat
    <3> QED
        BY <2>1, <3>1, <3>2, <3>3, <3>4
  <2>3. CASE t[1] \notin {"int", "float"}
    <3>1. isWithin(t, o, within) <=> o = t
        BY <1>4, <2>3 DEF isWithin
    <3>2. scalarEqual(t, o) <=> t[1] = o[1] /\ t[2] = o[2]
      <4>1. asFloat(t) = {}
          BY <2>3 DEF asFloat
      <4>2. asFloat(o) # {} => o[1] \in {"int", "float"}
          BY DEF asFloat
      <4> HIDE DEF asFloat
      <4> QED
          BY <2>3, <4>1, <4>2 DEF scalarEqual
    <3>3. t[1] = o[1] /\ t[2] = o[2] <=> o = t
        BY <1>t, <1>o
    <3> QED
        BY <2>1, <3>1, <3>2, <3>3
  <2> QED
      BY <2>2, <2>3
<1> QED
    BY <1>1, <1>2, <1>3, <1>4

\* A call of Match is answered from those one level down.
LEMMA MatchAt ==
    ASSUME Depth \in Nat, NEW n \in 0 .. Depth, NEW t \in Json[n], NEW o \in Json[n]
    PROVE  matchOf[n][<<t, o>>] = compare(t, o, matchOf[n - 1])
<1>1. matchOf[n] = [p \in Json[n] \X Json[n] |-> compare(p[1], p[2], matchOf[n - 1])]
    BY MatchOfDef
<1>2. <<t, o>> \in Json[n] \X Json[n] /\ <<t, o>>[1] = t /\ <<t, o>>[2] = o
    OBVIOUS
<1> DEFINE p == <<t, o>>
<1>3. matchOf[n][p] = compare(p[1], p[2], matchOf[n - 1])
  <2> HIDE DEF p
  <2> QED
      BY <1>1, <1>2 DEF p
<1> QED
    BY <1>2, <1>3

\* And what is within what.
LEMMA WithinAt ==
    ASSUME Depth \in Nat, NEW n \in 0 .. Depth, NEW t \in Json[n], NEW o \in Json[n]
    PROVE  withinOf[n][<<t, o>>] = isWithin(t, o, withinOf[n - 1])
<1>1. withinOf[n] = [p \in Json[n] \X Json[n] |-> isWithin(p[1], p[2], withinOf[n - 1])]
    BY WithinOfDef
<1>2. <<t, o>> \in Json[n] \X Json[n] /\ <<t, o>>[1] = t /\ <<t, o>>[2] = o
    OBVIOUS
<1> DEFINE p == <<t, o>>
<1>3. withinOf[n][p] = isWithin(p[1], p[2], withinOf[n - 1])
  <2> HIDE DEF p
  <2> QED
      BY <1>1, <1>2 DEF p
<1> QED
    BY <1>2, <1>3

\* Match is right about all values of any number of levels.
LEMMA MatchAgrees ==
    ASSUME Depth \in Nat
    PROVE  \A n \in 0 .. Depth : \A t, o \in Json[n] :
             matchOf[n][<<t, o>>] <=> withinOf[n][<<t, o>>]
<1> DEFINE Agree(n) == \A a, b \in Json[n] : matchOf[n][<<a, b>>] <=> withinOf[n][<<a, b>>]
           S == {n \in Nat : n <= Depth => Agree(n)}
<1>1. 0 \in S
    BY JsonLevels
<1>2. ASSUME NEW n \in Nat, n \in S PROVE n + 1 \in S
  <2>0. n <= Depth => Agree(n)
      BY <1>2
  <2> SUFFICES ASSUME n + 1 <= Depth PROVE Agree(n + 1)
    <3> HIDE DEF Agree
    <3> QED
        OBVIOUS
  <2> SUFFICES ASSUME NEW t \in Json[n + 1], NEW o \in Json[n + 1]
               PROVE  matchOf[n + 1][<<t, o>>] <=> withinOf[n + 1][<<t, o>>]
      OBVIOUS
  <2>1. n \in 0 .. Depth /\ n + 1 \in 1 .. Depth /\ n + 1 \in 0 .. Depth /\ (n + 1) - 1 = n
      OBVIOUS
  <2>2. matchOf[n + 1][<<t, o>>] = compare(t, o, matchOf[n])
      BY <2>1, MatchAt
  <2>3. withinOf[n + 1][<<t, o>>] = isWithin(t, o, withinOf[n])
      BY <2>1, WithinAt
  <2>4. t \in Layer(Json[n]) /\ o \in Layer(Json[n])
      BY <2>1, JsonLevels
  <2>5. \A a, b \in Json[n] : matchOf[n][<<a, b>>] <=> withinOf[n][<<a, b>>]
    <3>1. Agree(n)
      <4> HIDE DEF Agree
      <4> QED
          BY <2>0, <2>1
    <3> QED
        BY <3>1
  <2>6. ASSUME NEW b \in Json[n] PROVE withinOf[n][<<Null, b>>] <=> b = Null
    <3>1. n \in 1 .. Depth
        BY <2>1, JsonLevels
    <3>2. Json[n] = Layer(Json[n - 1])
        BY <3>1, JsonLevels
    <3>3. Null \in Json[n]
        BY <3>2 DEF Layer, Scalar
    <3>4. withinOf[n][<<Null, b>>] = isWithin(Null, b, withinOf[n - 1])
        BY <2>1, <3>3, WithinAt
    <3> QED
        BY <3>4 DEF isWithin, Null
  <2> QED
      BY <2>2, <2>3, <2>4, <2>5, <2>6, CompareAgrees
<1> HIDE DEF S
<1>3. \A n \in Nat : n \in S
    BY <1>1, <1>2, Induction
<1>4. ASSUME NEW n \in 0 .. Depth PROVE Agree(n)
  <2>1. n \in S /\ n <= Depth
      BY <1>3
  <2> HIDE DEF Agree
  <2> QED
      BY <2>1 DEF S
<1> QED
    BY <1>4

-----------------------------------------------------------------------------

\* A tree and an object stay what they were read as; what was found vacuous is the
\* literal true, a match of nothing, or has such a branch.
ReadAsIs ==
    /\ tree \in Json[Depth] /\ live \in Json[Depth] /\ live[1] = "map"
    /\ \A f \in findings : f[1] = "vacuous-check" => vacuousCheck(f[2])
    /\ step = "checked" => (matched <=> Match(tree, live))

\* The lint reports as vacuous what vacuousCheck finds to be.
LEMMA LintVacuous ==
    ASSUME NEW d, NEW f \in Lint(d), f[1] = "vacuous-check"
    PROVE  vacuousCheck(f[2])
<1> USE DEF Lint
<1> HIDE DEF vacuousCheck
<1> QED
    OBVIOUS

\* The values are read, linted and compared once.
LEMMA ReadAsIsHolds == FormatSpec => []ReadAsIs
<1>1. FormatInit => ReadAsIs
  <2> SUFFICES ASSUME FormatInit PROVE ReadAsIs
      OBVIOUS
  <2>1. doc \in Document
      BY DEF FormatInit, ValidateInit
  <2>2. PICK i \in Input(doc) : tree = i.tree /\ live = i.live
      BY DEF FormatInit
  <2>3. tree \in Json[Depth] /\ live \in Json[Depth] /\ live[1] = "map"
      BY <2>1, <2>2, InputAssumption
  <2> QED
      BY <2>3 DEF FormatInit, ReadAsIs
<1>2. ReadAsIs /\ [FormatNext]_formatVars => ReadAsIs'
  <2> SUFFICES ASSUME ReadAsIs, [FormatNext]_formatVars PROVE ReadAsIs'
      OBVIOUS
  <2>1. CASE LoadDir
      BY <2>1 DEF LoadDir, ReadAsIs, vacuousCheck, isEmptyObject, Match
  <2>2. CASE LintDoc
      BY <2>2, LintVacuous DEF LintDoc, ReadAsIs, vacuousCheck, isEmptyObject
  <2>3. CASE evalMatch
      BY <2>3 DEF evalMatch, ReadAsIs, vacuousCheck, isEmptyObject, Match
  <2>4. CASE UNCHANGED formatVars
      BY <2>4 DEF formatVars, ReadAsIs, vacuousCheck, isEmptyObject, Match
  <2> QED
      BY <2>1, <2>2, <2>3, <2>4 DEF FormatNext
<1> QED
    BY <1>1, <1>2, PTL DEF FormatSpec

\* "unordered subset ... every element of tree must match at least one distinct
\* element of obj": a check of an object passes if and only if the tree embeds in
\* the object, however they are nested and ordered.
THEOREM MatchEmbeds == FormatSpec => []MatchIsEmbedding
<1>1. ReadAsIs => MatchIsEmbedding
  <2> SUFFICES ASSUME ReadAsIs, step = "checked" PROVE matched <=> Embeds(tree, live)
      BY DEF MatchIsEmbedding
  <2>1. matched <=> matchOf[Depth][<<tree, live>>]
      BY DEF ReadAsIs, Match
  <2>2. Depth \in 0 .. Depth /\ tree \in Json[Depth] /\ live \in Json[Depth]
      BY InputAssumption DEF ReadAsIs
  <2>3. matchOf[Depth][<<tree, live>>] <=> withinOf[Depth][<<tree, live>>]
      BY <2>2, InputAssumption, MatchAgrees
  <2> QED
      BY <2>1, <2>3 DEF Embeds
<1> QED
    BY <1>1, ReadAsIsHolds, PTL

\* "trivially satisfied regardless of cluster state": what the lint reports as
\* vacuous, a match of null set aside, passes of every object.
THEOREM VacuousMatches == FormatSpec => []VacuousMatchesAll
<1>1. ReadAsIs => VacuousMatchesAll
  <2> SUFFICES ASSUME ReadAsIs, step = "checked", tree # Null, NEW f \in findings,
                      f[1] = "vacuous-check"
               PROVE  Passes(f[2])
      BY DEF VacuousMatchesAll
  <2>0. PICK c \in {f[2]} \cup Range(f[2].anyOf) :
          "true" \in c.asserts \/ ("match" \in c.asserts /\ isEmptyObject(tree))
      BY DEF ReadAsIs, vacuousCheck
  <2> SUFFICES ASSUME "match" \in c.asserts, isEmptyObject(tree) PROVE matched
      BY <2>0 DEF Passes
  <2>1. tree = Empty /\ live[1] = "map" /\ tree \in Json[Depth] /\ live \in Json[Depth]
      BY DEF ReadAsIs, isEmptyObject
  <2>2. Depth \in 0 .. Depth
      BY InputAssumption
  <2>3. matched <=> compare(tree, live, matchOf[Depth - 1])
      BY <2>1, <2>2, InputAssumption, MatchAt DEF ReadAsIs, Match
  <2>4. tree[1] = "map" /\ \A k \in Key : tree[2][k] = Unset
      BY <2>1 DEF Empty
  <2> HIDE DEF Unset
  <2> QED
      BY <2>1, <2>3, <2>4 DEF compare
<1> QED
    BY <1>1, ReadAsIsHolds, PTL
=============================================================================
