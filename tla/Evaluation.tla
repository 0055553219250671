----------------------------- MODULE Evaluation -----------------------------
(***************************************************************************)
(* How objectives are evaluated against a cluster that changes meanwhile   *)
(* (verify.Evaluate).                                                      *)
(*                                                                         *)
(* The objectives are taken in the order of declaration, the checks of an  *)
(* objective one by one, and a check that fails is retried until its       *)
(* window closes.  A check is a list of leaves: one leaf, or the branches  *)
(* of an anyOf.  A leaf looks at an object (get), at all objects of a kind *)
(* (list), or runs a script in a pod of its own (probe), which is in the   *)
(* cluster for everybody to see until its Job is deleted.                  *)
(*                                                                         *)
(* A fact is what a leaf asserts; the player and the controllers make it   *)
(* hold or not at any time.  An action is one look at the cluster.         *)
(***************************************************************************)
EXTENDS Naturals, Sequences, FiniteSets

CONSTANTS
    Fact,        \* what is asserted of the cluster
    Objectives,  \* sequence of [checks, dependsOn]: checks is a sequence of
                 \* sequences of leaves [kind, fact], dependsOn a set of indices
    Verifier,    \* commands that evaluate
    MaxFlips,    \* bound: how often a fact changes
    MaxRuns,     \* bound: evaluations
    EvalFaults   \* what can go wrong: "api", "probe", "kill"

VARIABLES
    facts,    \* the facts that hold now
    pods,     \* probe pods in the cluster, by the process that runs them
    strays,   \* what probes of killed processes left
    doing,    \* what a process does next
    obj,      \* the objective it evaluates
    check,    \* the check of that objective
    leaf,     \* the leaf of that check
    verdict,  \* of the leaves looked at since the check was (re)tried: "pass",
              \* "fail" or, for a single leaf, "error"
    card,     \* the results of the objectives so far
    flips, runs,
    steady,   \* history: facts that have held since the process began
    seen,     \* history: facts that have held at some time since
    erred     \* history: the process met an error

world == <<facts, pods, strays, flips>>
position == <<obj, check, leaf, verdict, card>>
evalHistory == <<steady, seen, erred>>
evalVars == <<world, doing, position, runs, evalHistory>>

Objective == DOMAIN Objectives
Checks(o) == Objectives[o].checks
Leaf(p) == Checks(obj[p])[check[p]][leaf[p]]

EvalInit ==
    /\ facts \in SUBSET Fact
    /\ pods = {}
    /\ strays = 0
    /\ doing = [p \in Verifier |-> "idle"]
    /\ obj = [p \in Verifier |-> 0]
    /\ check = [p \in Verifier |-> 0]
    /\ leaf = [p \in Verifier |-> 0]
    /\ verdict = [p \in Verifier |-> "none"]
    /\ card = [p \in Verifier |-> <<>>]
    /\ flips = 0
    /\ runs = 0
    /\ steady = [p \in Verifier |-> {}]
    /\ seen = [p \in Verifier |-> {}]
    /\ erred = [p \in Verifier |-> FALSE]

EvalGoto(p, label) == doing' = [doing EXCEPT ![p] = label]
At(p, o, c, l) ==
    /\ obj' = [obj EXCEPT ![p] = o]
    /\ check' = [check EXCEPT ![p] = c]
    /\ leaf' = [leaf EXCEPT ![p] = l]

-----------------------------------------------------------------------------

\* The player or a controller changes what holds.
Flip ==
    /\ flips < MaxFlips
    /\ flips' = flips + 1
    /\ \E f \in Fact :
         LET now == IF f \in facts THEN facts \ {f} ELSE facts \cup {f} IN
           /\ facts' = now
           /\ steady' = [p \in Verifier |-> steady[p] \cap now]
           /\ seen' = [p \in Verifier |-> seen[p] \cup now]
    /\ UNCHANGED <<pods, strays, doing, position, runs, erred>>

EvalBegin(p) ==
    /\ doing[p] = "idle"
    /\ runs < MaxRuns
    /\ runs' = runs + 1
    /\ EvalGoto(p, "objective")
    /\ At(p, 1, 0, 0)
    /\ card' = [card EXCEPT ![p] = <<>>]
    /\ steady' = [steady EXCEPT ![p] = facts]
    /\ seen' = [seen EXCEPT ![p] = facts]
    /\ erred' = [erred EXCEPT ![p] = FALSE]
    /\ UNCHANGED <<world, verdict>>

\* Mutant: one dependency that has passed is enough.
dependenciesMetAny(p, o) ==
    Objectives[o].dependsOn = {} \/
        \E d \in Objectives[o].dependsOn : d < o /\ card[p][d] = "passed"

\* A dependency declared later has no result yet and counts as not passed.
dependenciesMet(p, o) ==
    \A d \in Objectives[o].dependsOn : d < o /\ card[p][d] = "passed"

Record(p, result) ==
    /\ card' = [card EXCEPT ![p] = Append(@, result)]
    /\ At(p, obj[p] + 1, 0, 0)
    /\ verdict' = [verdict EXCEPT ![p] = "none"]
    /\ EvalGoto(p, "objective")

\* The loop of Evaluate.
EvaluateObjective(p) ==
    /\ doing[p] = "objective"
    /\ obj[p] \in Objective
    /\ IF dependenciesMet(p, obj[p])
         THEN /\ At(p, obj[p], 1, 1)
              /\ EvalGoto(p, "check")
              /\ UNCHANGED <<card, verdict>>
         ELSE Record(p, "blocked")
    /\ UNCHANGED <<world, runs, evalHistory>>

Evaluated(p) ==
    /\ doing[p] = "objective"
    /\ obj[p] \notin Objective
    /\ EvalGoto(p, "idle")
    /\ UNCHANGED <<world, position, runs, evalHistory>>

\* Mutant: probe pods are listed like any other object.
listTargetsAll(p, f) == f \in facts /\ pods = {} /\ strays = 0

\* A list leaves out what is labelled as a probe's, so that what it asserts of
\* the objects it sees depends on the fact alone.
listTargets(p, f) == f \in facts

\* What the leaf finds: match and cel on one object, cel on a list.
Holds(p) ==
    LET l == Leaf(p) IN
    IF l.kind = "list" THEN listTargets(p, l.fact) ELSE l.fact \in facts

\* Within an anyOf a branch that cannot be evaluated counts as one that fails.
evalAnyOf(p, r) == IF r = "error" THEN "fail" ELSE r

\* The result of the leaf: the next branch of the anyOf, or the end of the check.
Result(p, r) ==
    LET branches == Len(Checks(obj[p])[check[p]])
        outcome == IF branches > 1 THEN evalAnyOf(p, r) ELSE r IN
    IF outcome = "fail" /\ leaf[p] < branches
      THEN /\ At(p, obj[p], check[p], leaf[p] + 1)
           /\ EvalGoto(p, "check")
           /\ UNCHANGED verdict
      ELSE /\ verdict' = [verdict EXCEPT ![p] = outcome]
           /\ EvalGoto(p, "checked")
           /\ UNCHANGED <<obj, check, leaf>>

\* A request that fails makes the leaf errored.
Look(p) ==
    /\ doing[p] = "check"
    /\ Leaf(p).kind # "probe"
    /\ \/ Result(p, IF Holds(p) THEN "pass" ELSE "fail") /\ UNCHANGED erred
       \/ "api" \in EvalFaults /\ Result(p, "error") /\ erred' = [erred EXCEPT ![p] = TRUE]
    /\ UNCHANGED <<world, card, runs, steady, seen>>

\* The namespace, the script and the Job of a probe; a request that fails ends
\* it and what was made is deleted again.
evalProbe(p) ==
    /\ doing[p] = "check"
    /\ Leaf(p).kind = "probe"
    /\ \/ /\ pods' = pods \cup {p}
          /\ EvalGoto(p, "probe")
          /\ UNCHANGED <<obj, check, leaf, verdict, erred>>
       \/ /\ "api" \in EvalFaults
          /\ Result(p, "error")
          /\ erred' = [erred EXCEPT ![p] = TRUE]
          /\ UNCHANGED pods
    /\ UNCHANGED <<facts, strays, flips, card, runs, steady, seen>>

\* The exit code 0 or 1 is the verdict; another code, or none in time, is an
\* error.  The deferred deletions take Job and script away in each case.
awaitProbe(p) ==
    /\ doing[p] = "probe"
    /\ pods' = pods \ {p}
    /\ \/ Result(p, IF Holds(p) THEN "pass" ELSE "fail") /\ UNCHANGED erred
       \/ /\ "probe" \in EvalFaults
          /\ Result(p, "error")
          /\ erred' = [erred EXCEPT ![p] = TRUE]
    /\ UNCHANGED <<facts, strays, flips, card, runs, steady, seen>>

\* A check that failed, unless it is a probe, is retried until its window closes.
Retried(p) ==
    /\ doing[p] = "checked"
    /\ verdict[p] = "fail"
    /\ LET ls == Checks(obj[p])[check[p]] IN Len(ls) > 1 \/ ls[1].kind # "probe"
    /\ At(p, obj[p], check[p], 1)
    /\ verdict' = [verdict EXCEPT ![p] = "none"]
    /\ EvalGoto(p, "check")
    /\ UNCHANGED <<world, card, runs, evalHistory>>

\* Mutant: a check that cannot be evaluated fails the objective.
evalObjectiveFails(p) ==
    /\ doing[p] = "checked"
    /\ CASE verdict[p] \in {"fail", "error"} -> Record(p, "failed")
         [] verdict[p] = "pass" /\ check[p] = Len(Checks(obj[p])) -> Record(p, "passed")
         [] OTHER ->
              /\ At(p, obj[p], check[p] + 1, 1)
              /\ verdict' = [verdict EXCEPT ![p] = "none"]
              /\ EvalGoto(p, "check")
              /\ UNCHANGED card
    /\ UNCHANGED <<world, runs, evalHistory>>

\* An objective passes when all its checks do; the first that does not decides.
evalObjective(p) ==
    /\ doing[p] = "checked"
    /\ CASE verdict[p] = "fail" -> Record(p, "failed")
         [] verdict[p] = "error" -> Record(p, "errored")
         [] verdict[p] = "pass" /\ check[p] = Len(Checks(obj[p])) -> Record(p, "passed")
         [] OTHER ->
              /\ At(p, obj[p], check[p] + 1, 1)
              /\ verdict' = [verdict EXCEPT ![p] = "none"]
              /\ EvalGoto(p, "check")
              /\ UNCHANGED card
    /\ UNCHANGED <<world, runs, evalHistory>>

\* The deferred deletions of a killed process do not run.
EvalKill(p) ==
    /\ "kill" \in EvalFaults
    /\ doing[p] # "idle"
    /\ EvalGoto(p, "idle")
    /\ At(p, 0, 0, 0)
    /\ verdict' = [verdict EXCEPT ![p] = "none"]
    /\ card' = [card EXCEPT ![p] = <<>>]
    /\ pods' = pods \ {p}
    /\ strays' = strays + Cardinality(pods \cap {p})
    /\ UNCHANGED <<facts, flips, runs, evalHistory>>

EvalStep(p) ==
    \/ EvaluateObjective(p) \/ Evaluated(p) \/ Look(p) \/ evalProbe(p)
    \/ awaitProbe(p) \/ Retried(p) \/ evalObjective(p)

EvalNext == Flip \/ \E p \in Verifier : EvalBegin(p) \/ EvalStep(p) \/ EvalKill(p)

EvalSpec == EvalInit /\ [][EvalNext]_evalVars

-----------------------------------------------------------------------------
(* Properties *)

Results(p) == DOMAIN card[p]
Unerred(p) == ~erred[p]

\* An objective whose facts held all the time is passed if what it depends on is
\* declared before it and passed, whatever other evaluations run probes or were
\* killed meanwhile: "a probe pod can never satisfy or break a check".  (When no
\* request failed.)
SteadyPasses ==
    \A p \in Verifier : Unerred(p) =>
        \A o \in Results(p) :
            /\ \A d \in Objectives[o].dependsOn : d < o /\ card[p][d] = "passed"
            /\ \A c \in DOMAIN Checks(o) : \E l \in DOMAIN Checks(o)[c] :
                  Checks(o)[c][l].fact \in steady[p]
            => card[p][o] = "passed"

\* An objective is passed only if a fact of each of its checks held at some time
\* of this evaluation, and everything it depends on was passed before.
PassedWasTrue ==
    \A p \in Verifier : \A o \in Results(p) :
        card[p][o] = "passed" =>
            /\ \A c \in DOMAIN Checks(o) : \E l \in DOMAIN Checks(o)[c] :
                  Checks(o)[c][l].fact \in seen[p]
            /\ \A d \in Objectives[o].dependsOn : card[p][d] = "passed"

\* "Distinct from Fail - never reported as you failed": with no anyOf in it, an
\* objective is reported failed only if one of its facts did not hold at some
\* time of this evaluation, errors notwithstanding.
FailedWasFalse ==
    \A p \in Verifier : \A o \in Results(p) :
        /\ card[p][o] = "failed"
        /\ \A c \in DOMAIN Checks(o) : Len(Checks(o)[c]) = 1
        => \E c \in DOMAIN Checks(o) : Checks(o)[c][1].fact \notin steady[p]
=============================================================================
