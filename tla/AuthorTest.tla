----------------------------- MODULE AuthorTest -----------------------------
(***************************************************************************)
(* kubedrill author test: a throwaway cluster, and three phases.           *)
(*                                                                         *)
(* In the negative phase every objective is looked at once on the fresh    *)
(* environment and must not pass; in the positive phase the reference      *)
(* solution runs and a verify must pass; in the idempotency phase a second *)
(* verify must pass.  Its sessions are in a store of their own, so that a  *)
(* prune of the player takes the cluster for an orphan.  What a solution   *)
(* changes, and what fails by itself, shows at any time.                   *)
(*                                                                         *)
(* The checks of an objective are looked at one after the other.  How one  *)
(* look is taken is the matter of Evaluation: here a check passes if it    *)
(* holds at the look, fails if it does not, or is in error; it holds all   *)
(* the time if, of an anyOf, one and the same branch does.                 *)
(***************************************************************************)
EXTENDS Naturals, Sequences, Sums

CONSTANTS
    Authored,   \* sequence of [points, checks, dependsOn, expectInitiallyPassing]:
                \* checks is a sequence, dependsOn a set of indices
    KeepEnv,    \* whether the cluster is kept
    MaxTurns,   \* bound: how often a check begins or ceases to hold
    TestFaults  \* what can go wrong: "start", "api", "solution", "destroy",
                \* "prune", "kill"

VARIABLES
    cluster,  \* whether the throwaway cluster is there
    passing,  \* the checks that hold in it
    stage,    \* what the test does next
    phase,    \* the phase it is in
    scored,   \* the results of the objectives in this phase so far
    checked,  \* how many checks of the next one have passed
    report,   \* the phases that passed
    outcome,  \* "passed", "failed" or "error" when the test has ended
    turns,
    fresh,    \* history: checks that held at all times of the negative phase
    upset,    \* history: the negative phase met an error
    held,     \* history: checks that held at some time of the phase
    proven,   \* history: the checks that did in the phases after the solution
    broke     \* history: the test was killed or could not destroy the cluster

testHistory == <<fresh, upset, held, proven, broke>>
results == <<scored, checked>>
testVars == <<cluster, passing, stage, phase, results, report, outcome, turns, testHistory>>

Tested == DOMAIN Authored
Asks(o) == {Authored[o].checks[i] : i \in DOMAIN Authored[o].checks}
Asserted == UNION {Asks(o) : o \in Tested}
Verified == {"positive", "idempotency"}

TestInit ==
    /\ cluster = FALSE
    /\ passing = {}
    /\ stage = "start"
    /\ phase = "none"
    /\ scored = <<>>
    /\ checked = 0
    /\ report = {}
    /\ outcome = "none"
    /\ turns = 0
    /\ fresh = {}
    /\ upset = FALSE
    /\ held = {}
    /\ proven = [ph \in Verified |-> {}]
    /\ broke = FALSE

-----------------------------------------------------------------------------

\* A check begins or ceases to hold.
Turn ==
    /\ cluster
    /\ turns < MaxTurns
    /\ turns' = turns + 1
    /\ \E c \in Asserted :
         passing' = IF c \in passing THEN passing \ {c} ELSE passing \cup {c}
    /\ fresh' = IF phase = "negative" THEN fresh \cap passing' ELSE fresh
    /\ held' = held \cup passing'
    /\ UNCHANGED <<cluster, stage, phase, results, report, outcome, upset, proven, broke>>

\* A prune of the player: there is no record of the session in its store.
Prune ==
    /\ "prune" \in TestFaults
    /\ cluster
    /\ cluster' = FALSE
    /\ passing' = {}
    /\ fresh' = IF phase = "negative" THEN {} ELSE fresh
    /\ UNCHANGED <<stage, phase, results, report, outcome, turns, upset, held, proven,
                   broke>>

\* Engine.Start on the fresh cluster; whatever the author's challenge makes hold
\* by then holds.  A start that fails destroys what it made, if it can.
Start ==
    /\ stage = "start"
    /\ \/ /\ cluster' = TRUE
          /\ passing' \in SUBSET Asserted
          /\ stage' = "evaluate"
          /\ phase' = "negative"
          /\ fresh' = passing'
          /\ held' = passing'
          /\ UNCHANGED outcome
       \/ /\ "start" \in TestFaults
          /\ cluster' \in BOOLEAN
          /\ cluster' => "destroy" \in TestFaults
          /\ stage' = "teardown"
          /\ outcome' = "error"
          /\ UNCHANGED <<passing, phase, fresh, held>>
    /\ UNCHANGED <<results, report, turns, upset, proven, broke>>

EvaluateBegin(ph) ==
    /\ phase' = ph
    /\ scored' = <<>>
    /\ checked' = 0
    /\ held' = passing
    /\ stage' = "evaluate"

\* The next objective is evaluated: on its own in the negative phase, behind what
\* it depends on afterwards.
testDependenciesMet(o) == \A d \in Authored[o].dependsOn : d < o /\ scored[d] = "passed"

\* Mutant: the negative phase evaluates as a verify does.
ReachedGated(o) == testDependenciesMet(o)

Reached(o) == phase = "negative" \/ testDependenciesMet(o)

\* What a look at a check says, and whether a request failed: an anyOf takes the
\* error of a branch for a branch that does not hold.  In a cluster that is gone
\* every request fails.
Outcomes(c) ==
    (IF cluster THEN {<<IF c \in passing THEN "passed" ELSE "failed", FALSE>>} ELSE {}) \cup
    (IF "api" \in TestFaults \/ ~cluster THEN {"errored", "failed"} \X {TRUE} ELSE {})

Score(r) ==
    /\ scored' = Append(scored, r)
    /\ checked' = 0

\* An objective passes behind its last check, and ends with the first that does
\* not pass.  A verify looks at a check that fails again until its window closes;
\* the looks that it makes nothing of are no steps here.
Evaluate ==
    /\ stage = "evaluate"
    /\ Len(scored) < Len(Authored)
    /\ LET o == Len(scored) + 1
           checks == Authored[o].checks IN
         \/ ~Reached(o) /\ Score("blocked") /\ UNCHANGED upset
         \/ Reached(o) /\ checked = Len(checks) /\ Score("passed") /\ UNCHANGED upset
         \/ /\ Reached(o) /\ checked < Len(checks)
            /\ \E r \in Outcomes(checks[checked + 1]) :
                 /\ IF r[1] = "passed" THEN checked' = checked + 1 /\ UNCHANGED scored
                                       ELSE Score(r[1])
                 /\ upset' = (upset \/ (phase = "negative" /\ r[2]))
    /\ UNCHANGED <<cluster, passing, stage, phase, report, outcome, turns, fresh, held,
                   proven, broke>>

\* An objective must not pass on the fresh environment (an error is not a pass)
\* unless it is expected to.
negativePhase ==
    \A o \in Tested :
        scored[o] = "passed" <=> Authored[o].expectInitiallyPassing

Points(os) ==
    SumTo([o \in Tested |-> IF o \in os THEN Authored[o].points ELSE 0], Len(Authored))

AllPassed ==
    /\ Points({o \in Tested : scored[o] = "passed"}) = Points(Tested)
    /\ Points(Tested) > 0

TestEnd(result) ==
    /\ outcome' = result
    /\ stage' = "teardown"

NegativeDone ==
    /\ stage = "evaluate" /\ phase = "negative"
    /\ Len(scored) = Len(Authored)
    /\ IF negativePhase
         THEN report' = report \cup {phase} /\ stage' = "solve" /\ UNCHANGED outcome
         ELSE TestEnd("failed") /\ UNCHANGED report
    /\ UNCHANGED <<cluster, passing, phase, results, turns, testHistory>>

\* What the engine needs for an evaluation cannot be read.
EvaluateFails ==
    /\ stage = "evaluate"
    /\ "api" \in TestFaults
    /\ TestEnd("error")
    /\ UNCHANGED <<cluster, passing, phase, results, report, turns, testHistory>>

\* solve.sh runs with the player's kubeconfig; an exit code fails the phase.
runSolution ==
    /\ stage = "solve"
    /\ \/ /\ cluster
          /\ passing' \in SUBSET Asserted
          /\ phase' = "positive"
          /\ scored' = <<>>
          /\ checked' = 0
          /\ held' = passing'
          /\ stage' = "evaluate"
          /\ UNCHANGED outcome
       \/ /\ "solution" \in TestFaults \/ ~cluster
          /\ passing' \in IF cluster THEN SUBSET Asserted ELSE {{}}
          /\ TestEnd("failed")
          /\ UNCHANGED <<phase, results, held>>
    /\ UNCHANGED <<cluster, report, turns, fresh, upset, proven, broke>>

\* Mutant: the second verify is reported from the card of the first.
PhaseDoneReused ==
    /\ stage = "evaluate" /\ phase \in Verified
    /\ Len(scored) = Len(Authored)
    /\ proven' = [proven EXCEPT ![phase] = held]
    /\ IF AllPassed
         THEN /\ report' = report \cup Verified
              /\ TestEnd("passed")
         ELSE TestEnd("failed") /\ UNCHANGED report
    /\ UNCHANGED <<cluster, passing, phase, results, held, turns, fresh, upset, broke>>

\* The verdict of a verify.
PhaseDone ==
    /\ stage = "evaluate" /\ phase \in Verified
    /\ Len(scored) = Len(Authored)
    /\ proven' = [proven EXCEPT ![phase] = held]
    /\ \/ /\ AllPassed
          /\ report' = report \cup {phase}
          /\ IF phase = "positive"
               THEN EvaluateBegin("idempotency") /\ UNCHANGED outcome
               ELSE TestEnd("passed") /\ UNCHANGED <<phase, results, held>>
       \/ /\ ~AllPassed
          /\ TestEnd("failed")
          /\ UNCHANGED <<report, phase, results, held>>
    /\ UNCHANGED <<cluster, passing, turns, fresh, upset, broke>>

\* Mutant: after an error there is nothing to tear down.
TeardownPassed ==
    /\ stage = "teardown"
    /\ stage' = "end"
    /\ IF outcome # "error" THEN cluster' = FALSE /\ passing' = {}
       ELSE UNCHANGED <<cluster, passing>>
    /\ UNCHANGED <<phase, results, report, outcome, turns, testHistory>>

\* The deferred function; an error of Destroy is ignored.
Teardown ==
    /\ stage = "teardown"
    /\ stage' = "end"
    /\ \/ KeepEnv /\ UNCHANGED <<cluster, passing, broke>>
       \/ ~KeepEnv /\ cluster' = FALSE /\ passing' = {} /\ UNCHANGED broke
       \/ ~KeepEnv /\ "destroy" \in TestFaults /\ broke' = TRUE /\ UNCHANGED <<cluster,
                                                                               passing>>
    /\ UNCHANGED <<phase, results, report, outcome, turns, fresh, upset, held, proven>>

\* Nothing catches a signal: the deferred function does not run.
TestKill ==
    /\ "kill" \in TestFaults
    /\ stage # "end"
    /\ stage' = "end"
    /\ broke' = TRUE
    /\ outcome' = "none"
    /\ UNCHANGED <<cluster, passing, phase, results, report, turns, fresh, upset, held,
                   proven>>

TestNext ==
    \/ Turn \/ Prune \/ Start \/ Evaluate \/ NegativeDone
    \/ EvaluateFails \/ runSolution \/ PhaseDone \/ Teardown \/ TestKill

TestSpec == TestInit /\ [][TestNext]_testVars

-----------------------------------------------------------------------------
(* Properties *)

\* "passed - vacuous": no challenge is reported non-vacuous of which an objective
\* held, with all its checks, all through the negative phase, unless it is expected
\* to or a request failed; an unmet dependency hides nothing.
NonVacuous ==
    outcome = "passed" /\ ~upset =>
        \A o \in Tested : Asks(o) \subseteq fresh => Authored[o].expectInitiallyPassing

\* "solvable": when the test passes, every check of an objective that is worth
\* points, and of what that depends on, held at some time of each of the two
\* verifies after the solution.  Not all at one time: each is looked at by itself.
PassedMeansSolved ==
    outcome = "passed" =>
        \A ph \in Verified, o \in Tested :
            Authored[o].points # 0 =>
                \A d \in Authored[o].dependsOn \cup {o} : Asks(d) \subseteq proven[ph]

\* "always torn down afterward": a test that ends leaves its cluster only when
\* told to, killed, or unable to destroy it.
TornDown == stage = "end" /\ ~KeepEnv /\ ~broke => ~cluster
=============================================================================
