------------------------------ MODULE MCParts ------------------------------
(***************************************************************************)
(* Instances of the parts beside the session for TLC: PackStore,           *)
(* ImageCache, Provision, Evaluation, AuthorTest, Validation and Format.   *)
(*                                                                         *)
(* They share no state that the code lets them change, so a behaviour      *)
(* exercises the one that focus names, and one run checks them all; the    *)
(* others stay as they begin.                                              *)
(***************************************************************************)
EXTENDS Stores, Provision, Evaluation, AuthorTest, Format

\* The directories of two versions like "1.0-rc1" and "1.0": the lower one sorts
\* behind the higher one, and what is aside of the higher one behind both.
TextOrder == Final(2) :> 1 @@ Final(1) :> 2 @@ Aside(1) :> 3 @@ Aside(2) :> 4

\* Processes are interchangeable, and so are the challenges of a pack.
Symmetry == Permutations(Proc) \cup Permutations(Challenge)

-----------------------------------------------------------------------------
(* Provision: a namespace, a workload that a fault breaks, and one that works *)
(* only beside an object that is not in the manifests.                        *)

Manifested == <<"ns", "web", "db">>
Broken == <<"web">>
Awaited == <<"web", "db">>

-----------------------------------------------------------------------------
(* Evaluation: objectives with a list, a probe, an anyOf of both kinds, and a *)
(* dependency that is declared later.                                         *)

leafOf(kind, fact) == [kind |-> kind, fact |-> fact]
Card == <<
    [checks |-> << <<leafOf("list", "a")>>, <<leafOf("probe", "b")>> >>, dependsOn |-> {}],
    [checks |-> << <<leafOf("get", "a")>> >>, dependsOn |-> {4}],
    [checks |-> << <<leafOf("get", "c"), leafOf("probe", "b")>> >>, dependsOn |-> {1}],
    [checks |-> << <<leafOf("list", "c")>> >>, dependsOn |-> {1, 3}] >>

-----------------------------------------------------------------------------
(* AuthorTest: an objective without points, one of two checks that depends on *)
(* it, and one that is expected to pass from the start.                       *)

Written == <<
    [points |-> 0, checks |-> <<"a">>, dependsOn |-> {}, expectInitiallyPassing |-> FALSE],
    [points |-> 2, checks |-> <<"b", "c">>, dependsOn |-> {1}, expectInitiallyPassing |-> FALSE],
    [points |-> 1, checks |-> <<"c">>, dependsOn |-> {}, expectInitiallyPassing |-> TRUE] >>

-----------------------------------------------------------------------------
(* Format: every dependency graph of three objectives, a few challenges that  *)
(* are malformed otherwise, and trees against objects with arrays of maps.    *)

\* 2 and 3 stand for neighbours above 2^53.
Rounded(n) == 2 * (n \div 2)
Num(n) == <<"int", n>>
Mapped(f) == <<"map", f @@ [k \in Key |-> Unset]>>
Values == {Num(3), <<"float", 2>>, Mapped(<<>>), Mapped([a |-> Num(2)]),
             Mapped([a |-> Num(3), b |-> Num(4)]), Mapped([a |-> Null])}
Arrays(n) == {<<"array", s>> : s \in UNION {[1 .. m -> Values] : m \in 0 .. n}}
Under(values) == {Mapped([spec |-> v]) : v \in values \cup Values \cup {Null, Num(4)}}
Trees == {Null, Mapped(<<>>), <<"array", <<>>>>} \cup Under(Arrays(2))
Lives == {Mapped(<<>>)} \cup Under(Arrays(3))

Asserts(n) == [asserts |-> {n}, anyOf |-> <<>>]
AnyOf(leaves) == [asserts |-> {}, anyOf |-> leaves]
Declared(id, ids) == [id |-> id, checks |-> <<Asserts("match")>>, dependsOn |-> SetToSeq(ids)]
Rule(verbs, enforce) ==
    [id |-> "r", verbs |-> verbs, enforce |-> enforce, scoped |-> FALSE, secretFields |-> TRUE]
Plain == [header |-> Header, objectives |-> <<Declared("a", {})>>, faults |-> << {"patch"} >>,
          nodeAccess |-> FALSE, rules |-> <<>>, hints |-> 0, script |-> "s"]
WithChecks(checks) == [Plain EXCEPT !.objectives[1].checks = checks]
Graphs == {[Plain EXCEPT !.objectives = <<Declared("a", x), Declared("b", y), Declared("c", z)>>] :
             x, y, z \in SUBSET {"a", "b", "c"}}
Others == {
    Plain,
    [Plain EXCEPT !.objectives = <<>>],
    [Plain EXCEPT !.objectives = <<Declared("a", {}), Declared("a", {})>>],
    [Plain EXCEPT !.objectives = <<Declared("a", {"d"})>>],
    [Plain EXCEPT !.header = {}],
    WithChecks(<<>>),
    WithChecks(<<Asserts("true")>>),
    WithChecks(<<[asserts |-> {"match", "cel"}, anyOf |-> <<>>]>>),
    WithChecks(<<AnyOf(<<Asserts("cel"), Asserts("probe")>>)>>),
    WithChecks(<<AnyOf(<<Asserts("cel"), Asserts("match")>>)>>),
    WithChecks(<<AnyOf(<<Asserts("match"), Asserts("true")>>), Asserts("match")>>),
    WithChecks(<<AnyOf(<<AnyOf(<<Asserts("cel")>>)>>)>>),
    [Plain EXCEPT !.faults = << {"nodeExec"} >>],
    [Plain EXCEPT !.faults = << {"nodeExec"} >>, !.nodeAccess = TRUE],
    [Plain EXCEPT !.rules = <<Rule({"deny"}, TRUE)>>, !.hints = 2],
    [Plain EXCEPT !.rules = <<Rule({"require"}, FALSE)>>],
    [Plain EXCEPT !.rules = <<Rule({"require"}, TRUE)>>],
    [Plain EXCEPT !.rules = <<Rule({"deny"}, TRUE), Rule({"protect"}, FALSE)>>],
    [Plain EXCEPT !.script = ""]}
Documents == Graphs \cup Others
InputOf(t, o) == [tree |-> t, live |-> o]
Inputs(d) ==
    CASE d = Plain -> {InputOf(t, o) : t \in Trees, o \in Lives}
      [] d \in Others \ {Plain} -> {InputOf(t, Mapped(<<>>)) : t \in Under({})}
      [] OTHER -> {InputOf(Mapped(<<>>), Mapped(<<>>))}

\* Where Format is not in focus one input stands for all.
NoInput ==
    /\ doc = Plain /\ ValidateInit /\ tree = Null /\ live = Null
    /\ step = "load" /\ findings = {} /\ matched = FALSE

-----------------------------------------------------------------------------

VARIABLE focus

PartsInit ==
    /\ focus \in {"packs", "images", "environment", "grading", "testing", "challenges"}
    /\ StoresInit
    /\ ProvisionInit
    /\ EvalInit /\ (focus # "grading" => facts = {})
    /\ TestInit
    /\ IF focus = "challenges" THEN FormatInit ELSE NoInput

Packs ==
    /\ focus = "packs" /\ Next
    /\ UNCHANGED <<focus, cacheVars, provisionVars, evalVars, testVars, formatVars>>
Pulling ==
    /\ focus = "images" /\ CacheNext
    /\ UNCHANGED <<focus, vars, provisionVars, evalVars, testVars, formatVars>>
Setting ==
    /\ focus = "environment" /\ ProvisionNext
    /\ UNCHANGED <<focus, stores, evalVars, testVars, formatVars>>
Evaluating ==
    /\ focus = "grading" /\ EvalNext
    /\ UNCHANGED <<focus, stores, provisionVars, testVars, formatVars>>
Authoring ==
    /\ focus = "testing" /\ TestNext
    /\ UNCHANGED <<focus, stores, provisionVars, evalVars, formatVars>>
Reading ==
    /\ focus = "challenges" /\ FormatNext
    /\ UNCHANGED <<focus, stores, provisionVars, evalVars, testVars>>

PartsNext == Packs \/ Pulling \/ Setting \/ Evaluating \/ Authoring \/ Reading

PartsSpec ==
    PartsInit /\ [][PartsNext]_<<focus, stores, provisionVars, evalVars, testVars, formatVars>>
=============================================================================
