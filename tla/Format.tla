------------------------------- MODULE Format -------------------------------
(***************************************************************************)
(* The challenge format: how a match compares a tree with a live object,   *)
(* and what the lint finds in the checks and rules of a challenge that was *)
(* accepted.                                                               *)
(*                                                                         *)
(* Match follows the code, an assignment with backtracking; its property   *)
(* compares it with what it means, an injection.  A JSON value is a pair   *)
(* of a type and what it holds, numbers with their Go type: an integer is  *)
(* rounded to a float64 before it is compared.  The calls of Match on the  *)
(* values inside are a recursion over how deep they are.                   *)
(***************************************************************************)
EXTENDS Validation, Integers

CONSTANTS
    Key,      \* the keys of maps
    Depth,    \* how deep values are nested
    Float(_), \* the float64 that is nearest to an integer
    Input(_)  \* what the commands are given besides a document: [tree, live], the object
              \* that a match of its checks asserts, and the live object to compare

VARIABLES tree, live, step, findings, matched

formatVars == <<validateVars, tree, live, step, findings, matched>>

-----------------------------------------------------------------------------
(* Match *)

Null == <<"null", 0>>

\* A map gives every key a value, or this.
Unset == <<"absent", 0>>

Scalar == {Null} \cup ({"int", "float"} \X Int) \cup ({"string"} \X STRING)
                 \cup ({"bool"} \X BOOLEAN)

\* Scalars, and the maps and arrays of the values given.
Layer(values) ==
    Scalar \cup ({"map"} \X [Key -> values \cup {Unset}]) \cup ({"array"} \X Seq(values))

\* The decoded values of at most n levels.
Json[n \in 0 .. Depth] == IF n = 0 THEN {} ELSE Layer(Json[n - 1])

\* A live object is a map.
ASSUME InputAssumption ==
    /\ Depth \in Nat
    /\ \A d \in Document : \A i \in Input(d) :
         i.tree \in Json[Depth] /\ i.live \in Json[Depth] /\ i.live[1] = "map"

\* The float64 of a value, nothing when it is no number.
asFloat(v) == CASE v[1] = "int" -> {Float(v[2])}
                [] v[1] = "float" -> {v[2]}
                [] OTHER -> {}

\* Numbers are compared as float64, whatever Go type they have; a string never
\* equals a number.
scalarEqual(a, b) ==
    IF asFloat(a) \cup asFloat(b) # {}
      THEN asFloat(a) = asFloat(b)
      ELSE a[1] = b[1] /\ a[2] = b[2]

\* Mutant: an element keeps the first partner it finds.
assignGreedy(t, o, matches) ==
    LET free(i, used) == {j \in DOMAIN o \ used : matches[<<t[i], o[j]>>]}
        from[i \in 1 .. Len(t) + 1] == [used \in SUBSET DOMAIN o |->
          \/ i > Len(t)
          \/ free(i, used) # {} /\ from[i + 1][used \cup {Min(free(i, used))}]]
    IN  from[1][{}]

\* arraySubset assigns the elements of the tree from the first to the last, each
\* to an element of the object that is not used, and goes back when it is stuck.
assign(t, o, matches) ==
    LET from[i \in 1 .. Len(t) + 1] == [used \in SUBSET DOMAIN o |->
          \/ i > Len(t)
          \/ \E j \in DOMAIN o \ used : matches[<<t[i], o[j]>>] /\ from[i + 1][used \cup {j}]]
    IN  from[1][{}]

\* A call of Match; matches holds what the calls on the values inside return.
compare(t, o, matches) ==
    CASE t = Null -> o = Null
      [] t[1] = "map" ->
           /\ o[1] = "map"
           /\ \A k \in Key : t[2][k] # Unset =>
                IF t[2][k] = Null THEN o[2][k] \in {Unset, Null}
                ELSE o[2][k] # Unset /\ matches[<<t[2][k], o[2][k]>>]
      [] t[1] = "array" -> o[1] = "array" /\ assign(t[2], o[2], matches)
      [] OTHER -> scalarEqual(t, o)

matchOf[n \in 0 .. Depth] ==
    [p \in Json[n] \X Json[n] |-> compare(p[1], p[2], matchOf[n - 1])]

Match(t, o) == matchOf[Depth][<<t, o>>]

-----------------------------------------------------------------------------
(* Lint *)

Empty == <<"map", [k \in Key |-> Unset]>>

\* Mutant: an array without elements counts as empty too.
isEmptyObjectArray(t) == t \in {Null, Empty, <<"array", <<>>>>}

isEmptyObject(t) == t \in {Null, Empty}

\* A check that always passes: CEL that is the literal true, a match of nothing, or
\* an anyOf with such a branch.  An accepted check or branch asserts one thing.
vacuousCheck(check) ==
    \E c \in {check} \cup Range(check.anyOf) :
      "true" \in c.asserts \/ ("match" \in c.asserts /\ isEmptyObject(tree))

ChecksOf(d) == UNION {Range(d.objectives[i].checks) : i \in DOMAIN d.objectives}

\* What is found, each with the check or the rule it is about.
Lint(d) ==
    (IF d.hints = 0 THEN {<<"min-hints">>} ELSE {}) \cup
    {<<"vacuous-check", check>> : check \in {c \in ChecksOf(d) : vacuousCheck(c)}} \cup
    {<<"unscoped-enforce", rule>> : rule \in {r \in Range(d.rules) :
        r.enforce /\ "require" \notin r.verbs /\ ~r.scoped}} \cup
    {<<"field-require-on-secret", rule>> : rule \in {r \in Range(d.rules) :
        "require" \in r.verbs /\ r.secretFields}}

-----------------------------------------------------------------------------

FormatInit ==
    /\ ValidateInit
    /\ \E i \in Input(doc) : tree = i.tree /\ live = i.live
    /\ step = "load"
    /\ findings = {}
    /\ matched = FALSE

LoadDir ==
    /\ step = "load"
    /\ ValidateNext
    /\ step' = CASE validity' = "open" -> "load"
                 [] validity' = "accepted" -> "lint"
                 [] OTHER -> "refused"
    /\ UNCHANGED <<tree, live, findings, matched>>

LintDoc ==
    /\ step = "lint"
    /\ findings' = Lint(doc)
    /\ step' = "check"
    /\ UNCHANGED <<validateVars, tree, live, matched>>

evalMatch ==
    /\ step = "check"
    /\ matched' = Match(tree, live)
    /\ step' = "checked"
    /\ UNCHANGED <<validateVars, tree, live, findings>>

FormatNext == LoadDir \/ LintDoc \/ evalMatch

FormatSpec == FormatInit /\ [][FormatNext]_formatVars

-----------------------------------------------------------------------------
(* Properties *)

\* What Match means: every element of an array has a partner of its own, whatever
\* the order, and what the tree leaves out is free.
isWithin(t, o, within) ==
    CASE t[1] = "map" ->
           o[1] = "map" /\ \A k \in Key : t[2][k] # Unset =>
             IF o[2][k] = Unset THEN t[2][k] = Null ELSE within[<<t[2][k], o[2][k]>>]
      [] t[1] = "array" ->
           o[1] = "array" /\ \E f \in Injection(DOMAIN t[2], DOMAIN o[2]) :
             \A i \in DOMAIN t[2] : within[<<t[2][i], o[2][f[i]]>>]
      [] t[1] \in {"int", "float"} -> o[1] \in {"int", "float"} /\ asFloat(o) = asFloat(t)
      [] OTHER -> o = t

withinOf[n \in 0 .. Depth] ==
    [p \in Json[n] \X Json[n] |-> isWithin(p[1], p[2], withinOf[n - 1])]

Embeds(t, o) == withinOf[Depth][<<t, o>>]

\* "unordered subset ... every element of tree must match at least one distinct
\* element of obj": the search for partners finds them whenever they exist.
MatchIsEmbedding == step = "checked" => (matched <=> Embeds(tree, live))

\* A check passes of the live object whatever its other branches, probes and CEL
\* over that object, come to.
Passes(check) ==
    \E c \in {check} \cup Range(check.anyOf) :
      "true" \in c.asserts \/ ("match" \in c.asserts /\ matched)

\* "trivially satisfied regardless of cluster state": every check that the lint
\* reports as vacuous passes of every object that is there.  A match of null is set
\* aside: the lint reports it too, but it matches no object at all.
VacuousMatchesAll ==
    step = "checked" /\ tree # Null =>
        \A f \in findings : f[1] = "vacuous-check" => Passes(f[2])
=============================================================================
