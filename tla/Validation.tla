----------------------------- MODULE Validation -----------------------------
(***************************************************************************)
(* Which challenges the loader accepts.                                    *)
(*                                                                         *)
(* Most of Validate looks at one thing at a time and is an operator here.  *)
(* The search for cycles of dependencies is a state machine: path is the   *)
(* stack of the calls of dfs, each with the prerequisites it has still to  *)
(* look at, and the colours are those of the code.  A document is a record *)
(* of what the loader tells apart.                                         *)
(***************************************************************************)
EXTENDS Naturals, Sequences, FiniteSets, Functions, SequencesExt

\* The documents: challenges [header, objectives, faults, nodeAccess, rules, hints,
\* script], header being the fields of Header that hold what they should, an
\* objective [id, checks, dependsOn], and a check [asserts, anyOf]: the kinds of
\* assertion that are given, CEL that is the literal true being one of its own.
CONSTANT Document

VARIABLES
    doc,      \* the document that is validated
    gray,     \* the objectives on the path
    black,    \* those that were searched in full
    path,     \* the calls of dfs under way: [id, rest]
    turn,     \* the objective the loop around dfs comes to
    cycle,    \* whether dfs has found one
    validity  \* "open" until Validate returns, then "accepted" or "refused"

search == <<gray, black, path, turn, cycle>>
validateVars == <<doc, search, validity>>

-----------------------------------------------------------------------------
(* What is wrong by itself *)

\* How many of the alternatives of a union are given.
Given(check) == Cardinality(check.asserts) + (IF check.anyOf # <<>> THEN 1 ELSE 0)

validateLeaf(leaf) == leaf.anyOf = <<>> /\ Given(leaf) = 1

validateCheck(check) ==
    /\ Given(check) = 1
    /\ \A k \in DOMAIN check.anyOf : validateLeaf(check.anyOf[k])

Distinct(s) == IsInjective([i \in DOMAIN s |-> s[i].id]) /\ \A i \in DOMAIN s : s[i].id # ""

validateRule(rule) ==
    /\ Cardinality(rule.verbs) = 1
    /\ ~(rule.enforce /\ "require" \in rule.verbs)

\* What Validate asks of apiVersion, kind and metadata.
Header == {"apiVersion", "kind", "name", "version", "difficulty"}

\* All but the search for cycles.
Consistent(d) ==
    /\ d.header = Header
    /\ d.objectives # <<>>
    /\ Distinct(d.objectives)
    /\ \A i \in DOMAIN d.objectives :
         LET o == d.objectives[i] IN
         /\ o.checks # <<>>
         /\ \A j \in DOMAIN o.checks : validateCheck(o.checks[j])
         /\ \A k \in DOMAIN o.dependsOn :
              \E other \in DOMAIN d.objectives : d.objectives[other].id = o.dependsOn[k]
    /\ \A i \in DOMAIN d.faults :
         Cardinality(d.faults[i]) = 1 /\ ("nodeExec" \in d.faults[i] => d.nodeAccess)
    /\ Distinct(d.rules)
    /\ \A i \in DOMAIN d.rules : validateRule(d.rules[i])
    /\ d.script # ""

-----------------------------------------------------------------------------
(* dependsOnCycle *)

\* The graph: an id stands for the last objective of that id.
Prerequisites(id) ==
    LET named == {i \in DOMAIN doc.objectives : doc.objectives[i].id = id} IN
    IF named = {} THEN <<>>
    ELSE doc.objectives[CHOOSE i \in named : \A j \in named : j <= i].dependsOn

ValidateInit ==
    /\ doc \in Document
    /\ gray = {} /\ black = {} /\ path = <<>>
    /\ turn = 1
    /\ cycle = FALSE
    /\ validity = "open"

Searching == validity = "open" /\ ~cycle

\* dfs is called for n, by the calls in calls.
Enter(n, calls) ==
    /\ gray' = gray \cup {n}
    /\ path' = Append(calls, [id |-> n, rest |-> Prerequisites(n)])

\* The loop over the objectives calls dfs for those that are white.
Begin ==
    /\ Searching
    /\ path = <<>> /\ turn <= Len(doc.objectives)
    /\ turn' = turn + 1
    /\ LET n == doc.objectives[turn].id
       IN  IF n \in gray \cup black THEN UNCHANGED <<gray, path>> ELSE Enter(n, path)
    /\ UNCHANGED <<doc, black, cycle, validity>>

Top == path[Len(path)]
Passed == [path EXCEPT ![Len(path)].rest = Tail(@)]

\* Mutant: an objective that was searched before counts as on the path.
FollowSeen ==
    /\ Searching
    /\ path # <<>> /\ Top.rest # <<>>
    /\ LET m == Head(Top.rest)
       IN  IF m \in gray \cup black THEN cycle' = TRUE /\ UNCHANGED <<gray, path>>
           ELSE Enter(m, Passed) /\ UNCHANGED cycle
    /\ UNCHANGED <<doc, black, turn, validity>>

\* dfs looks at the next prerequisite: gray closes a cycle, black is passed over.
Follow ==
    /\ Searching
    /\ path # <<>> /\ Top.rest # <<>>
    /\ LET m == Head(Top.rest)
       IN  \/ /\ m \in gray
              /\ cycle' = TRUE
              /\ UNCHANGED <<gray, path>>
           \/ /\ m \in black \ gray
              /\ path' = Passed
              /\ UNCHANGED <<gray, cycle>>
           \/ /\ m \notin gray \cup black
              /\ Enter(m, Passed)
              /\ UNCHANGED cycle
    /\ UNCHANGED <<doc, black, turn, validity>>

\* dfs returns without a cycle.
Leave ==
    /\ Searching
    /\ path # <<>> /\ Top.rest = <<>>
    /\ gray' = gray \ {Top.id}
    /\ black' = black \cup {Top.id}
    /\ path' = Front(path)
    /\ UNCHANGED <<doc, turn, cycle, validity>>

\* Validate returns: with an error when anything was wrong.
Decide ==
    /\ validity = "open"
    /\ cycle \/ (path = <<>> /\ turn > Len(doc.objectives))
    /\ validity' = IF Consistent(doc) /\ ~cycle THEN "accepted" ELSE "refused"
    /\ UNCHANGED <<doc, search>>

ValidateNext == Begin \/ Follow \/ Leave \/ Decide

ValidateSpec == ValidateInit /\ [][ValidateNext]_validateVars

-----------------------------------------------------------------------------
(* Properties *)

\* Dependencies without a cycle: among any objectives, one depends on no other
\* of them nor on itself.
Acyclic(objectives) ==
    \A S \in (SUBSET {objectives[i].id : i \in DOMAIN objectives}) \ {{}} :
        \E i \in DOMAIN objectives :
            objectives[i].id \in S /\ \A m \in S : ~Contains(objectives[i].dependsOn, m)

\* "acyclic dependsOn": the loader refuses the challenges whose objectives wait for
\* each other and no others, two ways to one objective included.
AcyclicAccepted ==
    validity # "open" /\ Consistent(doc) =>
        (validity = "accepted" <=> Acyclic(doc.objectives))
=============================================================================
