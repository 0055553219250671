-------------------------------- MODULE Rules --------------------------------
(***************************************************************************)
(* Rules graded from the audit log and enforced at admission.              *)
(*                                                                         *)
(* Requests reach the API server from the engine, the control plane and    *)
(* the player, who may also act through a service account of his own or    *)
(* impersonate anybody.  The policies of enforced rules are installed one  *)
(* by one meanwhile.  The server judges each request by the policies in    *)
(* force and logs what the generated audit policy asks for; a line gets    *)
(* to the file some time later, and a reader may find half of it there.    *)
(* verify reads the file in chunks until nothing new comes and grades      *)
(* what it has read.  One cluster, from its creation on.                   *)
(***************************************************************************)
EXTENDS Naturals, Sequences, FiniteSets, FiniteSetsExt, SequencesExt

CONSTANTS
    Kind,       \* kinds of objects
    Served,     \* the [group, plural] the API server serves a kind by
    Naive,      \* a kind in lower case with an "s"
    Tabled,     \* the kinds kindToResource has a case for
    Rules,      \* the challenge's rules in order
    PolicyOf,   \* EnforcedPolicyName of a rule: two ids may give one name
    Request,    \* what is asked of the API server
    Actor,      \* who asks, and whom he impersonates
    MaxRequests \* bound on the requests made

\* The verb of an audit event, and the operation that admission sees: a patch or
\* an update that makes the object (server-side apply) is a CREATE, a request to
\* a subresource such as exec or proxy a CONNECT.
Verb == {"get", "create", "update", "patch", "delete", "deletecollection"}
Mutating == Verb \ {"get"}
Writing == {"create", "update", "patch"}
Deleting == {"delete", "deletecollection"}
Operation == {"CREATE", "UPDATE", "DELETE", "CONNECT", "NONE"}
Admitted(q) ==
    (CASE q.verb = "get" -> {"NONE"}
       [] q.verb = "create" -> {"CREATE"}
       [] q.verb \in {"update", "patch"} -> {"UPDATE", "CREATE"}
       [] OTHER -> {"DELETE"}) \cup (IF q.sub THEN {"CONNECT"} ELSE {})

\* "system" stands for the pinned user names, "controller" for the pinned
\* prefixes, "account" for a service account the player made.  Only the player
\* impersonates; the others act under their own names.
User == {"engine", "system", "controller", "player", "account"}
PlayerUser == {"player", "account"}
Nobody == "nobody"

Rule == [type : {"deny", "protect", "require"}, kind : Kind, name : STRING,
         operations : SUBSET Mutating, fields : BOOLEAN, enforce : BOOLEAN]

ASSUME RulesAssumption ==
    /\ Tabled \subseteq Kind /\ "Secret" \notin Tabled
    /\ \A k \in Kind : Served[k] = [group |-> "", plural |-> "secrets"] => k = "Secret"
    /\ Rules # <<>> /\ Rules \in Seq(Rule)
    /\ \A i \in DOMAIN Rules : Rules[i].type = "require" => ~Rules[i].enforce
    /\ \A q \in Request : /\ q.kind \in Kind /\ q.verb \in Verb
                          /\ q.name \in STRING /\ q.fields \in BOOLEAN
                          /\ q.sub \in BOOLEAN /\ q.operation \in Admitted(q)
    /\ \A a \in Actor :
        /\ a.user \in User /\ a.as \in User \cup {Nobody}
        /\ a.as # Nobody => a.user \in PlayerUser
    /\ MaxRequests \in Nat

VARIABLES
    made,       \* the requests made, in the order of their audit events
    log,        \* those of them the audit policy asks to log
    installed,  \* the rules whose admission policy is in force
    applied,    \* how many rules applyEnforcement has come past
    written,    \* half lines of the audit log on disk
    pc,         \* where verify stands
    cursor,     \* verify: the lines read
    events,     \* verify: the events decoded
    verdict,    \* verify: the rules it charges, and 0 for tampering
    begun       \* history: the complete lines when verify began to read

server == <<made, log, installed, applied, written>>
verify == <<pc, cursor, events, verdict, begun>>
vars == <<server, verify>>

-----------------------------------------------------------------------------
(* Who is charged *)

exemptUsernames == {"engine", "system"}
exemptPrefixes == {"controller"}

\* Mutant: the prefixes are compared as names.
isExemptNames(user) == user \in exemptUsernames

isExempt(user) == user \in exemptUsernames \cup exemptPrefixes

\* Mutant: an impersonated event is held against whom it names.
AttributeNamed(e) ==
    IF e.as = "engine" THEN "tamper"
    ELSE IF isExempt(IF e.as = Nobody THEN e.user ELSE e.as) THEN "exempt"
    ELSE "player"

\* Impersonation is always the player's; that of the engine is tampering.
Attribute(e) ==
    IF e.as = "engine" THEN "tamper"
    ELSE IF e.as = Nobody /\ isExempt(e.user) THEN "exempt"
    ELSE "player"

-----------------------------------------------------------------------------
(* Kinds and the audit policy *)

\* A kind that is not in the table is taken for one of the core group.
kindToResource(kind) ==
    IF kind \in Tabled THEN Served[kind] ELSE [group |-> "", plural |-> Naive[kind]]

Resource == {Served[k] : k \in Kind}

secrets == [group |-> "", plural |-> "secrets"]

fieldRequireResources ==
    {kindToResource(r.kind) : r \in {x \in ToSet(Rules) : x.type = "require" /\ x.fields}}
        \ {secrets}

tier(level, verbs, resources, subresources) ==
    [level |-> level, verbs |-> verbs, resources |-> resources, subresources |-> subresources]

\* Mutant: the baseline comes before the kinds whose bodies are needed.
AuditPolicyBaselineFirst ==
    <<tier("Metadata", Verb, {secrets}, FALSE),
      tier("Metadata", Mutating, Resource, TRUE),
      tier("Request", Writing, fieldRequireResources, FALSE)>>

\* The first rule that matches a request decides.  A resource that is named does
\* not stand for its subresources; the baseline names none.
AuditPolicy ==
    <<tier("Metadata", Verb, {secrets}, FALSE),
      tier("Request", Writing, fieldRequireResources, FALSE),
      tier("Metadata", Mutating, Resource, TRUE)>>

Level(q) ==
    LET matching == {i \in DOMAIN AuditPolicy :
                        /\ q.verb \in AuditPolicy[i].verbs
                        /\ Served[q.kind] \in AuditPolicy[i].resources
                        /\ q.sub => AuditPolicy[i].subresources}
    IN  IF matching = {} THEN "None" ELSE AuditPolicy[Min(matching)].level

Logged(q) == Level(q) # "None"

Event == [verb : Verb, resource : Resource, name : STRING, user : User,
          as : User \cup {Nobody}, body : BOOLEAN]

\* The audit event of a request, as far as grading looks at it: not at the
\* subresource.
AuditEvent(q) ==
    [verb |-> q.verb, resource |-> Served[q.kind], name |-> q.name,
     user |-> q.user, as |-> q.as, body |-> q.fields /\ Level(q) = "Request"]

-----------------------------------------------------------------------------
(* Grading *)

targetMatches(r, e) ==
    LET gr == kindToResource(r.kind)
    IN  /\ e.resource.plural = gr.plural
        /\ gr.group # "" /\ e.resource.group # "" => e.resource.group = gr.group
        /\ r.name # "" => e.name = r.name

matchSpec(r, operations, charged) ==
    {e \in charged : targetMatches(r, e) /\ (operations = {} \/ e.verb \in operations)}

matchRequire(r, charged) ==
    LET operations == IF r.operations = {} THEN Writing ELSE r.operations
    IN  {e \in charged : /\ targetMatches(r, e) /\ e.verb \in operations
                         /\ r.fields => e.body}

\* What a rule says about the events the player is charged with.
Violated(r, charged) ==
    \/ r.type = "deny" /\ matchSpec(r, r.operations, charged) # {}
    \/ r.type = "protect" /\ matchSpec(r, Deleting, charged) # {}
    \/ r.type = "require" /\ matchRequire(r, charged) = {}

ChargedIn(read) == {e \in ToSet(read) : Attribute(e) = "player"}

\* The rules violated by the events read; 0 is the tamper violation.
Grade(read) ==
    {i \in DOMAIN Rules : Violated(Rules[i], ChargedIn(read))} \cup
        {0 : e \in {x \in ToSet(read) : Attribute(x) = "tamper"}}

-----------------------------------------------------------------------------
(* Enforcement *)

\* The admission operations of the verbs a deny lists; a blanket deny blocks all.
admissionOps(operations) ==
    IF operations = {} THEN {"CREATE", "UPDATE", "DELETE"}
    ELSE {CASE v = "create" -> "CREATE"
            [] v \in {"update", "patch"} -> "UPDATE"
            [] OTHER -> "DELETE" : v \in operations}

EnforcedOps(r) == IF r.type = "deny" THEN admissionOps(r.operations) ELSE {"DELETE"}

\* Mutant: the pinned names are missing from the predicate.
exemptCELPrefixes(q) == (IF q.as = Nobody THEN q.user ELSE q.as) \in exemptPrefixes

\* The predicate asks for the user a request acts as.
exemptCEL(q) == isExempt(IF q.as = Nobody THEN q.user ELSE q.as)

\* The ValidatingAdmissionPolicy of a rule denies what reaches its validation.  It
\* names a resource, which does not stand for its subresources.
Denies(i, q) ==
    LET r == Rules[i]
    IN  /\ q.operation \in EnforcedOps(r)
        /\ ~q.sub
        /\ Served[q.kind] = kindToResource(r.kind)
        /\ r.name # "" => q.name = r.name
        /\ ~exemptCEL(q)

-----------------------------------------------------------------------------

Complete == written \div 2

\* A request, the rules whose policies judged it, and the line of the audit log
\* it is on or, when it is not logged, comes after.
Made == [verb : Verb, operation : Operation, kind : Kind, sub : BOOLEAN, name : STRING,
         fields : BOOLEAN, user : User, as : User \cup {Nobody},
         judges : SUBSET DOMAIN Rules, line : Nat]

TypeOK ==
    /\ made \in Seq(Made) /\ log \in Seq(Made)
    /\ installed \subseteq DOMAIN Rules
    /\ applied \in 0..Len(Rules)
    /\ written \in 0..(2 * Len(log))
    /\ pc \in {"idle", "read", "graded"}
    /\ cursor \in 0..Complete
    /\ events \in Seq(Event) /\ Len(events) = cursor
    /\ verdict \subseteq {0} \cup DOMAIN Rules
    /\ begun \in 0..Complete

Init ==
    /\ made = <<>> /\ log = <<>> /\ installed = {} /\ applied = 0 /\ written = 0
    /\ pc = "idle" /\ cursor = 0 /\ events = <<>> /\ verdict = {} /\ begun = 0

\* The server judges a request by the policies in force.  It makes the audit
\* event of a denied one too, and grading does not look at the answer.
Serve ==
    /\ Len(made) < MaxRequests
    /\ \E q \in Request, a \in Actor :
        LET asked == [verb |-> q.verb, operation |-> q.operation, kind |-> q.kind,
                      sub |-> q.sub, name |-> q.name,
                      fields |-> q.fields, user |-> a.user, as |-> a.as,
                      judges |-> installed,
                      line |-> IF Logged(q) THEN Len(log) + 1 ELSE Len(log)]
        IN  /\ made' = Append(made, asked)
            /\ log' = IF Logged(q) THEN Append(log, asked) ELSE log
    /\ UNCHANGED <<installed, applied, written, verify>>

\* Create fails with AlreadyExists when two ids give one policy name, which
\* applyEnforcement ignores: the policy of the first stays.
applyEnforcement ==
    /\ applied < Len(Rules)
    /\ LET i == applied + 1
       IN  installed' =
            IF /\ Rules[i].enforce
               /\ \A j \in installed : PolicyOf[j] # PolicyOf[i]
            THEN installed \cup {i} ELSE installed
    /\ applied' = applied + 1
    /\ UNCHANGED <<made, log, written, verify>>

\* The next half of a line reaches the file.
WriteLog ==
    /\ written < 2 * Len(log)
    /\ written' = written + 1
    /\ UNCHANGED <<made, log, installed, applied, verify>>

VerifyBegin ==
    /\ pc # "read"
    /\ pc' = "read"
    /\ cursor' = 0
    /\ events' = <<>>
    /\ verdict' = {}
    /\ begun' = Complete
    /\ UNCHANGED server

\* AuditEvents gives the complete lines after the cursor.
AuditEvents ==
    /\ pc = "read"
    /\ cursor < Complete
    /\ events' = events \o [n \in 1..(Complete - cursor) |-> AuditEvent(log[cursor + n])]
    /\ cursor' = Complete
    /\ UNCHANGED <<server, pc, verdict, begun>>

\* An empty chunk ends the reading, and what was read is graded.
gradeRules ==
    /\ pc = "read"
    /\ cursor = Complete
    /\ verdict' = Grade(events)
    /\ pc' = "graded"
    /\ UNCHANGED <<server, cursor, events, begun>>

\* An error of the reading: this verify grades no rule.
ReadFails ==
    /\ pc = "read"
    /\ pc' = "idle"
    /\ UNCHANGED <<server, cursor, events, verdict, begun>>

Next ==
    \/ Serve \/ applyEnforcement \/ WriteLog
    \/ VerifyBegin \/ AuditEvents \/ gradeRules \/ ReadFails

Spec == Init /\ [][Next]_vars

-----------------------------------------------------------------------------
(* Properties *)

ByPlayer(q) == q.user \in PlayerUser

\* What a rule is about, told from the request itself: its kind, the name it
\* gives, what it asks for and what its body holds.  What is done to an object by
\* way of a subresource is done to the object.
Meets(r, q) ==
    /\ q.kind = r.kind
    /\ r.name # "" => q.name = r.name
    /\ q.verb \in IF r.type = "protect" THEN Deleting
                  ELSE IF r.operations # {} THEN r.operations
                  ELSE IF r.type = "deny" THEN Mutating ELSE Writing
    /\ r.type = "require" /\ r.fields => q.fields

\* What was asked and logged, if at all, before the verify began to read.
Before(n) == made[n].line <= begun

\* No breach escapes: whatever the player did before a verify began to read,
\* under his own name, an account's or anybody's he impersonates, is charged
\* by it, while lines are still being written and half written.  (For kinds
\* whose plural the code gets right.)
BreachesCharged ==
    pc = "graded" =>
        \A i \in DOMAIN Rules, n \in DOMAIN made :
            /\ Before(n)
            /\ Rules[i].type # "require"
            /\ Naive[Rules[i].kind] = Served[Rules[i].kind].plural \/ Rules[i].kind \in Tabled
            /\ ByPlayer(made[n]) /\ made[n].as # "engine"
            /\ Meets(Rules[i], made[n])
            => i \in verdict

\* "engine setup/reset and controllers are never blamed on the player": for
\* every violation there is a request of the player behind it.  (But for
\* secrets, whose reads are logged, so that a blanket deny charges them.)
OnlyPlayerCharged ==
    pc = "graded" =>
        /\ \A i \in verdict \ {0} :
            Rules[i].type # "require" /\ Rules[i].kind # "Secret" =>
                \E n \in DOMAIN made : ByPlayer(made[n]) /\ Meets(Rules[i], made[n])
        /\ 0 \in verdict => \E n \in DOMAIN made : made[n].as = "engine"

\* A player who did what a rule requires before verify began is not told that
\* it is missing; for a required field its body must have been captured.
\* (For kinds in the table, of which Secret is not one, and not for the fields
\* of what is deleted or sent to a subresource, which no level logs.)
RequireCredited ==
    pc = "graded" =>
        \A i \in DOMAIN Rules, n \in DOMAIN made :
            /\ Before(n)
            /\ Rules[i].type = "require" /\ Rules[i].kind \in Tabled
            /\ Rules[i].fields => Rules[i].operations \subseteq Writing /\ ~made[n].sub
            /\ ByPlayer(made[n]) /\ made[n].as # "engine"
            /\ Meets(Rules[i], made[n])
            => i \notin verdict

\* "Grading and live enforcement must exempt EXACTLY this set": what the policy
\* of a rule denies is never something grading exempts, and with it in force
\* nothing gets through that grading would charge to that rule.  (The latter
\* for requests that impersonate nobody, change something and go to the object
\* itself, for kinds served as the table says, and where a rule lists verbs, for
\* requests that admission sees as the operation of their verb.  A patch of a
\* subresource, or a server-side apply that creates what a deny of patch is
\* about, is charged and not blocked.  Grading may be narrower, as for a deny of
\* delete that also blocks deletecollection.)
EnforcedAsGraded ==
    \A n \in DOMAIN made : \A i \in made[n].judges :
        /\ Denies(i, made[n]) => Attribute(made[n]) # "exempt"
        /\ /\ made[n].as = Nobody /\ made[n].verb \in Mutating /\ ~made[n].sub
           /\ \/ Rules[i].operations = {}
              \/ made[n].operation \in admissionOps({made[n].verb})
           /\ kindToResource(Rules[i].kind) = Served[Rules[i].kind]
           /\ i \in Grade(<<AuditEvent(made[n])>>)
           => Denies(i, made[n])
=============================================================================
