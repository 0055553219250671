----------------------------- MODULE RulesProofs -----------------------------
(***************************************************************************)
(* Proofs about Rules: what the audit log, a reader in the midst of it and *)
(* the policies at admission have in common with the requests that were    *)
(* made, for any rules, kinds and requests.                                *)
(***************************************************************************)
EXTENDS Rules, SequenceTheorems, TLAPS

-----------------------------------------------------------------------------
(* What the audit policy logs *)

\* A set of some of the three audit rules has a first one.
LEMMA FirstOfThree ==
    ASSUME NEW S \in SUBSET (1 .. 3), S # {}
    PROVE  Min(S) \in S /\ \A y \in S : Min(S) =< y
<1>1. \E x \in S : \A y \in S : x =< y
  <2>1. CASE 1 \in S
        BY <2>1
  <2>2. CASE 1 \notin S /\ 2 \in S
        BY <2>2
  <2>3. CASE 1 \notin S /\ 2 \notin S
    <3>1. PICK x \in S : TRUE
        OBVIOUS
    <3>2. \A y \in S : y \in 1 .. 3 /\ y # 1 /\ y # 2
        BY <2>3
    <3>3. \A y \in S : y = 3
        BY <3>2
    <3> QED BY <3>1, <3>3
  <2> QED BY <2>1, <2>2, <2>3
<1> QED BY <1>1 DEF Min

\* The audit policy rule that decides about a request, and its level.
LEMMA LevelOf ==
    ASSUME NEW q
    PROVE  /\ Logged(q) <=> \E i \in 1 .. 3 : /\ q.verb \in AuditPolicy[i].verbs
                                              /\ Served[q.kind] \in AuditPolicy[i].resources
                                              /\ q.sub => AuditPolicy[i].subresources
           /\ Level(q) = "Request" <=>
                /\ q.verb \in Writing /\ ~q.sub
                /\ Served[q.kind] \in fieldRequireResources
<1> DEFINE M == {i \in DOMAIN AuditPolicy : /\ q.verb \in AuditPolicy[i].verbs
                                            /\ Served[q.kind] \in AuditPolicy[i].resources
                                            /\ q.sub => AuditPolicy[i].subresources}
<1>1. DOMAIN AuditPolicy = 1 .. 3
    BY DEF AuditPolicy
<1>2. M = {} => Level(q) = "None"
    BY DEF Level
<1>3. M # {} => Min(M) \in M /\ Level(q) = AuditPolicy[Min(M)].level
    BY <1>1, FirstOfThree DEF Level
<1>4. /\ AuditPolicy[1].level = "Metadata" /\ AuditPolicy[2].level = "Request"
      /\ AuditPolicy[3].level = "Metadata"
      /\ AuditPolicy[2].verbs = Writing
      /\ AuditPolicy[2].resources = fieldRequireResources
      /\ AuditPolicy[2].subresources = FALSE
      /\ AuditPolicy[1].resources = {secrets} /\ AuditPolicy[1].verbs = Verb
    BY DEF AuditPolicy, tier
<1>5. \A i \in 1 .. 3 : AuditPolicy[i].level # "None"
    BY <1>4
<1>6. Logged(q) <=> M # {}
    BY <1>1, <1>2, <1>3, <1>5 DEF Logged
<1>7. Level(q) = "Request" => q.verb \in Writing /\ ~q.sub /\ Served[q.kind] \in fieldRequireResources
  <2> SUFFICES ASSUME Level(q) = "Request"
               PROVE  2 \in M
      BY <1>4
  <2>1. M # {} /\ Min(M) \in M /\ AuditPolicy[Min(M)].level = "Request"
      BY <1>2, <1>3
  <2>2. Min(M) \in 1 .. 3
      BY <2>1, <1>1
  <2> HIDE DEF M
  <2>3. Min(M) = 2
      BY <2>1, <2>2, <1>4
  <2> QED BY <2>1, <2>3
<1>8. q.verb \in Writing /\ ~q.sub /\ Served[q.kind] \in fieldRequireResources => Level(q) = "Request"
  <2> SUFFICES ASSUME q.verb \in Writing, ~q.sub, Served[q.kind] \in fieldRequireResources
               PROVE  Level(q) = "Request"
      OBVIOUS
  <2>1. 2 \in M
      BY <1>1, <1>4
  <2>2. Served[q.kind] # secrets
      BY DEF fieldRequireResources
  <2>3. 1 \notin M
      BY <1>4, <2>2
  <2>4. M \subseteq 1 .. 3
      BY <1>1
  <2> HIDE DEF M
  <2>5. \A x \in M : 2 =< x
      BY <2>3, <2>4
  <2>6. Min(M) \in M /\ \A y \in M : Min(M) =< y
      BY <2>1, <2>4, FirstOfThree
  <2>7. Min(M) = 2
    <3>1. Min(M) \in 1 .. 3 /\ Min(M) =< 2 /\ 2 =< Min(M)
        BY <2>1, <2>4, <2>5, <2>6
    <3> QED BY <3>1
  <2> QED BY <2>1, <2>7, <1>3, <1>4
<1>9. (M # {}) <=> \E i \in 1 .. 3 : /\ q.verb \in AuditPolicy[i].verbs
                                     /\ Served[q.kind] \in AuditPolicy[i].resources
                                     /\ q.sub => AuditPolicy[i].subresources
    BY <1>1
<1> QED BY <1>6, <1>7, <1>8, <1>9

\* Whatever changes something is logged.
LEMMA ChangeLogged ==
    ASSUME NEW q, q.kind \in Kind, q.verb \in Mutating
    PROVE  Logged(q)
<1>1. /\ AuditPolicy[3].verbs = Mutating /\ AuditPolicy[3].resources = Resource
      /\ AuditPolicy[3].subresources = TRUE
    BY DEF AuditPolicy, tier
<1>2. Served[q.kind] \in Resource
    BY DEF Resource
<1> QED BY <1>1, <1>2, LevelOf

\* Of what changes nothing only requests for secrets are logged.
LEMMA ReadLogged ==
    ASSUME NEW q, q.verb \notin Mutating, Logged(q)
    PROVE  Served[q.kind] = secrets
<1>1. PICK i \in 1 .. 3 : q.verb \in AuditPolicy[i].verbs /\ Served[q.kind] \in AuditPolicy[i].resources
    BY LevelOf
<1>2. /\ AuditPolicy[1].resources = {secrets}
      /\ AuditPolicy[2].verbs = Writing /\ AuditPolicy[3].verbs = Mutating
    BY DEF AuditPolicy, tier
<1>3. Writing \subseteq Mutating
    BY DEF Mutating, Verb, Writing
<1>4. i = 1
    BY <1>1, <1>2, <1>3
<1> QED BY <1>1, <1>2, <1>4

-----------------------------------------------------------------------------
(* Who is charged with an event *)

\* Grading charges the player with what he did and nothing else, save what he
\* did as the engine, and exempts only who acts under his own name.
LEMMA Charging ==
    ASSUME NEW q, q.user \in User, q.as \in User \cup {Nobody}, q.as # Nobody => ByPlayer(q)
    PROVE  /\ Attribute(AuditEvent(q)) = "player" <=> ByPlayer(q) /\ q.as # "engine"
           /\ Attribute(AuditEvent(q)) = "tamper" <=> q.as = "engine"
           /\ Attribute(AuditEvent(q)) = "exempt" => q.as = Nobody /\ isExempt(q.user)
<1>1. AuditEvent(q).user = q.user /\ AuditEvent(q).as = q.as
    BY DEF AuditEvent
<1>2. isExempt(q.user) <=> q.user \in {"engine", "system", "controller"}
    BY DEF isExempt, exemptUsernames, exemptPrefixes
<1>3. q.user \notin {"engine", "system", "controller"} <=> ByPlayer(q)
    BY DEF User, ByPlayer, PlayerUser
<1> QED BY <1>1, <1>2, <1>3 DEF Attribute, Nobody

-----------------------------------------------------------------------------
(* The log, and what is in force *)

\* What is logged was asked, and what was asked and is logged is at its line.
LogInv ==
    /\ \A n \in DOMAIN made :
        /\ made[n].line \in 0 .. Len(log)
        /\ Logged(made[n]) => made[n].line # 0 /\ log[made[n].line] = made[n]
        /\ made[n].as # Nobody => ByPlayer(made[n])
        /\ made[n].operation \in Admitted(made[n])
        /\ \A i \in made[n].judges : Rules[i].enforce
    /\ \A m \in DOMAIN log : Logged(log[m]) /\ \E n \in DOMAIN made : made[n] = log[m]
    /\ \A i \in installed : Rules[i].enforce

\* What was read is what the lines before the cursor say, none of them missed
\* or read twice, and a verdict is that of all that was logged before the
\* reading began.
ReadInv ==
    /\ \A m \in 1 .. cursor : events[m] = AuditEvent(log[m])
    /\ pc = "graded" => begun <= cursor /\ verdict = Grade(events)

\* Half of the halves of lines that are written is a number of lines.
LEMMA Halves ==
    ASSUME NEW w \in Nat, NEW n \in Nat, w <= 2 * n
    PROVE  w \div 2 \in 0 .. n /\ w \div 2 <= (w + 1) \div 2
OBVIOUS

\* Grading charges rules by their numbers, and 0.
LEMMA GradeType == \A read : Grade(read) \subseteq {0} \cup DOMAIN Rules
BY DEF Grade

\* The event of a request is one that grading reads.
LEMMA EventType == \A q \in Made : AuditEvent(q) \in Event
BY DEF Made, Event, AuditEvent, Resource

\* What admission may see of a request is an operation.
LEMMA OperationType == \A q : Admitted(q) \subseteq Operation
BY DEF Admitted, Operation

\* Every variable keeps its type.
LEMMA TypeStep == TypeOK /\ [Next]_vars => TypeOK'
<1> SUFFICES ASSUME TypeOK, [Next]_vars PROVE TypeOK'
    OBVIOUS
<1>0. /\ Len(log) \in Nat /\ Complete \in 0 .. Len(log) /\ written \in Nat
      /\ Len(Rules) \in Nat /\ DOMAIN Rules = 1 .. Len(Rules)
  <2>1. Len(log) \in Nat /\ written \in 0 .. (2 * Len(log))
      BY DEF TypeOK
  <2>2. written \in Nat /\ written <= 2 * Len(log)
      BY <2>1
  <2>3. Complete \in 0 .. Len(log)
      BY <2>1, <2>2, Halves DEF Complete
  <2>4. Len(Rules) \in Nat /\ DOMAIN Rules = 1 .. Len(Rules)
    <3>1. Rules \in Seq(Rule)
        BY RulesAssumption
    <3> QED BY <3>1, LenProperties
  <2> QED BY <2>1, <2>2, <2>3, <2>4
<1>1. CASE Serve
  <2>1. PICK q \in Request, a \in Actor :
        LET asked == [verb |-> q.verb, operation |-> q.operation, kind |-> q.kind,
                      sub |-> q.sub, name |-> q.name,
                      fields |-> q.fields, user |-> a.user, as |-> a.as,
                      judges |-> installed,
                      line |-> IF Logged(q) THEN Len(log) + 1 ELSE Len(log)]
        IN  /\ made' = Append(made, asked)
            /\ log' = IF Logged(q) THEN Append(log, asked) ELSE log
      BY <1>1 DEF Serve
  <2> DEFINE asked == [verb |-> q.verb, operation |-> q.operation, kind |-> q.kind,
                       sub |-> q.sub, name |-> q.name,
                       fields |-> q.fields, user |-> a.user, as |-> a.as,
                       judges |-> installed,
                       line |-> IF Logged(q) THEN Len(log) + 1 ELSE Len(log)]
  <2>2. asked \in Made
    <3>1. installed \in SUBSET DOMAIN Rules
        BY DEF TypeOK
    <3>2. /\ q.kind \in Kind /\ q.verb \in Verb /\ q.name \in STRING /\ q.fields \in BOOLEAN
          /\ q.sub \in BOOLEAN /\ q.operation \in Operation
          /\ a.user \in User /\ a.as \in User \cup {Nobody}
        BY RulesAssumption, OperationType
    <3>3. (IF Logged(q) THEN Len(log) + 1 ELSE Len(log)) \in Nat
        BY <1>0
    <3> QED BY <3>1, <3>2, <3>3 DEF Made
  <2>3. made' = Append(made, asked) /\ (log' = Append(log, asked) \/ log' = log)
      BY <2>1
  <2> HIDE DEF asked
  <2>6. made' \in Seq(Made) /\ log' \in Seq(Made) /\ Len(log') >= Len(log) /\ Len(log') \in Nat
    <3>1. made \in Seq(Made) /\ log \in Seq(Made)
        BY DEF TypeOK
    <3>2. Append(made, asked) \in Seq(Made)
        BY <3>1, <2>2, AppendProperties
    <3>3. Append(log, asked) \in Seq(Made) /\ Len(Append(log, asked)) = Len(log) + 1
        BY <3>1, <2>2, AppendProperties
    <3>4. CASE log' = log
        BY <3>1, <3>2, <3>4, <2>3, <1>0
    <3>5. CASE log' = Append(log, asked)
        BY <3>2, <3>3, <3>5, <2>3, <1>0
    <3> QED BY <2>3, <3>4, <3>5
  <2>4. UNCHANGED <<installed, applied, written, verify>>
      BY <1>1 DEF Serve
  <2>5. written' \in 0 .. (2 * Len(log')) /\ Complete' = Complete
      BY <2>6, <2>4, <1>0 DEF TypeOK, Complete
  <2> QED BY <2>6, <2>4, <2>5 DEF TypeOK, verify
<1>2. CASE applyEnforcement
  <2>1. applied' \in 0 .. Len(Rules) /\ installed' \subseteq DOMAIN Rules
      BY <1>2, <1>0 DEF TypeOK, applyEnforcement
  <2>2. Complete' = Complete
      BY <1>2 DEF applyEnforcement, Complete
  <2> QED BY <1>2, <2>1, <2>2 DEF TypeOK, applyEnforcement, verify
<1>3. CASE WriteLog
  <2>1. written' = written + 1 /\ written + 1 <= 2 * Len(log) /\ written' \in Nat
      BY <1>3, <1>0 DEF WriteLog, TypeOK
  <2>2. Complete <= Complete' /\ Complete' \in Nat
      BY <2>1, <1>0, Halves DEF Complete, TypeOK
  <2>3. UNCHANGED <<made, log, installed, applied, verify>>
      BY <1>3 DEF WriteLog
  <2>4. cursor' \in 0 .. Complete' /\ begun' \in 0 .. Complete' /\ written' \in 0 .. (2 * Len(log'))
      BY <2>1, <2>2, <2>3, <1>0 DEF TypeOK, verify
  <2> QED BY <2>3, <2>4 DEF TypeOK, verify
<1>4. CASE VerifyBegin
  <2>1. Complete' = Complete
      BY <1>4 DEF VerifyBegin, server, Complete
  <2> QED BY <1>4, <2>1, <1>0 DEF TypeOK, VerifyBegin, server
<1>5. CASE AuditEvents
  <2> DEFINE read == [n \in 1 .. (Complete - cursor) |-> AuditEvent(log[cursor + n])]
  <2>1. Complete' = Complete
      BY <1>5 DEF AuditEvents, server, Complete
  <2>2. cursor \in Nat /\ cursor < Complete
      BY <1>5, <1>0 DEF TypeOK, AuditEvents
  <2>3. \A n \in 1 .. (Complete - cursor) : AuditEvent(log[cursor + n]) \in Event
    <3>1. \A n \in 1 .. (Complete - cursor) : cursor + n \in 1 .. Len(log)
        BY <2>2, <1>0
    <3>2. \A m \in 1 .. Len(log) : log[m] \in Made
        BY DEF TypeOK
    <3> QED BY <3>1, <3>2, EventType
  <2>4. read \in Seq(Event) /\ Len(read) = Complete - cursor
      BY <2>3, <2>2, <1>0
  <2> HIDE DEF read
  <2>5. events' = events \o read
      BY <1>5 DEF AuditEvents, read
  <2>6. events' \in Seq(Event) /\ Len(events') = Complete
    <3>1. events \in Seq(Event) /\ Len(events) = cursor
        BY DEF TypeOK
    <3>2. events \o read \in Seq(Event) /\ Len(events \o read) = Len(events) + Len(read)
        BY <3>1, <2>4, ConcatProperties
    <3> QED BY <3>1, <3>2, <2>4, <2>5, <2>2, <1>0
  <2> QED BY <1>5, <2>1, <2>6, <1>0 DEF TypeOK, AuditEvents, server
<1>6. CASE gradeRules
  <2>1. Complete' = Complete
      BY <1>6 DEF gradeRules, server, Complete
  <2> QED BY <1>6, <2>1, GradeType DEF TypeOK, gradeRules, server
<1>7. CASE ReadFails
  <2>1. Complete' = Complete
      BY <1>7 DEF ReadFails, server, Complete
  <2> QED BY <1>7, <2>1 DEF TypeOK, ReadFails, server
<1>8. CASE UNCHANGED vars
    BY <1>8 DEF vars, server, verify, TypeOK, Complete
<1> QED BY <1>1, <1>2, <1>3, <1>4, <1>5, <1>6, <1>7, <1>8 DEF Next

\* What the server does with a request that a step makes.
LEMMA RequestServed ==
    ASSUME TypeOK, Serve
    PROVE  \E asked \in Made :
             /\ made' = Append(made, asked)
             /\ log' = IF Logged(asked) THEN Append(log, asked) ELSE log
             /\ asked.line = IF Logged(asked) THEN Len(log) + 1 ELSE Len(log)
             /\ asked.as # Nobody => ByPlayer(asked)
             /\ asked.operation \in Admitted(asked)
             /\ asked.judges = installed
<1>1. PICK q \in Request, a \in Actor :
      LET asked == [verb |-> q.verb, operation |-> q.operation, kind |-> q.kind,
                    sub |-> q.sub, name |-> q.name,
                    fields |-> q.fields, user |-> a.user, as |-> a.as,
                    judges |-> installed,
                    line |-> IF Logged(q) THEN Len(log) + 1 ELSE Len(log)]
      IN  /\ made' = Append(made, asked)
          /\ log' = IF Logged(q) THEN Append(log, asked) ELSE log
    BY DEF Serve
<1> DEFINE asked == [verb |-> q.verb, operation |-> q.operation, kind |-> q.kind,
                     sub |-> q.sub, name |-> q.name,
                     fields |-> q.fields, user |-> a.user, as |-> a.as,
                     judges |-> installed,
                     line |-> IF Logged(q) THEN Len(log) + 1 ELSE Len(log)]
<1>2. /\ asked.verb = q.verb /\ asked.kind = q.kind /\ asked.sub = q.sub
      /\ asked.user = a.user /\ asked.as = a.as
    OBVIOUS
<1>3. Logged(asked) <=> Logged(q)
  <2> HIDE DEF asked
  <2> QED BY <1>2, LevelOf
<1>4. asked.line = IF Logged(q) THEN Len(log) + 1 ELSE Len(log)
    OBVIOUS
<1>5. asked \in Made
  <2>1. installed \in SUBSET DOMAIN Rules /\ Len(log) \in Nat
      BY DEF TypeOK
  <2>2. /\ q.kind \in Kind /\ q.verb \in Verb /\ q.name \in STRING /\ q.fields \in BOOLEAN
        /\ q.sub \in BOOLEAN /\ q.operation \in Operation
        /\ a.user \in User /\ a.as \in User \cup {Nobody}
      BY RulesAssumption, OperationType
  <2>3. (IF Logged(q) THEN Len(log) + 1 ELSE Len(log)) \in Nat
      BY <2>1
  <2> QED BY <2>1, <2>2, <2>3 DEF Made
<1>6. asked.as # Nobody => ByPlayer(asked)
    BY <1>2, RulesAssumption DEF ByPlayer
<1>7. asked.judges = installed /\ asked.operation \in Admitted(asked)
  <2>1. asked.operation = q.operation /\ q.operation \in Admitted(q)
      BY RulesAssumption
  <2>2. Admitted(asked) = Admitted(q)
    <3> HIDE DEF asked
    <3> QED BY <1>2 DEF Admitted
  <2> QED BY <2>1, <2>2
<1>8. /\ made' = Append(made, asked)
      /\ log' = IF Logged(q) THEN Append(log, asked) ELSE log
    BY <1>1
<1> HIDE DEF asked
<1> QED BY <1>3, <1>4, <1>5, <1>6, <1>7, <1>8

\* The log invariant is kept.
LEMMA LogStep == TypeOK /\ LogInv /\ [Next]_vars => LogInv'
<1> SUFFICES ASSUME TypeOK, LogInv, [Next]_vars PROVE LogInv'
    OBVIOUS
<1>1. CASE Serve
  <2>1. PICK asked \in Made :
             /\ made' = Append(made, asked)
             /\ log' = IF Logged(asked) THEN Append(log, asked) ELSE log
             /\ asked.line = IF Logged(asked) THEN Len(log) + 1 ELSE Len(log)
             /\ asked.as # Nobody => ByPlayer(asked)
             /\ asked.operation \in Admitted(asked)
             /\ asked.judges = installed
      BY <1>1, RequestServed
  <2>2. made \in Seq(Made) /\ log \in Seq(Made)
      BY DEF TypeOK
  <2>3. /\ Len(made) \in Nat /\ DOMAIN made = 1 .. Len(made)
        /\ Len(log) \in Nat /\ DOMAIN log = 1 .. Len(log)
      BY <2>2, LenProperties
  <2>4. /\ made' \in Seq(Made) /\ Len(made') = Len(made) + 1
        /\ \A n \in DOMAIN made : made'[n] = made[n]
        /\ made'[Len(made) + 1] = asked
        /\ DOMAIN made' = 1 .. (Len(made) + 1)
      BY <2>1, <2>2, <2>3, AppendProperties, LenProperties
  <2>5. /\ Len(log') \in Nat /\ Len(log') >= Len(log) /\ DOMAIN log' = 1 .. Len(log')
        /\ \A m \in DOMAIN log : log'[m] = log[m]
    <3>1. CASE Logged(asked)
        BY <2>1, <2>2, <2>3, <3>1, AppendProperties, LenProperties
    <3>2. CASE ~Logged(asked)
        BY <2>1, <2>2, <2>3, <3>2
    <3> QED BY <3>1, <3>2
  <2>6. Logged(asked) => Len(log') = Len(log) + 1 /\ log'[Len(log) + 1] = asked
      BY <2>1, <2>2, <2>3, AppendProperties
  <2>7. installed' = installed
      BY <1>1 DEF Serve
  <2>8. ASSUME NEW n \in DOMAIN made'
        PROVE  /\ made'[n].line \in 0 .. Len(log')
               /\ Logged(made'[n]) => made'[n].line # 0 /\ log'[made'[n].line] = made'[n]
               /\ made'[n].as # Nobody => ByPlayer(made'[n])
               /\ made'[n].operation \in Admitted(made'[n])
               /\ \A i \in made'[n].judges : Rules[i].enforce
    <3>1. CASE n \in DOMAIN made
      <4>1. /\ made[n].line \in 0 .. Len(log)
            /\ Logged(made[n]) => made[n].line # 0 /\ log[made[n].line] = made[n]
            /\ made[n].as # Nobody => ByPlayer(made[n])
            /\ made[n].operation \in Admitted(made[n])
            /\ \A i \in made[n].judges : Rules[i].enforce
          BY <3>1 DEF LogInv
      <4>2. made'[n] = made[n]
          BY <3>1, <2>4
      <4>3. made[n].line # 0 => log'[made[n].line] = log[made[n].line]
          BY <4>1, <2>3, <2>5
      <4>4. made[n].line \in 0 .. Len(log')
          BY <4>1, <2>3, <2>5
      <4> QED BY <4>1, <4>2, <4>3, <4>4
    <3>2. CASE n \notin DOMAIN made
      <4>1. n = Len(made) + 1
          BY <3>2, <2>3, <2>4
      <4>2. made'[n] = asked
          BY <4>1, <2>4
      <4>3. asked.line \in 0 .. Len(log')
          BY <2>1, <2>3, <2>5, <2>6
      <4>4. Logged(asked) => asked.line = Len(log) + 1 /\ asked.line # 0
          BY <2>1, <2>3
      <4>5. \A i \in asked.judges : Rules[i].enforce
          BY <2>1 DEF LogInv
      <4> QED BY <4>2, <4>3, <4>4, <4>5, <2>1, <2>6
    <3> QED BY <3>1, <3>2
  <2>9. ASSUME NEW m \in DOMAIN log'
        PROVE  Logged(log'[m]) /\ \E n \in DOMAIN made' : made'[n] = log'[m]
    <3>1. CASE m \in DOMAIN log
      <4>1. PICK n \in DOMAIN made : made[n] = log[m]
          BY <3>1 DEF LogInv
      <4>2. n \in DOMAIN made' /\ made'[n] = made[n]
          BY <2>3, <2>4
      <4>3. Logged(log[m])
          BY <3>1 DEF LogInv
      <4> QED BY <4>1, <4>2, <4>3, <3>1, <2>5
    <3>2. CASE m \notin DOMAIN log
      <4>1. Logged(asked)
          BY <3>2, <2>1
      <4>2. m = Len(log) + 1
          BY <3>2, <4>1, <2>3, <2>5, <2>6
      <4>3. Len(made) + 1 \in DOMAIN made'
          BY <2>3, <2>4
      <4> QED BY <4>1, <4>2, <4>3, <2>4, <2>6
    <3> QED BY <3>1, <3>2
  <2>10. \A i \in installed' : Rules[i].enforce
      BY <2>7 DEF LogInv
  <2> QED BY <2>8, <2>9, <2>10 DEF LogInv
<1>2. CASE applyEnforcement
  <2>1. UNCHANGED <<made, log>>
      BY <1>2 DEF applyEnforcement
  <2>2. \A i \in installed' : Rules[i].enforce
      BY <1>2 DEF applyEnforcement, LogInv
  <2> QED BY <2>1, <2>2 DEF LogInv
<1>3. ASSUME UNCHANGED <<made, log, installed>>
      PROVE  LogInv'
    BY <1>3 DEF LogInv
<1> QED BY <1>1, <1>2, <1>3
        DEF Next, WriteLog, VerifyBegin, AuditEvents, gradeRules, ReadFails, vars, server

\* The reading invariant is kept.
LEMMA ReadStep == TypeOK /\ ReadInv /\ [Next]_vars => ReadInv'
<1> SUFFICES ASSUME TypeOK, ReadInv, [Next]_vars PROVE ReadInv'
    OBVIOUS
<1>0. /\ Len(log) \in Nat /\ Complete \in 0 .. Len(log) /\ log \in Seq(Made)
      /\ cursor \in 0 .. Complete /\ begun \in 0 .. Complete
  <2>1. Len(log) \in Nat /\ written \in 0 .. (2 * Len(log)) /\ log \in Seq(Made)
      BY DEF TypeOK
  <2>2. written \in Nat /\ written <= 2 * Len(log)
      BY <2>1
  <2>3. Complete \in 0 .. Len(log)
      BY <2>1, <2>2, Halves DEF Complete
  <2> QED BY <2>1, <2>3 DEF TypeOK
<1>1. CASE Serve
  <2>1. PICK asked \in Made : log' = IF Logged(asked) THEN Append(log, asked) ELSE log
      BY <1>1, RequestServed
  <2>2. \A m \in 1 .. Len(log) : log'[m] = log[m]
    <3>1. CASE Logged(asked)
        BY <2>1, <1>0, <3>1, AppendProperties
    <3>2. CASE ~Logged(asked)
        BY <2>1, <3>2
    <3> QED BY <3>1, <3>2
  <2>3. \A m \in 1 .. cursor : log'[m] = log[m]
      BY <2>2, <1>0
  <2> QED BY <1>1, <2>3 DEF ReadInv, Serve, verify
<1>2. CASE AuditEvents
  <2> DEFINE read == [n \in 1 .. (Complete - cursor) |-> AuditEvent(log[cursor + n])]
  <2>1. cursor \in Nat /\ Complete \in Nat /\ cursor < Complete
      BY <1>2, <1>0 DEF AuditEvents
  <2>2. \A n \in 1 .. (Complete - cursor) : AuditEvent(log[cursor + n]) \in Event
    <3>1. \A n \in 1 .. (Complete - cursor) : cursor + n \in 1 .. Len(log)
        BY <2>1, <1>0
    <3>2. \A m \in 1 .. Len(log) : log[m] \in Made
        BY <1>0
    <3> QED BY <3>1, <3>2, EventType
  <2>3. read \in Seq(Event) /\ Len(read) = Complete - cursor
      BY <2>2, <2>1
  <2>4. \A n \in 1 .. (Complete - cursor) : read[n] = AuditEvent(log[cursor + n])
      OBVIOUS
  <2>5. events' = events \o read
      BY <1>2 DEF AuditEvents
  <2> HIDE DEF read
  <2>6. events \in Seq(Event) /\ Len(events) = cursor
      BY DEF TypeOK
  <2>7. \A m \in 1 .. Complete : events'[m] = IF m <= cursor THEN events[m] ELSE read[m - cursor]
    <3>1. cursor + (Complete - cursor) = Complete
        BY <2>1
    <3> QED BY <3>1, <2>3, <2>5, <2>6, ConcatProperties
  <2>8. ASSUME NEW m \in 1 .. Complete
        PROVE  events'[m] = AuditEvent(log[m])
    <3>1. CASE m <= cursor
        BY <3>1, <2>1, <2>7 DEF ReadInv
    <3>2. CASE ~(m <= cursor)
      <4>1. m - cursor \in 1 .. (Complete - cursor) /\ cursor + (m - cursor) = m
          BY <3>2, <2>1
      <4> QED BY <4>1, <2>4, <2>7, <3>2
    <3> QED BY <3>1, <3>2
  <2>9. log' = log /\ cursor' = Complete /\ pc' # "graded"
      BY <1>2 DEF AuditEvents, server
  <2> QED BY <2>8, <2>9 DEF ReadInv
<1>3. CASE gradeRules
  <2>1. begun <= cursor
      BY <1>3, <1>0 DEF gradeRules
  <2> QED BY <1>3, <2>1 DEF ReadInv, gradeRules, server
<1>4. CASE VerifyBegin
    BY <1>4 DEF ReadInv, VerifyBegin
<1>5. CASE ReadFails
    BY <1>5 DEF ReadInv, ReadFails, server
<1>6. ASSUME UNCHANGED <<log, verify>>
      PROVE  ReadInv'
    BY <1>6 DEF ReadInv, verify
<1> QED BY <1>1, <1>2, <1>3, <1>4, <1>5, <1>6
        DEF Next, applyEnforcement, WriteLog, vars, server

\* Every variable keeps its type, the log holds what was asked, and a verdict is
\* about all that was logged before its verify began.
THEOREM LogIsRead == Spec => [](TypeOK /\ LogInv /\ ReadInv)
<1>1. Init => TypeOK /\ LogInv /\ ReadInv
    BY DEF Init, TypeOK, LogInv, ReadInv, Complete
<1>2. TypeOK /\ LogInv /\ ReadInv /\ [Next]_vars => (TypeOK /\ LogInv /\ ReadInv)'
    BY TypeStep, LogStep, ReadStep
<1> QED BY <1>1, <1>2, PTL DEF Spec

-----------------------------------------------------------------------------
(* Verdicts *)

\* No two kinds are taken for each other: what the API server serves one by does
\* not match what kindToResource makes of another.  (The kinds Event of the core
\* group and of events.k8s.io, for one, would.)
KindsApart ==
    \A k, l \in Kind :
        LET gr == kindToResource(l)
        IN  /\ Served[k].plural = gr.plural
            /\ gr.group # "" /\ Served[k].group # "" => Served[k].group = gr.group
            => k = l

\* A rule, and the request behind a line.
LEMMA RuleType == \A i \in DOMAIN Rules : Rules[i] \in Rule
<1>1. Rules \in Seq(Rule)
    BY RulesAssumption
<1> QED BY <1>1

\* A request that was made is of its type.
LEMMA MadeType ==
    TypeOK => /\ \A n \in DOMAIN made : made[n] \in Made
              /\ \A m \in DOMAIN log : log[m] \in Made
BY DEF TypeOK

\* Grading finds a kind by the name it is served under.
LEMMA TargetOf ==
    ASSUME NEW q, NEW r, q.kind = r.kind, r.name # "" => q.name = r.name,
           Naive[r.kind] = Served[r.kind].plural \/ r.kind \in Tabled
    PROVE  targetMatches(r, AuditEvent(q))
<1>1. AuditEvent(q).resource = Served[r.kind] /\ AuditEvent(q).name = q.name
    BY DEF AuditEvent
<1>2. CASE r.kind \in Tabled
    BY <1>1, <1>2 DEF targetMatches, kindToResource
<1>3. CASE r.kind \notin Tabled
  <2>1. kindToResource(r.kind).plural = Served[r.kind].plural /\ kindToResource(r.kind).group = ""
      BY <1>3 DEF kindToResource
  <2> QED BY <1>1, <2>1 DEF targetMatches
<1> QED BY <1>2, <1>3

\* And it finds no other.
LEMMA KindOf ==
    ASSUME KindsApart, NEW q, q.kind \in Kind, NEW r, r.kind \in Kind,
           targetMatches(r, AuditEvent(q))
    PROVE  q.kind = r.kind /\ (r.name # "" => q.name = r.name)
<1>1. AuditEvent(q).resource = Served[q.kind] /\ AuditEvent(q).name = q.name
    BY DEF AuditEvent
<1> QED BY <1>1 DEF targetMatches, KindsApart

\* What the player made before a verify began and is logged was read by it and
\* is held against him.
LEMMA BeforeIsRead ==
    ASSUME TypeOK, LogInv, ReadInv, pc = "graded",
           NEW n \in DOMAIN made, Before(n), Logged(made[n]),
           ByPlayer(made[n]), made[n].as # "engine"
    PROVE  AuditEvent(made[n]) \in ChargedIn(events)
<1>1. made[n].line \in 1 .. Len(log) /\ log[made[n].line] = made[n]
  <2>1. /\ made[n].line \in 0 .. Len(log)
        /\ made[n].line # 0 /\ log[made[n].line] = made[n]
      BY DEF LogInv
  <2>2. Len(log) \in Nat
      BY DEF TypeOK
  <2> QED BY <2>1, <2>2
<1>2. cursor \in Nat /\ begun \in Nat /\ DOMAIN events = 1 .. cursor
  <2>1. cursor \in 0 .. Complete /\ begun \in 0 .. Complete
      BY DEF TypeOK
  <2>2. cursor \in Nat /\ begun \in Nat
      BY <2>1
  <2>3. events \in Seq(Event) /\ Len(events) = cursor
      BY DEF TypeOK
  <2> QED BY <2>2, <2>3, LenProperties
<1>3. made[n].line \in 1 .. cursor
  <2>1. made[n].line <= begun /\ begun <= cursor
      BY DEF Before, ReadInv
  <2>2. made[n].line \in Nat
      BY MadeType DEF Made
  <2> QED BY <1>1, <1>2, <2>1, <2>2
<1>4. AuditEvent(made[n]) \in ToSet(events)
  <2>1. events[made[n].line] = AuditEvent(made[n])
      BY <1>1, <1>3 DEF ReadInv
  <2> QED BY <1>2, <1>3, <2>1 DEF ToSet
<1>5. Attribute(AuditEvent(made[n])) = "player"
  <2>1. made[n].user \in User /\ made[n].as \in User \cup {Nobody}
      BY MadeType DEF Made
  <2> QED BY <2>1, Charging
<1> QED BY <1>4, <1>5 DEF ChargedIn

\* What was read was asked by somebody.
LEMMA ReadWasMade ==
    ASSUME TypeOK, LogInv, ReadInv, NEW e \in ToSet(events)
    PROVE  \E n \in DOMAIN made : e = AuditEvent(made[n]) /\ Logged(made[n])
<1>1. PICK m \in DOMAIN events : e = events[m]
    BY DEF ToSet
<1>2. m \in 1 .. cursor /\ m \in DOMAIN log
  <2>1. cursor \in 0 .. Complete /\ Complete \in 0 .. Len(log) /\ Len(log) \in Nat
    <3>1. Len(log) \in Nat /\ written \in 0 .. (2 * Len(log))
        BY DEF TypeOK
    <3>2. written \in Nat /\ written <= 2 * Len(log)
        BY <3>1
    <3>3. Complete \in 0 .. Len(log)
        BY <3>1, <3>2, Halves DEF Complete
    <3> QED BY <3>1, <3>3 DEF TypeOK
  <2>2. events \in Seq(Event) /\ Len(events) = cursor /\ log \in Seq(Made)
      BY DEF TypeOK
  <2>3. m \in 1 .. cursor /\ DOMAIN log = 1 .. Len(log)
      BY <2>2, <1>1, LenProperties
  <2> QED BY <2>1, <2>3
<1>3. e = AuditEvent(log[m])
    BY <1>1, <1>2 DEF ReadInv
<1>4. PICK n \in DOMAIN made : made[n] = log[m]
    BY <1>2 DEF LogInv
<1>5. Logged(log[m])
    BY <1>2 DEF LogInv
<1> QED BY <1>3, <1>4, <1>5

\* No breach of the player escapes a verify that began after it, for any rules,
\* kinds and requests, while the log is still being written.
THEOREM NoBreachEscapes == Spec => []BreachesCharged
<1>1. TypeOK /\ LogInv /\ ReadInv => BreachesCharged
  <2> SUFFICES ASSUME TypeOK, LogInv, ReadInv, pc = "graded",
                      NEW i \in DOMAIN Rules, NEW n \in DOMAIN made,
                      Before(n), Rules[i].type # "require",
                      Naive[Rules[i].kind] = Served[Rules[i].kind].plural
                        \/ Rules[i].kind \in Tabled,
                      ByPlayer(made[n]), made[n].as # "engine", Meets(Rules[i], made[n])
               PROVE  i \in verdict
      BY DEF BreachesCharged
  <2> DEFINE r == Rules[i]
             q == made[n]
             e == AuditEvent(made[n])
  <2>1. r \in Rule /\ q \in Made
      BY RuleType, MadeType
  <2>2. r.type \in {"deny", "protect"} /\ r.operations \subseteq Mutating
      BY <2>1 DEF Rule
  <2>3. /\ q.kind = r.kind /\ (r.name # "" => q.name = r.name)
        /\ r.type = "protect" => q.verb \in Deleting
        /\ r.type = "deny" /\ r.operations # {} => q.verb \in r.operations
        /\ r.type = "deny" /\ r.operations = {} => q.verb \in Mutating
    <3>1. Meets(r, q)
        OBVIOUS
    <3> HIDE DEF r, q, e
    <3> QED BY <2>2, <3>1 DEF Meets
  <2>4. q.verb \in Mutating
      BY <2>2, <2>3 DEF Mutating, Verb, Writing, Deleting
  <2>5. q.kind \in Kind
      BY <2>1 DEF Made
  <2>6. Logged(q)
      BY <2>4, <2>5, ChangeLogged
  <2>7. e \in ChargedIn(events)
      BY <2>6, BeforeIsRead
  <2>8. targetMatches(r, e)
      BY <2>3, TargetOf
  <2>9. e.verb = q.verb
      BY DEF AuditEvent
  <2> HIDE DEF r, q, e
  <2>10. Violated(r, ChargedIn(events))
    <3>1. CASE r.type = "deny"
      <4>1. e \in matchSpec(r, r.operations, ChargedIn(events))
          BY <3>1, <2>3, <2>7, <2>8, <2>9 DEF matchSpec
      <4> QED BY <4>1, <3>1 DEF Violated
    <3>2. CASE r.type = "protect"
      <4>1. e \in matchSpec(r, Deleting, ChargedIn(events))
          BY <3>2, <2>3, <2>7, <2>8, <2>9 DEF matchSpec
      <4> QED BY <4>1, <3>2 DEF Violated
    <3> QED BY <2>2, <3>1, <3>2
  <2>11. i \in Grade(events)
      BY <2>10 DEF Grade, r
  <2> QED BY <2>11 DEF ReadInv
<1> QED BY <1>1, LogIsRead, PTL

\* For every violation there is a request of the player behind it that the rule
\* is about, for any rules and requests and any kinds that are told apart.
THEOREM EngineNeverBlamed == KindsApart => (Spec => []OnlyPlayerCharged)
<1> SUFFICES ASSUME KindsApart PROVE Spec => []OnlyPlayerCharged
    OBVIOUS
<1>1. ASSUME TypeOK, LogInv, ReadInv, pc = "graded",
             NEW i \in verdict \ {0}, Rules[i].type # "require", Rules[i].kind # "Secret"
      PROVE  \E n \in DOMAIN made : ByPlayer(made[n]) /\ Meets(Rules[i], made[n])
  <2>1. i \in DOMAIN Rules /\ Violated(Rules[i], ChargedIn(events))
      BY <1>1 DEF ReadInv, Grade
  <2> DEFINE r == Rules[i]
  <2>2. r \in Rule
      BY <2>1, RuleType
  <2>3. PICK e \in ChargedIn(events) :
            /\ targetMatches(r, e)
            /\ r.type = "protect" => e.verb \in Deleting
            /\ r.type # "protect" /\ r.operations # {} => e.verb \in r.operations
    <3>1. CASE r.type = "deny" /\ matchSpec(r, r.operations, ChargedIn(events)) # {}
        BY <3>1 DEF matchSpec
    <3>2. CASE r.type = "protect" /\ matchSpec(r, Deleting, ChargedIn(events)) # {}
        BY <3>2 DEF matchSpec, Deleting
    <3> QED BY <3>1, <3>2, <2>1, <1>1 DEF Violated
  <2>4. e \in ToSet(events) /\ Attribute(e) = "player"
      BY DEF ChargedIn
  <2>5. PICK n \in DOMAIN made : e = AuditEvent(made[n]) /\ Logged(made[n])
      BY <2>4, <1>1, ReadWasMade
  <2> DEFINE q == made[n]
  <2>6. /\ q.kind \in Kind /\ q.verb \in Verb
        /\ q.user \in User /\ q.as \in User \cup {Nobody} /\ (q.as # Nobody => ByPlayer(q))
      BY <1>1, MadeType DEF Made, LogInv
  <2>7. ByPlayer(q)
      BY <2>4, <2>5, <2>6, Charging
  <2>8. r.kind \in Kind /\ r.type \in {"deny", "protect"}
      BY <2>2, <1>1 DEF Rule
  <2>9. q.kind = r.kind /\ (r.name # "" => q.name = r.name)
      BY <2>3, <2>5, <2>6, <2>8, KindOf
  <2>10. q.verb \in Mutating
    <3>1. CASE q.verb \notin Mutating
      <4>1. Served[q.kind] = secrets
          BY <3>1, <2>5, ReadLogged
      <4>2. q.kind = "Secret"
          BY <4>1, <2>6, RulesAssumption DEF secrets
      <4> QED BY <4>2, <2>9, <1>1
    <3> QED BY <3>1
  <2>11. e.verb = q.verb
      BY <2>5 DEF AuditEvent
  <2>12. Meets(r, q)
    <3>1. r.type = "protect" => q.verb \in Deleting
        BY <2>3, <2>11
    <3>2. r.type = "deny" /\ r.operations # {} => q.verb \in r.operations
        BY <2>3, <2>11
    <3> HIDE DEF r, q
    <3> QED BY <3>1, <3>2, <2>8, <2>9, <2>10 DEF Meets
  <2> QED BY <2>7, <2>12
<1>2. ASSUME TypeOK, LogInv, ReadInv, pc = "graded", 0 \in verdict
      PROVE  \E n \in DOMAIN made : made[n].as = "engine"
  <2>1. 0 \notin DOMAIN Rules
    <3>1. Rules \in Seq(Rule)
        BY RulesAssumption
    <3> QED BY <3>1, LenProperties
  <2>2. PICK e \in ToSet(events) : Attribute(e) = "tamper"
      BY <2>1, <1>2 DEF ReadInv, Grade
  <2>3. PICK n \in DOMAIN made : e = AuditEvent(made[n])
      BY <2>2, <1>2, ReadWasMade
  <2>4. e.as = "engine"
      BY <2>2 DEF Attribute
  <2> QED BY <2>3, <2>4 DEF AuditEvent
<1>3. TypeOK /\ LogInv /\ ReadInv => OnlyPlayerCharged
    BY <1>1, <1>2 DEF OnlyPlayerCharged
<1> QED BY <1>3, LogIsRead, PTL

\* Whoever did what a rule requires is not told that it is missing, for any
\* rules, kinds and requests.
THEOREM RequirementsCredited == Spec => []RequireCredited
<1>1. TypeOK /\ LogInv /\ ReadInv => RequireCredited
  <2> SUFFICES ASSUME TypeOK, LogInv, ReadInv, pc = "graded",
                      NEW i \in DOMAIN Rules, NEW n \in DOMAIN made,
                      Before(n), Rules[i].type = "require", Rules[i].kind \in Tabled,
                      Rules[i].fields => Rules[i].operations \subseteq Writing /\ ~made[n].sub,
                      ByPlayer(made[n]), made[n].as # "engine", Meets(Rules[i], made[n])
               PROVE  i \notin verdict
      BY DEF RequireCredited
  <2> DEFINE r == Rules[i]
             q == made[n]
             e == AuditEvent(made[n])
             operations == IF r.operations = {} THEN Writing ELSE r.operations
  <2>1. r \in Rule /\ q \in Made
      BY RuleType, MadeType
  <2>2. q.kind = r.kind /\ (r.name # "" => q.name = r.name) /\ q.verb \in operations
        /\ (r.fields => q.fields)
    <3>1. Meets(r, q) /\ r.type = "require"
        OBVIOUS
    <3> HIDE DEF r, q, e
    <3> QED BY <3>1 DEF Meets
  <2>3. q.kind \in Kind /\ r.operations \subseteq Mutating /\ r.kind \in Tabled
      BY <2>1 DEF Made, Rule
  <2>4. q.verb \in Mutating
      BY <2>2, <2>3 DEF Mutating, Verb, Writing, Deleting
  <2>5. e \in ChargedIn(events)
      BY <2>3, <2>4, ChangeLogged, BeforeIsRead
  <2>6. targetMatches(r, e)
      BY <2>2, <2>3, TargetOf
  <2>7. r.fields => e.body
    <3> SUFFICES ASSUME r.fields PROVE e.body
        OBVIOUS
    <3>1. q.verb \in Writing /\ ~q.sub
        BY <2>2
    <3>2. kindToResource(r.kind) = Served[r.kind]
        BY <2>3 DEF kindToResource
    <3>3. Served[r.kind] # secrets
        BY <2>3, RulesAssumption DEF secrets
    <3>4. r \in {x \in ToSet(Rules) : x.type = "require" /\ x.fields}
        BY DEF ToSet
    <3>5. Served[q.kind] \in fieldRequireResources
        BY <2>2, <3>2, <3>3, <3>4 DEF fieldRequireResources
    <3>6. Level(q) = "Request"
        BY <3>1, <3>5, LevelOf
    <3> QED BY <2>2, <3>6 DEF AuditEvent
  <2>8. e.verb = q.verb
      BY DEF AuditEvent
  <2>9. e \in matchRequire(r, ChargedIn(events))
    <3> HIDE DEF r, q, e
    <3> QED BY <2>2, <2>5, <2>6, <2>7, <2>8 DEF matchRequire
  <2>10. i \notin Grade(events)
    <3>1. ~Violated(r, ChargedIn(events))
        BY <2>9 DEF Violated
    <3>2. i # 0
      <4>1. Rules \in Seq(Rule)
          BY RulesAssumption
      <4> QED BY <4>1, LenProperties
    <3> QED BY <3>1, <3>2 DEF Grade
  <2> QED BY <2>10 DEF ReadInv
<1> QED BY <1>1, LogIsRead, PTL

\* A policy in force denies nobody whom grading exempts.  Of the requests to an
\* object itself, under one's own name, that admission sees as the operation of
\* their verb, it lets none through that grading would charge, for any rules and
\* kinds that are told apart.
THEOREM EnforcementAgrees == KindsApart => (Spec => []EnforcedAsGraded)
<1> SUFFICES ASSUME KindsApart PROVE Spec => []EnforcedAsGraded
    OBVIOUS
<1>1. ASSUME TypeOK, LogInv, NEW n \in DOMAIN made, NEW i \in made[n].judges, Denies(i, made[n])
      PROVE  Attribute(AuditEvent(made[n])) # "exempt" /\ Attribute(made[n]) # "exempt"
  <2>1. ~isExempt(IF made[n].as = Nobody THEN made[n].user ELSE made[n].as)
      BY <1>1 DEF Denies, exemptCEL
  <2> QED BY <2>1 DEF Attribute, AuditEvent
<1>2. ASSUME TypeOK, LogInv, NEW n \in DOMAIN made, NEW i \in made[n].judges,
             made[n].as = Nobody, made[n].verb \in Mutating, ~made[n].sub,
             Rules[i].operations = {} \/ made[n].operation \in admissionOps({made[n].verb}),
             kindToResource(Rules[i].kind) = Served[Rules[i].kind],
             i \in Grade(<<AuditEvent(made[n])>>)
      PROVE  Denies(i, made[n])
  <2> DEFINE q == made[n]
             r == Rules[i]
             e == AuditEvent(made[n])
  <2>1. q \in Made /\ i \in DOMAIN Rules /\ Rules[i].enforce
      BY <1>2, MadeType DEF Made, LogInv
  <2>2. r \in Rule /\ r.type # "require" /\ i # 0
    <3>1. Rules \in Seq(Rule)
        BY RulesAssumption
    <3>2. i \in 1 .. Len(Rules)
        BY <3>1, <2>1, LenProperties
    <3>3. r.type # "require"
        BY <2>1, RulesAssumption
    <3> QED BY <3>2, <3>3, <2>1, RuleType
  <2>3. ToSet(<<e>>) = {e}
      BY DEF ToSet
  <2>4. Violated(r, ChargedIn(<<e>>)) /\ ChargedIn(<<e>>) \subseteq {e}
      BY <1>2, <2>2, <2>3 DEF Grade, ChargedIn
  <2>5. /\ Attribute(e) = "player" /\ targetMatches(r, e)
        /\ r.type = "protect" => e.verb \in Deleting
        /\ r.type = "deny" => r.operations = {} \/ e.verb \in r.operations
    <3>1. CASE r.type = "deny" /\ matchSpec(r, r.operations, ChargedIn(<<e>>)) # {}
        BY <3>1, <2>4 DEF matchSpec, ChargedIn
    <3>2. CASE r.type = "protect" /\ matchSpec(r, Deleting, ChargedIn(<<e>>)) # {}
        BY <3>2, <2>4 DEF matchSpec, ChargedIn, Deleting
    <3> QED BY <3>1, <3>2, <2>4, <2>2 DEF Violated
  <2>6. e.verb = q.verb /\ e.user = q.user /\ e.as = q.as
      BY DEF AuditEvent
  <2>7. q.kind = r.kind /\ (r.name # "" => q.name = r.name)
    <3>1. q.kind \in Kind /\ r.kind \in Kind
        BY <2>1, <2>2 DEF Made, Rule
    <3> QED BY <3>1, <2>5, KindOf
  <2>8. q.operation \in EnforcedOps(r)
    <3>1. r.type \in {"deny", "protect"}
        BY <2>2 DEF Rule
    <3>2. q.verb \in Mutating /\ ~q.sub /\ q.operation \in Admitted(q)
        BY <1>2 DEF LogInv
    <3>3. r.operations = {} \/ q.operation \in admissionOps({q.verb})
        BY <1>2
    <3> HIDE DEF q, r, e
    <3>4. q.operation \in {"CREATE", "UPDATE", "DELETE"}
        BY <3>2 DEF Admitted, Mutating, Verb
    <3>5. CASE r.type = "protect"
      <4>1. q.operation = "DELETE"
          BY <3>2, <3>5, <2>5, <2>6 DEF Admitted, Deleting
      <4> QED BY <4>1, <3>5 DEF EnforcedOps
    <3>6. CASE r.type = "deny" /\ r.operations = {}
        BY <3>4, <3>6 DEF EnforcedOps, admissionOps
    <3>7. CASE r.type = "deny" /\ r.operations # {}
      <4>1. q.verb \in r.operations
          BY <3>7, <2>5, <2>6
      <4>2. admissionOps({q.verb}) \subseteq admissionOps(r.operations)
          BY <4>1, <3>7 DEF admissionOps
      <4> QED BY <3>3, <3>7, <4>2 DEF EnforcedOps
    <3> QED BY <3>1, <3>5, <3>6, <3>7
  <2>9. ~exemptCEL(q)
      BY <1>2, <2>5, <2>6 DEF exemptCEL, Attribute, Nobody
  <2> QED BY <1>2, <2>7, <2>8, <2>9 DEF Denies
<1>3. TypeOK /\ LogInv => EnforcedAsGraded
    BY <1>1, <1>2 DEF EnforcedAsGraded
<1> QED BY <1>3, LogIsRead, PTL
=============================================================================
