-------------------------- MODULE ProvisionProofs --------------------------
(***************************************************************************)
(* What a start or a reset leaves behind, proved for any manifests, faults *)
(* and gates, any number of resets and any moves of the player: nothing of *)
(* what was there before, and all of what was declared, broken.            *)
(***************************************************************************)
EXTENDS Provision, TLAPS

\* The manifests are declared in some order.
Ordered == Setup \in Seq(Elements(Setup))

Label == {"apply", "fault", "gate", "idle", "destroy", "delete", "wait"}

\* The cursor points into the manifests while they are deleted, and what is old
\* is still there.
PlaceInv ==
    /\ next \in Label
    /\ at \in Nat
    /\ life \in [Object -> {"none", "live", "dying"}]
    /\ next = "delete" => at <= Len(Setup)
    /\ next = "wait" => at \in DOMAIN Setup
    /\ old \subseteq {o \in Object : life[o] # "none"}

\* The objects of the challenge from position i on are all new.
NewFrom(i) == \A j \in DOMAIN Setup : j >= i /\ Setup[j] \notin Kept => Setup[j] \notin old

\* What has been deleted so far was waited for, and nothing is applied before
\* all is gone, or the cluster with it.
ForgetInv ==
    /\ next = "delete" => NewFrom(at + 1)
    /\ next = "wait" => NewFrom(at + 1)
    /\ next \in {"apply", "fault", "gate"} => old \cap Workload = {}
    /\ ResetForgets

OldInv == PlaceInv /\ ForgetInv

\* Where deletion has come to the first object, every object of the challenge is new.
LEMMA NewFromFirst ==
    ASSUME Ordered, NewFrom(1)
    PROVE  old \cap Workload = {}
<1>1. \A j \in DOMAIN Setup : j >= 1
    BY DEF Ordered
<1> QED
    BY <1>1 DEF NewFrom, Workload, Elements

\* The positions of the manifests are numbers up to their length.
LEMMA Positions == Ordered => Len(Setup) \in Nat /\ DOMAIN Setup = 1 .. Len(Setup)
BY DEF Ordered

\* Controllers, finalizers and the player make nothing old.
LEMMA OthersKeep ==
    ASSUME OldInv, Vanish \/ Report \/ Player
    PROVE  OldInv'
<1>1. UNCHANGED <<next, at, result>>
    BY DEF Vanish, Report, Player, Edit, Delete, Make, Move, player
<1>2. /\ old' \subseteq old
      /\ \A o \in old' : life'[o] # "none"
      /\ life' \in [Object -> {"none", "live", "dying"}]
  <2>1. CASE Vanish
      BY <2>1 DEF Vanish, Gone, OldInv, PlaceInv
  <2>2. CASE Report \/ Edit
      BY <2>2 DEF Report, Edit, OldInv, PlaceInv
  <2>3. CASE Delete
      BY <2>3 DEF Delete, OldInv, PlaceInv
  <2>4. CASE Make
    <3>1. PICK o \in Object : life' = [life EXCEPT ![o] = "live"]
        BY <2>4 DEF Make
    <3> QED
        BY <2>4, <3>1 DEF Make, OldInv, PlaceInv
  <2> QED
      BY <2>1, <2>2, <2>3, <2>4 DEF Player
<1> QED
    BY <1>1, <1>2 DEF OldInv, PlaceInv, ForgetInv, NewFrom, ResetForgets

\* The engine goes on to an object when the one before it is gone.
LEMMA EngineKeeps ==
    ASSUME Ordered, OldInv, Engine
    PROVE  OldInv'
<1> Len(Setup) \in Nat /\ DOMAIN Setup = 1 .. Len(Setup)
    BY Positions
<1> USE DEF OldInv, PlaceInv, ForgetInv, Label, ProvisionGoto
<1>1. CASE ResetBegin
    BY <1>1 DEF ResetBegin, NewFrom, ResetForgets, object
<1>2. CASE Destroy
  <2>1. old' = {}
      BY <1>2 DEF Destroy, Gone
  <2> QED
      BY <1>2, <2>1 DEF Destroy, Gone, ResetForgets
<1>3. CASE DeleteObject
  <2>1. \A o \in old : life'[o] # "none"
      BY <1>3 DEF DeleteObject
  <2>2. CASE Setup[at] \in Kept
    <3>1. NewFrom(at)
      <4> SUFFICES ASSUME NEW j \in DOMAIN Setup, j >= at, Setup[j] \notin Kept
                   PROVE  Setup[j] \notin old
          BY DEF NewFrom
      <4>1. j >= at + 1
          BY <2>2
      <4> QED
          BY <1>3, <4>1 DEF DeleteObject, NewFrom
    <3> QED
        BY <1>3, <2>1, <2>2, <3>1 DEF DeleteObject, NewFrom, ResetForgets
  <2>3. CASE Setup[at] \notin Kept
      BY <1>3, <2>1, <2>3 DEF DeleteObject, NewFrom, ResetForgets
  <2> QED
      BY <2>2, <2>3
<1>4. CASE WaitGone
  <2>1. Setup[at] \notin old
      BY <1>4 DEF WaitGone
  <2>2. at \in Nat /\ at - 1 \in Nat /\ at - 1 <= Len(Setup)
      BY <1>4 DEF WaitGone
  <2>3. NewFrom(at)
    <3> SUFFICES ASSUME NEW j \in DOMAIN Setup, j >= at, Setup[j] \notin Kept
                 PROVE  Setup[j] \notin old
        BY DEF NewFrom
    <3>1. j = at \/ j >= at + 1
        OBVIOUS
    <3> QED
        BY <1>4, <2>1, <3>1 DEF WaitGone, NewFrom
  <2> QED
      BY <1>4, <2>2, <2>3 DEF WaitGone, object, NewFrom, ResetForgets
<1>5. CASE AllDeleted
  <2>1. old \cap Workload = {}
    <3>1. NewFrom(1)
        BY <1>5 DEF AllDeleted
    <3> QED
        BY <3>1, NewFromFirst
  <2> QED
      BY <1>5, <2>1 DEF AllDeleted, object, ResetForgets
<1>6. CASE ApplyObject \/ InjectFault
  <2>1. /\ \A o \in old : life'[o] # "none"
        /\ life' \in [Object -> {"none", "live", "dying"}]
      BY <1>6 DEF ApplyObject, InjectFault
  <2> QED
      BY <1>6, <2>1 DEF ApplyObject, InjectFault, ResetForgets
<1>7. CASE AllApplied \/ AllInjected \/ GateHolds \/ Ready
    BY <1>7 DEF AllApplied, AllInjected, GateHolds, Ready, ProvisionEnd, object, ResetForgets
<1>8. CASE ProvisionFail
    BY <1>8 DEF ProvisionFail, ProvisionEnd, Gone, object, ResetForgets
<1> QED
    BY <1>1, <1>2, <1>3, <1>4, <1>5, <1>6, <1>7, <1>8 DEF Engine

-----------------------------------------------------------------------------

\* After a reset that succeeded no object of the challenge but its namespaces
\* was there before, for any manifests and whatever the player did meanwhile.
THEOREM ResetStartsAnew == Ordered => (ProvisionSpec => []ResetForgets)
<1> SUFFICES ASSUME Ordered PROVE ProvisionSpec => []ResetForgets
    OBVIOUS
<1>1. ProvisionInit => OldInv
    BY DEF ProvisionInit, OldInv, PlaceInv, ForgetInv, ResetForgets, Label
<1>2. OldInv /\ [ProvisionNext]_provisionVars => OldInv'
  <2>1. CASE UNCHANGED provisionVars
      BY <2>1 DEF provisionVars, object, player, OldInv, PlaceInv, ForgetInv, NewFrom, ResetForgets
  <2> QED
      BY <2>1, OthersKeep, EngineKeeps DEF ProvisionNext
<1>3. OldInv => ResetForgets
    BY DEF OldInv, ForgetInv
<1> QED
    BY <1>1, <1>2, <1>3, PTL DEF ProvisionSpec

-----------------------------------------------------------------------------
(* What a challenge is when its timer starts *)

\* The namespaces are declared, beside something that needs them, and the faults
\* break what is declared.
Breakable ==
    /\ Kept \subseteq Elements(Setup) /\ Workload # {}
    /\ Faulty \in Seq(Elements(Setup))
    /\ Gates \in Seq(Elements(Gates))

ObjectType ==
    /\ next \in Label /\ at \in Nat
    /\ life \in [Object -> {"none", "live", "dying"}]
    /\ spec \in [Object -> {"applied", "broken", "edited"}]
    /\ status \in [Object -> {"unknown", "up", "down"}]

AllThere == \A o \in Elements(Setup) : life[o] = "live"
BrokenTo(i) == \A j \in DOMAIN Faulty : j < i => spec[Faulty[j]] = "broken"
DownTo(i) == \A j \in DOMAIN Gates : j < i /\ Gates[j] \in Elements(Faulty) => status[Gates[j]] # "up"

\* What is deleted from position i on is gone.
GoneFrom(i) == \A j \in DOMAIN Setup : j > i /\ Setup[j] \notin Kept => life[Setup[j]] = "none"

\* What is applied below position i is there, and where anything is applied the
\* namespaces are not on their way out.
AppliedTo(i) ==
    /\ \A w \in Workload : \/ life[w] = "none"
                           \/ life[w] = "live" /\ \A k \in Kept : life[k] = "live"
    /\ \A j \in DOMAIN Setup : j < i /\ Setup[j] \notin Kept => life[Setup[j]] = "live"

\* While nobody interferes each phase leaves what the next one needs.
PhasesInv ==
    /\ next \in {"delete", "wait"} => GoneFrom(at)
    /\ next = "apply" => AppliedTo(at)
    /\ next = "fault" => AllThere /\ BrokenTo(at)
    /\ next = "gate" => AllThere /\ BrokenTo(Len(Faulty) + 1) /\ DownTo(at)
    /\ next = "idle" /\ result = "ok" =>
        AllThere /\ BrokenTo(Len(Faulty) + 1) /\ DownTo(Len(Gates) + 1)

SetInv == ObjectType /\ (~touched => PhasesInv)

\* The player touches the environment, and nothing is said about it any longer.
LEMMA PlayerTouches == ASSUME SetInv, Player PROVE SetInv'
<1>1. touched'
    BY DEF Player, Edit, Delete, Make, Move
<1>2. ObjectType'
  <2>1. UNCHANGED <<next, at>>
      BY DEF Player, Edit, Delete, Make, Move
  <2>2. CASE Edit
      BY <2>1, <2>2 DEF Edit, SetInv, ObjectType
  <2>3. CASE Delete
      BY <2>1, <2>3 DEF Delete, SetInv, ObjectType
  <2>4. CASE Make
    <3>1. PICK o \in Object : /\ life' = [life EXCEPT ![o] = "live"]
                              /\ spec' = [spec EXCEPT ![o] = "edited"]
        BY <2>4 DEF Make
    <3> QED BY <2>1, <2>4, <3>1 DEF Make, SetInv, ObjectType
  <2> QED BY <2>2, <2>3, <2>4 DEF Player
<1> QED BY <1>1, <1>2 DEF SetInv

\* What controllers report and finalizers finish takes nothing back.
LEMMA ClusterKeeps == ASSUME Ordered, Breakable, SetInv, Vanish \/ Report PROVE SetInv'
<1>0. UNCHANGED <<next, at, result, touched>>
    BY DEF Vanish, Report, player
<1>1. CASE Vanish
  <2>1. PICK o \in Object :
            /\ life[o] = "dying"
            /\ life' = [x \in Object |-> IF x = o THEN "none" ELSE life[x]]
            /\ spec' = [x \in Object |-> IF x = o THEN "applied" ELSE spec[x]]
            /\ status' = [x \in Object |-> IF x = o THEN "unknown" ELSE status[x]]
      BY <1>1 DEF Vanish, Gone
  <2>2. ObjectType'
      BY <1>0, <2>1 DEF SetInv, ObjectType
  <2>3. ASSUME ~touched PROVE PhasesInv'
    <3>1. PhasesInv
        BY <2>3 DEF SetInv
    <3>2. GoneFrom(at) => GoneFrom(at)'
      <4>1. \A j \in DOMAIN Setup : Setup[j] \in Object
          BY DEF Object, Elements
      <4> QED BY <4>1, <1>0, <2>1 DEF GoneFrom
    <3>3. AppliedTo(at) => AppliedTo(at)'
      <4> SUFFICES ASSUME AppliedTo(at) PROVE AppliedTo(at)'
          OBVIOUS
      <4>1. \A x \in Object : life[x] = "live" => life'[x] = "live"
          BY <2>1
      <4>2. \A x \in Object : life[x] = "none" => life'[x] = "none"
          BY <2>1
      <4>3. Workload \subseteq Object /\ Kept \subseteq Object /\ \A j \in DOMAIN Setup : Setup[j] \in Object
          BY DEF Breakable, Object, Workload, Elements
      <4> QED BY <1>0, <4>1, <4>2, <4>3 DEF AppliedTo
    <3>4. AllThere => AllThere' /\ o \notin Elements(Setup)
        BY <2>1 DEF AllThere, Object
    <3>5. \A i : AllThere /\ BrokenTo(i) => BrokenTo(i)'
      <4>1. \A j \in DOMAIN Faulty : Faulty[j] \in Elements(Setup) /\ Faulty[j] \in Object
          BY DEF Breakable, Object
      <4> QED BY <2>1, <3>4, <4>1 DEF BrokenTo
    <3>6. \A i : AllThere /\ DownTo(i) => DownTo(i)'
      <4>1. \A x \in Elements(Faulty) : x \in Object
          BY DEF Breakable, Object, Elements
      <4> QED BY <2>1, <4>1 DEF DownTo
    <3>7. at' = at /\ next' = next /\ result' = result
        BY <1>0
    <3> QED BY <3>1, <3>2, <3>3, <3>4, <3>5, <3>6, <3>7 DEF PhasesInv
  <2> QED BY <1>0, <2>2, <2>3 DEF SetInv
<1>2. CASE Report
  <2>1. UNCHANGED <<life, spec>>
      BY <1>2 DEF Report
  <2>2. PICK o \in Workload : status' = [status EXCEPT ![o] = IF Works(o) THEN "up" ELSE "down"]
      BY <1>2 DEF Report
  <2>3. ObjectType'
      BY <1>0, <2>1, <2>2 DEF SetInv, ObjectType
  <2>4. ASSUME NEW i, BrokenTo(Len(Faulty) + 1), DownTo(i)
        PROVE  DownTo(i)'
    <3> SUFFICES ASSUME NEW j \in DOMAIN Gates, j < i, Gates[j] \in Elements(Faulty)
                 PROVE  status'[Gates[j]] # "up"
        BY DEF DownTo
    <3>1. status[Gates[j]] # "up"
        BY <2>4 DEF DownTo
    <3>2. spec[Gates[j]] = "broken"
      <4>1. PICK n \in DOMAIN Faulty : Gates[j] = Faulty[n]
          BY DEF Elements
      <4>2. n < Len(Faulty) + 1
          BY DEF Breakable
      <4> QED BY <2>4, <4>1, <4>2 DEF BrokenTo
    <3>3. ~Works(Gates[j])
        BY <3>2 DEF Works
    <3>4. status \in [Object -> {"unknown", "up", "down"}]
        BY DEF SetInv, ObjectType
    <3> QED BY <2>2, <3>1, <3>3, <3>4
  <2>5. /\ GoneFrom(at)' <=> GoneFrom(at)
        /\ AppliedTo(at)' <=> AppliedTo(at)
        /\ AllThere' <=> AllThere
        /\ BrokenTo(at)' <=> BrokenTo(at)
        /\ BrokenTo(Len(Faulty) + 1)' <=> BrokenTo(Len(Faulty) + 1)
      BY <1>0, <2>1 DEF GoneFrom, AppliedTo, AllThere, BrokenTo
  <2>6. at' = at /\ next' = next /\ result' = result
      BY <1>0
  <2>7. PhasesInv => PhasesInv'
      BY <2>4, <2>5, <2>6 DEF PhasesInv
  <2> QED BY <1>0, <2>3, <2>7 DEF SetInv
<1> QED BY <1>1, <1>2

\* A step of the engine keeps the types.
LEMMA EngineTypes == ASSUME Ordered, PlaceInv, ObjectType, Engine PROVE ObjectType'
<1> Len(Setup) \in Nat /\ DOMAIN Setup = 1 .. Len(Setup)
    BY Positions
<1> USE DEF ObjectType, Label, ProvisionGoto
<1>1. CASE ResetBegin
    BY <1>1 DEF ResetBegin, object
<1>2. CASE Destroy
    BY <1>2 DEF Destroy, Gone
<1>3. CASE DeleteObject
    BY <1>3 DEF DeleteObject
<1>4. CASE WaitGone
  <2>1. at - 1 \in Nat
      BY <1>4 DEF WaitGone, PlaceInv
  <2> QED BY <1>4, <2>1 DEF WaitGone, object
<1>5. CASE AllDeleted \/ AllApplied \/ AllInjected \/ GateHolds \/ Ready
    BY <1>5 DEF AllDeleted, AllApplied, AllInjected, GateHolds, Ready, ProvisionEnd, object
<1>6. CASE ApplyObject
  <2>1. PICK o : /\ life' = [life EXCEPT ![o] = IF @ = "none" THEN "live" ELSE @]
                 /\ spec' = [spec EXCEPT ![o] = "applied"]
      BY <1>6 DEF ApplyObject
  <2>2. life' \in [Object -> {"none", "live", "dying"}]
      BY <2>1
  <2>3. spec' \in [Object -> {"applied", "broken", "edited"}]
      BY <2>1
  <2> QED BY <1>6, <2>2, <2>3 DEF ApplyObject
<1>7. CASE InjectFault
  <2>1. spec' \in [Object -> {"applied", "broken", "edited"}]
      BY <1>7 DEF InjectFault
  <2> QED BY <1>7, <2>1 DEF InjectFault
<1>8. CASE ProvisionFail
    BY <1>8 DEF ProvisionFail, ProvisionEnd, Gone, object
<1> QED BY <1>1, <1>2, <1>3, <1>4, <1>5, <1>6, <1>7, <1>8 DEF Engine

\* Each phase of the engine leaves what the next one needs.
LEMMA EnginePhases ==
    ASSUME Ordered, Breakable, PlaceInv, ObjectType, PhasesInv, Engine
    PROVE  PhasesInv'
<1>0. /\ Len(Setup) \in Nat /\ DOMAIN Setup = 1 .. Len(Setup)
      /\ Len(Faulty) \in Nat /\ DOMAIN Faulty = 1 .. Len(Faulty)
      /\ Len(Gates) \in Nat /\ DOMAIN Gates = 1 .. Len(Gates)
      /\ at \in Nat
      /\ \A j \in DOMAIN Setup : Setup[j] \in Object
      /\ Workload \subseteq Object /\ Kept \subseteq Object
    BY Positions DEF Breakable, ObjectType, Object, Workload, Elements
<1>1. CASE ResetBegin
  <2>1. \/ next' = "delete" /\ at' = Len(Setup)
        \/ next' = "destroy"
      BY <1>1 DEF ResetBegin, ProvisionGoto
  <2>2. next' = "delete" => GoneFrom(at)'
      BY <1>0, <2>1 DEF GoneFrom
  <2> QED BY <2>1, <2>2 DEF PhasesInv
<1>2. CASE Destroy
  <2>1. next' = "apply" /\ at' = 1 /\ \A o \in Object : life'[o] = "none"
      BY <1>2 DEF Destroy, Gone, ProvisionGoto
  <2>2. AppliedTo(at)'
      BY <1>0, <2>1 DEF AppliedTo
  <2> QED BY <2>1, <2>2 DEF PhasesInv
<1>3. CASE DeleteObject
  <2>1. GoneFrom(at)
      BY <1>3 DEF DeleteObject, PhasesInv
  <2>2. at \in DOMAIN Setup
      BY <1>0, <1>3 DEF DeleteObject, PlaceInv
  <2>3. \A j \in DOMAIN Setup : j > at /\ Setup[j] \notin Kept => life'[Setup[j]] = "none"
      BY <1>0, <1>3, <2>1 DEF DeleteObject, GoneFrom, ObjectType
  <2>4. CASE Setup[at] \in Kept
    <3>1. next' = "delete" /\ at' = at - 1
        BY <1>3, <2>4 DEF DeleteObject, ProvisionGoto
    <3>2. \A j \in DOMAIN Setup : j > at - 1 => j > at \/ j = at
        BY <1>0
    <3>3. GoneFrom(at)'
        BY <2>3, <2>4, <3>1, <3>2 DEF GoneFrom
    <3> QED BY <3>1, <3>3 DEF PhasesInv
  <2>5. CASE Setup[at] \notin Kept
    <3>1. next' = "wait" /\ at' = at
        BY <1>3, <2>5 DEF DeleteObject, ProvisionGoto
    <3>2. GoneFrom(at)'
        BY <2>3, <3>1 DEF GoneFrom
    <3> QED BY <3>1, <3>2 DEF PhasesInv
  <2> QED BY <2>4, <2>5
<1>4. CASE WaitGone
  <2>1. /\ GoneFrom(at) /\ life[Setup[at]] = "none" /\ life' = life
        /\ next' = "delete" /\ at' = at - 1
      BY <1>4 DEF WaitGone, PhasesInv, ProvisionGoto, object
  <2>2. \A j \in DOMAIN Setup : j > at - 1 => j > at \/ j = at
      BY <1>0
  <2>3. GoneFrom(at)'
      BY <2>1, <2>2 DEF GoneFrom
  <2> QED BY <2>1, <2>3 DEF PhasesInv
<1>5. CASE AllDeleted
  <2>1. /\ GoneFrom(0) /\ next' = "apply" /\ at' = 1 /\ life' = life
      BY <1>5 DEF AllDeleted, PhasesInv, ProvisionGoto, object
  <2>2. \A w \in Workload : life'[w] = "none"
    <3> SUFFICES ASSUME NEW w \in Workload PROVE life[w] = "none"
        BY <2>1
    <3>1. PICK j \in DOMAIN Setup : w = Setup[j] /\ Setup[j] \notin Kept
        BY DEF Workload, Elements
    <3>2. j > 0
        BY <1>0
    <3> QED BY <2>1, <3>1, <3>2 DEF GoneFrom
  <2>3. AppliedTo(at)'
      BY <1>0, <2>1, <2>2 DEF AppliedTo
  <2> QED BY <2>1, <2>3 DEF PhasesInv
<1>6. CASE ApplyObject
  <2> DEFINE o == Setup[at]
  <2>1. /\ AppliedTo(at) /\ at \in DOMAIN Setup \cup {0}
        /\ life[o] # "none" \/ Room(o)
        /\ life' = [life EXCEPT ![o] = IF @ = "none" THEN "live" ELSE @]
        /\ next' = "apply" /\ at' = at + 1
      BY <1>0, <1>6 DEF ApplyObject, PhasesInv, ProvisionGoto
  <2>2. \A x \in Object : x # o => life'[x] = life[x]
      BY <2>1 DEF ObjectType
  <2>3. \A x \in Object : life[x] = "live" => life'[x] = "live"
      BY <2>1 DEF ObjectType
  <2>4. o \in Workload => life'[o] = "live" /\ \A k \in Kept : life'[k] = "live"
    <3> SUFFICES ASSUME o \in Workload
                 PROVE  life'[o] = "live" /\ \A k \in Kept : life'[k] = "live"
        OBVIOUS
    <3>1. o \in Object /\ o \notin Kept
        BY <1>0 DEF Workload
    <3>2. CASE life[o] = "none"
      <4>1. \A k \in Kept : life[k] = "live"
          BY <2>1, <3>1, <3>2 DEF Room
      <4> QED BY <1>0, <2>1, <2>3, <3>1, <3>2, <4>1 DEF ObjectType
    <3>3. CASE life[o] # "none"
      <4>1. life[o] = "live" /\ \A k \in Kept : life[k] = "live"
          BY <2>1, <3>3 DEF AppliedTo
      <4> QED BY <1>0, <2>3, <3>1, <4>1
    <3> QED BY <3>2, <3>3
  <2>5. ASSUME NEW w \in Workload
        PROVE  life'[w] = "none" \/ (life'[w] = "live" /\ \A k \in Kept : life'[k] = "live")
    <3>1. CASE w = o
        BY <2>4, <3>1
    <3>2. CASE w # o
      <4>1. life'[w] = life[w]
          BY <1>0, <2>2, <3>2
      <4>2. life[w] = "none" \/ (life[w] = "live" /\ \A k \in Kept : life[k] = "live")
          BY <2>1 DEF AppliedTo
      <4> QED BY <1>0, <2>3, <4>1, <4>2
    <3> QED BY <3>1, <3>2
  <2>6. ASSUME NEW j \in DOMAIN Setup, j < at + 1, Setup[j] \notin Kept
        PROVE  life'[Setup[j]] = "live"
    <3>1. CASE j = at
      <4>1. Setup[j] \in Workload
          BY <2>6 DEF Workload, Elements
      <4> QED BY <2>4, <3>1, <4>1
    <3>2. CASE j # at
      <4>1. j < at
          BY <1>0, <2>6, <3>2
      <4> QED BY <1>0, <2>1, <2>3, <2>6, <4>1 DEF AppliedTo
    <3> QED BY <3>1, <3>2
  <2>7. AppliedTo(at)'
      BY <2>1, <2>5, <2>6 DEF AppliedTo
  <2> QED BY <2>1, <2>7 DEF PhasesInv
<1>7. CASE AllApplied
  <2>1. AppliedTo(at) /\ at > Len(Setup) /\ next' = "fault" /\ at' = 1 /\ UNCHANGED <<life, spec>>
      BY <1>7 DEF AllApplied, PhasesInv, ProvisionGoto, object
  <2>2. \A w \in Workload : life[w] = "live"
    <3> SUFFICES ASSUME NEW w \in Workload PROVE life[w] = "live"
        OBVIOUS
    <3>1. PICK j \in DOMAIN Setup : w = Setup[j] /\ Setup[j] \notin Kept
        BY DEF Workload, Elements
    <3>2. j < at
        BY <1>0, <2>1
    <3> QED BY <2>1, <3>1, <3>2 DEF AppliedTo
  <2>3. \A k \in Kept : life[k] = "live"
      BY <2>1, <2>2 DEF AppliedTo, Breakable
  <2>4. AllThere'
      BY <2>1, <2>2, <2>3 DEF AllThere, Workload
  <2>5. BrokenTo(at)'
      BY <1>0, <2>1 DEF BrokenTo
  <2> QED BY <2>1, <2>4, <2>5 DEF PhasesInv
<1>8. CASE InjectFault
  <2>1. /\ AllThere /\ BrokenTo(at) /\ life' = life /\ next' = "fault" /\ at' = at + 1
        /\ spec' = [spec EXCEPT ![Faulty[at]] = "broken"]
      BY <1>8 DEF InjectFault, PhasesInv, ProvisionGoto
  <2>2. \A j \in DOMAIN Faulty : Faulty[j] \in Object
      BY DEF Breakable, Object
  <2>3. ASSUME NEW j \in DOMAIN Faulty, j < at + 1
        PROVE  spec'[Faulty[j]] = "broken"
    <3>1. CASE j = at
        BY <2>1, <2>2, <3>1 DEF ObjectType
    <3>2. CASE j < at
        BY <2>1, <2>2, <3>2 DEF ObjectType, BrokenTo
    <3> QED BY <1>0, <2>3, <3>1, <3>2
  <2>4. BrokenTo(at)' /\ AllThere'
      BY <2>1, <2>3 DEF BrokenTo, AllThere
  <2> QED BY <2>1, <2>4 DEF PhasesInv
<1>9. CASE AllInjected
  <2>1. /\ AllThere /\ BrokenTo(at) /\ at > Len(Faulty)
        /\ next' = "gate" /\ at' = 1 /\ UNCHANGED <<life, spec, status>>
      BY <1>9 DEF AllInjected, PhasesInv, ProvisionGoto, object
  <2>2. BrokenTo(Len(Faulty) + 1)'
    <3>1. \A j \in DOMAIN Faulty : j < at
        BY <1>0, <2>1
    <3> QED BY <2>1, <3>1 DEF BrokenTo
  <2>3. DownTo(at)' /\ AllThere'
      BY <1>0, <2>1 DEF DownTo, AllThere
  <2> QED BY <2>1, <2>2, <2>3 DEF PhasesInv
<1>10. CASE GateHolds
  <2>1. /\ AllThere /\ BrokenTo(Len(Faulty) + 1) /\ DownTo(at) /\ status[Gates[at]] # "up"
        /\ next' = "gate" /\ at' = at + 1 /\ UNCHANGED <<life, spec, status>>
      BY <1>10 DEF GateHolds, PhasesInv, ProvisionGoto, object
  <2>2. ASSUME NEW j \in DOMAIN Gates, j < at + 1, Gates[j] \in Elements(Faulty)
        PROVE  status[Gates[j]] # "up"
    <3>1. CASE j = at
        BY <2>1, <3>1
    <3>2. CASE j < at
        BY <2>1, <2>2, <3>2 DEF DownTo
    <3> QED BY <1>0, <2>2, <3>1, <3>2
  <2>3. DownTo(at)' /\ AllThere' /\ BrokenTo(Len(Faulty) + 1)'
      BY <2>1, <2>2 DEF DownTo, AllThere, BrokenTo
  <2> QED BY <2>1, <2>3 DEF PhasesInv
<1>11. CASE Ready
  <2>1. /\ AllThere /\ BrokenTo(Len(Faulty) + 1) /\ DownTo(at) /\ at > Len(Gates)
        /\ next' = "idle" /\ UNCHANGED <<life, spec, status>>
      BY <1>11 DEF Ready, PhasesInv, ProvisionEnd, object
  <2>2. DownTo(Len(Gates) + 1)'
    <3>1. \A j \in DOMAIN Gates : j < at
        BY <1>0, <2>1
    <3> QED BY <2>1, <3>1 DEF DownTo
  <2>3. AllThere' /\ BrokenTo(Len(Faulty) + 1)'
      BY <2>1 DEF AllThere, BrokenTo
  <2> QED BY <2>1, <2>2, <2>3 DEF PhasesInv
<1>12. CASE ProvisionFail
    BY <1>12 DEF ProvisionFail, ProvisionEnd, ProvisionGoto, PhasesInv
<1> QED BY <1>1, <1>2, <1>3, <1>4, <1>5, <1>6, <1>7, <1>8, <1>9, <1>10, <1>11, <1>12 DEF Engine

\* After a start or a reset that succeeded, and until the player does something,
\* all that is declared is there, and what a fault breaks and a gate awaits is
\* broken and not reported available: for any manifests, faults and gates.
THEOREM SetUpIsBroken == Ordered /\ Breakable => (ProvisionSpec => []BrokenAsIntended)
<1> SUFFICES ASSUME Ordered, Breakable PROVE ProvisionSpec => []BrokenAsIntended
    OBVIOUS
<1>1. ProvisionInit => OldInv /\ SetInv
  <2>1. ProvisionInit => OldInv
      BY DEF ProvisionInit, OldInv, PlaceInv, ForgetInv, ResetForgets, Label
  <2>2. ProvisionInit => ObjectType
      BY DEF ProvisionInit, ObjectType, Label
  <2>3. ProvisionInit => PhasesInv
    <3> SUFFICES ASSUME ProvisionInit PROVE AppliedTo(at)
        BY DEF ProvisionInit, PhasesInv
    <3>1. at = 1 /\ \A o \in Object : life[o] = "none"
        BY DEF ProvisionInit
    <3>2. \A j \in DOMAIN Setup : ~(j < 1)
        BY Positions
    <3> QED BY <3>1, <3>2 DEF AppliedTo, Workload, Object
  <2> QED BY <2>1, <2>2, <2>3 DEF SetInv
<1>2. OldInv /\ SetInv /\ [ProvisionNext]_provisionVars => (OldInv /\ SetInv)'
  <2> SUFFICES ASSUME OldInv, SetInv, [ProvisionNext]_provisionVars
               PROVE  (OldInv /\ SetInv)'
      OBVIOUS
  <2>1. CASE Engine
    <3>1. ObjectType' /\ PlaceInv
        BY <2>1, EngineTypes DEF SetInv, OldInv, PlaceInv
    <3>2. PhasesInv => PhasesInv'
        BY <2>1, EnginePhases DEF SetInv, OldInv
    <3>3. (~touched /\ PhasesInv => PhasesInv') => (~touched' => PhasesInv')
      <4>1. CASE UNCHANGED touched
          BY <4>1 DEF SetInv
      <4>2. CASE ResetBegin
        <5>1. \/ next' = "delete" /\ at' = Len(Setup)
              \/ next' = "destroy"
            BY <4>2 DEF ResetBegin, ProvisionGoto
        <5>2. next' = "delete" => GoneFrom(at)'
            BY <5>1, Positions DEF GoneFrom
        <5> QED BY <5>1, <5>2 DEF PhasesInv
      <4> QED BY <2>1, <4>1, <4>2
              DEF Engine, Destroy, DeleteObject, WaitGone, AllDeleted, ApplyObject, AllApplied,
                  InjectFault, AllInjected, GateHolds, Ready, ProvisionFail, player
    <3> QED BY <2>1, <3>1, <3>2, <3>3, EngineKeeps DEF SetInv
  <2>2. CASE Vanish \/ Report
      BY <2>2, OthersKeep, ClusterKeeps
  <2>3. CASE Player
      BY <2>3, OthersKeep, PlayerTouches
  <2>4. CASE UNCHANGED provisionVars
    <3>1. OldInv'
        BY <2>4 DEF provisionVars, object, player, OldInv, PlaceInv, ForgetInv, NewFrom, ResetForgets
    <3>2. ObjectType' /\ (PhasesInv => PhasesInv') /\ touched' = touched
        BY <2>4 DEF provisionVars, object, player, SetInv, ObjectType, PhasesInv, GoneFrom,
                    AppliedTo, AllThere, BrokenTo, DownTo
    <3> QED BY <3>1, <3>2 DEF SetInv
  <2> QED BY <2>1, <2>2, <2>3, <2>4 DEF ProvisionNext
<1>3. SetInv => BrokenAsIntended
  <2> SUFFICES ASSUME SetInv, Untouched
               PROVE  /\ \A o \in Elements(Setup) : life[o] = "live"
                      /\ \A o \in Elements(Faulty) \cap Elements(Gates) :
                            spec[o] = "broken" /\ status[o] # "up"
      BY DEF BrokenAsIntended
  <2>1. AllThere /\ BrokenTo(Len(Faulty) + 1) /\ DownTo(Len(Gates) + 1)
      BY DEF Untouched, SetInv, PhasesInv
  <2>2. \A o \in Elements(Faulty) : spec[o] = "broken"
    <3>1. \A j \in DOMAIN Faulty : j < Len(Faulty) + 1
        BY DEF Breakable
    <3> QED BY <2>1, <3>1 DEF BrokenTo, Elements
  <2>3. \A o \in Elements(Faulty) \cap Elements(Gates) : status[o] # "up"
    <3>1. \A j \in DOMAIN Gates : j < Len(Gates) + 1
        BY DEF Breakable
    <3> QED BY <2>1, <3>1 DEF DownTo, Elements
  <2> QED BY <2>1, <2>2, <2>3 DEF AllThere
<1> QED BY <1>1, <1>2, <1>3, PTL DEF ProvisionSpec
=============================================================================
