----------------------------- MODULE Provision -----------------------------
(***************************************************************************)
(* How the engine sets a challenge up in a cluster and resets it in place. *)
(*                                                                         *)
(* provision.Apply applies the objects of the manifests one by one, then   *)
(* injects the faults, then waits for the readiness gates.  provision.Reset*)
(* deletes the objects in reverse order, waits for each to be gone and     *)
(* applies again; when that fails the engine recreates the cluster.        *)
(* Meanwhile controllers report on the objects with a delay, deleted       *)
(* objects linger until their finalizers are done, and the player works.   *)
(*                                                                         *)
(* An action is one request to the API server.  Timeouts may strike at any *)
(* round of a wait, and any request may fail.                              *)
(***************************************************************************)
EXTENDS Naturals, Sequences

CONSTANTS
    Setup,     \* the objects of the manifests, in the order of declaration
    Kept,      \* those that are Namespaces
    Faulty,    \* the objects that are patched, in the order of the faults
    Gates,     \* the objects whose unavailability a readiness gate awaits
    Other,     \* an object that is not in the manifests: the player's
    Needy,     \* the objects that work only beside that one
    MaxMoves,  \* bound: moves of the player
    MaxResets  \* bound: resets

VARIABLES
    life,     \* of each object: none, live, or dying (deleted, with finalizers)
    spec,     \* of each object: as applied, broken by the fault, or the player's
    status,   \* what its controller reported last: up, down, or nothing yet
    old,      \* history: objects that are there since before the reset
    next,     \* the request the engine makes next
    at,       \* the position in Setup, Faulty or Gates it has come to
    mode,     \* start, fast (reset in place) or hard (cluster recreated)
    result,   \* of the last start or reset
    touched,  \* history: the player did something since it began
    moves, resets

object == <<life, spec, status, old>>
player == <<touched, moves, resets>>
provisionVars == <<object, next, at, mode, result, player>>

Elements(s) == {s[i] : i \in DOMAIN s}
Object == Elements(Setup) \cup {Other}
Workload == Elements(Setup) \ Kept

ProvisionGoto(label, i) == next' = label /\ at' = i

ProvisionInit ==
    /\ life = [o \in Object |-> "none"]
    /\ spec = [o \in Object |-> "applied"]
    /\ status = [o \in Object |-> "unknown"]
    /\ old = {}
    /\ next = "apply"
    /\ at = 1
    /\ mode = "start"
    /\ result = "none"
    /\ touched = FALSE
    /\ moves = 0
    /\ resets = 0

-----------------------------------------------------------------------------
(* The cluster *)

Gone(os) ==
    /\ life' = [o \in Object |-> IF o \in os THEN "none" ELSE life[o]]
    /\ spec' = [o \in Object |-> IF o \in os THEN "applied" ELSE spec[o]]
    /\ status' = [o \in Object |-> IF o \in os THEN "unknown" ELSE status[o]]
    /\ old' = old \ os

\* The finalizers of a deleted object are done; a namespace goes after its
\* contents.
Vanish ==
    \E o \in Object :
        /\ life[o] = "dying"
        /\ o \in Kept => \A w \in Object \ Kept : life[w] = "none"
        /\ Gone({o})
        /\ UNCHANGED <<next, at, mode, result, player>>

Works(o) == spec[o] # "broken" /\ (o \in Needy => life[Other] = "live")

\* A controller reports whether the object works.
Report ==
    \E o \in Workload :
        /\ life[o] = "live"
        /\ status' = [status EXCEPT ![o] = IF Works(o) THEN "up" ELSE "down"]
        /\ status' # status
        /\ UNCHANGED <<life, spec, old, next, at, mode, result, player>>

Move ==
    /\ moves < MaxMoves
    /\ moves' = moves + 1
    /\ touched' = TRUE
    /\ UNCHANGED <<next, at, mode, result, resets>>

\* The player changes an object, deletes one, or makes one.  With a namespace
\* goes what is in it.
Edit ==
    /\ Move
    /\ \E o \in Workload :
         /\ life[o] # "none"
         /\ spec' = [spec EXCEPT ![o] = "edited"]
    /\ UNCHANGED <<life, status, old>>

Delete ==
    /\ Move
    /\ \E o \in Object :
         /\ life[o] = "live"
         /\ life' = [x \in Object |->
                IF life[x] = "live" /\ (x = o \/ o \in Kept) THEN "dying" ELSE life[x]]
    /\ UNCHANGED <<spec, status, old>>

\* Nothing can be made in a namespace that is on its way out.
Room(o) == o \in Kept \/ \A k \in Kept : life[k] = "live"

Make ==
    /\ Move
    /\ \E o \in Object \ Kept :
         /\ life[o] = "none"
         /\ Room(o)
         /\ life' = [life EXCEPT ![o] = "live"]
         /\ spec' = [spec EXCEPT ![o] = "edited"]
    /\ UNCHANGED <<status, old>>

\* The cluster of a start that failed is destroyed.
Player == (mode = "start" => result # "failed") /\ (Edit \/ Delete \/ Make)

-----------------------------------------------------------------------------
(* The engine *)

ProvisionEnd(r) ==
    /\ next' = "idle"
    /\ at' = 0
    /\ result' = r

\* A start that fails destroys its cluster; a reset in place that fails becomes
\* a hard reset; a hard reset that fails is reported.
ProvisionFail ==
    /\ next # "idle"
    /\ IF mode = "fast"
         THEN /\ ProvisionGoto("destroy", 0)
              /\ mode' = "hard"
              /\ UNCHANGED <<object, result>>
         ELSE /\ ProvisionEnd("failed")
              /\ IF mode = "start" THEN Gone(Object) ELSE UNCHANGED object
              /\ UNCHANGED mode
    /\ UNCHANGED player

\* kubedrill reset, in place or with --hard.
ResetBegin ==
    /\ next = "idle"
    /\ mode = "start" => result = "ok"
    /\ resets < MaxResets
    /\ resets' = resets + 1
    /\ touched' = FALSE
    /\ \/ /\ mode' = "fast"
          /\ ProvisionGoto("delete", Len(Setup))
          /\ old' = {o \in Object : life[o] # "none"}
          /\ UNCHANGED <<life, spec, status>>
       \/ /\ mode' = "hard"
          /\ ProvisionGoto("destroy", 0)
          /\ UNCHANGED object
    /\ result' = "none"
    /\ UNCHANGED moves

\* hardReset destroys the cluster and provisions another.
Destroy ==
    /\ next = "destroy"
    /\ Gone(Object)
    /\ ProvisionGoto("apply", 1)
    /\ UNCHANGED <<mode, result, player>>

\* deleteAndWait asks for the deletion; an object that is gone already is fine.
DeleteObject ==
    /\ next = "delete"
    /\ at > 0
    /\ LET o == Setup[at] IN
         IF o \in Kept
           THEN ProvisionGoto("delete", at - 1) /\ UNCHANGED life
           ELSE /\ life' = [life EXCEPT ![o] = IF @ = "live" THEN "dying" ELSE @]
                /\ ProvisionGoto("wait", at)
    /\ UNCHANGED <<spec, status, old, mode, result, player>>

\* Mutant: the deletion is not waited for.
WaitGoneNot ==
    /\ next = "wait"
    /\ ProvisionGoto("delete", at - 1)
    /\ UNCHANGED <<object, mode, result, player>>

\* It polls until the object is not found.
WaitGone ==
    /\ next = "wait"
    /\ life[Setup[at]] = "none"
    /\ ProvisionGoto("delete", at - 1)
    /\ UNCHANGED <<object, mode, result, player>>

AllDeleted ==
    /\ next = "delete"
    /\ at = 0
    /\ ProvisionGoto("apply", 1)
    /\ UNCHANGED <<object, mode, result, player>>

\* A server-side apply makes the object or takes the fields of the manifest over
\* from whoever set them; one that is being deleted accepts it, and goes.
ApplyObject ==
    /\ next = "apply"
    /\ at <= Len(Setup)
    /\ LET o == Setup[at] IN
         /\ life[o] # "none" \/ Room(o)
         /\ life' = [life EXCEPT ![o] = IF @ = "none" THEN "live" ELSE @]
         /\ spec' = [spec EXCEPT ![o] = "applied"]
    /\ ProvisionGoto("apply", at + 1)
    /\ UNCHANGED <<status, old, mode, result, player>>

AllApplied ==
    /\ next = "apply"
    /\ at > Len(Setup)
    /\ ProvisionGoto("fault", 1)
    /\ UNCHANGED <<object, mode, result, player>>

\* A fault patches an object that exists.
InjectFault ==
    /\ next = "fault"
    /\ at <= Len(Faulty)
    /\ life[Faulty[at]] # "none"
    /\ spec' = [spec EXCEPT ![Faulty[at]] = "broken"]
    /\ ProvisionGoto("fault", at + 1)
    /\ UNCHANGED <<life, status, old, mode, result, player>>

AllInjected ==
    /\ next = "fault"
    /\ at > Len(Faulty)
    /\ ProvisionGoto("gate", 1)
    /\ UNCHANGED <<object, mode, result, player>>

\* Mutant: the gates do not wait.
GateHoldsNot ==
    /\ next = "gate"
    /\ at <= Len(Gates)
    /\ ProvisionGoto("gate", at + 1)
    /\ UNCHANGED <<object, mode, result, player>>

\* A gate holds when its object is found and not reported available (as the
\* gates of the built-in challenges say it); each is awaited once, in order.
GateHolds ==
    /\ next = "gate"
    /\ at <= Len(Gates)
    /\ life[Gates[at]] # "none"
    /\ status[Gates[at]] # "up"
    /\ ProvisionGoto("gate", at + 1)
    /\ UNCHANGED <<object, mode, result, player>>

Ready ==
    /\ next = "gate"
    /\ at > Len(Gates)
    /\ ProvisionEnd("ok")
    /\ UNCHANGED <<object, mode, player>>

Engine ==
    \/ ResetBegin \/ Destroy \/ DeleteObject \/ WaitGone \/ AllDeleted \/ ApplyObject
    \/ AllApplied \/ InjectFault \/ AllInjected \/ GateHolds \/ Ready \/ ProvisionFail

ProvisionNext == Engine \/ Vanish \/ Report \/ Player

ProvisionSpec == ProvisionInit /\ [][ProvisionNext]_provisionVars

-----------------------------------------------------------------------------
(* Properties *)

Untouched == next = "idle" /\ result = "ok" /\ ~touched

\* "the timer never starts on a not-yet-broken environment": after a start or a
\* reset that succeeded, and until the player does something, what a fault breaks
\* is there, broken and not reported available.  (When a gate awaits each.)
BrokenAsIntended ==
    Untouched =>
        /\ \A o \in Elements(Setup) : life[o] = "live"
        /\ \A o \in Elements(Faulty) \cap Elements(Gates) :
              spec[o] = "broken" /\ status[o] # "up"

\* After a reset that succeeded no object of the challenge but its namespaces is
\* one that was there before, whatever the player did meanwhile.
ResetForgets == next = "idle" /\ result = "ok" => old \cap Workload = {}

\* "reset: challenge is broken again": nothing that a gate awaited works before
\* the player did something.
BrokenAgain ==
    Untouched => \A o \in Elements(Gates) : status[o] # "up"
=============================================================================
