--------------------------- MODULE SessionRecord ---------------------------
(***************************************************************************)
(* What a session directory promises to the code above the store: one      *)
(* record, changed by whole updates.  An update is applied in one step or  *)
(* not at all, an acknowledged one stays, and a writer that dies or fails  *)
(* leaves the record as it was.  The record is the set of updates it       *)
(* holds; SessionDir, the files and locks behind it, implements this.      *)
(***************************************************************************)
CONSTANTS
    Updaters,   \* the calls of Update, each named for the change it makes
    NoRecord    \* there is no state.json

VARIABLES
    record,     \* the updates state.json holds
    answer      \* what a call of Update has come to

vars == <<record, answer>>

Answer == {"pending", "applied", "ok", "error"}

TypeOK ==
    /\ record \in (SUBSET Updaters) \cup {NoRecord}
    /\ answer \in [Updaters -> Answer]

Init ==
    /\ record = NoRecord
    /\ answer = [u \in Updaters |-> "pending"]

Create ==
    /\ record = NoRecord
    /\ record' = {}
    /\ UNCHANGED answer

Apply(u) ==
    /\ answer[u] = "pending"
    /\ record # NoRecord
    /\ record' = record \cup {u}
    /\ answer' = [answer EXCEPT ![u] = "applied"]

\* The caller learns of it, unless it died meanwhile.
Acknowledge(u) ==
    /\ answer[u] = "applied"
    /\ answer' = [answer EXCEPT ![u] = "ok"]
    /\ UNCHANGED record

\* A process that dies takes its unfinished calls with it.
Abort(U) ==
    /\ U # {}
    /\ \A u \in U : answer[u] \in {"pending", "applied"}
    /\ answer' = [u \in Updaters |-> IF u \in U THEN "error" ELSE answer[u]]
    /\ UNCHANGED record

Next ==
    \/ Create
    \/ \E u \in Updaters : Apply(u) \/ Acknowledge(u)
    \/ \E U \in SUBSET Updaters : Abort(U)

Spec == Init /\ [][Next]_vars
=============================================================================
