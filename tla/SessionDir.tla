----------------------------- MODULE SessionDir -----------------------------
(***************************************************************************)
(* The session store, file by file: one session directory, the goroutines  *)
(* (threads) of several kubedrill processes that work on it, the in-process *)
(* mutex of each process and the file lock between processes.              *)
(*                                                                         *)
(* An action is one call to the file system or to a lock.  state.json is   *)
(* abstracted to the set of updates its writer had seen and made.  A lock  *)
(* is held on a file (inode), not on a name: .lock can be unlinked while   *)
(* it is held and made again by the next opener, so inodes are named after *)
(* the thread whose open created them.                                     *)
(***************************************************************************)
EXTENDS Naturals, FiniteSets

CONSTANTS
    Creators,   \* threads that call Create
    Updaters,   \* threads that call Update and then AppendEvent
    Removers,   \* threads that call Remove
    Makers,     \* threads of Provision: MkdirAll, then a kubeconfig
    Process,    \* kubedrill processes
    Host,       \* the process a thread runs in
    MayCrash,   \* TRUE: processes may be killed
    NoRecord,   \* of the abstract record: there is no state.json
    Nobody      \* a lock that is free, a file that does not exist

Thread == Creators \cup Updaters \cup Removers \cup Makers

\* The names in the directory; a temporary file is named by its thread.
Fixed == {"state.json", ".lock", "events.log", "kubeconfig"}
Name == Fixed \cup Thread

ASSUME SessionDirAssumption ==
    /\ Creators \cap (Updaters \cup Removers \cup Makers) = {}
    /\ Updaters \cap (Removers \cup Makers) = {}
    /\ Removers \cap Makers = {}
    /\ Host \in [Thread -> Process]
    /\ MayCrash \in BOOLEAN
    /\ Nobody \notin Thread
    /\ Thread \cap Fixed = {}
    /\ \A U \in SUBSET Updaters : U # NoRecord

VARIABLES
    dir,        \* the session directory exists
    files,      \* the names in it
    content,    \* state.json: the updates it holds
    events,     \* events.log: the updates it tells of
    inode,      \* .lock: the thread whose open created it
    holder,     \* who holds the flock of an inode
    mutex,      \* who holds the in-process mutex of the session
    pc,         \* the next call of a thread
    fd,         \* the inode of .lock a thread has open
    draft,      \* the record a thread has loaded, and will write
    scan,       \* RemoveAll: names still to unlink
    result      \* what the thread's call of the store returned

disk == <<dir, files, content, events>>
locks == <<inode, holder, mutex>>
vars == <<disk, locks, pc, fd, draft, scan, result>>

Label == {"stat", "mkdir", "mutex", "open", "flock", "load", "temp", "rename",
          "unlock", "append", "scan", "unlink", "rmdir", "make", "config",
          "done", "dead"}

TypeOK ==
    /\ dir \in BOOLEAN
    /\ files \subseteq Name
    /\ content \subseteq Updaters
    /\ events \subseteq Updaters
    /\ inode \in Thread \cup {Nobody}
    /\ holder \in [Thread -> Thread \cup {Nobody}]
    /\ mutex \in [Process -> Thread \cup {Nobody}]
    /\ pc \in [Thread -> Label]
    /\ fd \in [Thread -> Thread \cup {Nobody}]
    /\ draft \in [Thread -> SUBSET Updaters]
    /\ scan \in [Thread -> SUBSET Name]
    /\ result \in [Thread -> {"none", "ok", "error"}]

Init ==
    /\ dir = FALSE
    /\ files = {}
    /\ content = {}
    /\ events = {}
    /\ inode = Nobody
    /\ holder = [t \in Thread |-> Nobody]
    /\ mutex = [p \in Process |-> Nobody]
    /\ pc = [t \in Thread |-> CASE t \in Creators -> "stat"
                                [] t \in Updaters -> "mutex"
                                [] t \in Removers -> "scan"
                                [] OTHER -> "make"]
    /\ fd = [t \in Thread |-> Nobody]
    /\ draft = [t \in Thread |-> {}]
    /\ scan = [t \in Thread |-> {}]
    /\ result = [t \in Thread |-> "none"]

-----------------------------------------------------------------------------

Goto(t, label) == pc' = [pc EXCEPT ![t] = label]

\* The store's call returns ...
Return(t, r, label) ==
    /\ result' = [result EXCEPT ![t] = r]
    /\ Goto(t, label)

\* ... or a step of it failed.  Update still has its deferred unlocks to run.
Fail(t) ==
    Return(t, "error", IF t \in Updaters THEN "unlock" ELSE "done")

-----------------------------------------------------------------------------
(* Create: no lock is taken *)

Stat(t) ==
    /\ pc[t] = "stat"
    /\ IF dir THEN Fail(t) ELSE Goto(t, "mkdir") /\ UNCHANGED result
    /\ UNCHANGED <<disk, locks, fd, draft, scan>>

MkdirAll(t) ==
    /\ pc[t] = "mkdir"
    /\ dir' = TRUE
    /\ Goto(t, "temp")
    /\ UNCHANGED <<files, content, events, locks, fd, draft, scan, result>>

-----------------------------------------------------------------------------
(* Update: mutex, flock, Load, mutate, writeState, unlocks *)

LockMutex(t) ==
    /\ pc[t] = "mutex"
    /\ mutex[Host[t]] = Nobody
    /\ mutex' = [mutex EXCEPT ![Host[t]] = t]
    /\ Goto(t, "open")
    /\ UNCHANGED <<disk, inode, holder, fd, draft, scan, result>>

\* flock.Lock opens .lock, creating it if need be, ...
OpenLock(t) ==
    /\ pc[t] = "open"
    /\ IF dir
         THEN /\ inode' = IF ".lock" \in files THEN inode ELSE t
              /\ fd' = [fd EXCEPT ![t] = inode']
              /\ files' = files \cup {".lock"}
              /\ Goto(t, "flock")
              /\ UNCHANGED result
         ELSE Fail(t) /\ UNCHANGED <<inode, fd, files>>
    /\ UNCHANGED <<dir, content, events, holder, mutex, draft, scan>>

\* Mutant: the lock is only tried, and its failure goes unnoticed.
FlockTried(t) ==
    /\ pc[t] = "flock"
    /\ holder' = [holder EXCEPT ![fd[t]] = IF @ = Nobody THEN t ELSE @]
    /\ Goto(t, "load")
    /\ UNCHANGED <<disk, inode, mutex, fd, draft, scan, result>>

\* ... and waits for the lock of the file it has open.
Flock(t) ==
    /\ pc[t] = "flock"
    /\ holder[fd[t]] = Nobody
    /\ holder' = [holder EXCEPT ![fd[t]] = t]
    /\ Goto(t, "load")
    /\ UNCHANGED <<disk, inode, mutex, fd, draft, scan, result>>

\* Load reads state.json, the caller's mutation adds to what it read.
Load(t) ==
    /\ pc[t] = "load"
    /\ IF "state.json" \in files
         THEN /\ draft' = [draft EXCEPT ![t] = content \cup {t}]
              /\ Goto(t, "temp")
              /\ UNCHANGED result
         ELSE Fail(t) /\ UNCHANGED draft
    /\ UNCHANGED <<disk, locks, fd, scan>>

\* Mutants: state.json truncated and written in place, ...
WriteTempInPlace(t) ==
    /\ pc[t] = "temp"
    /\ IF dir
         THEN /\ files' = files \cup {t, "state.json"}
              /\ content' = {}
              /\ Goto(t, "rename")
              /\ UNCHANGED result
         ELSE Fail(t) /\ UNCHANGED <<files, content>>
    /\ UNCHANGED <<dir, events, locks, fd, draft, scan>>

\* ... and a writer that makes sure of its directory.
WriteTempMkdir(t) ==
    /\ pc[t] = "temp"
    /\ dir' = TRUE
    /\ files' = files \cup {t}
    /\ Goto(t, "rename")
    /\ UNCHANGED <<content, events, locks, fd, draft, scan, result>>

\* writeState: a temporary file of its own in the same directory ...
WriteTemp(t) ==
    /\ pc[t] = "temp"
    /\ IF dir
         THEN files' = files \cup {t} /\ Goto(t, "rename") /\ UNCHANGED result
         ELSE Fail(t) /\ UNCHANGED files
    /\ UNCHANGED <<dir, content, events, locks, fd, draft, scan>>

\* ... then the rename, which fails when the file has been unlinked.
Rename(t) ==
    /\ pc[t] = "rename"
    /\ IF t \in files
         THEN /\ files' = (files \ {t}) \cup {"state.json"}
              /\ content' = draft[t]
              /\ IF t \in Updaters
                   THEN Goto(t, "unlock") /\ UNCHANGED result
                   ELSE Return(t, "ok", "done")
         ELSE Fail(t) /\ UNCHANGED <<files, content>>
    /\ UNCHANGED <<dir, events, locks, fd, draft, scan>>

\* The deferred unlocks; then Update returns.
Unlock(t) ==
    /\ pc[t] = "unlock"
    /\ holder' = [i \in Thread |-> IF holder[i] = t THEN Nobody ELSE holder[i]]
    /\ mutex' = [mutex EXCEPT ![Host[t]] = Nobody]
    /\ fd' = [fd EXCEPT ![t] = Nobody]
    /\ IF result[t] = "error"
         THEN Goto(t, "done") /\ UNCHANGED result
         ELSE Return(t, "ok", "append")
    /\ UNCHANGED <<disk, inode, draft, scan>>

\* AppendEvent: under the mutex only; the engine ignores its error.
AppendEvent(t) ==
    /\ pc[t] = "append"
    /\ mutex[Host[t]] = Nobody
    /\ IF dir
         THEN /\ files' = files \cup {"events.log"}
              /\ events' = events \cup {t}
         ELSE UNCHANGED <<files, events>>
    /\ Goto(t, "done")
    /\ UNCHANGED <<dir, content, locks, fd, draft, scan, result>>

-----------------------------------------------------------------------------
(* Remove: os.RemoveAll reads the names once, unlinks each, then rmdir; no   *)
(* lock is taken                                                             *)

ReadNames(t) ==
    /\ pc[t] = "scan"
    /\ IF dir
         THEN /\ scan' = [scan EXCEPT ![t] = files]
              /\ Goto(t, "unlink")
              /\ UNCHANGED result
         ELSE Return(t, "ok", "done") /\ UNCHANGED scan
    /\ UNCHANGED <<disk, locks, fd, draft>>

Unlink(t) ==
    /\ pc[t] = "unlink"
    /\ \E n \in scan[t] :
         /\ scan' = [scan EXCEPT ![t] = @ \ {n}]
         /\ files' = files \ {n}
         /\ content' = IF n = "state.json" THEN {} ELSE content
         /\ events' = IF n = "events.log" THEN {} ELSE events
    /\ UNCHANGED <<dir, locks, pc, fd, draft, result>>

\* A name that appeared after the scan makes rmdir fail.
Rmdir(t) ==
    /\ pc[t] = "unlink"
    /\ scan[t] = {}
    /\ IF files = {}
         THEN dir' = FALSE /\ Return(t, "ok", "done")
         ELSE Return(t, "error", "done") /\ UNCHANGED dir
    /\ UNCHANGED <<files, content, events, locks, fd, draft, scan>>

-----------------------------------------------------------------------------
(* Provision, as the store sees it *)

MakeDir(t) ==
    /\ pc[t] = "make"
    /\ dir' = TRUE
    /\ Goto(t, "config")
    /\ UNCHANGED <<files, content, events, locks, fd, draft, scan, result>>

WriteKubeconfig(t) ==
    /\ pc[t] = "config"
    /\ IF dir
         THEN files' = files \cup {"kubeconfig"} /\ Return(t, "ok", "done")
         ELSE Fail(t) /\ UNCHANGED files
    /\ UNCHANGED <<dir, content, events, locks, fd, draft, scan>>

-----------------------------------------------------------------------------

\* Mutant: the lock is a file that outlives its process.
CrashKeepsLock(p) ==
    LET killed == {t \in Thread : Host[t] = p /\ pc[t] \notin {"done", "dead"}}
    IN  /\ MayCrash
        /\ killed # {}
        /\ pc' = [t \in Thread |-> IF t \in killed THEN "dead" ELSE pc[t]]
        /\ mutex' = [mutex EXCEPT ![p] = Nobody]
        /\ UNCHANGED <<disk, inode, holder, fd, draft, scan, result>>

\* A process is killed: its mutexes are gone with it, the kernel drops its
\* flocks, its temporary files stay.
Crash(p) ==
    LET killed == {t \in Thread : Host[t] = p /\ pc[t] \notin {"done", "dead"}}
    IN  /\ MayCrash
        /\ killed # {}
        /\ pc' = [t \in Thread |-> IF t \in killed THEN "dead" ELSE pc[t]]
        /\ holder' = [i \in Thread |->
                        IF holder[i] \in killed THEN Nobody ELSE holder[i]]
        /\ mutex' = [mutex EXCEPT ![p] = Nobody]
        /\ UNCHANGED <<disk, inode, fd, draft, scan, result>>

CreateSteps(t) == Stat(t) \/ MkdirAll(t)

UpdateSteps(t) ==
    \/ LockMutex(t) \/ OpenLock(t) \/ Flock(t) \/ Load(t)
    \/ Unlock(t) \/ AppendEvent(t)

WriteSteps(t) == WriteTemp(t) \/ Rename(t)

RemoveSteps(t) == ReadNames(t) \/ Unlink(t) \/ Rmdir(t)

MakeSteps(t) == MakeDir(t) \/ WriteKubeconfig(t)

Step(t) ==
    \/ CreateSteps(t) \/ UpdateSteps(t) \/ WriteSteps(t)
    \/ RemoveSteps(t) \/ MakeSteps(t)

Next == (\E t \in Thread : Step(t)) \/ (\E p \in Process : Crash(p))

Spec == Init /\ [][Next]_vars

\* A thread that can go on does; nobody has to be killed.  Weak fairness is
\* enough because each thread takes the locks a bounded number of times.
FairSpec == Spec /\ \A t \in Thread : WF_vars(Step(t))

-----------------------------------------------------------------------------
(* Properties *)

InUpdate(t) == t \in Updaters /\ pc[t] \in {"load", "temp", "rename"}

\* The head of store.go: the file lock "serializes separate kubedrill
\* processes".  Between Load and the rename of one Update no other Update of
\* the session is between its own.  Nobody removes the session: Remove takes
\* no lock and unlinks the lock file, and the next Update locks another one.
Serialized == \A t, u \in Thread : InUpdate(t) /\ InUpdate(u) => t = u

\* An update that was acknowledged is in state.json for good: no Update of
\* any process overwrites it with a record loaded before.  Nobody removes the
\* session and no other creation is under way.
NoLostUpdate ==
    \A t \in Updaters : result[t] = "ok" => "state.json" \in files /\ t \in content

\* Once Remove has returned without an error no Update brings the record back,
\* not even one that had loaded it before: its rename needs the directory.
\* For one removal, and nobody who makes the directory again meanwhile.
RemovedForGood ==
    [][\A t \in Updaters, r \in Removers :
         /\ result[r] = "ok"
         /\ "state.json" \notin files
         /\ Rename(t)
         => "state.json" \notin files']_vars

\* Every Update comes to an end, whoever else dies or removes the session.
UpdateEnds ==
    \A t \in Updaters : pc[t] = "open" ~> pc[t] \in {"done", "dead"}

\* The record and the answers the files and the calls stand for.
RecordNow == IF "state.json" \in files THEN content ELSE NoRecord

AnswerOf(u) ==
    IF result[u] # "none" THEN result[u]
    ELSE IF pc[u] = "dead" THEN "error"
    ELSE IF pc[u] = "unlock" THEN "applied" ELSE "pending"

AnswerNow == [u \in Updaters |-> AnswerOf(u)]

Record == INSTANCE SessionRecord WITH record <- RecordNow, answer <- AnswerNow

\* The directory implements the record that is changed by whole updates: each
\* call of Update takes effect at its rename or not at all.
ImplementsRecord == Record!Spec
=============================================================================
