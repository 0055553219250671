-------------------------- MODULE SessionDirProofs --------------------------
(***************************************************************************)
(* The session store, proved for any number of processes, goroutines and   *)
(* updates, killed at any moment.  As long as nobody removes the session,  *)
(* its Updates are serialized and none is lost.  (With a removal they are  *)
(* not: Remove unlinks the lock file, and the next Update locks another of *)
(* the same name.)  Once it is removed, no Update brings it back.          *)
(***************************************************************************)
EXTENDS SessionDir, TLAPS

\* The session is created once and not removed.
Undisturbed ==
    /\ Removers = {}
    /\ \A c, d \in Creators : c = d

\* Which calls a thread makes.
RoleInv ==
    \A t \in Thread :
        /\ pc[t] \in {"stat", "mkdir"} => t \in Creators
        /\ pc[t] \in {"mutex", "open", "flock", "load", "unlock", "append"}
             => t \in Updaters
        /\ pc[t] \in {"temp", "rename"} => t \in Creators \cup Updaters
        /\ pc[t] \in {"scan", "unlink"} => t \in Removers
        /\ pc[t] \in {"make", "config"} => t \in Makers

\* There is only ever one .lock, and whoever has it open has that one.
InodeInv ==
    /\ ".lock" \in files => inode # Nobody
    /\ \A t \in Thread : fd[t] # Nobody => fd[t] = inode /\ ".lock" \in files

\* A thread between Load and the rename holds the lock it has open.
HoldInv ==
    \A t \in Updaters :
        /\ pc[t] = "flock" => fd[t] # Nobody
        /\ InUpdate(t) => fd[t] # Nobody /\ holder[fd[t]] = t

\* What a thread is about to write is what state.json holds, and its update.
DraftInv ==
    \A t \in Updaters :
        pc[t] \in {"temp", "rename"} =>
            "state.json" \in files /\ draft[t] = content \cup {t}

\* Until Create has renamed there is no state.json.
CreateInv ==
    \A c \in Creators :
        pc[c] \in {"stat", "mkdir", "temp", "rename"} => "state.json" \notin files

\* An update that was written, acknowledged or not, is in state.json.
AckInv ==
    \A t \in Updaters :
        result[t] = "ok" \/ (pc[t] = "unlock" /\ result[t] # "error")
            => "state.json" \in files /\ t \in content

LockInv ==
    /\ TypeOK /\ RoleInv /\ InodeInv
    /\ HoldInv /\ DraftInv /\ CreateInv /\ AckInv

-----------------------------------------------------------------------------

\* Without a thread that removes, no step of Remove is taken: what is left.
LEMMA StepCases ==
    ASSUME Undisturbed, RoleInv, Next
    PROVE  \/ \E t \in Thread :
                \/ Stat(t) \/ MkdirAll(t)
                \/ LockMutex(t) \/ OpenLock(t) \/ Flock(t) \/ Load(t)
                \/ WriteTemp(t) \/ Rename(t) \/ Unlock(t) \/ AppendEvent(t)
                \/ MakeDir(t) \/ WriteKubeconfig(t)
           \/ \E p \in Process : Crash(p)
<1>1. ASSUME NEW t \in Thread PROVE ~RemoveSteps(t)
    BY DEF Undisturbed, RoleInv, RemoveSteps, ReadNames, Unlink, Rmdir
<1> QED
    BY <1>1 DEF Next, Step, CreateSteps, UpdateSteps, WriteSteps, MakeSteps

\* The names in a session directory.
LEMMA Names ==
    /\ "state.json" \in Name /\ ".lock" \in Name /\ "events.log" \in Name
    /\ "kubeconfig" \in Name
    /\ Thread \subseteq Name
BY DEF Name, Fixed

\* Every step keeps the variables in their types ...
LEMMA TypeStep ==
    ASSUME TypeOK, RoleInv, Next
    PROVE  TypeOK'
<1> USE SessionDirAssumption, Names DEF TypeOK, RoleInv
<1>1. ASSUME NEW t \in Thread, Stat(t) PROVE TypeOK'
    BY <1>1 DEF Stat, Goto, Fail, Return, Label, disk, locks
<1>2. ASSUME NEW t \in Thread, MkdirAll(t) PROVE TypeOK'
    BY <1>2 DEF MkdirAll, Goto, Label, disk, locks
<1>3. ASSUME NEW t \in Thread, LockMutex(t) PROVE TypeOK'
    BY <1>3 DEF LockMutex, Goto, Label, disk, locks
<1>4. ASSUME NEW t \in Thread, OpenLock(t) PROVE TypeOK'
    BY <1>4 DEF OpenLock, Goto, Fail, Return, Label, disk, locks
<1>5. ASSUME NEW t \in Thread, Flock(t) PROVE TypeOK'
    BY <1>5 DEF Flock, Goto, Label, disk, locks
<1>6. ASSUME NEW t \in Thread, Load(t) PROVE TypeOK'
    BY <1>6 DEF Load, Goto, Fail, Return, Label, disk, locks
<1>7. ASSUME NEW t \in Thread, WriteTemp(t) PROVE TypeOK'
    BY <1>7 DEF WriteTemp, Goto, Fail, Return, Label, disk, locks
<1>8. ASSUME NEW t \in Thread, Rename(t) PROVE TypeOK'
    BY <1>8 DEF Rename, Goto, Fail, Return, Label, disk, locks
<1>9. ASSUME NEW t \in Thread, Unlock(t) PROVE TypeOK'
    BY <1>9 DEF Unlock, Goto, Return, Label, disk, locks
<1>10. ASSUME NEW t \in Thread, AppendEvent(t) PROVE TypeOK'
    BY <1>10 DEF AppendEvent, Goto, Label, disk, locks
<1>11. ASSUME NEW t \in Thread, MakeDir(t) PROVE TypeOK'
    BY <1>11 DEF MakeDir, Goto, Label, disk, locks
<1>12. ASSUME NEW t \in Thread, WriteKubeconfig(t) PROVE TypeOK'
    BY <1>12 DEF WriteKubeconfig, Goto, Fail, Return, Label, disk, locks
<1>13. ASSUME NEW p \in Process, Crash(p) PROVE TypeOK'
    BY <1>13 DEF Crash, Label, disk, locks
<1>14. ASSUME NEW t \in Thread, ReadNames(t) PROVE TypeOK'
    BY <1>14 DEF ReadNames, Goto, Return, Label, disk, locks
<1>15. ASSUME NEW t \in Thread, Unlink(t) PROVE TypeOK'
    BY <1>15 DEF Unlink, Label, disk, locks
<1>16. ASSUME NEW t \in Thread, Rmdir(t) PROVE TypeOK'
    BY <1>16 DEF Rmdir, Return, Goto, Label, disk, locks
<1> QED
    BY <1>1, <1>2, <1>3, <1>4, <1>5, <1>6, <1>7, <1>8, <1>9, <1>10, <1>11, <1>12, <1>13,
       <1>14, <1>15, <1>16
       DEF Next, Step, CreateSteps, UpdateSteps, WriteSteps, RemoveSteps, MakeSteps

\* ... and the threads to their calls.
LEMMA RoleStep ==
    ASSUME TypeOK, RoleInv, Next
    PROVE  RoleInv'
<1> USE SessionDirAssumption DEF TypeOK, RoleInv
<1>1. ASSUME NEW t \in Thread, Stat(t) PROVE RoleInv'
    BY <1>1 DEF Stat, Goto, Fail, Return, Thread, disk, locks
<1>2. ASSUME NEW t \in Thread, MkdirAll(t) PROVE RoleInv'
    BY <1>2 DEF MkdirAll, Goto, Thread, disk, locks
<1>3. ASSUME NEW t \in Thread, LockMutex(t) PROVE RoleInv'
    BY <1>3 DEF LockMutex, Goto, Thread, disk, locks
<1>4. ASSUME NEW t \in Thread, OpenLock(t) PROVE RoleInv'
    BY <1>4 DEF OpenLock, Goto, Fail, Return, Thread, disk, locks
<1>5. ASSUME NEW t \in Thread, Flock(t) PROVE RoleInv'
    BY <1>5 DEF Flock, Goto, Thread, disk, locks
<1>6. ASSUME NEW t \in Thread, Load(t) PROVE RoleInv'
    BY <1>6 DEF Load, Goto, Fail, Return, Thread, disk, locks
<1>7. ASSUME NEW t \in Thread, WriteTemp(t) PROVE RoleInv'
    BY <1>7 DEF WriteTemp, Goto, Fail, Return, Thread, disk, locks
<1>8. ASSUME NEW t \in Thread, Rename(t) PROVE RoleInv'
    BY <1>8 DEF Rename, Goto, Fail, Return, Thread, disk, locks
<1>9. ASSUME NEW t \in Thread, Unlock(t) PROVE RoleInv'
    BY <1>9 DEF Unlock, Goto, Return, Thread, disk, locks
<1>10. ASSUME NEW t \in Thread, AppendEvent(t) PROVE RoleInv'
    BY <1>10 DEF AppendEvent, Goto, Thread, disk, locks
<1>11. ASSUME NEW t \in Thread, MakeDir(t) PROVE RoleInv'
    BY <1>11 DEF MakeDir, Goto, Thread, disk, locks
<1>12. ASSUME NEW t \in Thread, WriteKubeconfig(t) PROVE RoleInv'
    BY <1>12 DEF WriteKubeconfig, Goto, Fail, Return, Thread, disk, locks
<1>13. ASSUME NEW p \in Process, Crash(p) PROVE RoleInv'
    BY <1>13 DEF Crash, Thread, disk, locks
<1>14. ASSUME NEW t \in Thread, ReadNames(t) PROVE RoleInv'
    BY <1>14 DEF ReadNames, Goto, Return, Thread, disk, locks
<1>15. ASSUME NEW t \in Thread, Unlink(t) PROVE RoleInv'
    BY <1>15 DEF Unlink, Thread, disk, locks
<1>16. ASSUME NEW t \in Thread, Rmdir(t) PROVE RoleInv'
    BY <1>16 DEF Rmdir, Return, Goto, Thread, disk, locks
<1> QED
    BY <1>1, <1>2, <1>3, <1>4, <1>5, <1>6, <1>7, <1>8, <1>9, <1>10, <1>11, <1>12, <1>13,
       <1>14, <1>15, <1>16
       DEF Next, Step, CreateSteps, UpdateSteps, WriteSteps, RemoveSteps, MakeSteps

\* No step unlinks .lock, so the inode stays the one that is open.
LEMMA InodeStep ==
    ASSUME Undisturbed, LockInv, Next
    PROVE  InodeInv'
<1> USE SessionDirAssumption DEF LockInv, TypeOK, RoleInv, InodeInv
<1>1. ASSUME NEW t \in Thread, Stat(t) PROVE InodeInv'
    BY <1>1 DEF Stat, Goto, Fail, Return, Fixed, disk, locks
<1>2. ASSUME NEW t \in Thread, MkdirAll(t) PROVE InodeInv'
    BY <1>2 DEF MkdirAll, Goto, Fixed, disk, locks
<1>3. ASSUME NEW t \in Thread, LockMutex(t) PROVE InodeInv'
    BY <1>3 DEF LockMutex, Goto, Fixed, disk, locks
<1>4. ASSUME NEW t \in Thread, OpenLock(t) PROVE InodeInv'
    BY <1>4 DEF OpenLock, Goto, Fail, Return, Fixed, disk, locks
<1>5. ASSUME NEW t \in Thread, Flock(t) PROVE InodeInv'
    BY <1>5 DEF Flock, Goto, Fixed, disk, locks
<1>6. ASSUME NEW t \in Thread, Load(t) PROVE InodeInv'
    BY <1>6 DEF Load, Goto, Fail, Return, Fixed, disk, locks
<1>7. ASSUME NEW t \in Thread, WriteTemp(t) PROVE InodeInv'
    BY <1>7 DEF WriteTemp, Goto, Fail, Return, Fixed, disk, locks
<1>8. ASSUME NEW t \in Thread, Rename(t) PROVE InodeInv'
    BY <1>8 DEF Rename, Goto, Fail, Return, Fixed, disk, locks
<1>9. ASSUME NEW t \in Thread, Unlock(t) PROVE InodeInv'
    BY <1>9 DEF Unlock, Goto, Return, Fixed, disk, locks
<1>10. ASSUME NEW t \in Thread, AppendEvent(t) PROVE InodeInv'
    BY <1>10 DEF AppendEvent, Goto, Fixed, disk, locks
<1>11. ASSUME NEW t \in Thread, MakeDir(t) PROVE InodeInv'
    BY <1>11 DEF MakeDir, Goto, Fixed, disk, locks
<1>12. ASSUME NEW t \in Thread, WriteKubeconfig(t) PROVE InodeInv'
    BY <1>12 DEF WriteKubeconfig, Goto, Fail, Return, Fixed, disk, locks
<1>13. ASSUME NEW p \in Process, Crash(p) PROVE InodeInv'
    BY <1>13 DEF Crash, Fixed, disk, locks
<1> QED
    BY <1>1, <1>2, <1>3, <1>4, <1>5, <1>6, <1>7, <1>8, <1>9, <1>10, <1>11, <1>12, <1>13, StepCases

\* Only its holder, or its death, lets a lock go.
LEMMA HoldStep ==
    ASSUME Undisturbed, LockInv, Next
    PROVE  HoldInv'
<1> USE SessionDirAssumption DEF LockInv, TypeOK, RoleInv, HoldInv, InUpdate
<1>1. ASSUME NEW t \in Thread, Stat(t) PROVE HoldInv'
    BY <1>1 DEF Stat, Goto, Fail, Return, Thread, disk, locks
<1>2. ASSUME NEW t \in Thread, MkdirAll(t) PROVE HoldInv'
    BY <1>2 DEF MkdirAll, Goto, Thread, disk, locks
<1>3. ASSUME NEW t \in Thread, LockMutex(t) PROVE HoldInv'
    BY <1>3 DEF LockMutex, Goto, Thread, disk, locks
<1>4. ASSUME NEW t \in Thread, OpenLock(t) PROVE HoldInv'
    BY <1>4 DEF OpenLock, InodeInv, Goto, Fail, Return, Thread, disk, locks
<1>5. ASSUME NEW t \in Thread, Flock(t) PROVE HoldInv'
    BY <1>5 DEF Flock, Goto, Thread, disk, locks
<1>6. ASSUME NEW t \in Thread, Load(t) PROVE HoldInv'
    BY <1>6 DEF Load, Goto, Fail, Return, Thread, disk, locks
<1>7. ASSUME NEW t \in Thread, WriteTemp(t) PROVE HoldInv'
    BY <1>7 DEF WriteTemp, Goto, Fail, Return, Thread, disk, locks
<1>8. ASSUME NEW t \in Thread, Rename(t) PROVE HoldInv'
    BY <1>8 DEF Rename, Goto, Fail, Return, Thread, disk, locks
<1>9. ASSUME NEW t \in Thread, Unlock(t) PROVE HoldInv'
    BY <1>9 DEF Unlock, Goto, Return, Thread, disk, locks
<1>10. ASSUME NEW t \in Thread, AppendEvent(t) PROVE HoldInv'
    BY <1>10 DEF AppendEvent, Goto, Thread, disk, locks
<1>11. ASSUME NEW t \in Thread, MakeDir(t) PROVE HoldInv'
    BY <1>11 DEF MakeDir, Goto, Thread, disk, locks
<1>12. ASSUME NEW t \in Thread, WriteKubeconfig(t) PROVE HoldInv'
    BY <1>12 DEF WriteKubeconfig, Goto, Fail, Return, Thread, disk, locks
<1>13. ASSUME NEW p \in Process, Crash(p) PROVE HoldInv'
    BY <1>13 DEF Crash, Thread, disk, locks
<1> QED
    BY <1>1, <1>2, <1>3, <1>4, <1>5, <1>6, <1>7, <1>8, <1>9, <1>10, <1>11, <1>12, <1>13, StepCases

\* state.json appears with the rename of Create and no other.
LEMMA CreateStep ==
    ASSUME Undisturbed, LockInv, Next
    PROVE  CreateInv'
<1> USE SessionDirAssumption DEF LockInv, TypeOK, RoleInv, DraftInv, CreateInv
<1>1. ASSUME NEW t \in Thread, Stat(t) PROVE CreateInv'
    BY <1>1 DEF Stat, Goto, Fail, Return, Undisturbed, Thread, Fixed, disk, locks
<1>2. ASSUME NEW t \in Thread, MkdirAll(t) PROVE CreateInv'
    BY <1>2 DEF MkdirAll, Goto, Undisturbed, Thread, Fixed, disk, locks
<1>3. ASSUME NEW t \in Thread, LockMutex(t) PROVE CreateInv'
    BY <1>3 DEF LockMutex, Goto, Undisturbed, Thread, Fixed, disk, locks
<1>4. ASSUME NEW t \in Thread, OpenLock(t) PROVE CreateInv'
    BY <1>4 DEF OpenLock, Goto, Fail, Return, Undisturbed, Thread, Fixed, disk, locks
<1>5. ASSUME NEW t \in Thread, Flock(t) PROVE CreateInv'
    BY <1>5 DEF Flock, Goto, Undisturbed, Thread, Fixed, disk, locks
<1>6. ASSUME NEW t \in Thread, Load(t) PROVE CreateInv'
    BY <1>6 DEF Load, Goto, Fail, Return, Undisturbed, Thread, Fixed, disk, locks
<1>7. ASSUME NEW t \in Thread, WriteTemp(t) PROVE CreateInv'
    BY <1>7 DEF WriteTemp, Goto, Fail, Return, Undisturbed, Thread, Fixed, disk, locks
<1>8. ASSUME NEW t \in Thread, Rename(t) PROVE CreateInv'
    BY <1>8 DEF Rename, Goto, Fail, Return, Undisturbed, Thread, Fixed, disk, locks
<1>9. ASSUME NEW t \in Thread, Unlock(t) PROVE CreateInv'
    BY <1>9 DEF Unlock, Goto, Return, Undisturbed, Thread, Fixed, disk, locks
<1>10. ASSUME NEW t \in Thread, AppendEvent(t) PROVE CreateInv'
    BY <1>10 DEF AppendEvent, Goto, Undisturbed, Thread, Fixed, disk, locks
<1>11. ASSUME NEW t \in Thread, MakeDir(t) PROVE CreateInv'
    BY <1>11 DEF MakeDir, Goto, Undisturbed, Thread, Fixed, disk, locks
<1>12. ASSUME NEW t \in Thread, WriteKubeconfig(t) PROVE CreateInv'
    BY <1>12 DEF WriteKubeconfig, Goto, Fail, Return, Undisturbed, Thread, Fixed, disk, locks
<1>13. ASSUME NEW p \in Process, Crash(p) PROVE CreateInv'
    BY <1>13 DEF Crash, Undisturbed, Thread, Fixed, disk, locks
<1> QED
    BY <1>1, <1>2, <1>3, <1>4, <1>5, <1>6, <1>7, <1>8, <1>9, <1>10, <1>11, <1>12, <1>13, StepCases

\* Whoever is inside Update holds the one lock there is.
LEMMA Exclusion ==
    ASSUME LockInv
    PROVE  Serialized
BY DEF LockInv, InodeInv, HoldInv, Serialized, InUpdate

\* Nobody writes state.json between a thread's Load and its rename.
LEMMA DraftStep ==
    ASSUME Undisturbed, LockInv, Next
    PROVE  DraftInv'
<1> USE SessionDirAssumption, Exclusion DEF LockInv, TypeOK, RoleInv, DraftInv
<1>1. ASSUME NEW t \in Thread, Stat(t) PROVE DraftInv'
    BY <1>1 DEF Stat, Goto, Fail, Return, Thread, Fixed, disk, locks
<1>2. ASSUME NEW t \in Thread, MkdirAll(t) PROVE DraftInv'
    BY <1>2 DEF MkdirAll, Goto, Thread, Fixed, disk, locks
<1>3. ASSUME NEW t \in Thread, LockMutex(t) PROVE DraftInv'
    BY <1>3 DEF LockMutex, Goto, Thread, Fixed, disk, locks
<1>4. ASSUME NEW t \in Thread, OpenLock(t) PROVE DraftInv'
    BY <1>4 DEF OpenLock, Goto, Fail, Return, Thread, Fixed, disk, locks
<1>5. ASSUME NEW t \in Thread, Flock(t) PROVE DraftInv'
    BY <1>5 DEF Flock, Goto, Thread, Fixed, disk, locks
<1>6. ASSUME NEW t \in Thread, Load(t) PROVE DraftInv'
    BY <1>6 DEF Load, Goto, Fail, Return, Thread, Fixed, disk, locks
<1>7. ASSUME NEW t \in Thread, WriteTemp(t) PROVE DraftInv'
    BY <1>7 DEF WriteTemp, Goto, Fail, Return, Thread, Fixed, disk, locks
<1>8. ASSUME NEW t \in Thread, Rename(t) PROVE DraftInv'
    BY <1>8 DEF Rename, Serialized, InUpdate, CreateInv, Goto, Fail, Return, Thread, Fixed, disk, locks
<1>9. ASSUME NEW t \in Thread, Unlock(t) PROVE DraftInv'
    BY <1>9 DEF Unlock, Goto, Return, Thread, Fixed, disk, locks
<1>10. ASSUME NEW t \in Thread, AppendEvent(t) PROVE DraftInv'
    BY <1>10 DEF AppendEvent, Goto, Thread, Fixed, disk, locks
<1>11. ASSUME NEW t \in Thread, MakeDir(t) PROVE DraftInv'
    BY <1>11 DEF MakeDir, Goto, Thread, Fixed, disk, locks
<1>12. ASSUME NEW t \in Thread, WriteKubeconfig(t) PROVE DraftInv'
    BY <1>12 DEF WriteKubeconfig, Goto, Fail, Return, Thread, Fixed, disk, locks
<1>13. ASSUME NEW p \in Process, Crash(p) PROVE DraftInv'
    BY <1>13 DEF Crash, Thread, Fixed, disk, locks
<1> QED
    BY <1>1, <1>2, <1>3, <1>4, <1>5, <1>6, <1>7, <1>8, <1>9, <1>10, <1>11, <1>12, <1>13, StepCases

\* A rename only ever adds to what was acknowledged.
LEMMA AckStep ==
    ASSUME Undisturbed, LockInv, Next
    PROVE  AckInv'
<1> USE SessionDirAssumption DEF LockInv, TypeOK, RoleInv, DraftInv, AckInv
<1>1. ASSUME NEW t \in Thread, Stat(t) PROVE AckInv'
    BY <1>1 DEF Stat, Goto, Fail, Return, Thread, Fixed, disk, locks
<1>2. ASSUME NEW t \in Thread, MkdirAll(t) PROVE AckInv'
    BY <1>2 DEF MkdirAll, Goto, Thread, Fixed, disk, locks
<1>3. ASSUME NEW t \in Thread, LockMutex(t) PROVE AckInv'
    BY <1>3 DEF LockMutex, Goto, Thread, Fixed, disk, locks
<1>4. ASSUME NEW t \in Thread, OpenLock(t) PROVE AckInv'
    BY <1>4 DEF OpenLock, Goto, Fail, Return, Thread, Fixed, disk, locks
<1>5. ASSUME NEW t \in Thread, Flock(t) PROVE AckInv'
    BY <1>5 DEF Flock, Goto, Thread, Fixed, disk, locks
<1>6. ASSUME NEW t \in Thread, Load(t) PROVE AckInv'
    BY <1>6 DEF Load, Goto, Fail, Return, Thread, Fixed, disk, locks
<1>7. ASSUME NEW t \in Thread, WriteTemp(t) PROVE AckInv'
    BY <1>7 DEF WriteTemp, Goto, Fail, Return, Thread, Fixed, disk, locks
<1>8. ASSUME NEW t \in Thread, Rename(t) PROVE AckInv'
    BY <1>8 DEF Rename, CreateInv, Goto, Fail, Return, Thread, Fixed, disk, locks
<1>9. ASSUME NEW t \in Thread, Unlock(t) PROVE AckInv'
    BY <1>9 DEF Unlock, Goto, Return, Thread, Fixed, disk, locks
<1>10. ASSUME NEW t \in Thread, AppendEvent(t) PROVE AckInv'
    BY <1>10 DEF AppendEvent, Goto, Thread, Fixed, disk, locks
<1>11. ASSUME NEW t \in Thread, MakeDir(t) PROVE AckInv'
    BY <1>11 DEF MakeDir, Goto, Thread, Fixed, disk, locks
<1>12. ASSUME NEW t \in Thread, WriteKubeconfig(t) PROVE AckInv'
    BY <1>12 DEF WriteKubeconfig, Goto, Fail, Return, Thread, Fixed, disk, locks
<1>13. ASSUME NEW p \in Process, Crash(p) PROVE AckInv'
    BY <1>13 DEF Crash, Thread, Fixed, disk, locks
<1> QED
    BY <1>1, <1>2, <1>3, <1>4, <1>5, <1>6, <1>7, <1>8, <1>9, <1>10, <1>11, <1>12, <1>13, StepCases

-----------------------------------------------------------------------------

\* The lock invariant holds at first, ...
LEMMA LockInit ==
    ASSUME Init
    PROVE  LockInv
BY SessionDirAssumption
   DEF Init, LockInv, TypeOK, RoleInv, InodeInv, HoldInv, DraftInv, CreateInv,
       AckInv, InUpdate, Label, Thread

\* ... and in every behaviour.
LEMMA LockInvariant == Undisturbed => (Spec => []LockInv)
<1> SUFFICES ASSUME Undisturbed PROVE Spec => []LockInv
    OBVIOUS
<1>1. LockInv /\ [Next]_vars => LockInv'
  <2>1. CASE Next
    BY <2>1, TypeStep, RoleStep, InodeStep, HoldStep, DraftStep, CreateStep, AckStep
       DEF LockInv
  <2>2. CASE UNCHANGED vars
    BY <2>2 DEF vars, disk, locks, LockInv, TypeOK, RoleInv, InodeInv, HoldInv,
                DraftInv, CreateInv, AckInv, InUpdate
  <2> QED
    BY <2>1, <2>2
<1> QED
    BY <1>1, LockInit, PTL DEF Spec

\* The Updates of a session are serialized, in every process: the promise at
\* the head of store.go, while the session is not removed.
THEOREM UpdatesSerialized == Undisturbed => (Spec => []Serialized)
BY LockInvariant, Exclusion, PTL

\* No acknowledged update is lost, whichever processes are killed meanwhile.
THEOREM NoUpdateLost == Undisturbed => (Spec => []NoLostUpdate)
<1>1. LockInv => NoLostUpdate
    BY DEF LockInv, AckInv, NoLostUpdate
<1> QED
    BY <1>1, LockInvariant, PTL

-----------------------------------------------------------------------------
(* The refinement *)

\* What the store's call has returned fits the place its thread has reached.
ResultInv ==
    /\ \A u \in Updaters :
        /\ pc[u] \in {"mutex", "open", "flock", "load", "temp", "rename"}
             => result[u] = "none"
        /\ pc[u] = "unlock" => result[u] # "ok"
        /\ pc[u] \in {"append", "done"} => result[u] # "none"
    /\ \A c \in Creators : draft[c] = {}

\* No step puts a result where its thread has not come.
LEMMA ResultStep ==
    ASSUME Undisturbed, LockInv, ResultInv, Next
    PROVE  ResultInv'
<1> USE SessionDirAssumption DEF LockInv, TypeOK, RoleInv, ResultInv
<1>1. ASSUME NEW t \in Thread, Stat(t) PROVE ResultInv'
    BY <1>1 DEF Stat, Goto, Fail, Return, Thread, disk, locks
<1>2. ASSUME NEW t \in Thread, MkdirAll(t) PROVE ResultInv'
    BY <1>2 DEF MkdirAll, Goto, Thread, disk, locks
<1>3. ASSUME NEW t \in Thread, LockMutex(t) PROVE ResultInv'
    BY <1>3 DEF LockMutex, Goto, Thread, disk, locks
<1>4. ASSUME NEW t \in Thread, OpenLock(t) PROVE ResultInv'
    BY <1>4 DEF OpenLock, Goto, Fail, Return, Thread, disk, locks
<1>5. ASSUME NEW t \in Thread, Flock(t) PROVE ResultInv'
    BY <1>5 DEF Flock, Goto, Thread, disk, locks
<1>6. ASSUME NEW t \in Thread, Load(t) PROVE ResultInv'
    BY <1>6 DEF Load, Goto, Fail, Return, Thread, disk, locks
<1>7. ASSUME NEW t \in Thread, WriteTemp(t) PROVE ResultInv'
    BY <1>7 DEF WriteTemp, Goto, Fail, Return, Thread, disk, locks
<1>8. ASSUME NEW t \in Thread, Rename(t) PROVE ResultInv'
    BY <1>8 DEF Rename, Goto, Fail, Return, Thread, disk, locks
<1>9. ASSUME NEW t \in Thread, Unlock(t) PROVE ResultInv'
    BY <1>9 DEF Unlock, Goto, Return, Thread, disk, locks
<1>10. ASSUME NEW t \in Thread, AppendEvent(t) PROVE ResultInv'
    BY <1>10 DEF AppendEvent, Goto, Thread, disk, locks
<1>11. ASSUME NEW t \in Thread, MakeDir(t) PROVE ResultInv'
    BY <1>11 DEF MakeDir, Goto, Thread, disk, locks
<1>12. ASSUME NEW t \in Thread, WriteKubeconfig(t) PROVE ResultInv'
    BY <1>12 DEF WriteKubeconfig, Goto, Fail, Return, Thread, disk, locks
<1>13. ASSUME NEW p \in Process, Crash(p) PROVE ResultInv'
    BY <1>13 DEF Crash, Thread, disk, locks
<1> QED
    BY <1>1, <1>2, <1>3, <1>4, <1>5, <1>6, <1>7, <1>8, <1>9, <1>10, <1>11, <1>12, <1>13, StepCases

\* A step that changes neither the record nor an answer is a stutter.
LEMMA Silent ==
    ASSUME UNCHANGED RecordNow,
           \A u \in Updaters : AnswerOf(u)' = AnswerOf(u)
    PROVE  UNCHANGED Record!vars
BY DEF Record!vars, AnswerNow

\* A call that fails before its rename was pending and leaves the record alone.
LEMMA Failing ==
    ASSUME TypeOK, ResultInv, NEW t \in Updaters, Fail(t),
           pc[t] \in {"open", "load", "temp", "rename"},
           UNCHANGED RecordNow
    PROVE  Record!Next
<1>1. /\ AnswerOf(t) = "pending"
      /\ AnswerOf(t)' = "error"
      /\ \A u \in Updaters \ {t} : AnswerOf(u)' = AnswerOf(u)
    BY DEF TypeOK, ResultInv, Fail, Return, Goto, AnswerOf, Thread
<1>2. AnswerNow' = [u \in Updaters |-> IF u \in {t} THEN "error" ELSE AnswerNow[u]]
    BY <1>1 DEF AnswerNow
<1>3. \A u \in {t} : AnswerNow[u] \in {"pending", "applied"}
    BY <1>1 DEF AnswerNow
<1>4. Record!Abort({t})
    BY <1>2, <1>3 DEF Record!Abort
<1> QED
    BY <1>4 DEF Record!Next

\* Every step is a step of the record, or none.
LEMMA RefineStep ==
    ASSUME Undisturbed, LockInv, ResultInv, Next
    PROVE  [Record!Next]_Record!vars
<1> USE SessionDirAssumption DEF LockInv, Thread, disk, locks
<1> DEFINE Quiet == UNCHANGED RecordNow /\ \A u \in Updaters : AnswerOf(u)' = AnswerOf(u)
<1>0. ASSUME Quiet PROVE [Record!Next]_Record!vars
    BY <1>0, Silent
<1> HIDE DEF Quiet
<1>1. ASSUME NEW t \in Thread, Stat(t) PROVE Quiet
    BY <1>1 DEF Quiet, Stat, Goto, Fail, Return, RecordNow, AnswerOf, TypeOK, RoleInv
<1>2. ASSUME NEW t \in Thread, MkdirAll(t) PROVE Quiet
    BY <1>2 DEF Quiet, MkdirAll, Goto, RecordNow, AnswerOf, TypeOK, RoleInv
<1>3. ASSUME NEW t \in Thread, LockMutex(t) PROVE Quiet
    BY <1>3 DEF Quiet, LockMutex, Goto, RecordNow, AnswerOf, TypeOK, RoleInv
<1>4. ASSUME NEW t \in Thread, OpenLock(t) PROVE Quiet \/ Record!Next
  <2>1. UNCHANGED RecordNow
    BY <1>4 DEF OpenLock, RecordNow
  <2>2. CASE dir
    BY <1>4, <2>1, <2>2 DEF Quiet, OpenLock, Goto, AnswerOf, TypeOK, RoleInv
  <2>3. CASE ~dir
    BY <1>4, <2>1, <2>3, Failing DEF OpenLock, RoleInv
  <2> QED
    BY <2>2, <2>3
<1>5. ASSUME NEW t \in Thread, Flock(t) PROVE Quiet
    BY <1>5 DEF Quiet, Flock, Goto, RecordNow, AnswerOf, TypeOK, RoleInv
<1>6. ASSUME NEW t \in Thread, Load(t) PROVE Quiet \/ Record!Next
  <2>1. UNCHANGED RecordNow
    BY <1>6 DEF Load, RecordNow
  <2>2. CASE "state.json" \in files
    BY <1>6, <2>1, <2>2 DEF Quiet, Load, Goto, AnswerOf, TypeOK, RoleInv
  <2>3. CASE "state.json" \notin files
    BY <1>6, <2>1, <2>3, Failing DEF Load, RoleInv
  <2> QED
    BY <2>2, <2>3
<1>7. ASSUME NEW t \in Thread, WriteTemp(t) PROVE Quiet \/ Record!Next
  <2>1. UNCHANGED RecordNow
    BY <1>7 DEF WriteTemp, RecordNow, Fixed
  <2>2. CASE dir
    BY <1>7, <2>1, <2>2 DEF Quiet, WriteTemp, Goto, AnswerOf, TypeOK, RoleInv
  <2>3. CASE ~dir /\ t \in Updaters
    BY <1>7, <2>1, <2>3, Failing DEF WriteTemp
  <2>4. CASE ~dir /\ t \notin Updaters
    BY <1>7, <2>1, <2>4
       DEF Quiet, WriteTemp, Fail, Return, Goto, AnswerOf, TypeOK, RoleInv
  <2> QED
    BY <2>2, <2>3, <2>4
<1>8. ASSUME NEW t \in Thread, Rename(t) PROVE Quiet \/ Record!Next
  <2>1. CASE t \notin files /\ t \in Updaters
    BY <1>8, <2>1, Failing DEF Rename, RecordNow
  <2>2. CASE t \notin files /\ t \notin Updaters
    BY <1>8, <2>2
       DEF Quiet, Rename, Fail, Return, Goto, RecordNow, AnswerOf, TypeOK, RoleInv
  <2>3. CASE t \in files /\ t \in Updaters
    <3>1. /\ RecordNow = content
          /\ RecordNow' = content \cup {t}
          /\ RecordNow # NoRecord
      BY <1>8, <2>3 DEF Rename, RecordNow, DraftInv, TypeOK
    <3>2. /\ AnswerOf(t) = "pending"
          /\ AnswerOf(t)' = "applied"
          /\ \A u \in Updaters \ {t} : AnswerOf(u)' = AnswerOf(u)
      BY <1>8, <2>3 DEF Rename, Goto, AnswerOf, TypeOK, ResultInv
    <3>3. AnswerNow' = [AnswerNow EXCEPT ![t] = "applied"] /\ AnswerNow[t] = "pending"
      BY <2>3, <3>2 DEF AnswerNow
    <3>4. Record!Apply(t)
      BY <3>1, <3>3 DEF Record!Apply
    <3> QED
      BY <2>3, <3>4 DEF Record!Next
  <2>4. CASE t \in files /\ t \notin Updaters
    <3>1. RecordNow = NoRecord /\ RecordNow' = {}
      BY <1>8, <2>4 DEF Rename, RecordNow, CreateInv, RoleInv, ResultInv
    <3>2. \A u \in Updaters : AnswerOf(u)' = AnswerOf(u)
      BY <1>8, <2>4 DEF Rename, Return, Goto, AnswerOf, TypeOK
    <3>3. Record!Create
      BY <3>1, <3>2 DEF Record!Create, AnswerNow
    <3> QED
      BY <3>3 DEF Record!Next
  <2> QED
    BY <2>1, <2>2, <2>3, <2>4
<1>9. ASSUME NEW t \in Thread, Unlock(t) PROVE Quiet \/ Record!Next
  <2>0. t \in Updaters /\ UNCHANGED RecordNow
    BY <1>9 DEF Unlock, RoleInv, RecordNow
  <2>1. CASE result[t] = "error"
    BY <1>9, <2>0, <2>1 DEF Quiet, Unlock, Goto, AnswerOf, TypeOK
  <2>2. CASE result[t] # "error"
    <3>1. /\ AnswerOf(t) = "applied"
          /\ AnswerOf(t)' = "ok"
          /\ \A u \in Updaters \ {t} : AnswerOf(u)' = AnswerOf(u)
      BY <1>9, <2>0, <2>2 DEF Unlock, Return, Goto, AnswerOf, TypeOK, ResultInv
    <3>2. AnswerNow' = [AnswerNow EXCEPT ![t] = "ok"] /\ AnswerNow[t] = "applied"
      BY <2>0, <3>1 DEF AnswerNow
    <3>3. Record!Acknowledge(t)
      BY <2>0, <3>2 DEF Record!Acknowledge
    <3> QED
      BY <2>0, <3>3 DEF Record!Next
  <2> QED
    BY <2>1, <2>2
<1>10. ASSUME NEW t \in Thread, AppendEvent(t) PROVE Quiet
    BY <1>10
       DEF Quiet, AppendEvent, Goto, RecordNow, AnswerOf, TypeOK, RoleInv, ResultInv
<1>11. ASSUME NEW t \in Thread, MakeDir(t) PROVE Quiet
    BY <1>11 DEF Quiet, MakeDir, Goto, RecordNow, AnswerOf, TypeOK, RoleInv
<1>12. ASSUME NEW t \in Thread, WriteKubeconfig(t) PROVE Quiet
    BY <1>12
       DEF Quiet, WriteKubeconfig, Goto, Fail, Return, RecordNow, AnswerOf, TypeOK, RoleInv
<1>13. ASSUME NEW p \in Process, Crash(p) PROVE Quiet \/ Record!Next
  <2> DEFINE U == {u \in Updaters : AnswerOf(u)' # AnswerOf(u)}
  <2>1. UNCHANGED RecordNow
    BY <1>13 DEF Crash, RecordNow
  <2>2. CASE U = {}
    BY <2>1, <2>2 DEF Quiet
  <2>3. CASE U # {}
    <3>1. \A u \in U : AnswerOf(u) \in {"pending", "applied"} /\ AnswerOf(u)' = "error"
      BY <1>13 DEF Crash, AnswerOf, TypeOK, ResultInv
    <3>2. AnswerNow' = [u \in Updaters |-> IF u \in U THEN "error" ELSE AnswerNow[u]]
      BY <3>1 DEF AnswerNow
    <3>3. \A u \in U : AnswerNow[u] \in {"pending", "applied"}
      BY <3>1 DEF AnswerNow
    <3>4. Record!Abort(U)
      BY <2>1, <2>3, <3>2, <3>3 DEF Record!Abort
    <3> QED
      BY <3>4 DEF Record!Next
  <2> QED
    BY <2>2, <2>3
<1> QED
    BY <1>0, <1>1, <1>2, <1>3, <1>4, <1>5, <1>6, <1>7, <1>8, <1>9, <1>10, <1>11,
       <1>12, <1>13, StepCases

\* The files and locks implement the record: seen from outside, an Update takes
\* effect at once or not at all, whoever is killed.
THEOREM DirImplementsRecord == Undisturbed => (Spec => ImplementsRecord)
<1> SUFFICES ASSUME Undisturbed PROVE Spec => ImplementsRecord
    OBVIOUS
<1>1. Init => Record!Init /\ ResultInv
    BY SessionDirAssumption
       DEF Init, Record!Init, ResultInv, RecordNow, AnswerNow, AnswerOf, Thread
<1>2. LockInv /\ ResultInv /\ [Next]_vars => ResultInv' /\ [Record!Next]_Record!vars
  <2>1. CASE LockInv /\ ResultInv /\ Next
    BY <2>1, ResultStep, RefineStep
  <2>2. CASE ResultInv /\ UNCHANGED vars
    BY <2>2 DEF vars, disk, locks, ResultInv, Record!vars, RecordNow, AnswerNow, AnswerOf
  <2> QED
    BY <2>1, <2>2
<1> QED
    BY <1>1, <1>2, LockInvariant, PTL DEF Spec, ImplementsRecord, Record!Spec

-----------------------------------------------------------------------------
(* Removal *)

\* The session is created once and removed once, and no Provision makes its
\* directory again.
RemovedOnce ==
    /\ Makers = {}
    /\ \A r, s \in Removers : r = s
    /\ \A c, d \in Creators : c = d

Created == \A c \in Creators : pc[c] \notin {"stat", "mkdir"}
NoDrafts == \A t \in Updaters : pc[t] \notin {"temp", "rename"}

\* Nothing is in a directory that is not there; it comes with the creation and
\* goes with the removal.
DirInv ==
    /\ ~dir => files = {}
    /\ dir => Created
    /\ ~Created => NoDrafts
    /\ \A r \in Removers :
        /\ pc[r] = "unlink" => dir
        /\ result[r] = "ok" => pc[r] \in {"done", "dead"}

\* After a removal that returned without an error there is no directory any
\* more, or there was none yet and nobody removes what is made later.
RemovalInv ==
    \A r \in Removers :
        result[r] = "ok" =>
            \/ ~dir /\ Created
            \/ \A t \in Updaters : pc[t] \in {"temp", "rename"} => "state.json" \in files

RemoveInv == TypeOK /\ RoleInv /\ DirInv /\ RemovalInv

\* Every step keeps what is known of the directory ...
LEMMA DirStep ==
    ASSUME RemovedOnce, RemoveInv, Next
    PROVE  DirInv'
<1> USE SessionDirAssumption DEF RemoveInv, TypeOK, RoleInv, DirInv, Created, NoDrafts
<1>1. ASSUME NEW t \in Thread, Stat(t) PROVE DirInv'
    BY <1>1 DEF Stat, Goto, Fail, Return, Thread, disk, locks
<1>2. ASSUME NEW t \in Thread, MkdirAll(t) PROVE DirInv'
    BY <1>2 DEF MkdirAll, Goto, RemovedOnce, Thread, disk, locks
<1>3. ASSUME NEW t \in Thread, LockMutex(t) PROVE DirInv'
    BY <1>3 DEF LockMutex, Goto, Thread, disk, locks
<1>4. ASSUME NEW t \in Thread, OpenLock(t) PROVE DirInv'
    BY <1>4 DEF OpenLock, Goto, Fail, Return, Thread, disk, locks
<1>5. ASSUME NEW t \in Thread, Flock(t) PROVE DirInv'
    BY <1>5 DEF Flock, Goto, Thread, disk, locks
<1>6. ASSUME NEW t \in Thread, Load(t) PROVE DirInv'
    BY <1>6 DEF Load, Goto, Fail, Return, Thread, disk, locks
<1>7. ASSUME NEW t \in Thread, WriteTemp(t) PROVE DirInv'
    BY <1>7 DEF WriteTemp, Goto, Fail, Return, Thread, disk, locks
<1>8. ASSUME NEW t \in Thread, Rename(t) PROVE DirInv'
    BY <1>8 DEF Rename, Goto, Fail, Return, Thread, disk, locks
<1>9. ASSUME NEW t \in Thread, Unlock(t) PROVE DirInv'
    BY <1>9 DEF Unlock, Goto, Return, Thread, disk, locks
<1>10. ASSUME NEW t \in Thread, AppendEvent(t) PROVE DirInv'
    BY <1>10 DEF AppendEvent, Goto, Thread, disk, locks
<1>11. ASSUME NEW t \in Thread PROVE ~MakeDir(t) /\ ~WriteKubeconfig(t)
    BY DEF MakeDir, WriteKubeconfig, RemovedOnce
<1>12. ASSUME NEW t \in Thread, ReadNames(t) PROVE DirInv'
    BY <1>12 DEF ReadNames, Goto, Return, Thread, disk, locks
<1>13. ASSUME NEW t \in Thread, Unlink(t) PROVE DirInv'
    BY <1>13 DEF Unlink, Thread, disk, locks
<1>14. ASSUME NEW t \in Thread, Rmdir(t) PROVE DirInv'
    BY <1>14 DEF Rmdir, Return, Goto, RemovedOnce, Thread, disk, locks
<1>15. ASSUME NEW p \in Process, Crash(p) PROVE DirInv'
    BY <1>15 DEF Crash, Thread, disk, locks
<1> QED
    BY <1>1, <1>2, <1>3, <1>4, <1>5, <1>6, <1>7, <1>8, <1>9, <1>10, <1>11, <1>12, <1>13,
       <1>14, <1>15
       DEF Next, Step, CreateSteps, UpdateSteps, WriteSteps, RemoveSteps, MakeSteps

\* ... and of what a removal left.
LEMMA RemovalStep ==
    ASSUME RemovedOnce, RemoveInv, Next
    PROVE  RemovalInv'
<1> USE SessionDirAssumption DEF RemoveInv, TypeOK, RoleInv, DirInv, RemovalInv, Created, NoDrafts
<1>1. ASSUME NEW t \in Thread, Stat(t) PROVE RemovalInv'
    BY <1>1 DEF Stat, Goto, Fail, Return, Thread, Fixed, disk, locks
<1>2. ASSUME NEW t \in Thread, MkdirAll(t) PROVE RemovalInv'
    BY <1>2 DEF MkdirAll, Goto, Thread, Fixed, disk, locks
<1>3. ASSUME NEW t \in Thread, LockMutex(t) PROVE RemovalInv'
    BY <1>3 DEF LockMutex, Goto, Thread, Fixed, disk, locks
<1>4. ASSUME NEW t \in Thread, OpenLock(t) PROVE RemovalInv'
    BY <1>4 DEF OpenLock, Goto, Fail, Return, Thread, Fixed, disk, locks
<1>5. ASSUME NEW t \in Thread, Flock(t) PROVE RemovalInv'
    BY <1>5 DEF Flock, Goto, Thread, Fixed, disk, locks
<1>6. ASSUME NEW t \in Thread, Load(t) PROVE RemovalInv'
    BY <1>6 DEF Load, Goto, Fail, Return, Thread, Fixed, disk, locks
<1>7. ASSUME NEW t \in Thread, WriteTemp(t) PROVE RemovalInv'
    BY <1>7 DEF WriteTemp, Goto, Fail, Return, Thread, Fixed, disk, locks
<1>8. ASSUME NEW t \in Thread, Rename(t) PROVE RemovalInv'
    BY <1>8 DEF Rename, Goto, Fail, Return, Thread, Fixed, disk, locks
<1>9. ASSUME NEW t \in Thread, Unlock(t) PROVE RemovalInv'
    BY <1>9 DEF Unlock, Goto, Return, Thread, Fixed, disk, locks
<1>10. ASSUME NEW t \in Thread, AppendEvent(t) PROVE RemovalInv'
    BY <1>10 DEF AppendEvent, Goto, Thread, Fixed, disk, locks
<1>11. ASSUME NEW t \in Thread PROVE ~MakeDir(t) /\ ~WriteKubeconfig(t)
    BY DEF MakeDir, WriteKubeconfig, RemovedOnce
<1>12. ASSUME NEW t \in Thread, ReadNames(t) PROVE RemovalInv'
    BY <1>12 DEF ReadNames, Goto, Return, Thread, Fixed, disk, locks
<1>13. ASSUME NEW t \in Thread, Unlink(t) PROVE RemovalInv'
    BY <1>13 DEF Unlink, RemovedOnce, Thread, Fixed, disk, locks
<1>14. ASSUME NEW t \in Thread, Rmdir(t) PROVE RemovalInv'
    BY <1>14 DEF Rmdir, Return, Goto, Thread, Fixed, disk, locks
<1>15. ASSUME NEW p \in Process, Crash(p) PROVE RemovalInv'
    BY <1>15 DEF Crash, Thread, Fixed, disk, locks
<1> QED
    BY <1>1, <1>2, <1>3, <1>4, <1>5, <1>6, <1>7, <1>8, <1>9, <1>10, <1>11, <1>12, <1>13,
       <1>14, <1>15
       DEF Next, Step, CreateSteps, UpdateSteps, WriteSteps, RemoveSteps, MakeSteps

\* No Update, not even one that had loaded the record before, brings it back
\* once Remove has returned without an error: for any number of processes and
\* updates, killed at any moment.
THEOREM NeverBroughtBack == RemovedOnce => (Spec => RemovedForGood)
<1> SUFFICES ASSUME RemovedOnce PROVE Spec => RemovedForGood
    OBVIOUS
<1>1. Init => RemoveInv
    BY SessionDirAssumption
       DEF Init, RemoveInv, TypeOK, RoleInv, DirInv, RemovalInv, Created, NoDrafts, Label, Thread
<1>2. RemoveInv /\ [Next]_vars => RemoveInv'
  <2>1. CASE Next
      BY <2>1, TypeStep, RoleStep, DirStep, RemovalStep DEF RemoveInv
  <2>2. CASE UNCHANGED vars
      BY <2>2 DEF vars, disk, locks, RemoveInv, TypeOK, RoleInv, DirInv, RemovalInv, Created, NoDrafts
  <2> QED BY <2>1, <2>2
<1>3. RemoveInv /\ [Next]_vars =>
        [\A t \in Updaters, r \in Removers :
            /\ result[r] = "ok"
            /\ "state.json" \notin files
            /\ Rename(t)
            => "state.json" \notin files']_vars
    BY DEF RemoveInv, DirInv, RemovalInv, Rename
<1> QED
    BY <1>1, <1>2, <1>3, PTL DEF Spec, RemovedForGood
=============================================================================
