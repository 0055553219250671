----------------------------- MODULE ImageCache -----------------------------
(***************************************************************************)
(* The cache of image archives, ~/.kubedrill/cache/images.                 *)
(*                                                                         *)
(* kubedrill images pull works through a list of image references.  A      *)
(* reference is looked up without the lock of the cache, and once more     *)
(* under it; docker writes the archive to a temporary file that is then    *)
(* renamed.  pathFor gives distinct references distinct names (a hash), so *)
(* a reference stands for its file.                                        *)
(***************************************************************************)
EXTENDS Naturals, FiniteSets

CONSTANTS
    Ref,         \* image references
    Puller,      \* kubedrill processes
    MaxPulls,    \* bound: how many pull commands are given
    PullFaults,  \* what can go wrong: "kill", "docker", "temp", "rename"
    NoPuller,    \* the holder of a free lock
    NoRef        \* the reference of a process that works on none

VARIABLES
    file,   \* the archive of a reference
    temp,   \* the temporary file of a process
    lock,   \* who holds the lock of the cache
    call,   \* the call a process makes next
    refs,   \* references the command still has to go through
    ref,    \* the one it works on
    given,  \* how many pull commands were given
    pulls,  \* history: how often docker pull ran for a reference
    failed  \* history: how often what it fetched did not get into the cache

pullHistory == <<pulls, failed>>
cacheVars == <<file, temp, lock, call, refs, ref, given, pullHistory>>

FileState == {"none", "part", "whole"}

CacheInit ==
    /\ file = [r \in Ref |-> "none"]
    /\ temp = [p \in Puller |-> "none"]
    /\ lock = NoPuller
    /\ call = [p \in Puller |-> "idle"]
    /\ refs = [p \in Puller |-> {}]
    /\ ref = [p \in Puller |-> NoRef]
    /\ given = 0
    /\ pulls = [r \in Ref |-> 0]
    /\ failed = [r \in Ref |-> 0]

PullGoto(p, label) == call' = [call EXCEPT ![p] = label]

Has(r) == file[r] # "none"

\* The references given, or those of a challenge directory; none is an error.
PullBegin(p) ==
    /\ call[p] = "idle"
    /\ given < MaxPulls
    /\ given' = given + 1
    /\ \E rs \in (SUBSET Ref) \ {{}} : refs' = [refs EXCEPT ![p] = rs]
    /\ PullGoto(p, "next")
    /\ UNCHANGED <<file, temp, lock, ref, pullHistory>>

\* The loop of the command and the look-up before the lock.
Check(p) ==
    /\ call[p] = "next"
    /\ \E r \in refs[p] :
         IF Has(r)
           THEN refs' = [refs EXCEPT ![p] = @ \ {r}] /\ UNCHANGED <<call, ref>>
           ELSE /\ ref' = [ref EXCEPT ![p] = r]
                /\ PullGoto(p, "lock")
                /\ UNCHANGED refs
    /\ UNCHANGED <<file, temp, lock, given, pullHistory>>

PullEnd(p) ==
    /\ call[p] = "next"
    /\ refs[p] = {}
    /\ PullGoto(p, "idle")
    /\ UNCHANGED <<file, temp, lock, refs, ref, given, pullHistory>>

\* TryLockContext polls until the lock is free; nothing cancels its context.
PullLock(p) ==
    /\ call[p] = "lock"
    /\ lock = NoPuller
    /\ lock' = p
    /\ PullGoto(p, "recheck")
    /\ UNCHANGED <<file, temp, refs, ref, given, pullHistory>>

\* Pull returns its path: the deferred unlock, then the next reference.
Pulled(p) ==
    /\ lock' = NoPuller
    /\ refs' = [refs EXCEPT ![p] = @ \ {ref[p]}]
    /\ ref' = [ref EXCEPT ![p] = NoRef]
    /\ PullGoto(p, "next")

\* Pull returns an error, which ends the command.
PullFail(p) ==
    /\ lock' = IF lock = p THEN NoPuller ELSE lock
    /\ refs' = [refs EXCEPT ![p] = {}]
    /\ ref' = [ref EXCEPT ![p] = NoRef]
    /\ PullGoto(p, "idle")

Wasted(p) == failed' = [failed EXCEPT ![ref[p]] = @ + 1]

\* Mutant: presence is only checked before the lock is taken.
RecheckDropped(p) ==
    /\ call[p] = "recheck"
    /\ PullGoto(p, "pull")
    /\ UNCHANGED <<file, temp, lock, refs, ref, given, pullHistory>>

\* Another process may have cached it while this one waited.
Recheck(p) ==
    /\ call[p] = "recheck"
    /\ IF Has(ref[p])
         THEN Pulled(p)
         ELSE PullGoto(p, "pull") /\ UNCHANGED <<lock, refs, ref>>
    /\ UNCHANGED <<file, temp, given, pullHistory>>

DockerPull(p) ==
    /\ call[p] = "pull"
    /\ pulls' = [pulls EXCEPT ![ref[p]] = @ + 1]
    /\ \/ PullGoto(p, "temp") /\ UNCHANGED <<lock, refs, ref, failed>>
       \/ "docker" \in PullFaults /\ Wasted(p) /\ PullFail(p)
    /\ UNCHANGED <<file, temp, given>>

CreateTemp(p) ==
    /\ call[p] = "temp"
    /\ \/ temp' = [temp EXCEPT ![p] = "part"]
          /\ PullGoto(p, "save")
          /\ UNCHANGED <<lock, refs, ref, failed>>
       \/ /\ "temp" \in PullFaults
          /\ Wasted(p)
          /\ PullFail(p)
          /\ UNCHANGED temp
    /\ UNCHANGED <<file, given, pulls>>

\* Mutant: docker writes to the place the cache looks at.
SaveInPlace(p) ==
    /\ call[p] = "save"
    /\ file' = [file EXCEPT ![ref[p]] = "part"]
    /\ temp' = [temp EXCEPT ![p] = "whole"]
    /\ PullGoto(p, "rename")
    /\ UNCHANGED <<lock, refs, ref, given, pullHistory>>

Save(p) ==
    /\ call[p] = "save"
    /\ \/ /\ temp' = [temp EXCEPT ![p] = "whole"]
          /\ PullGoto(p, "rename")
          /\ UNCHANGED <<lock, refs, ref, failed>>
       \/ /\ "docker" \in PullFaults
          /\ temp' = [temp EXCEPT ![p] = "none"]
          /\ Wasted(p)
          /\ PullFail(p)
    /\ UNCHANGED <<file, given, pulls>>

\* Mutant: after a failed rename the function returns without its unlock.
RenameFailsLocked(p) ==
    /\ call[p] = "rename"
    /\ temp' = [temp EXCEPT ![p] = "none"]
    /\ refs' = [refs EXCEPT ![p] = {}]
    /\ ref' = [ref EXCEPT ![p] = NoRef]
    /\ PullGoto(p, "idle")
    /\ Wasted(p)
    /\ UNCHANGED <<file, lock, given, pulls>>

Rename(p) ==
    /\ call[p] = "rename"
    /\ temp' = [temp EXCEPT ![p] = "none"]
    /\ \/ /\ file' = [file EXCEPT ![ref[p]] = temp[p]]
          /\ Pulled(p)
          /\ UNCHANGED failed
       \/ /\ "rename" \in PullFaults
          /\ Wasted(p)
          /\ PullFail(p)
          /\ UNCHANGED file
    /\ UNCHANGED <<given, pulls>>

\* A killed process loses its lock; its temporary file stays, and nobody reads
\* it again, for each has a name of its own.
PullKill(p) ==
    /\ "kill" \in PullFaults
    /\ call[p] # "idle"
    /\ PullFail(p)
    /\ temp' = [temp EXCEPT ![p] = "none"]
    /\ IF call[p] \in {"temp", "save", "rename"} THEN Wasted(p) ELSE UNCHANGED failed
    /\ UNCHANGED <<file, given, pulls>>

PullStep(p) ==
    \/ Check(p) \/ PullEnd(p) \/ PullLock(p) \/ Recheck(p) \/ DockerPull(p)
    \/ CreateTemp(p) \/ Save(p) \/ Rename(p)

CacheNext == \E p \in Puller : PullBegin(p) \/ PullStep(p) \/ PullKill(p)

CacheSpec == CacheInit /\ [][CacheNext]_cacheVars

-----------------------------------------------------------------------------
(* Properties *)

\* An archive that the cache reports is complete, also when the process that
\* wrote it was killed: concurrent invocations "can never tear the cache".
ArchivesWhole == \A r \in Ref : file[r] # "part"

\* However many processes want an image, it is fetched once, and once more for
\* each fetch that failed or was killed.
PulledOnce == \A r \in Ref : pulls[r] <= 1 + failed[r]

\* The lock of the cache is free or held by a pull that is under way, so no pull
\* polls for the lock of one that failed or was killed.
CacheLockInUse ==
    \A p \in Puller :
        lock = p <=> call[p] \in {"recheck", "pull", "temp", "save", "rename"}
=============================================================================
