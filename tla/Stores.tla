------------------------------- MODULE Stores -------------------------------
(***************************************************************************)
(* The two stores that kubedrill processes share beside the sessions: the  *)
(* installed packs and the cached images.  Each has a lock of its own that *)
(* is taken for one operation and released by deferred calls; no process   *)
(* takes both.                                                             *)
(***************************************************************************)
EXTENDS PackStore, ImageCache

stores == <<vars, cacheVars>>

StoresInit == Init /\ CacheInit

StoresNext ==
    \/ Next /\ UNCHANGED cacheVars
    \/ CacheNext /\ UNCHANGED vars

StoresSpec == StoresInit /\ [][StoresNext]_stores

-----------------------------------------------------------------------------

\* The locks of the packs and of the image cache are free or held by a command
\* that is under way: nobody waits for one that failed, returned or was killed.
LocksInUse == LockHeldInUse /\ CacheLockInUse
=============================================================================
