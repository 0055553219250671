---------------------------- MODULE MCProvision ----------------------------
(* The instance of Provision for the disagreement that resets run into: the  *)
(* workload db is pending for want of an object x that is not in the         *)
(* manifests, as in fix-storageclass.                                        *)
EXTENDS Provision

Manifests == <<"ns", "web", "db">>
Patched == <<"web">>
Awaited == <<"web", "db">>
=============================================================================
