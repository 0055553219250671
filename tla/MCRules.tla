------------------------------- MODULE MCRules -------------------------------
(* Instances of Rules for TLC. *)
EXTENDS Rules

Kinds == {"ConfigMap", "Deployment", "Secret"}
ServedAs ==
    [k \in Kinds |-> CASE k = "ConfigMap"  -> [group |-> "", plural |-> "configmaps"]
                      [] k = "Deployment" -> [group |-> "apps", plural |-> "deployments"]
                      [] k = "Secret"     -> [group |-> "", plural |-> "secrets"]]
NaivePlural ==
    [k \in Kinds |-> CASE k = "ConfigMap"  -> "configmaps"
                      [] k = "Deployment" -> "deployments"
                      [] k = "Secret"     -> "secrets"]
InTable == {"ConfigMap", "Deployment"}

rule(type, kind, name, operations, fields, enforce) ==
    [type |-> type, kind |-> kind, name |-> name, operations |-> operations,
     fields |-> fields, enforce |-> enforce]

\* The policies of the first and the last rule have the same name.
FourRules ==
    <<rule("protect", "ConfigMap", "a", {}, FALSE, TRUE),
      rule("deny", "Deployment", "", {"delete", "patch"}, FALSE, TRUE),
      rule("require", "Deployment", "a", {}, TRUE, FALSE),
      rule("deny", "Secret", "", {}, FALSE, TRUE)>>
PolicyNames == <<"one", "two", "three", "one">>

Actors ==
    {[user |-> u, as |-> Nobody] : u \in {"engine", "controller", "player", "account"}} \cup
    {[user |-> "player", as |-> u] : u \in {"engine", "controller"}}

ask(verb, operation, kind, name, fields) ==
    [verb |-> verb, operation |-> operation, kind |-> kind, sub |-> FALSE,
     name |-> name, fields |-> fields]

\* A scale of a deployment, and a server-side apply that creates one.
Scale == [ask("patch", "UPDATE", "Deployment", "a", TRUE) EXCEPT !.sub = TRUE]
ApplyNew == ask("patch", "CREATE", "Deployment", "a", TRUE)

Requests ==
    {ask("delete", "DELETE", "ConfigMap", "a", FALSE),
     ask("delete", "DELETE", "ConfigMap", "b", FALSE),
     ask("deletecollection", "DELETE", "Deployment", "", FALSE),
     ask("delete", "DELETE", "Deployment", "a", FALSE),
     ask("update", "UPDATE", "Deployment", "a", TRUE),
     ask("patch", "UPDATE", "Deployment", "a", FALSE), Scale, ApplyNew,
     ask("get", "NONE", "Deployment", "a", FALSE),
     ask("get", "NONE", "Secret", "a", FALSE),
     ask("create", "CREATE", "Secret", "a", FALSE)}
=============================================================================
