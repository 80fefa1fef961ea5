---------------------------- MODULE NodeRegistry ----------------------------
(***************************************************************************)
(* The in-memory registry of backend nodes (internal/registry): what       *)
(* SetNodes and SetNodeProbe make of its entries.  Every call runs under   *)
(* the registry's mutex and publishes a new snapshot before it returns, so *)
(* one variable is both the entries and the snapshot.                      *)
(*                                                                         *)
(* A probe target is a base URL and a pin, which stands for the other      *)
(* columns that change what a probe means (backend type, auth header,      *)
(* health path, static models).  A model list is abstracted to the target  *)
(* whose probe reported it.                                                *)
(***************************************************************************)
EXTENDS Integers, FiniteSets

CONSTANTS NodeIds, Urls, Pins, NoModels

VARIABLE entries   \* the nodes the registry knows, by id

Target == [url : Urls, pin : Pins]
Health == {"unknown", "healthy", "unhealthy"}
Entry  == [url : Urls, health : Health, models : Target \cup {NoModels}]

Unprobed(url) == [url |-> url, health |-> "unknown", models |-> NoModels]

\* Mutant: declared nodes are added and updated, none is removed.
SetNodesMerging(specs) ==
    entries' = [n \in DOMAIN specs \cup DOMAIN entries |->
                  IF n \in DOMAIN entries
                     /\ (n \in DOMAIN specs => entries[n].url = specs[n].url)
                  THEN entries[n] ELSE Unprobed(specs[n].url)]

\* Replace the set of nodes.  Runtime state carries over for a node whose base
\* URL is unchanged.
SetNodes(specs) ==
    entries' = [n \in DOMAIN specs |->
                  IF n \in DOMAIN entries /\ entries[n].url = specs[n].url
                  THEN entries[n] ELSE Unprobed(specs[n].url)]

\* Publish the probe outcomes of some nodes; a node the registry does not
\* know is ignored.
SetNodeProbe(outcomes) ==
    entries' = [n \in DOMAIN entries |->
                  IF n \in DOMAIN outcomes
                  THEN [entries[n] EXCEPT !.health = outcomes[n].health,
                                          !.models = outcomes[n].models]
                  ELSE entries[n]]

\* publishLocked puts a node in the routing map iff this holds.
Routable(n) ==
    /\ n \in DOMAIN entries
    /\ entries[n].health = "healthy"
    /\ entries[n].models # NoModels
=============================================================================
