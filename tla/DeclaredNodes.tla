--------------------------- MODULE DeclaredNodes ----------------------------
(***************************************************************************)
(* The nodes table as startup sees it (internal/nodesource): nodes that    *)
(* NODES_FILE and OLLAMA_URL declare are merged into it by name, nodes     *)
(* that the admin API created are left alone.                              *)
(*                                                                         *)
(* A row remembers who owns it (the source column) and who wrote its other *)
(* columns last, which is what can go wrong about their values.            *)
(***************************************************************************)
EXTENDS Integers, FiniteSets, Sequences

CONSTANT Names   \* node names; the name is unique in the table

VARIABLE nodes   \* the nodes table, by name

Node == [source : {"api", "config"}, enabled : BOOLEAN,
         writer : {"api", "config"}]

Put(table, n, row) == [m \in DOMAIN table \cup {n} |->
                         IF m = n THEN row ELSE table[m]]

\* The collision pass: a declared name that an API node has.
Collides(file, listed) ==
    \E n \in file \cap DOMAIN listed : listed[n].source # "config"

\* A declared node that was not listed is created, and the unique name fails
\* the sync if someone else created it meanwhile; one that was listed is
\* updated by its id, which enables it and never changes its source.
MergePossible(n, listed) == n \in DOMAIN listed \/ n \notin DOMAIN nodes
Merge(n, listed) ==
    nodes' = IF n \in DOMAIN listed
             THEN [nodes EXCEPT ![n].enabled = TRUE, ![n].writer = "config"]
             ELSE Put(nodes, n, [source |-> "config", enabled |-> TRUE,
                                 writer |-> "config"])

\* Mutant: nodes that are no longer declared stay.
Keep(file, listed) == {}

\* Config nodes that were enabled when listed and are not declared any more.
Undeclared(file, listed) ==
    {n \in DOMAIN listed \ file : listed[n].source = "config" /\ listed[n].enabled}

DisableNode(n) == nodes' = [nodes EXCEPT ![n].enabled = FALSE]

\* POST /api/admin/nodes.
CreateApiNode(n) ==
    /\ n \notin DOMAIN nodes
    /\ nodes' = Put(nodes, n, [source |-> "api", enabled |-> TRUE,
                               writer |-> "api"])

\* PUT of an API node may rename it or enable it, DELETE disables it; a config
\* node answers 409.
UpdateApiNode(n, name, enabled) ==
    /\ n \in DOMAIN nodes /\ nodes[n].source = "api"
    /\ name = n \/ name \notin DOMAIN nodes
    /\ LET row == [source |-> "api", enabled |-> enabled, writer |-> "api"]
       IN  nodes' = Put([m \in DOMAIN nodes \ {n} |-> nodes[m]], name, row)

EnabledConfig == {n \in DOMAIN nodes : nodes[n].source = "config" /\ nodes[n].enabled}
=============================================================================
