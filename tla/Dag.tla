-------------------------------- MODULE Dag ---------------------------------
(***************************************************************************)
(* pkg/foundation/dag: nodes run layer by layer in the order of Kahn's     *)
(* algorithm, the nodes of a layer in parallel under a semaphore.  The     *)
(* graph is any graph over 1..NNodes, cycles and self-references included. *)
(***************************************************************************)
EXTENDS Naturals, FiniteSets

CONSTANTS
    NNodes,
    MaxParallel  \* d.maxParallel; 0 means no limit

VARIABLES
    dependsOn,  \* dependsOn[n]: DependsOn of node n
    failFast,   \* d.strategy = FailFast
    level,      \* the layer Run is in, 0 before the first
    node,       \* node[n]: "none", "running", "ok" or "err"
    outcome,    \* what Run returned, or "running"
    dagCtx      \* whether ctx is done

vars == <<dependsOn, failFast, level, node, outcome, dagCtx>>

Nodes == 1..NNodes

TypeOK ==
    /\ dependsOn \in [Nodes -> SUBSET Nodes] /\ level \in 0..NNodes
    /\ node \in [Nodes -> {"none", "running", "ok", "err"}]
    /\ outcome \in {"running", "nil", "error", "cancelled", "cycle"}
    /\ failFast \in BOOLEAN /\ dagCtx \in BOOLEAN

Init ==
    /\ dependsOn \in [Nodes -> SUBSET Nodes]
    /\ failFast \in BOOLEAN
    /\ level = 0
    /\ node = [n \in Nodes |-> "none"]
    /\ outcome = "running"
    /\ dagCtx = FALSE

\* topoSort: layer after layer, the in-degree of a node is reduced by its
\* dependencies in the layer before, and it follows when that makes it 0.
TopoSort(deps) ==
    LET kahn[l \in Nodes] ==
        IF l = 1
        THEN [layer |-> {n \in Nodes : deps[n] = {}},
              inDegree |-> [n \in Nodes |-> Cardinality(deps[n])]]
        ELSE LET prev == kahn[l - 1]
                 left == [n \in Nodes |->
                             prev.inDegree[n] - Cardinality(deps[n] \cap prev.layer)]
             IN  [layer |-> {n \in Nodes : prev.inDegree[n] > 0 /\ left[n] = 0}, inDegree |-> left]
    IN  [l \in Nodes |-> kahn[l].layer]

Layers == TopoSort(dependsOn)
Layer == IF level = 0 THEN {} ELSE Layers[level]
Sorted == UNION {Layers[l] : l \in Nodes} = Nodes
Running == {n \in Nodes : node[n] = "running"}

\* Run: refuse a graph whose layers do not hold all nodes.
Sort ==
    /\ outcome = "running" /\ level = 0
    /\ ~Sorted
    /\ outcome' = "cycle"
    /\ UNCHANGED <<dependsOn, failFast, level, node, dagCtx>>

\* Between two layers: return on a failure, at the end or when ctx is done.
NextLayer ==
    LET failed == \E n \in Nodes : node[n] = "err"
        last == level = NNodes \/ Layers[level + 1] = {}
    IN
    /\ outcome = "running" /\ Sorted
    /\ \A n \in Layer : node[n] \in {"ok", "err"}
    /\ IF (failFast /\ failed) \/ last \/ dagCtx
       THEN /\ outcome' = IF (failFast /\ failed) \/ (last /\ failed) THEN "error"
                          ELSE IF last THEN "nil" ELSE "cancelled"
            /\ UNCHANGED level
       ELSE level' = level + 1 /\ UNCHANGED outcome
    /\ UNCHANGED <<dependsOn, failFast, node, dagCtx>>

\* runLayer: launch the nodes of the layer one after the other, each once it has
\* a place.  In which order topoSort has listed them is left open.
Launch(n) ==
    /\ outcome = "running" /\ n \in Layer /\ node[n] = "none"
    /\ MaxParallel = 0 \/ Cardinality(Running) < MaxParallel
    /\ node' = [node EXCEPT ![n] = "running"]
    /\ UNCHANGED <<dependsOn, failFast, level, outcome, dagCtx>>
\* execNode: a panic is an error.
Exec(n, r) ==
    /\ node[n] = "running"
    /\ node' = [node EXCEPT ![n] = r]
    /\ UNCHANGED <<dependsOn, failFast, level, outcome, dagCtx>>

CtxDone ==
    /\ ~dagCtx /\ outcome = "running"
    /\ dagCtx' = TRUE
    /\ UNCHANGED <<dependsOn, failFast, level, node, outcome>>

Execs(n) == Exec(n, "ok") \/ Exec(n, "err")
Run == Sort \/ NextLayer \/ \E n \in Nodes : Launch(n)

Next == Run \/ CtxDone \/ \E n \in Nodes : Execs(n)

\* Run and the nodes it launched run on.
Fairness == WF_vars(Run) /\ \A n \in Nodes : WF_vars(Execs(n))

Spec == Init /\ [][Next]_vars /\ Fairness

-----------------------------------------------------------------------------
(* Properties *)

Passed == IF failFast THEN {"ok"} ELSE {"ok", "err"}

\* dag.go:27, 75-77: a node starts when its dependencies have run, all with
\* success under FailFast; Run refuses exactly the graphs with a cycle (some
\* nodes that each depend on one of them); and unless it stopped early every
\* node has run.
DependenciesFirst ==
    /\ \A n \in Nodes : node[n] # "none" => \A d \in dependsOn[n] : node[d] \in Passed
    /\ outcome = "cycle" =>
          \E s \in (SUBSET Nodes) \ {{}} : \A n \in s : dependsOn[n] \cap s # {}
    /\ outcome = "nil" => \A n \in Nodes : node[n] = "ok"
    /\ outcome = "error" /\ ~failFast => \A n \in Nodes : node[n] \in {"ok", "err"}

\* dag.go:75: Run returns when its nodes do.
Returned == outcome # "running"
RunReturns == []<>Returned

-----------------------------------------------------------------------------
(* The inductive invariant behind DependenciesFirst. *)

\* The nodes of the layers before this one have passed, and none of a later
\* layer has started.
LayerInv ==
    /\ \A l \in Nodes : l < level => \A n \in Layers[l] : node[n] \in Passed
    /\ \A n \in Nodes : node[n] # "none" => \E l \in Nodes : l <= level /\ n \in Layers[l]

IInv == TypeOK /\ LayerInv /\ DependenciesFirst
=============================================================================
