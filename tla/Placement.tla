------------------------------ MODULE Placement ------------------------------
(***************************************************************************)
(* Anti-affinity of a cluster with standby and mirrors: from the labels    *)
(* that handleAntiAffinity puts on the nodes, over the affinity of the     *)
(* StatefulSets' templates, to the nodes the pods run on.                  *)
(*                                                                         *)
(* Of Reconcile (see GreenplumClusterReconciler for all of it) this module *)
(* has the parts that touch nodes and StatefulSets.  The two pods of the   *)
(* StatefulSet master keep apart by a pod anti-affinity, which is the      *)
(* scheduler's business: they are not placed here.                         *)
(***************************************************************************)
EXTENDS Informer, FiniteSets

CONSTANTS
    Nodes,      \* the nodes that match the worker selectors
    FirstNodes, \* those that are there from the beginning
    None,       \* no node
    Asked,      \* the anti-affinities that users ask for, each a set of Parts
    MaxDeploys, \* bound: creations of the GreenplumCluster
    MaxLag,     \* bound: events in flight, for each of the three watches
    MaxFaults   \* bound: failed and lost calls, restarts and evictions

VARIABLES
    cr,      \* the GreenplumCluster, in its versions from the cached to the stored one
    label,   \* the nodes with their label greenplum-affinity-<ns>-segment, in theirs
    sets,    \* the StatefulSets, in theirs: one watch delivers the events of all
    master,  \* the nodes with the label greenplum-affinity-<ns>-master
    w,       \* the controller's worker
    at,      \* per pod, the node it runs on
    free,    \* the running pods made from a template without affinity
    mishaps, \* history: what went wrong with the labels
    deploys, faults

vars == <<cr, label, sets, master, w, at, free, mishaps, deploys, faults>>

Kinds == {"master", "segment-a", "segment-b"}

\* The two parts of the specification with an antiAffinity: masterAndStandby and
\* segments.
Parts == {"masters", "segments"}

\* The part a StatefulSet is made from.
Part(k) == IF k = "master" THEN "masters" ELSE "segments"

\* A cluster: anti are the parts that have antiAffinity: yes.
NoCluster == [uid |-> 0, anti |-> {}]

NoSet == [owner |-> 0, anti |-> FALSE]

\* A worker at pc with its copy of the cluster; it has yet to go through the nodes
\* left of the list.
Idle == [pc |-> "idle", gp |-> NoCluster, list |-> {}, left |-> {}]

\* The primary and the mirror of one segment, each named by its StatefulSet.  The
\* pairs do not influence each other, and the pods of a new segment are scheduled
\* like those of an old one after an eviction: one pair stands for all.
Pods == {"segment-a", "segment-b"}

ASSUME ConstantsAssumption ==
    /\ FirstNodes \subseteq Nodes /\ None \notin Nodes
    /\ Asked \subseteq SUBSET Parts
    /\ MaxDeploys \in Nat /\ MaxLag \in Nat /\ MaxFaults \in Nat

Cluster == Stored(cr)
Set(k) == Stored(sets)[k]
Label(n) == Stored(label)[n]

\* The label of a node that has not joined, and of one without the label.
Absent == "absent"
Unlabelled == ""

Joined(labels) == {n \in Nodes : labels[n] # Absent}
nodes == Joined(Stored(label))

WriteCluster(gp) ==
    /\ Len(cr) <= MaxLag
    /\ cr' = Record(cr, gp)

WriteSet(k, set) ==
    /\ Len(sets) <= MaxLag
    /\ sets' = Record(sets, [Stored(sets) EXCEPT ![k] = set])

WriteLabel(n, v) ==
    /\ Len(label) <= MaxLag
    /\ label' = Record(label, [Stored(label) EXCEPT ![n] = v])

\* The masters labelled and the labels stored let the pods of the parts be placed.
LabelsServe(parts) ==
    /\ "masters" \in parts => Cardinality(master) >= 2
    /\ "segments" \in parts => {"a", "b"} \subseteq {Label(n) : n \in nodes}

\* Every pod the user has asked for runs, or, for the masters, can.
Running ==
    /\ \A p \in Pods : at[p] # None
    /\ Set("master").anti => LabelsServe({"masters"})
-----------------------------------------------------------------------------
(***************************************************************************)
(* Reconcile.                                                              *)
(***************************************************************************)
Outcomes == {"ok", "failed", "lost"}

Call(c) ==
    \/ c = "ok" /\ UNCHANGED faults
    \/ c \in {"failed", "lost"} /\ faults < MaxFaults /\ faults' = faults + 1

\* The copy Reconcile goes on with after handleFinalizer.  It reads the cached
\* cluster.  If that one is gone, handleFinalizer takes NotFound for success; but if
\* a namesake has been created meanwhile, the patch is for that one, whose answer
\* replaces the copy.
handleFinalizer == IF Cluster.uid # 0 THEN Cluster ELSE Cached(cr)

ClusterExists == \E k \in Kinds : Cached(sets)[k].owner # 0

Mismatch(gp) == gp.anti \notin {{}, Parts}

\* Faulty variant of isAntiAffinityValid: an off-by-one in the number of nodes.
SomeNode(gp, list) == ~Mismatch(gp) /\ Cardinality(list) >= 1

isAntiAffinityValid(gp, list) == ~Mismatch(gp) /\ Cardinality(list) >= 2

\* The labelling is left out although the labels do not serve, because of a
\* StatefulSet that is not the cluster's own.
Skips(gp) == /\ \E k \in Kinds : Cached(sets)[k].owner \notin {0, gp.uid}
             /\ ~LabelsServe(gp.anti)

\* From the Get to the labelling.  One step: as the copy may be of a cluster that is
\* gone, what others do in between, they may as well have done before or after.
CheckClusterExists ==
    /\ w.pc = "idle" /\ Cached(cr).uid # 0
    /\ LET gp == handleFinalizer
           list == Joined(Cached(label)) IN
       IF ~ClusterExists /\ gp.anti # {}
       THEN /\ w' = IF isAntiAffinityValid(gp, list)
                    THEN [pc |-> "label master", gp |-> gp, list |-> list, left |-> {}]
                    ELSE Idle
            /\ UNCHANGED mishaps
       ELSE /\ w' = [Idle EXCEPT !.pc = "master", !.gp = gp]
            /\ mishaps' = mishaps \cup {m \in {"skipped"} : Skips(gp)}
    /\ UNCHANGED <<cr, deploys, master, label, sets, at, free, faults>>

\* labelAlternateNodes for the masters' nodes, which all get the same label: up to
\* the patch that fails.
LabelMasterNodes(c) ==
    /\ w.pc = "label master"
    /\ Call(c)
    /\ \E done \in SUBSET w.list :
          /\ IF c = "ok" THEN done = w.list ELSE done # w.list \/ c = "lost"
          /\ master' = master \cup done
    /\ w' = IF c # "ok" THEN Idle
            ELSE [w EXCEPT !.pc = "label segment", !.left = w.list]
    /\ UNCHANGED <<cr, deploys, label, sets, at, free, mishaps>>

\* The i-th node of the list, counted from 0.
AlternateLabel(i) == IF i % 2 = 0 THEN "a" ELSE "b"

\* labelAlternateNodes for the segments' nodes.  The order of the cache's list is
\* a different one each time: the next node is any that is left.  The label is set
\* by a merge patch against the cached node: it is empty if that has the label.
LabelSegmentNode(n, c) ==
    /\ w.pc = "label segment" /\ n \in w.left
    /\ Call(c)
    /\ LET v == AlternateLabel(Cardinality(w.list \ w.left))
           empty == Cached(label)[n] = v
           moved == ~empty /\ c # "failed" /\ Label(n) \notin {Unlabelled, v} IN
       /\ IF empty \/ c = "failed" THEN UNCHANGED label
          ELSE WriteLabel(n, v)
       /\ mishaps' = mishaps
            \cup {m \in {"stale"} : empty /\ Label(n) # v /\ c = "ok"}
            \cup {m \in {"relabelled"} : moved /\ \E k \in Kinds : Set(k).owner # 0}
    /\ w' = IF c # "ok" THEN Idle
            ELSE IF w.left # {n} THEN [w EXCEPT !.left = @ \ {n}]
            ELSE [w EXCEPT !.pc = "master", !.list = {}, !.left = {}]
    /\ UNCHANGED <<cr, deploys, master, sets, at, free>>

\* ModifyGreenplumStatefulSet, and SetControllerReference, which replaces the
\* reference to a namesake.  Nothing removes the affinity of a predecessor.
ModifyGreenplumStatefulSet(k, set) ==
    [owner |-> w.gp.uid, anti |-> set.anti \/ Part(k) \in w.gp.anti]

\* The cached copy carries the current resourceVersion.
Current(k) == \A v \in 1 .. Len(sets) : sets[v][k] = Set(k)

\* ctrl.CreateOrUpdate: Get from the cache, then Create, nothing, or an Update
\* that fails if the cached version is not the stored one.
Accepted(k, new) ==
    \/ Cached(sets)[k].owner = 0 /\ Set(k).owner = 0
    \/ Cached(sets)[k].owner # 0 /\ (Cached(sets)[k] = new \/ Current(k))

\* It takes over a predecessor's StatefulSet with an affinity that no labels serve.
Inherits(k) ==
    /\ Cached(sets)[k].owner \notin {0, w.gp.uid} /\ Cached(sets)[k].anti
    /\ ~LabelsServe({Part(k)})

NextSet(k) == IF k = "master" THEN "segment-a" ELSE "segment-b"

CreateOrUpdateSet(k, c) ==
    /\ w.pc = k
    /\ Call(c)
    /\ LET new == ModifyGreenplumStatefulSet(k, Cached(sets)[k]) IN
       /\ IF Accepted(k, new) /\ c # "failed" /\ Cached(sets)[k] # new
          THEN WriteSet(k, new) ELSE UNCHANGED sets
       /\ w' = IF Accepted(k, new) /\ c = "ok" /\ k # "segment-b"
               THEN [w EXCEPT !.pc = NextSet(k)] ELSE Idle
    /\ mishaps' = mishaps \cup {m \in {"inherited"} : Inherits(k)}
    /\ UNCHANGED <<cr, deploys, master, label, at, free>>

Worker ==
    \/ CheckClusterExists
    \/ \E c \in Outcomes : \/ LabelMasterNodes(c)
                           \/ \E n \in Nodes : LabelSegmentNode(n, c)
                           \/ \E k \in Kinds : CreateOrUpdateSet(k, c)

\* The operator's process ends; the new one lists the objects.
Restart ==
    /\ Call("failed")
    /\ w' = Idle
    /\ cr' = Relist(cr) /\ sets' = Relist(sets) /\ label' = Relist(label)
    /\ UNCHANGED <<deploys, master, at, free, mishaps>>

DeliverCluster ==
    /\ ~InSync(cr)
    /\ cr' = Deliver(cr)
    /\ UNCHANGED <<deploys, master, label, sets, w, at, free, mishaps, faults>>

DeliverSet ==
    /\ ~InSync(sets)
    /\ sets' = Deliver(sets)
    /\ UNCHANGED <<cr, deploys, master, label, w, at, free, mishaps, faults>>

DeliverNode ==
    /\ ~InSync(label)
    /\ label' = Deliver(label)
    /\ UNCHANGED <<cr, deploys, master, sets, w, at, free, mishaps, faults>>
-----------------------------------------------------------------------------
(***************************************************************************)
(* The user, the nodes, and the scheduler.                                 *)
(***************************************************************************)
UserCreate(anti) ==
    /\ Cluster.uid = 0 /\ deploys < MaxDeploys
    /\ deploys' = deploys + 1
    /\ WriteCluster([uid |-> deploys + 1, anti |-> anti])
    /\ UNCHANGED <<master, label, sets, w, at, free, mishaps, faults>>

\* The cluster is deleted and its finalizer removed; the worker goes on with its
\* copy, as Reconcile does after handleFinalizer.
UserDelete ==
    /\ Cluster.uid # 0
    /\ WriteCluster(NoCluster)
    /\ UNCHANGED <<deploys, master, label, sets, w, at, free, mishaps, faults>>

\* The garbage collector; the pods go with their StatefulSet.
Collect(k) ==
    /\ Set(k).owner \notin {0, Cluster.uid}
    /\ WriteSet(k, NoSet)
    /\ at' = [p \in Pods |-> IF p = k THEN None ELSE at[p]]
    /\ free' = free \ {k}
    /\ UNCHANGED <<cr, deploys, master, label, w, mishaps, faults>>

NodeJoins(n) ==
    /\ Label(n) = Absent
    /\ WriteLabel(n, Unlabelled)
    /\ UNCHANGED <<cr, deploys, master, sets, w, at, free, mishaps, faults>>

\* Faulty variant of Fits: the mirrors are not told from the primaries.
FitsAnySegment(p, n) == Label(n) \in {"a", "b"}

\* getAffinityDefinition.
Fits(p, n) == Label(n) = IF p = "segment-a" THEN "a" ELSE "b"

Schedule(p) ==
    /\ Set(p).owner # 0 /\ at[p] = None
    /\ \E n \in nodes : /\ Set(p).anti => Fits(p, n)
                        /\ at' = [at EXCEPT ![p] = n]
    /\ free' = IF Set(p).anti THEN free ELSE free \cup {p}
    /\ UNCHANGED <<cr, deploys, master, label, sets, w, mishaps, faults>>

Unschedule(p) ==
    /\ at[p] # None
    /\ at' = [at EXCEPT ![p] = None]
    /\ free' = free \ {p}
    /\ UNCHANGED <<cr, deploys, master, label, sets, w, mishaps>>

\* The rolling update after the template got its affinity.
Roll(p) == p \in free /\ Set(p).anti /\ Unschedule(p) /\ UNCHANGED faults

Evict(p) == Call("failed") /\ Unschedule(p)
-----------------------------------------------------------------------------
Init ==
    /\ cr = <<NoCluster>>
    /\ master = {}
    /\ label = <<[n \in Nodes |-> IF n \in FirstNodes THEN Unlabelled ELSE Absent]>>
    /\ sets = <<[k \in Kinds |-> NoSet]>>
    /\ w = Idle
    /\ at = [p \in Pods |-> None]
    /\ free = {} /\ mishaps = {}
    /\ deploys = 0 /\ faults = 0

Next ==
    \/ Worker \/ Restart \/ DeliverCluster \/ DeliverSet \/ DeliverNode
    \/ UserDelete \/ \E k \in Kinds : Collect(k)
    \/ \E n \in Nodes : NodeJoins(n)
    \/ \E anti \in Asked : UserCreate(anti)
    \/ \E p \in Pods : Schedule(p) \/ Roll(p) \/ Evict(p)

Spec == Init /\ [][Next]_vars

\* The operator, its caches, the garbage collector, the StatefulSet controller
\* and the scheduler keep running.
Fairness ==
    /\ WF_vars(Worker)
    /\ WF_vars(DeliverCluster) /\ WF_vars(DeliverSet) /\ WF_vars(DeliverNode)
    /\ \A k \in Kinds : WF_vars(Collect(k))
    /\ \A p \in Pods : WF_vars(Schedule(p)) /\ WF_vars(Roll(p))

FairSpec == Spec /\ Fairness
-----------------------------------------------------------------------------
(***************************************************************************)
(* Properties.                                                             *)
(***************************************************************************)
\* A primary and its mirror, made from templates with affinity, have nodes of their
\* own.
Apart == at["segment-a"] # None /\ free = {} => at["segment-a"] # at["segment-b"]

\* "the Operator guarantees scheduling a mirror segment to a different worker
\* node than its corresponding primary segment (or similarly for master and
\* standby)" (doc/operator-reference.html.md.erb:141): while the cluster exists.
AntiAffinityGuaranteed == Cluster.uid # 0 => Apart

\* Unless nodes changed their labels under the StatefulSets, a primary and its
\* mirror are on different nodes: through failed labellings, evictions, and
\* redeployments that label the nodes anew or take the old StatefulSets over.
MirrorApart == "relabelled" \notin mishaps => Apart

\* The pods of a cluster that handleAntiAffinity does not refuse, for the number of
\* nodes or a mismatch, get onto nodes and are brought back there: through
\* labellings that are interrupted and begun anew, nodes that join late, and
\* redeployments over the labels and StatefulSets of a predecessor.  There are four
\* exceptions, each an event in which the code leaves labels that do not serve: it
\* skips the labelling because of a predecessor's StatefulSets; it takes over one of
\* these with its affinity; a patch is empty because the cached node is stale, and
\* the loop goes on; it relabels a node under StatefulSets.
PodsPlaced ==
    []<>(\/ Cluster.uid = 0
         \/ Cluster.anti # {} /\ (Mismatch(Cluster) \/ Cardinality(nodes) < 2)
         \/ mishaps # {}
         \/ Running)
=============================================================================
