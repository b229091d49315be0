--------------------------- MODULE Placement_proofs ---------------------------
(***************************************************************************)
(* A primary and its mirror are on different nodes, unless nodes changed   *)
(* their labels under the StatefulSets: for any nodes, any number of       *)
(* deployments and faults, and caches that are any number of events behind.*)
(***************************************************************************)
EXTENDS Placement, Informer_proofs

Labels == {Absent, Unlabelled, "a", "b"}

SetType == [owner : Nat, anti : BOOLEAN]

CRType == [uid : Nat, anti : SUBSET Parts]

Steps == {"idle", "label master", "label segment"} \cup Kinds

WorkerType == [pc : Steps, gp : CRType, list : SUBSET Nodes, left : SUBSET Nodes]

StateType ==
    /\ cr \in Seq(CRType) /\ cr # <<>> /\ deploys \in Nat
    /\ label \in Seq([Nodes -> Labels]) /\ label # <<>>
    /\ sets \in Seq([Kinds -> SetType]) /\ sets # <<>>
    /\ w \in WorkerType
    /\ at \in [Pods -> Nodes \cup {None}]

\* The worker acts for a cluster: what it writes has an owner.
WorkerHolds == w.pc # "idle" => w.gp.uid # 0

\* A pod that runs has its StatefulSet, so that a node that changes its label
\* while a pod runs is a mishap ...
Backed == \A p \in Pods : at[p] # None => Set(p).owner # 0

\* ... and without one the pods with affinity are where the scheduler put them.
OnItsLabel ==
    "relabelled" \notin mishaps =>
        \A p \in Pods : at[p] # None /\ p \notin free => Fits(p, at[p])

Inv == StateType /\ WorkerHolds /\ Backed /\ OnItsLabel

\* What a log of labels and a log of StatefulSets hold, and keep holding.
LEMMA LogsTyped ==
    ASSUME StateType
    PROVE  /\ Stored(label) \in [Nodes -> Labels] /\ Cached(label) \in [Nodes -> Labels]
           /\ Stored(sets) \in [Kinds -> SetType] /\ Cached(sets) \in [Kinds -> SetType]
           /\ Stored(cr) \in CRType /\ Cached(cr) \in CRType
BY LogTypes DEF StateType

\* A step that takes no owner and no label away, and moves no pod, keeps Inv.
LEMMA NothingMoves ==
    ASSUME Inv, StateType', WorkerHolds',
           UNCHANGED <<at, free>>, mishaps \subseteq mishaps',
           Stored(label') = Stored(label),
           \A p \in Pods : Set(p).owner # 0 => Set(p)'.owner # 0
    PROVE  Inv'
<1>1. Backed'
  BY DEF Inv, Backed
<1>2. OnItsLabel'
  BY DEF Inv, OnItsLabel, Fits, Label
<1> QED BY <1>1, <1>2 DEF Inv

\* A write of one StatefulSet.
LEMMA WriteSetStores ==
    ASSUME StateType, NEW k \in Kinds, NEW set \in SetType, WriteSet(k, set)
    PROVE  /\ sets' \in Seq([Kinds -> SetType]) /\ sets' # <<>>
           /\ Stored(sets') = [Stored(sets) EXCEPT ![k] = set]
<1> DEFINE V == [Kinds -> SetType]
           new == [Stored(sets) EXCEPT ![k] = set]
<1>1. sets \in Seq(V) /\ sets # <<>> /\ new \in V
  BY LogsTyped DEF StateType
<1>2. sets' = Record(sets, new)
  BY DEF WriteSet
<1> HIDE DEF V, new
<1>3. Record(sets, new) \in Seq(V) /\ Record(sets, new) # <<>>
  BY <1>1, RecordTypes
<1>4. Stored(Record(sets, new)) = new
  BY <1>1, StoredRecord
<1> QED BY <1>2, <1>3, <1>4 DEF V, new

\* A patch of one node's label.
LEMMA WriteLabelStores ==
    ASSUME StateType, NEW n \in Nodes, NEW v \in Labels, WriteLabel(n, v)
    PROVE  /\ label' \in Seq([Nodes -> Labels]) /\ label' # <<>>
           /\ Stored(label') = [Stored(label) EXCEPT ![n] = v]
<1> DEFINE V == [Nodes -> Labels]
           new == [Stored(label) EXCEPT ![n] = v]
<1>1. label \in Seq(V) /\ label # <<>> /\ new \in V
  BY LogsTyped DEF StateType
<1>2. label' = Record(label, new)
  BY DEF WriteLabel
<1> HIDE DEF V, new
<1>3. Record(label, new) \in Seq(V) /\ Record(label, new) # <<>>
  BY <1>1, RecordTypes
<1>4. Stored(Record(label, new)) = new
  BY <1>1, StoredRecord
<1> QED BY <1>2, <1>3, <1>4 DEF V, new

\* A write of the cluster.
LEMMA WriteClusterTyped ==
    ASSUME StateType, NEW gp \in CRType, WriteCluster(gp)
    PROVE  cr' \in Seq(CRType) /\ cr' # <<>>
<1> HIDE DEF CRType
<1>1. cr \in Seq(CRType) /\ cr # <<>> /\ cr' = Record(cr, gp)
  BY DEF StateType, WriteCluster
<1> QED BY <1>1, RecordTypes

\* A reconciliation begins and ends without a cluster.
LEMMA IdleTyped == Idle \in WorkerType
BY DEF Idle, NoCluster, WorkerType, CRType, Steps

\* Reconcile goes on with the copy of a cluster, that exists or did.
LEMMA CheckKeepsInv ==
    ASSUME Inv, CheckClusterExists
    PROVE  Inv'
<1> DEFINE gp == handleFinalizer
           list == Joined(Cached(label))
           labelling == [pc |-> "label master", gp |-> gp, list |-> list, left |-> {}]
           making == [Idle EXCEPT !.pc = "master", !.gp = gp]
<1>1. gp \in CRType /\ gp.uid # 0 /\ list \subseteq Nodes
  BY LogsTyped DEF Inv, CheckClusterExists, handleFinalizer, Cluster, Joined
<1>2. w' \in {Idle, labelling, making}
  BY DEF CheckClusterExists
<1> HIDE DEF gp, list
<1>3. labelling \in WorkerType /\ making \in WorkerType
  BY <1>1 DEF WorkerType, Steps, Kinds, Idle
<1>4. labelling.gp = gp /\ making.gp = gp
  BY DEF Idle
<1>5. WorkerHolds'
  <2>1. CASE w' = Idle
    BY <2>1 DEF Idle, WorkerHolds
  <2>2. CASE w' = labelling \/ w' = making
    <3>1. w'.gp = gp
      BY <1>4, <2>2, Zenon
    <3> QED BY <1>1, <3>1 DEF WorkerHolds
  <2> QED BY <1>2, <2>1, <2>2
<1>6. w' \in WorkerType
  BY <1>2, <1>3, IdleTyped
<1>7. mishaps \subseteq mishaps' /\ UNCHANGED <<cr, deploys, at, free, label, sets>>
  BY DEF CheckClusterExists
<1>8. StateType'
  BY <1>6, <1>7 DEF Inv, StateType
<1> QED BY <1>5, <1>7, <1>8, NothingMoves DEF Set

\* The labels of the masters' nodes are no concern of the segments.
LEMMA MasterLabelsKeepInv ==
    ASSUME Inv, NEW c \in Outcomes, LabelMasterNodes(c)
    PROVE  Inv'
<1>1. w' \in WorkerType
  <2>1. [w EXCEPT !.pc = "label segment", !.left = w.list] \in WorkerType
    BY DEF Inv, StateType, WorkerType, Steps
  <2> QED BY <2>1, IdleTyped DEF LabelMasterNodes
<1>2. StateType'
  BY <1>1 DEF Inv, StateType, LabelMasterNodes
<1>3. WorkerHolds'
  BY DEF Inv, StateType, WorkerType, LabelMasterNodes, WorkerHolds, Idle
<1>4. UNCHANGED <<at, free, label, sets, mishaps>>
  BY DEF LabelMasterNodes
<1> QED BY <1>2, <1>3, <1>4, NothingMoves DEF Set

\* A node gets the label of its position.  If that takes another label away while
\* there are StatefulSets, it is a mishap; if there are none, no pod runs.
LEMMA SegmentLabelKeepsInv ==
    ASSUME Inv, NEW n \in Nodes, NEW c \in Outcomes, LabelSegmentNode(n, c)
    PROVE  Inv'
<1> DEFINE v == AlternateLabel(Cardinality(w.list \ w.left))
<1>0. StateType /\ v \in Labels
  BY DEF Inv, AlternateLabel, Labels
<1>1. w' \in WorkerType
  <2>1. /\ [w EXCEPT !.left = @ \ {n}] \in WorkerType
        /\ [w EXCEPT !.pc = "master", !.list = {}, !.left = {}] \in WorkerType
    BY <1>0 DEF StateType, WorkerType, Steps, Kinds
  <2> QED BY <2>1, IdleTyped DEF LabelSegmentNode
<1>2. WorkerHolds'
  BY DEF Inv, StateType, WorkerType, LabelSegmentNode, WorkerHolds, Idle
<1>3. /\ UNCHANGED <<cr, deploys, at, free, sets>>
      /\ mishaps \subseteq mishaps'
  BY DEF LabelSegmentNode
<1>4. CASE UNCHANGED label
  <2>1. StateType'
    BY <1>1, <1>3, <1>4 DEF Inv, StateType
  <2> QED BY <1>2, <1>3, <1>4, <2>1, NothingMoves DEF Set
<1>5. CASE WriteLabel(n, v) /\ ~(Cached(label)[n] = v) /\ c # "failed"
  <2>1. /\ label' \in Seq([Nodes -> Labels]) /\ label' # <<>>
        /\ Stored(label') = [Stored(label) EXCEPT ![n] = v]
    BY <1>0, <1>5, WriteLabelStores
  <2>2. StateType'
    BY <1>1, <1>3, <2>1 DEF Inv, StateType
  <2>3. Backed'
    BY <1>3 DEF Inv, Backed, Set
  <2>4. OnItsLabel'
    <3> SUFFICES ASSUME "relabelled" \notin mishaps', NEW p \in Pods,
                        at[p] # None, p \notin free
                 PROVE  Fits(p, at[p])'
      BY <1>3 DEF OnItsLabel
    <3>1. Fits(p, at[p]) /\ at[p] \in Nodes
      BY <1>0, <1>3 DEF Inv, OnItsLabel, StateType
    <3>2. p \in Kinds /\ Set(p).owner # 0
      BY DEF Inv, Backed, Pods, Kinds
    <3>3. Label(n) \in {Unlabelled, v}
      BY <1>5, <3>2 DEF LabelSegmentNode
    <3>4. CASE at[p] = n
      <4>1. Label(n) = v
        BY <3>1, <3>3, <3>4 DEF Fits, Unlabelled
      <4> QED BY <1>3, <2>1, <3>1, <3>4, <4>1, LogsTyped, <1>0 DEF Fits, Label
    <3>5. CASE at[p] # n
      BY <1>3, <2>1, <3>1, <3>5, LogsTyped, <1>0 DEF Fits, Label
    <3> QED BY <3>4, <3>5
  <2> QED BY <1>2, <2>2, <2>3, <2>4 DEF Inv
<1> QED BY <1>4, <1>5 DEF LabelSegmentNode

\* A StatefulSet that is written has an owner.
LEMMA SetKeepsInv ==
    ASSUME Inv, NEW k \in Kinds, NEW c \in Outcomes, CreateOrUpdateSet(k, c)
    PROVE  Inv'
<1> DEFINE new == ModifyGreenplumStatefulSet(k, Cached(sets)[k])
<1>0. StateType
  BY DEF Inv
<1>1. w.gp.uid # 0
  BY DEF Inv, WorkerHolds, CreateOrUpdateSet, Kinds
<1>2. new \in SetType
  BY <1>0, LogsTyped
     DEF StateType, WorkerType, CRType, SetType, ModifyGreenplumStatefulSet
<1>3. w' \in WorkerType
  <2>1. [w EXCEPT !.pc = NextSet(k)] \in WorkerType
    BY <1>0 DEF StateType, WorkerType, NextSet, Steps, Kinds
  <2> QED BY <2>1, IdleTyped DEF CreateOrUpdateSet
<1>4. WorkerHolds'
  BY <1>0, <1>1 DEF StateType, WorkerType, CreateOrUpdateSet, WorkerHolds, Idle
<1>5. mishaps \subseteq mishaps' /\ UNCHANGED <<cr, deploys, label, at, free>>
  BY DEF CreateOrUpdateSet
<1>6. CASE UNCHANGED sets
  <2>1. StateType'
    BY <1>0, <1>3, <1>5, <1>6 DEF StateType
  <2> QED BY <1>4, <1>5, <1>6, <2>1, NothingMoves DEF Set
<1>7. CASE WriteSet(k, new)
  <2>1. /\ sets' \in Seq([Kinds -> SetType]) /\ sets' # <<>>
        /\ Stored(sets') = [Stored(sets) EXCEPT ![k] = new]
    BY <1>0, <1>2, <1>7, WriteSetStores
  <2>2. StateType'
    BY <1>0, <1>3, <1>5, <2>1 DEF StateType
  <2>3. \A p \in Pods : Set(p).owner # 0 => Set(p)'.owner # 0
    BY <1>0, <1>1, <2>1, LogsTyped
       DEF Set, ModifyGreenplumStatefulSet, Pods, Kinds
  <2> QED BY <1>4, <1>5, <2>2, <2>3, NothingMoves
<1> QED BY <1>6, <1>7 DEF CreateOrUpdateSet

\* The cache catches up, or a new process lists everything: what is stored stays.
LEMMA CacheKeepsInv ==
    ASSUME Inv, Restart \/ DeliverCluster \/ DeliverSet \/ DeliverNode
    PROVE  Inv'
<1>0. StateType
  BY DEF Inv
<1>1. /\ label' \in Seq([Nodes -> Labels]) /\ label' # <<>>
      /\ Stored(label') = Stored(label)
  BY <1>0, LogTypes, DeliverVersions
     DEF StateType, Restart, DeliverCluster, DeliverSet, DeliverNode
<1>2. /\ sets' \in Seq([Kinds -> SetType]) /\ sets' # <<>>
      /\ Stored(sets') = Stored(sets)
  BY <1>0, LogTypes, DeliverVersions
     DEF StateType, Restart, DeliverCluster, DeliverSet, DeliverNode
<1>3. cr' \in Seq(CRType) /\ cr' # <<>>
  BY <1>0, LogTypes, DeliverVersions
     DEF StateType, Restart, DeliverCluster, DeliverSet, DeliverNode
<1>4. w' = w \/ w' = Idle
  BY DEF Restart, DeliverCluster, DeliverSet, DeliverNode
<1>5. UNCHANGED <<deploys, at, free, mishaps>>
  BY DEF Restart, DeliverCluster, DeliverSet, DeliverNode
<1>6. StateType'
  BY <1>0, <1>1, <1>2, <1>3, <1>4, <1>5, IdleTyped DEF StateType
<1>7. WorkerHolds'
  BY <1>4 DEF Inv, WorkerHolds, Idle
<1> QED BY <1>1, <1>2, <1>5, <1>6, <1>7, NothingMoves DEF Set

\* The user's clusters change neither labels nor pods.
LEMMA UserKeepsInv ==
    ASSUME Inv, UserDelete \/ \E anti \in Asked : UserCreate(anti)
    PROVE  Inv'
<1>1. UNCHANGED <<label, sets, w, at, free, mishaps>>
  BY DEF UserCreate, UserDelete
<1>2. deploys' \in Nat /\ cr' \in Seq(CRType) /\ cr' # <<>>
  <2>1. ASSUME NEW anti \in Asked, UserCreate(anti)
        PROVE  deploys' \in Nat /\ cr' \in Seq(CRType) /\ cr' # <<>>
    <3>1. deploys \in Nat /\ deploys' = deploys + 1
      BY <2>1 DEF Inv, StateType, UserCreate
    <3>2. [uid |-> deploys + 1, anti |-> anti] \in CRType
      BY <3>1, ConstantsAssumption DEF CRType
    <3> QED BY <2>1, <3>1, <3>2, WriteClusterTyped DEF Inv, UserCreate
  <2>2. CASE UserDelete
    <3>1. NoCluster \in CRType
      BY DEF NoCluster, CRType
    <3> QED BY <2>2, <3>1, WriteClusterTyped DEF Inv, StateType, UserDelete
  <2> QED BY <2>1, <2>2
<1>3. StateType' /\ WorkerHolds'
  BY <1>1, <1>2 DEF Inv, StateType, WorkerHolds
<1> QED BY <1>1, <1>3, NothingMoves DEF Set

\* A node that joins had no label for a pod to stand on.
LEMMA JoinKeepsInv ==
    ASSUME Inv, NEW n \in Nodes, NodeJoins(n)
    PROVE  Inv'
<1>0. StateType /\ Unlabelled \in Labels
  BY DEF Inv, Labels
<1>1. /\ label' \in Seq([Nodes -> Labels]) /\ label' # <<>>
      /\ Stored(label') = [Stored(label) EXCEPT ![n] = Unlabelled]
  BY <1>0, WriteLabelStores DEF NodeJoins
<1>2. UNCHANGED <<cr, deploys, sets, w, at, free, mishaps>>
  BY DEF NodeJoins
<1>3. StateType' /\ WorkerHolds' /\ Backed'
  BY <1>0, <1>1, <1>2 DEF Inv, StateType, WorkerHolds, Backed, Set
<1>4. OnItsLabel'
  <2> SUFFICES ASSUME "relabelled" \notin mishaps, NEW p \in Pods,
                      at[p] # None, p \notin free
               PROVE  Fits(p, at[p])'
    BY <1>2 DEF OnItsLabel
  <2>1. Fits(p, at[p]) /\ at[p] \in Nodes
    BY <1>0 DEF Inv, OnItsLabel, StateType
  <2>2. Label(n) = Absent
    BY DEF NodeJoins
  <2>3. at[p] # n
    BY <2>1, <2>2 DEF Fits, Absent
  <2>4. Label(at[p])' = Label(at[p])
    BY <1>0, <1>1, <1>2, <2>1, <2>3, LogsTyped DEF Label
  <2> QED BY <1>2, <2>1, <2>4 DEF Fits
<1> QED BY <1>3, <1>4 DEF Inv

\* The garbage collector takes the pods with their StatefulSet.
LEMMA CollectKeepsInv ==
    ASSUME Inv, NEW k \in Kinds, Collect(k)
    PROVE  Inv'
<1>0. StateType
  BY DEF Inv
<1>1. NoSet \in SetType
  BY DEF NoSet, SetType
<1>2. /\ sets' \in Seq([Kinds -> SetType]) /\ sets' # <<>>
      /\ Stored(sets') = [Stored(sets) EXCEPT ![k] = NoSet]
  BY <1>0, <1>1, WriteSetStores DEF Collect
<1>3. /\ UNCHANGED <<cr, deploys, label, w, mishaps>>
      /\ at' = [p \in Pods |-> IF p = k THEN None ELSE at[p]]
      /\ free' = free \ {k}
  BY DEF Collect
<1>4. StateType'
  BY <1>0, <1>2, <1>3 DEF StateType
<1>5. Backed'
  BY <1>0, <1>2, <1>3, LogsTyped DEF Inv, Backed, Set, Pods, Kinds
<1>6. OnItsLabel'
  BY <1>3 DEF Inv, OnItsLabel, Fits, Label
<1>7. WorkerHolds'
  BY <1>3 DEF Inv, WorkerHolds
<1> QED BY <1>4, <1>5, <1>6, <1>7 DEF Inv

\* The scheduler puts a pod with affinity onto a node with its label.
LEMMA ScheduleKeepsInv ==
    ASSUME Inv, NEW p \in Pods, Schedule(p)
    PROVE  Inv'
<1>0. StateType /\ p \in Kinds
  BY DEF Inv, Pods, Kinds
<1>1. PICK n \in nodes : (Set(p).anti => Fits(p, n)) /\ at' = [at EXCEPT ![p] = n]
  BY DEF Schedule
<1>2. /\ UNCHANGED <<cr, deploys, label, sets, w, mishaps>>
      /\ free' = IF Set(p).anti THEN free ELSE free \cup {p}
      /\ Set(p).owner # 0
  BY DEF Schedule
<1>3. StateType'
  BY <1>0, <1>1, <1>2 DEF StateType, nodes, Joined
<1>4. Backed'
  BY <1>0, <1>1, <1>2 DEF Inv, StateType, Backed, Set
<1>5. OnItsLabel'
  BY <1>0, <1>1, <1>2 DEF Inv, StateType, OnItsLabel, Fits, Label
<1>6. WorkerHolds'
  BY <1>2 DEF Inv, WorkerHolds
<1> QED BY <1>3, <1>4, <1>5, <1>6 DEF Inv

\* A pod that stops no longer counts.
LEMMA UnscheduleKeepsInv ==
    ASSUME Inv, NEW p \in Pods, Unschedule(p)
    PROVE  Inv'
<1>1. /\ UNCHANGED <<cr, deploys, label, sets, w, mishaps>>
      /\ at' = [at EXCEPT ![p] = None] /\ free' = free \ {p}
  BY DEF Unschedule
<1>2. StateType'
  BY <1>1 DEF Inv, StateType
<1>3. Backed'
  BY <1>1 DEF Inv, StateType, Backed, Set
<1>4. OnItsLabel'
  BY <1>1 DEF Inv, StateType, OnItsLabel, Fits, Label
<1>5. WorkerHolds'
  BY <1>1 DEF Inv, WorkerHolds
<1> QED BY <1>2, <1>3, <1>4, <1>5 DEF Inv

\* A log of one version.
LEMMA SingletonLog ==
    ASSUME NEW V, NEW x \in V
    PROVE  <<x>> \in Seq(V) /\ <<x>> # <<>>
OBVIOUS

\* At the beginning no node has a label and no pod runs.
LEMMA InitHolds == Init => Inv
<1> SUFFICES ASSUME Init PROVE Inv
  OBVIOUS
<1>1. StateType
  <2>1. label \in Seq([Nodes -> Labels]) /\ label # <<>>
    <3> DEFINE V == [Nodes -> Labels]
               x == [n \in Nodes |-> IF n \in FirstNodes THEN Unlabelled ELSE Absent]
    <3>1. x \in V /\ label = <<x>>
      BY DEF Init, Labels
    <3> HIDE DEF V, x
    <3>2. label \in Seq(V) /\ label # <<>>
      BY <3>1, SingletonLog
    <3> QED BY <3>2 DEF V
  <2>2. sets \in Seq([Kinds -> SetType]) /\ sets # <<>>
    <3>1. [k \in Kinds |-> NoSet] \in [Kinds -> SetType]
      BY DEF NoSet, SetType
    <3>2. sets = <<[k \in Kinds |-> NoSet]>>
      BY DEF Init
    <3> DEFINE V == [Kinds -> SetType]
               x == [k \in Kinds |-> NoSet]
    <3>3. x \in V /\ sets = <<x>>
      BY <3>1, <3>2
    <3> HIDE DEF V, x
    <3>4. sets \in Seq(V) /\ sets # <<>>
      BY <3>3, SingletonLog
    <3> QED BY <3>4 DEF V
  <2>3. at \in [Pods -> Nodes \cup {None}] /\ deploys \in Nat /\ w \in WorkerType
    BY IdleTyped DEF Init
  <2>4. cr \in Seq(CRType) /\ cr # <<>>
    <3>1. NoCluster \in CRType /\ cr = <<NoCluster>>
      BY DEF Init, NoCluster, CRType
    <3> QED BY <3>1, SingletonLog
  <2> QED BY <2>1, <2>2, <2>3, <2>4 DEF StateType
<1>2. WorkerHolds
  BY DEF Init, WorkerHolds, Idle
<1>3. Backed /\ OnItsLabel
  BY DEF Init, Backed, OnItsLabel
<1> QED BY <1>1, <1>2, <1>3 DEF Inv

\* A primary and its mirror made from templates with affinity are on different
\* nodes as long as labelAlternateNodes has not relabelled a node under existing
\* StatefulSets: for every set of nodes, every lag of the caches, and any number of
\* deployments, restarts, failed calls and evictions.
THEOREM MirrorsApart == Spec => []MirrorApart
<1>1. Init => Inv
  BY InitHolds
<1>2. Inv /\ [Next]_vars => Inv'
  <2> SUFFICES ASSUME Inv, [Next]_vars PROVE Inv'
    OBVIOUS
  <2>1. CASE Worker
    BY <2>1, CheckKeepsInv, MasterLabelsKeepInv, SegmentLabelKeepsInv, SetKeepsInv
       DEF Worker
  <2>2. CASE Restart \/ DeliverCluster \/ DeliverSet \/ DeliverNode
    BY <2>2, CacheKeepsInv
  <2>3. CASE UserDelete \/ \E anti \in Asked : UserCreate(anti)
    BY <2>3, UserKeepsInv
  <2>7. CASE \E n \in Nodes : NodeJoins(n)
    BY <2>7, JoinKeepsInv
  <2>4. CASE \E k \in Kinds : Collect(k)
    BY <2>4, CollectKeepsInv
  <2>5. CASE \E p \in Pods : Schedule(p) \/ Roll(p) \/ Evict(p)
    BY <2>5, ScheduleKeepsInv, UnscheduleKeepsInv DEF Roll, Evict
  <2>6. CASE UNCHANGED vars
    <3>1. StateType' /\ WorkerHolds'
      BY <2>6 DEF vars, Inv, StateType, WorkerHolds
    <3> QED BY <2>6, <3>1, NothingMoves DEF vars, Set
  <2> QED BY <2>1, <2>2, <2>3, <2>4, <2>5, <2>6, <2>7 DEF Next
<1>3. Inv => MirrorApart
  <2> SUFFICES ASSUME Inv, "relabelled" \notin mishaps, free = {},
                      at["segment-a"] # None, at["segment-a"] = at["segment-b"]
               PROVE  FALSE
    BY DEF MirrorApart, Apart
  <2>1. Fits("segment-a", at["segment-a"]) /\ Fits("segment-b", at["segment-b"])
    BY DEF Inv, OnItsLabel, Pods
  <2> QED BY <2>1 DEF Fits
<1> QED BY <1>1, <1>2, <1>3, PTL DEF Spec
=============================================================================
