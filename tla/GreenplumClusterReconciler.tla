--------------------- MODULE GreenplumClusterReconciler ---------------------
(***************************************************************************)
(* The control loop of the GreenplumCluster custom resource:               *)
(* GreenplumClusterReconciler.Reconcile of                                 *)
(* greenplum-operator/controllers/greenplumcluster, one step per call the  *)
(* code makes to the API server or into a pod, interleaved with the API    *)
(* server, the watch caches, the garbage collector, the job controller,    *)
(* the database, the user, and crashes of the operator.                    *)
(***************************************************************************)
EXTENDS Informer, FiniteSets

CONSTANTS
    Tracked,    \* the owned resources followed by this instance
    Specs,      \* the specifications a user may create a cluster with
    Counts,     \* the primarySegmentCounts a user may expand to
    Images,     \* the instance images an operator may be started with
    MaxUID,     \* bound: how many times the cluster is created
    MaxLag,     \* bound: watch events in flight for the cluster, a resource
    MaxJobLag,  \* bound: watch events in flight for the gpexpand job
    MaxFaults,  \* bound: failed or lost calls, crashes, outages
    PatientUser \* TRUE: a user re-creates the cluster only after the operator's
                \* cache has seen the deletion of the previous one and its worker
                \* has ended the reconciliation of that one

VARIABLES
    crLog,      \* the GreenplumCluster object
    resLog,     \* the objects it owns, StatefulSets included
    jobLog,     \* the gpexpand job
    queued,     \* the request is in the controller's work queue
    w,          \* the controller's worker: where it is, and its local variables
    opImage,    \* r.InstanceImage of the running operator
    db,         \* the Greenplum database in the pods
    labelled,   \* the nodes carry the anti-affinity labels
    uids,       \* how many GreenplumClusters have been created
    upd,        \* an update the webhook has admitted and that is not stored yet
    keyGen,     \* the last SSH key generated
    faults      \* faults so far

vars == <<crLog, resLog, jobLog, queued, w, opImage, db, labelled, uids, upd,
          keyGen, faults>>

-----------------------------------------------------------------------------
(***************************************************************************)
(* Objects.                                                                *)
(***************************************************************************)
Ssets == {"master", "segment-a", "segment-b"}

\* The order in which createOrUpdateClusterResources visits the resources.
Rank == [k \in {"greenplum-config", "ssh-secrets", "agent", "greenplum",
                "serviceaccount", "role", "rolebinding"} \cup Ssets |->
    CASE k = "greenplum-config" -> 1 [] k = "ssh-secrets" -> 2
      [] k = "agent" -> 3            [] k = "greenplum" -> 4
      [] k = "serviceaccount" -> 5   [] k = "role" -> 6
      [] k = "rolebinding" -> 7      [] k = "master" -> 8
      [] k = "segment-a" -> 9        [] k = "segment-b" -> 10]

Kinds == DOMAIN Rank

Switch == {"yes", "Yes", "no"}  \* the pattern also admits YES, No, NO and ""

Spec0 == [count |-> 0, mirrors |-> "no", standby |-> "no", antiAffinity |-> "no"]

SpecType == [count : Nat, mirrors : Switch, standby : Switch,
             antiAffinity : Switch]

\* The empty string, where the code has one, is written "unset".
Phases == {"unset", "Pending", "Running", "Deleting"}

CRType == [uid : Nat, deleting : BOOLEAN, finalizer : BOOLEAN,
           spec : SpecType, phase : Phases, image : Images \cup {"unset"}]

\* The absent objects have owner (or uid) 0.
NoCR == [uid |-> 0, deleting |-> FALSE, finalizer |-> FALSE, spec |-> Spec0,
         phase |-> "unset", image |-> "unset"]

DataType == [key : 0..2, count : Nat, mirrors : BOOLEAN, standby : BOOLEAN,
             image : Images \cup {"unset"}, antiAffinity : BOOLEAN]

NoData == [key |-> 0, count |-> 0, mirrors |-> FALSE, standby |-> FALSE,
           image |-> "unset", antiAffinity |-> FALSE]

ResType == [owner : Nat, data : DataType]

NoRes == [owner |-> 0, data |-> NoData]

\* The owner of an object that has no owner reference.
Unowned == MaxUID + 1

JobType == [owner : Nat, count : Nat,
            state : {"unset", "running", "succeeded", "failed"}]

NoJob == [owner |-> 0, count |-> 0, state |-> "unset"]

cr == Stored(crLog)
res(k) == Stored(resLog[k])
job == Stored(jobLog)

ASSUME ConstantsAssumption ==
    /\ Tracked \subseteq Kinds
    /\ {"greenplum-config", "ssh-secrets", "segment-a"} \subseteq Tracked
    /\ Specs \subseteq SpecType
    /\ Counts \subseteq Nat
    /\ "unset" \notin Images
    /\ Images # {}
    /\ MaxUID \in Nat /\ MaxLag \in Nat \ {0} /\ MaxJobLag \in Nat \ {0}
    /\ MaxFaults \in Nat
    /\ PatientUser \in BOOLEAN
-----------------------------------------------------------------------------
(***************************************************************************)
(* The worker.  w.gp is the local copy of the GreenplumCluster, w.am the   *)
(* active master it found, w.done the resources already visited.  w.mark   *)
(* says how setStatus(Deleting) left the local copy: "local" when its      *)
(* patch failed, "server" when it succeeded, so that the patch which       *)
(* removes the finalizer carries the resourceVersion it returned, and      *)
(* "conflict" when the object has changed again since.                     *)
(***************************************************************************)
PCs == {"idle", "activeMaster", "addFinalizer", "setDeleting", "gpstop",
        "removeFinalizer", "exists", "antiAffinity", "create", "status",
        "setRunning", "segmentCount", "checkJob", "createJob"}

Idle == [pc |-> "idle", gp |-> NoCR, am |-> FALSE, done |-> {}, mark |-> "none"]

WorkerType == [pc : PCs, gp : CRType, am : BOOLEAN, done : SUBSET Tracked,
               mark : {"none", "local", "server", "conflict"}]

\* Reconcile returns an error or a RequeueAfter.
Retry == w' = Idle /\ queued' = TRUE

\* Reconcile returns ctrl.Result{}, nil.
Finish == w' = Idle /\ UNCHANGED queued

Goto(pc) == w' = [w EXCEPT !.pc = pc] /\ UNCHANGED queued

\* The outcome of a call: it succeeds, it fails without effect, or it takes
\* effect and the answer is lost.
Outcomes == {"ok", "failed", "lost"}

Call(o) ==
    \/ o = "ok" /\ UNCHANGED faults
    \/ o \in {"failed", "lost"} /\ faults < MaxFaults /\ faults' = faults + 1

\* A write to the GreenplumCluster.  The API server runs admission again when
\* the object changed after admission, so an admitted update is void.
WriteCR(new) ==
    /\ Len(crLog) <= MaxLag
    /\ crLog' = Record(crLog, new)
    /\ upd' = IF new = cr THEN upd ELSE 0

NoWriteCR == UNCHANGED <<crLog, upd>>

\* client.Patch decodes the API server's answer into the local object: a field
\* the answer omits keeps its local value.
Decode(answer, gp) ==
    [answer EXCEPT !.deleting = @ \/ gp.deleting,
                   !.finalizer = @ \/ gp.finalizer,
                   !.phase = IF @ = "unset" THEN gp.phase ELSE @,
                   !.image = IF @ = "unset" THEN gp.image ELSE @]

\* Faulty variant of ToLower: the wrong conversion.
ToUpper(s) == IF s \in {"yes", "Yes"} THEN "YES" ELSE s

ToLower(s) == IF s = "Yes" THEN "yes" ELSE s

SetDefaultGreenplumClusterValues(gp) ==
    [gp EXCEPT !.spec.mirrors = ToLower(@), !.spec.standby = ToLower(@),
               !.spec.antiAffinity = ToLower(@)]

Reconcile ==
    /\ w.pc = "idle" /\ queued
    /\ queued' = FALSE
    /\ w' = IF Cached(crLog).uid = 0 THEN Idle
            ELSE [Idle EXCEPT !.pc = "activeMaster",
                     !.gp = SetDefaultGreenplumClusterValues(Cached(crLog))]
    /\ UNCHANGED <<crLog, resLog, jobLog, opImage, db, labelled, uids, upd,
                   keyGen, faults>>

\* Faulty variants of FinalizerBranch: the finalizer is never added; a cluster
\* already marked Deleting is taken to be done.
NoFinalizerBranch(gp) ==
    CASE gp.deleting /\ gp.finalizer /\ gp.phase # "Deleting" -> "setDeleting"
      [] gp.deleting /\ gp.finalizer /\ gp.phase = "Deleting" -> "gpstop"
      [] OTHER -> "exists"

OnceDeletingBranch(gp) ==
    CASE ~gp.deleting /\ ~gp.finalizer -> "addFinalizer"
      [] gp.deleting /\ gp.finalizer /\ gp.phase # "Deleting" -> "setDeleting"
      [] OTHER -> "exists"

\* Which branch of handleFinalizer the local copy calls for.
FinalizerBranch(gp) ==
    CASE ~gp.deleting /\ ~gp.finalizer -> "addFinalizer"
      [] gp.deleting /\ gp.finalizer /\ gp.phase # "Deleting" -> "setDeleting"
      [] gp.deleting /\ gp.finalizer /\ gp.phase = "Deleting" -> "gpstop"
      [] OTHER -> "exists"

\* A failed psql is the same as a master that is not active.
GetCurrentActiveMaster(o) ==
    /\ w.pc = "activeMaster"
    /\ o # "lost" /\ Call(o)
    /\ w' = [w EXCEPT !.am = db.up /\ o = "ok", !.pc = FinalizerBranch(w.gp)]
    /\ UNCHANGED <<crLog, resLog, jobLog, queued, opImage, db, labelled, uids,
                   upd, keyGen>>

AddFinalizer(o) ==
    /\ w.pc = "addFinalizer"
    /\ Call(o)
    /\ LET new == [cr EXCEPT !.finalizer = TRUE] IN
       \/ (cr.uid = 0 \/ o = "failed") /\ Retry /\ NoWriteCR
       \/ cr.uid # 0 /\ o = "lost" /\ Retry /\ WriteCR(new)
       \/ /\ cr.uid # 0 /\ o = "ok" /\ WriteCR(new)
          /\ w' = [w EXCEPT !.pc = "exists", !.gp = Decode(new, @)]
          /\ UNCHANGED queued
    /\ UNCHANGED <<resLog, jobLog, opImage, db, labelled, uids, keyGen>>

\* setStatus(Deleting): its error is only logged.
SetDeleting(o) ==
    /\ w.pc = "setDeleting"
    /\ Call(o)
    /\ LET new == [cr EXCEPT !.phase = "Deleting"]
           local == [w.gp EXCEPT !.phase = "Deleting"] IN
       \/ /\ cr.uid # 0 /\ o = "ok" /\ WriteCR(new)
          /\ w' = [w EXCEPT !.pc = "gpstop", !.mark = "server",
                            !.gp = Decode(new, local)]
       \/ /\ cr.uid = 0 \/ o # "ok"
          /\ IF cr.uid # 0 /\ o = "lost" THEN WriteCR(new) ELSE NoWriteCR
          /\ w' = [w EXCEPT !.pc = "gpstop", !.mark = "local", !.gp = local]
    /\ UNCHANGED <<resLog, jobLog, queued, opImage, db, labelled, uids, keyGen>>

\* ensureGreenplumClusterStopped: its error is only logged.
EnsureGreenplumClusterStopped(o) ==
    /\ w.pc = "gpstop"
    /\ (~w.am => o = "ok") /\ Call(o)
    /\ w' = [w EXCEPT !.pc = "removeFinalizer", !.am = FALSE]
    /\ db' = IF w.am /\ o # "failed" THEN [db EXCEPT !.up = FALSE] ELSE db
    /\ UNCHANGED <<crLog, resLog, jobLog, queued, opImage, labelled, uids, upd,
                   keyGen>>

\* The API server removes a deleted object with its last finalizer.
RemoveFinalizer(o) ==
    /\ w.pc = "removeFinalizer"
    /\ Call(o)
    /\ LET patched == [cr EXCEPT !.finalizer = FALSE,
                          !.phase = IF w.mark = "none" THEN @ ELSE "Deleting"]
           new == IF cr.deleting THEN NoCR ELSE patched
           local == [w.gp EXCEPT !.finalizer = FALSE] IN
       \/ /\ cr.uid = 0 /\ o = "ok" /\ NoWriteCR
          /\ w' = [w EXCEPT !.pc = "exists", !.gp = local]
          /\ UNCHANGED queued
       \/ /\ \/ o = "failed"
             \/ cr.uid = 0 /\ o = "lost"
             \/ cr.uid # 0 /\ w.mark = "conflict"
          /\ Retry /\ NoWriteCR
       \/ /\ cr.uid # 0 /\ w.mark # "conflict" /\ o = "lost"
          /\ Retry /\ WriteCR(new)
       \/ /\ cr.uid # 0 /\ w.mark # "conflict" /\ o = "ok" /\ WriteCR(new)
          /\ w' = [w EXCEPT !.pc = "exists", !.gp = Decode(patched, local)]
          /\ UNCHANGED queued
    /\ UNCHANGED <<resLog, jobLog, opImage, db, labelled, uids, keyGen>>

\* Faulty variant of ImageSupported: the check is missing.
AnyImage == TRUE

\* The early return for a cluster bound to another image.
ImageSupported == w.gp.image \in {"unset", opImage}

\* The rest of Reconcile looks at the cached StatefulSets first.
ClusterExists ==
    /\ w.pc = "exists"
    /\ \/ ~ImageSupported /\ Finish
       \/ /\ ImageSupported
          /\ IF \E k \in Tracked \cap Ssets : Cached(resLog[k]).owner # 0
             THEN Goto("create")
             ELSE Goto("antiAffinity")
    /\ UNCHANGED <<crLog, resLog, jobLog, opImage, db, labelled, uids, upd,
                   keyGen, faults>>

\* Faulty variant of HandleAntiAffinity: the nodes are not labelled.
SkipAntiAffinity(o) ==
    /\ w.pc = "antiAffinity" /\ o = "ok"
    /\ Goto("create")
    /\ UNCHANGED <<crLog, resLog, jobLog, opImage, db, labelled, uids, upd,
                   keyGen, faults>>

\* labelAlternateNodes stops at the first node it cannot patch: the next
\* reconciliation labels the nodes again, all of them.
HandleAntiAffinity(o) ==
    /\ w.pc = "antiAffinity"
    /\ Call(o)
    /\ \/ /\ w.gp.spec.antiAffinity # "yes" /\ o = "ok"
          /\ Goto("create") /\ UNCHANGED labelled
       \/ /\ w.gp.spec.antiAffinity = "yes" /\ o = "ok"
          /\ Goto("create") /\ labelled' = TRUE
       \/ /\ w.gp.spec.antiAffinity = "yes" /\ o # "ok"
          /\ Retry /\ labelled' = (labelled \/ o = "lost")
    /\ UNCHANGED <<crLog, resLog, jobLog, opImage, db, uids, upd, keyGen>>
-----------------------------------------------------------------------------
(***************************************************************************)
(* createOrUpdateClusterResources.                                         *)
(***************************************************************************)
Wanted(spec) == {k \in Tracked : k = "segment-b" => spec.mirrors = "yes"}

IsNext(k) ==
    LET todo == Wanted(w.gp.spec) \ w.done
    IN  k \in todo /\ \A j \in todo : Rank[k] <= Rank[j]

NextKey == IF keyGen = 1 THEN 2 ELSE 1

\* Faulty variants of ControllerReference: the reference is left as it is
\* found; no reference is set.
FirstReference(gp, old) == IF old.owner = 0 THEN gp.uid ELSE old.owner

NoReference(gp, old) == Unowned

\* SetControllerReference replaces the reference to an earlier GreenplumCluster
\* of the same name.
ControllerReference(gp, old) == gp.uid

\* Faulty variant of SecretKey: a new key on every reconciliation.
AlwaysNewKey(old) == NextKey

\* A key is generated only for a secret without data.
SecretKey(old) == IF old.owner = 0 THEN NextKey ELSE old.data.key

ModifyConfigMap(spec) ==
    [NoData EXCEPT !.count = spec.count, !.mirrors = (spec.mirrors = "yes"),
                   !.standby = (spec.standby = "yes")]

Replicas(k, spec) == IF k # "master" THEN spec.count
                     ELSE IF spec.standby = "yes" THEN 2 ELSE 1

\* An affinity that is there is never cleared.
ModifyGreenplumStatefulSet(k, spec, old) ==
    [NoData EXCEPT !.count = Replicas(k, spec), !.image = opImage,
                   !.antiAffinity = old.data.antiAffinity
                                      \/ spec.antiAffinity = "yes"]

\* What the mutate function given to CreateOrUpdate makes of an object.  The
\* services, the service account, the role and its binding are the same for
\* every specification.
Mutate(k, old) ==
    [owner |-> ControllerReference(w.gp, old),
     data |-> CASE k = "greenplum-config" -> ModifyConfigMap(w.gp.spec)
                [] k = "ssh-secrets" -> [NoData EXCEPT !.key = SecretKey(old)]
                [] k \in Ssets -> ModifyGreenplumStatefulSet(k, w.gp.spec, old)
                [] OTHER -> NoData]

\* ctrl.CreateOrUpdate: read the cache, mutate, then create, update or do
\* nothing.  Create fails on an object that exists, Update on one whose
\* resourceVersion the cache does not have.
CreateOrUpdate(k, o) ==
    /\ w.pc = "create" /\ IsNext(k)
    /\ Len(resLog[k]) <= MaxLag
    /\ Call(o)
    /\ LET old == Cached(resLog[k])
           new == Mutate(k, old)
           refused == IF old.owner = 0 THEN res(k).owner # 0
                      ELSE ~InSync(resLog[k])
           advance == w' = [w EXCEPT !.done = @ \cup {k}] /\ UNCHANGED queued
       IN
       /\ \/ new = old /\ o = "ok" /\ advance /\ UNCHANGED resLog
          \/ new # old /\ (refused \/ o = "failed") /\ Retry /\ UNCHANGED resLog
          \/ /\ new # old /\ ~refused /\ o # "failed"
             /\ resLog' = [resLog EXCEPT ![k] = Record(@, new)]
             /\ IF o = "ok" THEN advance ELSE Retry
       /\ keyGen' = IF k = "ssh-secrets" /\ old.owner = 0 THEN NextKey ELSE keyGen
    /\ UNCHANGED <<crLog, jobLog, opImage, db, labelled, uids, upd>>

\* Faulty variant of ResourcesDone: the status is written before the resources.
ResourcesLater ==
    /\ w.pc = "create"
    /\ w' = [w EXCEPT !.pc = "status", !.done = {}]
    /\ UNCHANGED <<crLog, resLog, jobLog, queued, opImage, db, labelled, uids,
                   upd, keyGen, faults>>

ResourcesDone ==
    /\ w.pc = "create" /\ Wanted(w.gp.spec) \subseteq w.done
    /\ w' = [w EXCEPT !.pc = "status", !.done = {}]
    /\ UNCHANGED <<crLog, resLog, jobLog, queued, opImage, db, labelled, uids,
                   upd, keyGen, faults>>
-----------------------------------------------------------------------------
(***************************************************************************)
(* The tail of Reconcile.                                                  *)
(***************************************************************************)

\* Where Reconcile goes once the status is written, with local copy gp.
AfterStatus(gp) ==
    \/ gp.phase = "Pending" /\ w.am
       /\ w' = [w EXCEPT !.pc = "setRunning", !.gp = gp] /\ UNCHANGED queued
    \/ gp.phase # "Pending" /\ w.am
       /\ w' = [w EXCEPT !.pc = "segmentCount", !.gp = gp] /\ UNCHANGED queued
    \/ ~w.am /\ Retry

ReconcileStatus(o) ==
    /\ w.pc = "status"
    /\ LET local == [w.gp EXCEPT !.image = opImage,
                        !.phase = IF @ = "unset" THEN "Pending" ELSE @]
           new == [cr EXCEPT
                      !.image = IF w.gp.image # opImage THEN opImage ELSE @,
                      !.phase = IF w.gp.phase = "unset" THEN "Pending" ELSE @] IN
       \/ local = w.gp /\ AfterStatus(w.gp) /\ NoWriteCR /\ UNCHANGED faults
       \/ /\ local # w.gp
          /\ Call(o)
          /\ \/ (cr.uid = 0 \/ o = "failed") /\ Retry /\ NoWriteCR
             \/ cr.uid # 0 /\ o = "lost" /\ Retry /\ WriteCR(new)
             \/ /\ cr.uid # 0 /\ o = "ok" /\ WriteCR(new)
                /\ AfterStatus(Decode(new, local))
    /\ UNCHANGED <<resLog, jobLog, opImage, db, labelled, uids, keyGen>>

\* setStatus(Running): its error is only logged.
SetRunning(o) ==
    /\ w.pc = "setRunning"
    /\ Call(o)
    /\ LET new == [cr EXCEPT !.phase = "Running"]
           local == [w.gp EXCEPT !.phase = "Running"] IN
       \/ /\ cr.uid # 0 /\ o = "ok" /\ WriteCR(new)
          /\ w' = [w EXCEPT !.pc = "segmentCount", !.gp = Decode(new, local)]
       \/ /\ cr.uid = 0 \/ o # "ok"
          /\ IF cr.uid # 0 /\ o = "lost" THEN WriteCR(new) ELSE NoWriteCR
          /\ w' = [w EXCEPT !.pc = "segmentCount", !.gp = local]
    /\ UNCHANGED <<resLog, jobLog, queued, opImage, db, labelled, uids, keyGen>>

\* Faulty variant of ExpandDue: off by one.
ExpandOverdue(count) == count > db.segs + 1

\* handleExpand goes on only if the specification asks for more segments.
ExpandDue(count) == count > db.segs

\* getCurrentSegmentCount and the first early return of handleExpand.
GetCurrentSegmentCount(o) ==
    /\ w.pc = "segmentCount"
    /\ o # "lost" /\ Call(o)
    /\ \/ (~db.up \/ o # "ok") /\ Retry
       \/ db.up /\ o = "ok" /\ ~ExpandDue(w.gp.spec.count) /\ Finish
       \/ db.up /\ o = "ok" /\ ExpandDue(w.gp.spec.count) /\ Goto("checkJob")
    /\ UNCHANGED <<crLog, resLog, jobLog, opImage, db, labelled, uids, upd,
                   keyGen>>

\* The job is read from the cache; Delete addresses it by name only.
CheckJob(o) ==
    /\ w.pc = "checkJob"
    /\ Len(jobLog) <= MaxJobLag
    /\ Call(o)
    /\ LET j == Cached(jobLog) IN
       \/ j.owner = 0 /\ o = "ok" /\ Goto("createJob") /\ UNCHANGED jobLog
       \/ /\ j.owner # 0 /\ j.state # "succeeded" /\ o = "ok"
          /\ Finish /\ UNCHANGED jobLog
       \/ /\ j.owner # 0 /\ j.state = "succeeded"
          /\ jobLog' = IF o = "failed" THEN jobLog ELSE Record(jobLog, NoJob)
          /\ IF o = "ok" /\ job.owner # 0 THEN Goto("createJob") ELSE Retry
    /\ UNCHANGED <<crLog, resLog, opImage, db, labelled, uids, upd, keyGen>>

CreateJob(o) ==
    /\ w.pc = "createJob"
    /\ Len(jobLog) <= MaxJobLag
    /\ Call(o)
    /\ LET new == [owner |-> w.gp.uid, count |-> w.gp.spec.count,
                   state |-> "running"] IN
       \/ (job.owner # 0 \/ o = "failed") /\ Retry /\ UNCHANGED jobLog
       \/ /\ job.owner = 0 /\ o # "failed"
          /\ jobLog' = Record(jobLog, new)
          /\ IF o = "ok" THEN Finish ELSE Retry
    /\ UNCHANGED <<crLog, resLog, opImage, db, labelled, uids, upd, keyGen>>

Worker ==
    \/ Reconcile \/ ClusterExists \/ ResourcesDone
    \/ \E o \in Outcomes :
          \/ GetCurrentActiveMaster(o) \/ AddFinalizer(o) \/ SetDeleting(o)
          \/ EnsureGreenplumClusterStopped(o) \/ RemoveFinalizer(o)
          \/ HandleAntiAffinity(o)
          \/ \E k \in Tracked : CreateOrUpdate(k, o)
          \/ ReconcileStatus(o) \/ SetRunning(o) \/ GetCurrentSegmentCount(o)
          \/ CheckJob(o) \/ CreateJob(o)
-----------------------------------------------------------------------------
(***************************************************************************)
(* The surroundings.                                                       *)
(***************************************************************************)
\* The controller watches the GreenplumCluster and the StatefulSets it owns.
DeliverCR ==
    /\ ~InSync(crLog)
    /\ crLog' = Deliver(crLog)
    /\ queued' = TRUE
    /\ UNCHANGED <<resLog, jobLog, w, opImage, db, labelled, uids, upd, keyGen,
                   faults>>

DeliverResource(k) ==
    /\ ~InSync(resLog[k])
    /\ resLog' = [resLog EXCEPT ![k] = Deliver(@)]
    /\ queued' = (queued \/ k \in Ssets)
    /\ UNCHANGED <<crLog, jobLog, w, opImage, db, labelled, uids, upd, keyGen,
                   faults>>

DeliverJob ==
    /\ ~InSync(jobLog)
    /\ jobLog' = Deliver(jobLog)
    /\ UNCHANGED <<crLog, resLog, queued, w, opImage, db, labelled, uids, upd,
                   keyGen, faults>>

\* The cache's periodic resync, and any later event of a StatefulSet.
Resync ==
    /\ Cached(crLog).uid # 0 /\ ~queued
    /\ queued' = TRUE
    /\ UNCHANGED <<crLog, resLog, jobLog, w, opImage, db, labelled, uids, upd,
                   keyGen, faults>>

\* The StatefulSet controller writes the status: a new resourceVersion.
TouchStatefulSet(k) ==
    /\ k \in Ssets /\ res(k).owner # 0
    /\ Len(resLog[k]) <= MaxLag
    /\ Call("failed")
    /\ resLog' = [resLog EXCEPT ![k] = Append(@, Stored(@))]
    /\ UNCHANGED <<crLog, jobLog, queued, w, opImage, db, labelled, uids, upd,
                   keyGen>>

\* The garbage collector deletes what an absent owner owns.
CollectResource(k) ==
    /\ res(k).owner \notin {0, cr.uid, Unowned}
    /\ Len(resLog[k]) <= MaxLag
    /\ resLog' = [resLog EXCEPT ![k] = Record(@, NoRes)]
    /\ UNCHANGED <<crLog, jobLog, queued, w, opImage, db, labelled, uids, upd,
                   keyGen, faults>>

CollectJob ==
    /\ job.owner \notin {0, cr.uid, Unowned}
    /\ Len(jobLog) <= MaxJobLag
    /\ jobLog' = Record(jobLog, NoJob)
    /\ UNCHANGED <<crLog, resLog, queued, w, opImage, db, labelled, uids, upd,
                   keyGen, faults>>

\* A pod whose StatefulSet asks for an affinity is scheduled on labelled nodes.
Schedulable == \A k \in Tracked \cap Ssets :
                   res(k).data.antiAffinity => labelled

\* The pods run and the database starts; a new one is initialised with the
\* segment count of the configuration.
StartDatabase ==
    /\ ~db.up
    /\ \A k \in Tracked \ {"segment-b"} : res(k).owner # 0
    /\ Schedulable
    /\ db' = [db EXCEPT !.up = TRUE,
                 !.segs = IF @ = 0 THEN res("greenplum-config").data.count ELSE @]
    /\ UNCHANGED <<crLog, resLog, jobLog, queued, w, opImage, labelled, uids,
                   upd, keyGen, faults>>

\* The pods are gone, or the masters fail.
StopDatabase ==
    /\ db.up
    /\ \/ res("segment-a").owner = 0 /\ UNCHANGED faults
       \/ Call("failed")
    /\ db' = [db EXCEPT !.up = FALSE]
    /\ UNCHANGED <<crLog, resLog, jobLog, queued, w, opImage, labelled, uids,
                   upd, keyGen>>

\* gpexpand needs the new segment pods, refuses a count that is not larger than
\* the present one and an expansion schema that is left over.
Expandable == /\ job.count > db.segs
              /\ ~db.schema
              /\ res("segment-a").data.count >= job.count

JobSucceeds ==
    /\ job.state = "running" /\ db.up /\ Expandable
    /\ Len(jobLog) <= MaxJobLag
    /\ jobLog' = Record(jobLog, [job EXCEPT !.state = "succeeded"])
    /\ db' = [db EXCEPT !.segs = job.count, !.schema = TRUE]
    /\ UNCHANGED <<crLog, resLog, queued, w, opImage, labelled, uids, upd,
                   keyGen, faults>>

JobFails ==
    /\ job.state = "running"
    /\ Len(jobLog) <= MaxJobLag
    /\ jobLog' = Record(jobLog, [job EXCEPT !.state = "failed"])
    /\ \/ (job.count <= db.segs \/ db.schema) /\ UNCHANGED faults
       \/ Call("failed")
    /\ UNCHANGED <<crLog, resLog, queued, w, opImage, db, labelled, uids, upd,
                   keyGen>>

\* The user runs gpexpand -c.
CleanSchema ==
    /\ db.up /\ db.schema
    /\ db' = [db EXCEPT !.schema = FALSE]
    /\ UNCHANGED <<crLog, resLog, jobLog, queued, w, opImage, labelled, uids,
                   upd, keyGen, faults>>

\* What a user's write means to a patch that carries a resourceVersion.
Outdate == w' = [w EXCEPT !.mark = IF @ = "server" THEN "conflict" ELSE @]

UserCreate(spec) ==
    /\ cr.uid = 0 /\ uids < MaxUID
    /\ PatientUser => InSync(crLog) /\ w.pc = "idle"
    /\ WriteCR([NoCR EXCEPT !.uid = uids + 1, !.spec = spec])
    /\ uids' = uids + 1
    /\ Outdate
    /\ UNCHANGED <<resLog, jobLog, queued, opImage, db, labelled, keyGen, faults>>

UserDelete ==
    /\ cr.uid # 0 /\ ~cr.deleting
    /\ WriteCR(IF cr.finalizer THEN [cr EXCEPT !.deleting = TRUE] ELSE NoCR)
    /\ Outdate
    /\ UNCHANGED <<resLog, jobLog, queued, opImage, db, labelled, uids, keyGen,
                   faults>>

\* Faulty variant of ValidateExpand: a smaller count is not refused.
ValidateResize(n) ==
    /\ n # cr.spec.count
    /\ cr.image = opImage /\ cr.phase = "Running"
    /\ db.up /\ ~db.schema
    /\ job.owner = 0 \/ job.state = "succeeded"

\* validateExpand, with the webhook's own uncached client.
ValidateExpand(n) ==
    /\ n > cr.spec.count
    /\ cr.image = opImage
    /\ cr.phase = "Running"
    /\ db.up /\ ~db.schema
    /\ job.owner = 0 \/ job.state = "succeeded"

AdmitUpdate(n) ==
    /\ cr.uid # 0 /\ upd = 0
    /\ ValidateExpand(n)
    /\ upd' = n
    /\ UNCHANGED <<crLog, resLog, jobLog, queued, w, opImage, db, labelled,
                   uids, keyGen, faults>>

StoreUpdate ==
    /\ upd # 0
    /\ WriteCR([cr EXCEPT !.spec.count = upd])
    /\ Outdate
    /\ UNCHANGED <<resLog, jobLog, queued, opImage, db, labelled, uids, keyGen,
                   faults>>

\* The operator crashes, or is replaced by one with another image; the new
\* process lists everything and queues every GreenplumCluster.
Restart(image) ==
    /\ Call("failed")
    /\ w' = Idle
    /\ opImage' = image
    /\ crLog' = Relist(crLog)
    /\ resLog' = [k \in Tracked |-> Relist(resLog[k])]
    /\ jobLog' = Relist(jobLog)
    /\ queued' = (cr.uid # 0)
    /\ UNCHANGED <<db, labelled, uids, upd, keyGen>>
-----------------------------------------------------------------------------
Init ==
    /\ crLog = <<NoCR>>
    /\ resLog = [k \in Tracked |-> <<NoRes>>]
    /\ jobLog = <<NoJob>>
    /\ queued = FALSE
    /\ w = Idle
    /\ opImage \in Images
    /\ db = [up |-> FALSE, segs |-> 0, schema |-> FALSE]
    /\ labelled = FALSE
    /\ uids = 0
    /\ upd = 0
    /\ keyGen = 0
    /\ faults = 0

Environment ==
    \/ DeliverCR \/ DeliverJob \/ Resync
    \/ \E k \in Tracked : DeliverResource(k) \/ TouchStatefulSet(k)
                            \/ CollectResource(k)
    \/ CollectJob \/ StartDatabase \/ StopDatabase
    \/ JobSucceeds \/ JobFails

User ==
    \/ \E spec \in Specs : UserCreate(spec)
    \/ UserDelete
    \/ \E n \in Counts : AdmitUpdate(n)
    \/ StoreUpdate
    \/ CleanSchema

Next == Worker \/ Environment \/ User \/ \E image \in Images : Restart(image)

Spec == Init /\ [][Next]_vars
-----------------------------------------------------------------------------
(***************************************************************************)
(* Properties.                                                             *)
(***************************************************************************)

\* Every variable has its type; every log holds at least the cached version.
TypeOK ==
    /\ crLog \in Seq(CRType) /\ crLog # <<>>
    /\ resLog \in [Tracked -> Seq(ResType)]
    /\ \A k \in Tracked : resLog[k] # <<>>
    /\ jobLog \in Seq(JobType) /\ jobLog # <<>>
    /\ queued \in BOOLEAN
    /\ w \in WorkerType
    /\ opImage \in Images
    /\ db \in [up : BOOLEAN, segs : Nat, schema : BOOLEAN]
    /\ labelled \in BOOLEAN
    /\ uids \in Nat /\ upd \in Nat
    /\ keyGen \in 0..2
    /\ faults \in Nat

\* A resource is created for a GreenplumCluster only after the finalizer that
\* makes the operator run gpstop before the cluster's pods are collected
\* (handleFinalizer comes before createOrUpdateClusterResources).
FinalizerBeforeResources ==
    \A k \in Tracked :
        res(k).owner = cr.uid /\ cr.uid # 0 /\ ~cr.deleting => cr.finalizer

\* A GreenplumCluster whose phase is Running has every resource it asks for,
\* and the garbage collector cannot take one away: each has the present
\* GreenplumCluster as its owner, whatever the caches held when
\* createOrUpdateClusterResources ran.
RunningIsProvisioned ==
    cr.phase = "Running" =>
        \A k \in Wanted(cr.spec) : res(k).owner = cr.uid

\* Once a GreenplumCluster is bound to an instance image, its StatefulSets run
\* that image: an operator with another image leaves them alone, also when it
\* replaces one that crashed in the middle of a reconciliation.
OneImage ==
    \A k \in Tracked \cap Ssets :
        res(k).owner = cr.uid /\ cr.uid # 0 /\ cr.image # "unset" =>
            res(k).data.image = cr.image

\* While a GreenplumCluster lives, the SSH key it was given stays the same: the
\* running pods only trust that key.
SshKeyKept ==
    [][ LET s == res("ssh-secrets") IN
        s.owner = cr.uid /\ cr.uid # 0 /\ cr'.uid = cr.uid
            => res("ssh-secrets")' = s ]_vars

\* The operator's process, the caches, the garbage collector, the job and the
\* pods keep running; faults are bounded.  A user need not do anything.
Fairness ==
    /\ WF_vars(Worker)
    /\ WF_vars(DeliverCR) /\ WF_vars(DeliverJob) /\ WF_vars(Resync)
    /\ \A k \in Tracked : /\ WF_vars(DeliverResource(k))
                          /\ WF_vars(CollectResource(k))
    /\ WF_vars(CollectJob) /\ WF_vars(StartDatabase)
    /\ WF_vars(JobSucceeds \/ JobFails)

FairSpec == Spec /\ Fairness

\* A GreenplumCluster that is left alone reaches the phase Running: each retry
\* of Reconcile gets further, and each status it writes survives.
EventuallyRunning ==
    \A u \in 1..MaxUID :
        (cr.uid = u /\ ~cr.deleting)
            ~> (cr.phase = "Running" \/ cr.deleting \/ cr.uid # u)

\* A deleted GreenplumCluster goes away: the finalizer is removed even when
\* gpstop, the status patch or the first attempts fail.
DeletionCompletes ==
    \A u \in 1..MaxUID : (cr.uid = u /\ cr.deleting) ~> (cr.uid # u)

\* After the last deletion nothing is left behind, although Reconcile goes on
\* after it has removed the finalizer and may create resources again.
NothingLeftBehind ==
    <>[](cr.uid = 0) =>
        <>[](job.owner = 0 /\ \A k \in Tracked : res(k).owner = 0)

\* An admitted expansion is carried out, or its job is there to show why not: the
\* database does not stay behind the specification for ever.
ExpansionCompletes ==
    []<>(\/ cr.uid = 0 \/ cr.deleting \/ job.state = "failed"
         \/ db.segs >= cr.spec.count)

\* The expansion job of a cluster never asks for more segments than its
\* specification, and the database never has more: a job computed from a stale
\* local copy is for an older, smaller count.
ExpansionWithinSpec ==
    cr.uid # 0 => /\ job.owner = cr.uid => job.count <= cr.spec.count
                  /\ uids = 1 => db.segs <= cr.spec.count
-----------------------------------------------------------------------------
(***************************************************************************)
(* The abstract specification.                                             *)
(***************************************************************************)
Provided ==
    LET own == {k \in Wanted(cr.spec) : res(k).owner = cr.uid} IN
    CASE cr.uid = 0 \/ own = {} -> "none"
      [] cr.uid # 0 /\ own = Wanted(cr.spec) -> "all"
      [] OTHER -> "some"

Lifecycle == INSTANCE ClusterLifecycle WITH
    phase <- IF cr.uid = 0 THEN "absent" ELSE cr.phase,
    deleting <- cr.deleting,
    image <- cr.image,
    resources <- Provided

\* The control loop implements the life cycle a user may rely on, through
\* crashes, lost answers, stale caches and changes of the operator's image: a
\* phase is reported only when every resource is there and stays there, the image
\* is bound once, Deleting is final, and a cluster that has any resource is not
\* gone before its finalizer has been handled.
ImplementsLifecycle == Lifecycle!Spec
=============================================================================
