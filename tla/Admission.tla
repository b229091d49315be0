------------------------------ MODULE Admission ------------------------------
(***************************************************************************)
(* The admission webhook of the operator (greenplum-operator/pkg/          *)
(* admission): which GreenplumClusters may be created over the persistent  *)
(* volume claims that earlier deployments left in the namespace, and which *)
(* updates are let through.  The webhook only answers; the API server      *)
(* stores an admitted object later, and other requests come in between.    *)
(*                                                                         *)
(* The data on the claims is what the rules protect: it is initialised by  *)
(* one deployment and used as it is by the next.                           *)
(***************************************************************************)
EXTENDS Naturals, FiniteSets

CONSTANTS
    Names,      \* names users give to GreenplumClusters of this namespace
    Specs,      \* the specifications users try
    MaxCreates, \* bound: admitted creations
    PatientUser \* a user waits for the pods of the last deployment to go

VARIABLES
    cluster,    \* the GreenplumClusters stored by the API server
    request,    \* per name, an admitted request that is not stored yet
    sset,       \* the StatefulSets master, segment-a and segment-b
    pvcs,       \* the persistent volume claims, labelled with the cluster name
    data,       \* per name, the database on the claims
    job,        \* per name, the gpexpand job
    creates     \* creations so far

vars == <<cluster, request, sset, pvcs, data, job, creates>>

\* "unset" stands for the empty string here and for a missing phase or name, "Yes"
\* for the spellings Yes and YES, and "no" for no, No and NO, which nothing tells
\* apart: only "yes" is compared with.
Switch == {"yes", "Yes", "no", "unset"}

Storage == {"5G", "6G", "1.5Gi", "-5G"}

Types == {"master", "segment-a", "segment-b"}

\* fixed stands for hostBasedAuthentication, cpu, memory, workerSelector and
\* the PXF service name, of which an update may change none.
SpecType == [count : Nat, mirrors : Switch, standby : Switch,
             antiAffinity : Switch, storage : Storage, fixed : {"x", "y"}]

NoSpec == [count |-> 0, mirrors |-> "unset", standby |-> "unset",
           antiAffinity |-> "unset", storage |-> "5G", fixed |-> "x"]

\* reconcileStatus writes the phase and the image at once, so a cluster without
\* a phase is one without an image.
ClusterType == [exists : BOOLEAN, spec : SpecType, finalizer : BOOLEAN,
                phase : {"unset", "Pending", "Running"}]

NoCluster == [exists |-> FALSE, spec |-> NoSpec, finalizer |-> FALSE, phase |-> "unset"]

NoRequest == [op |-> "none", spec |-> NoSpec]

\* standby is the spelling the database was initialised with (it has a standby if
\* that is "yes"), and schema the gpexpand schema that an expansion leaves.
NoData == [init |-> FALSE, segs |-> 0, standby |-> "unset", schema |-> FALSE]

\* The job is owned until its GreenplumCluster is gone.
NoJob == [status |-> "none", count |-> 0, owned |-> FALSE]

ASSUME ConstantsAssumption ==
    /\ Specs \subseteq SpecType
    /\ "unset" \notin Names
    /\ MaxCreates \in Nat
    /\ PatientUser \in BOOLEAN
-----------------------------------------------------------------------------
ToLower(s) == IF s = "Yes" THEN "yes" ELSE s

SetDefaultGreenplumClusterValues(spec) ==
    [spec EXCEPT !.mirrors = ToLower(@), !.standby = ToLower(@),
                 !.antiAffinity = ToLower(@)]

getGreenplumPVCs(n, t) == {p \in pvcs : p.name = n /\ p.type = t}

validateAntiAffinity(spec) ==
    "no" \in {spec.standby, spec.mirrors} => spec.antiAffinity = "no"

validateUniqueCluster == \A n \in Names : ~cluster[n].exists

\* The first claim of the list is looked at, of masters and of primaries.
validateGreenplumStorageFromPVCs(n, spec) ==
    \A t \in {"master", "segment-a"} :
        LET list == getGreenplumPVCs(n, t)
        IN  list # {} => \E p \in list : p.storage = spec.storage

validatePvcGreenplumVersion(n) == \A p \in pvcs : p.name = n => p.labelled

\* Faulty variant of validateStandby: any number of masters means a standby.
AssumeStandby(n, spec) ==
    getGreenplumPVCs(n, "master") # {} => spec.standby = "yes"

validateStandby(n, spec) ==
    LET previousNumMasters == Cardinality(getGreenplumPVCs(n, "master"))
    IN  previousNumMasters # 0 =>
            spec.standby = IF previousNumMasters = 2 THEN "yes" ELSE "no"

validatePrimarySegmentCount(n, spec) ==
    spec.count >= Cardinality(getGreenplumPVCs(n, "segment-a"))

validateMirrors(n, spec) ==
    getGreenplumPVCs(n, "segment-a") # {} =>
        IF getGreenplumPVCs(n, "segment-b") = {} THEN spec.mirrors # "yes"
                                                 ELSE spec.mirrors # "no"

validateResourceQuantity(spec) == spec.storage # "-5G"

validateCreateGreenplumCluster(n, raw) ==
    LET spec == SetDefaultGreenplumClusterValues(raw) IN
    /\ validateAntiAffinity(spec)
    /\ validateUniqueCluster
    /\ validateGreenplumStorageFromPVCs(n, spec)
    /\ validatePvcGreenplumVersion(n)
    /\ validateStandby(n, spec)
    /\ validatePrimarySegmentCount(n, spec)
    /\ validateMirrors(n, spec)
    /\ validateResourceQuantity(spec)

\* != on two resource.Quantity structs decoded from JSON: a quantity that does
\* not fit the integer representation holds a pointer, and two of them differ.
SameStruct(a, b) == a = b /\ a # "1.5Gi"

\* GetCurrentActiveMaster, which knows the pods by their names only.
MasterAnswers == sset.name # "unset" /\ data[sset.name].init

validateExpand(n, new) ==
    new.count > cluster[n].spec.count =>
        /\ cluster[n].phase = "Running"
        /\ MasterAnswers /\ ~data[sset.name].schema
        /\ job[n].status \in {"none", "succeeded"}

validateUpdateGreenplumCluster(n, new) ==
    LET old == cluster[n].spec IN
    /\ new # old => cluster[n].phase # "unset"
    /\ new.standby = old.standby
    /\ new.fixed = old.fixed
    /\ ToLower(new.antiAffinity) = ToLower(old.antiAffinity)
    /\ ToLower(new.mirrors) = ToLower(old.mirrors)
    /\ SameStruct(new.storage, old.storage)
    /\ new.count >= old.count
    /\ validateExpand(n, new)
-----------------------------------------------------------------------------
(***************************************************************************)
(* Requests.                                                               *)
(***************************************************************************)
AdmitCreate(n, spec) ==
    /\ request[n].op = "none" /\ ~cluster[n].exists
    /\ PatientUser => sset.name # n
    /\ creates < MaxCreates
    /\ validateCreateGreenplumCluster(n, spec)
    /\ request' = [request EXCEPT ![n] = [op |-> "create", spec |-> spec]]
    /\ creates' = creates + 1
    /\ UNCHANGED <<cluster, sset, pvcs, data, job>>

StoreCreate(n) ==
    /\ request[n].op = "create" /\ ~cluster[n].exists
    /\ cluster' = [cluster EXCEPT
                      ![n] = [NoCluster EXCEPT !.exists = TRUE,
                                               !.spec = request[n].spec]]
    /\ request' = [request EXCEPT ![n] = NoRequest]
    /\ UNCHANGED <<sset, pvcs, data, job, creates>>

AdmitUpdate(n, spec) ==
    /\ request[n].op = "none" /\ cluster[n].exists
    /\ spec # cluster[n].spec
    /\ validateUpdateGreenplumCluster(n, spec)
    /\ request' = [request EXCEPT ![n] = [op |-> "update", spec |-> spec]]
    /\ UNCHANGED <<cluster, sset, pvcs, data, job, creates>>

\* The API server admits an update again when the object changes under it.
Void(n) == request' = [request EXCEPT
                          ![n] = IF @.op = "update" THEN NoRequest ELSE @]

StoreUpdate(n) ==
    /\ request[n].op = "update"
    /\ cluster' = [cluster EXCEPT ![n].spec = request[n].spec]
    /\ Void(n)
    /\ UNCHANGED <<sset, pvcs, data, job, creates>>

\* The operator runs gpstop and takes the finalizer away.
Delete(n) ==
    /\ cluster[n].exists
    /\ cluster' = [cluster EXCEPT ![n] = NoCluster]
    /\ job' = [job EXCEPT ![n].owned = FALSE]
    /\ Void(n)
    /\ UNCHANGED <<sset, pvcs, data, creates>>
-----------------------------------------------------------------------------
(***************************************************************************)
(* The operator, whose own patches pass the webhook too, and the pods.     *)
(***************************************************************************)
Patch(n, new) ==
    /\ validateUpdateGreenplumCluster(n, new.spec)
    /\ cluster' = [cluster EXCEPT ![n] = new]
    /\ Void(n)
    /\ UNCHANGED <<sset, pvcs, data, job, creates>>

AddFinalizer(n) ==
    /\ cluster[n].exists /\ ~cluster[n].finalizer
    /\ Patch(n, [cluster[n] EXCEPT !.finalizer = TRUE])

\* The local copy of Reconcile: the switches are in lower case, except in the
\* reconciliation that adds the finalizer, whose patch brings the stored ones back.
\* When that one does not get to the StatefulSets, the next one creates them.
LocalSpecs(n) ==
    LET spec == cluster[n].spec IN
    {SetDefaultGreenplumClusterValues(spec)}
      \cup (IF cluster[n].phase = "unset" /\ sset.name # n THEN {spec} ELSE {})

\* The StatefulSets have one name for all GreenplumClusters of the namespace, and
\* SetControllerReference refuses those of another one.  The ConfigMap and the three
\* sets are written one after the other; here they are one step, as each creates its
\* claims by itself, at any time after it.
CreateStatefulSets(n, spec) ==
    /\ cluster[n].finalizer /\ spec \in LocalSpecs(n)
    /\ sset.name \in {"unset", n} /\ sset # [name |-> n, spec |-> spec]
    /\ sset' = [name |-> n, spec |-> spec]
    /\ UNCHANGED <<cluster, request, pvcs, data, job, creates>>

ReconcileStatus(n) ==
    /\ cluster[n].finalizer /\ cluster[n].phase = "unset" /\ sset.name = n
    /\ Patch(n, [cluster[n] EXCEPT !.phase = "Pending"])

SetRunning(n) ==
    /\ cluster[n].phase = "Pending" /\ sset.name = n /\ MasterAnswers
    /\ Patch(n, [cluster[n] EXCEPT !.phase = "Running"])

\* handleExpand: the local copy is the one the StatefulSets were written from, or
\* the answer of a status patch.  A job that has not succeeded stays; one that has is
\* deleted first.
CreateJob(n) ==
    /\ cluster[n].phase # "unset" /\ sset.name = n /\ MasterAnswers
    /\ job[n].status \in {"none", "succeeded"}
    /\ \E count \in {sset.spec.count, cluster[n].spec.count} :
          /\ count > data[n].segs
          /\ job' = [job EXCEPT
                        ![n] = [status |-> "running", count |-> count, owned |-> TRUE]]
    /\ UNCHANGED <<cluster, request, sset, pvcs, data, creates>>

CollectStatefulSets ==
    /\ sset.name # "unset" /\ ~cluster[sset.name].exists
    /\ sset' = [name |-> "unset", spec |-> NoSpec]
    /\ UNCHANGED <<cluster, request, pvcs, data, job, creates>>

Replicas(t) ==
    CASE t = "master" -> IF sset.spec.standby = "yes" THEN 2 ELSE 1
      [] t = "segment-a" -> sset.spec.count
      [] t = "segment-b" -> IF sset.spec.mirrors = "yes" THEN sset.spec.count ELSE 0

Claim(t, i) == {p \in getGreenplumPVCs(sset.name, t) : p.index = i}

\* In the order of the ordinals.  The StatefulSets are independent.
CreatePVC(t, i) ==
    /\ sset.name # "unset" /\ i < Replicas(t) /\ Claim(t, i) = {}
    /\ \A j \in 0..(i - 1) : Claim(t, j) # {}
    /\ pvcs' = pvcs \cup {[name |-> sset.name, type |-> t, index |-> i,
                           storage |-> sset.spec.storage, labelled |-> FALSE]}
    /\ UNCHANGED <<cluster, request, sset, data, job, creates>>

\* LabelPvcStarter, the first thing the pod does.
LabelPVC(p) ==
    /\ p.name = sset.name /\ p.index < Replicas(p.type) /\ ~p.labelled
    /\ pvcs' = (pvcs \ {p}) \cup {[p EXCEPT !.labelled = TRUE]}
    /\ UNCHANGED <<cluster, request, sset, data, job, creates>>

\* The masters and the segments below count are up (GenerateHostList).
Up(count) ==
    /\ sset.name # "unset" /\ count <= sset.spec.count
    /\ \A t \in Types : \A i \in 0..(Replicas(t) - 1) :
           t = "master" \/ i < count => \E p \in Claim(t, i) : p.labelled

\* master-0 initialises a new database.
Initialise ==
    /\ Up(sset.spec.count) /\ ~data[sset.name].init
    /\ data' = [data EXCEPT
                   ![sset.name] = [init |-> TRUE, segs |-> sset.spec.count,
                                   standby |-> sset.spec.standby, schema |-> FALSE]]
    /\ UNCHANGED <<cluster, request, sset, pvcs, job, creates>>

\* runGpexpand waits for the pods and adds the segments.  The job may still fail
\* after that, when the connection is lost.
RunJob(n) ==
    /\ job[n].status = "running" /\ sset.name = n
    /\ MasterAnswers /\ Up(job[n].count)
    /\ job[n].count > data[n].segs /\ ~data[n].schema
    /\ data' = [data EXCEPT ![n].segs = job[n].count, ![n].schema = TRUE]
    /\ \E status \in {"succeeded", "failed"} : job' = [job EXCEPT ![n].status = status]
    /\ UNCHANGED <<cluster, request, sset, pvcs, creates>>

\* A wait times out, or gpexpand refuses: it leaves no other trace.
FailJob(n) ==
    /\ job[n].status = "running"
    /\ job' = [job EXCEPT ![n].status = "failed"]
    /\ UNCHANGED <<cluster, request, sset, pvcs, data, creates>>

\* The garbage collector; or a user, of a job that failed
\* (doc/troubleshooting.html.md.erb:217).
RemoveJob(n) ==
    /\ job[n].status # "none" /\ (job[n].owned => job[n].status = "failed")
    /\ job' = [job EXCEPT ![n] = NoJob]
    /\ UNCHANGED <<cluster, request, sset, pvcs, data, creates>>

\* A user runs gpexpand -c (doc/expanding.html.md.erb:117-120).
CleanUpSchema(n) ==
    /\ sset.name = n /\ data[n].schema
    /\ data' = [data EXCEPT ![n].schema = FALSE]
    /\ UNCHANGED <<cluster, request, sset, pvcs, job, creates>>

\* The user gives the data up, after the deployment.
DeletePVCs(n) ==
    /\ ~cluster[n].exists /\ sset.name # n /\ request[n].op = "none"
    /\ \E p \in pvcs : p.name = n
    /\ pvcs' = {p \in pvcs : p.name # n}
    /\ data' = [data EXCEPT ![n] = NoData]
    /\ UNCHANGED <<cluster, request, sset, job, creates>>
-----------------------------------------------------------------------------
Init ==
    /\ cluster = [n \in Names |-> NoCluster]
    /\ request = [n \in Names |-> NoRequest]
    /\ sset = [name |-> "unset", spec |-> NoSpec]
    /\ pvcs = {}
    /\ data = [n \in Names |-> NoData]
    /\ job = [n \in Names |-> NoJob]
    /\ creates = 0

Next ==
    \/ \E n \in Names :
          \/ \E spec \in Specs : AdmitCreate(n, spec) \/ AdmitUpdate(n, spec)
          \/ StoreCreate(n) \/ StoreUpdate(n) \/ Delete(n)
          \/ AddFinalizer(n) \/ ReconcileStatus(n) \/ SetRunning(n)
          \/ \E spec \in LocalSpecs(n) : CreateStatefulSets(n, spec)
          \/ CreateJob(n) \/ RunJob(n) \/ FailJob(n) \/ RemoveJob(n)
          \/ CleanUpSchema(n) \/ DeletePVCs(n)
    \/ CollectStatefulSets
    \/ \E t \in Types : \E i \in 0..(Replicas(t) - 1) : CreatePVC(t, i)
    \/ \E p \in pvcs : LabelPVC(p)
    \/ Initialise

Spec == Init /\ [][Next]_vars
-----------------------------------------------------------------------------
\* A GreenplumCluster that is stored, by a creation or an update, fits the
\* database that an earlier deployment of that name left on its claims: the
\* standby is there as before, no segment is missing, and the claims of masters
\* and primaries have the size asked for.  The webhook infers the shape of the
\* database from the number of claims of each type and from the size of one of
\* them (validate_create_greenplumclusters.go:128-205); claims are created one
\* by one, jobs add segments, and a deployment may end at any time.  A database
\* initialised with the spelling Yes has no standby although its specification
\* asks for one, and gets the second master's claim in the next reconciliation:
\* its claims do not tell, and no rule is stated for it.
DataFitsSpec ==
    \A n \in Names :
        cluster[n].exists /\ data[n].init =>
            LET spec == SetDefaultGreenplumClusterValues(cluster[n].spec) IN
            /\ data[n].standby # "Yes" =>
                  (data[n].standby = "yes" <=> spec.standby = "yes")
            /\ data[n].segs <= spec.count
            /\ \A t \in {"master", "segment-a"} : \A p \in getGreenplumPVCs(n, t) :
                   p.storage = spec.storage
=============================================================================
