------------------ MODULE GreenplumClusterReconciler_proofs ------------------
(***************************************************************************)
(* Proofs about GreenplumClusterReconciler, for every value of its         *)
(* constants.                                                              *)
(***************************************************************************)
EXTENDS GreenplumClusterReconciler, Informer_proofs

-----------------------------------------------------------------------------
(***************************************************************************)
(* Types of the operators.                                                 *)
(***************************************************************************)

\* The absent objects and the idle worker are of their types.
LEMMA AbsentTypes ==
    /\ Spec0 \in SpecType /\ NoCR \in CRType
    /\ NoData \in DataType /\ NoRes \in ResType
    /\ NoJob \in JobType /\ Idle \in WorkerType
<1>1. Spec0 \in SpecType
  BY DEF Spec0, SpecType, Switch
<1>2. NoCR \in CRType
  BY <1>1 DEF NoCR, CRType, Phases
<1>3. NoData \in DataType
  BY DEF NoData, DataType
<1>4. NoRes \in ResType
  BY <1>3 DEF NoRes, ResType
<1>5. NoJob \in JobType
  BY DEF NoJob, JobType
<1>6. Idle \in WorkerType
  BY <1>2 DEF Idle, WorkerType, PCs
<1> QED BY <1>1, <1>2, <1>3, <1>4, <1>5, <1>6

\* What the client and the API server hold are objects of their types.
LEMMA ObjectTypes ==
    ASSUME TypeOK
    PROVE  /\ cr \in CRType /\ Cached(crLog) \in CRType
           /\ job \in JobType /\ Cached(jobLog) \in JobType
           /\ \A k \in Tracked : res(k) \in ResType /\ Cached(resLog[k]) \in ResType
<1>1. cr \in CRType /\ Cached(crLog) \in CRType
  BY LogTypes DEF TypeOK, cr
<1>2. job \in JobType /\ Cached(jobLog) \in JobType
  BY LogTypes DEF TypeOK, job
<1>3. ASSUME NEW k \in Tracked
      PROVE  res(k) \in ResType /\ Cached(resLog[k]) \in ResType
  <2>1. resLog[k] \in Seq(ResType) /\ resLog[k] # <<>>
    BY DEF TypeOK
  <2> QED BY <2>1, LogTypes DEF res
<1> QED BY <1>1, <1>2, <1>3

\* Decoding an answer into a GreenplumCluster, and lowercasing its switches,
\* give a GreenplumCluster.
LEMMA LocalCopyTypes ==
    ASSUME NEW a \in CRType, NEW g \in CRType
    PROVE  Decode(a, g) \in CRType /\ SetDefaultGreenplumClusterValues(g) \in CRType
<1>1. Decode(a, g) \in CRType
  BY DEF Decode, CRType
<1>2. g.spec \in SpecType
  BY DEF CRType
<1>3. [g.spec EXCEPT !.mirrors = ToLower(@), !.standby = ToLower(@),
                     !.antiAffinity = ToLower(@)] \in SpecType
  BY <1>2 DEF SpecType, Switch, ToLower
<1>4. SetDefaultGreenplumClusterValues(g) \in CRType
  BY <1>2, <1>3 DEF SetDefaultGreenplumClusterValues, CRType, SpecType, Switch, ToLower
<1> QED BY <1>1, <1>4

\* What a mutate function returns is a resource.
LEMMA MutateType ==
    ASSUME TypeOK, NEW k \in Tracked, NEW old \in ResType
    PROVE  Mutate(k, old) \in ResType
<1> DEFINE spec == w.gp.spec
<1>1. /\ w.gp \in CRType /\ spec \in SpecType /\ w.gp.uid \in Nat /\ spec.count \in Nat
  BY DEF TypeOK, WorkerType, CRType, SpecType
<1>2. /\ old.data \in DataType /\ old.data.key \in 0..2
      /\ old.data.antiAffinity \in BOOLEAN
  BY DEF ResType, DataType
<1>3. SecretKey(old) \in 0..2
  BY <1>2 DEF SecretKey, NextKey
<1>4. ModifyConfigMap(spec) \in DataType
  BY <1>1, AbsentTypes DEF ModifyConfigMap, DataType
<1>5. [NoData EXCEPT !.key = SecretKey(old)] \in DataType
  BY <1>3, AbsentTypes DEF DataType
<1>6. ModifyGreenplumStatefulSet(k, spec, old) \in DataType
  BY <1>1, <1>2, AbsentTypes
     DEF ModifyGreenplumStatefulSet, Replicas, DataType, TypeOK
<1>7. NoData \in DataType
  BY AbsentTypes
<1>8. Mutate(k, old).data \in DataType
  BY <1>4, <1>5, <1>6, <1>7 DEF Mutate
<1> QED BY <1>1, <1>8 DEF Mutate, ResType, ControllerReference

\* A call leaves the count of faults a number.
LEMMA CallType ==
    ASSUME TypeOK, NEW o, Call(o)
    PROVE  faults' \in Nat
BY DEF TypeOK, Call

\* A write to the GreenplumCluster keeps its log, and the admitted update, of
\* their types.
LEMMA WriteCRType ==
    ASSUME TypeOK, NEW new \in CRType, WriteCR(new)
    PROVE  crLog' \in Seq(CRType) /\ crLog' # <<>> /\ upd' \in Nat
BY RecordTypes DEF TypeOK, WriteCR

\* A write to the job keeps its log a log.
LEMMA RecordJobType ==
    ASSUME TypeOK, NEW new \in JobType
    PROVE  Record(jobLog, new) \in Seq(JobType) /\ Record(jobLog, new) # <<>>
BY RecordTypes DEF TypeOK
-----------------------------------------------------------------------------
(***************************************************************************)
(* Type correctness.                                                       *)
(***************************************************************************)

\* A step of Reconcile, up to the resources, keeps the types.
LEMMA TypeWorkerFront ==
    ASSUME TypeOK, NEW o \in Outcomes,
           \/ Reconcile \/ ClusterExists \/ ResourcesDone
           \/ GetCurrentActiveMaster(o) \/ AddFinalizer(o) \/ SetDeleting(o)
           \/ EnsureGreenplumClusterStopped(o) \/ RemoveFinalizer(o)
           \/ HandleAntiAffinity(o)
    PROVE  TypeOK'
<1> USE AbsentTypes, ObjectTypes
<1>0. w.gp \in CRType /\ w \in WorkerType
  BY DEF TypeOK, WorkerType
<1>1. CASE Reconcile
  <2>1. w' \in WorkerType
    BY <1>1, LocalCopyTypes DEF Reconcile, WorkerType, PCs
  <2> QED BY <1>1, <2>1 DEF Reconcile, TypeOK
<1>2. CASE ClusterExists
  <2>1. w' \in WorkerType /\ queued' \in BOOLEAN
    BY <1>0, <1>2 DEF ClusterExists, Goto, Finish, WorkerType, PCs, TypeOK
  <2> QED BY <1>2, <2>1 DEF ClusterExists, TypeOK
<1>3. CASE ResourcesDone
  <2>1. w' \in WorkerType
    BY <1>0, <1>3 DEF ResourcesDone, WorkerType, PCs
  <2> QED BY <1>3, <2>1 DEF ResourcesDone, TypeOK
<1>4. CASE GetCurrentActiveMaster(o)
  <2>1. FinalizerBranch(w.gp) \in PCs
    BY DEF FinalizerBranch, PCs
  <2>2. (db.up /\ o = "ok") \in BOOLEAN
    OBVIOUS
  <2>3. w' \in WorkerType
    BY <1>0, <1>4, <2>1, <2>2 DEF GetCurrentActiveMaster, WorkerType
  <2> QED BY <1>4, <2>3, CallType DEF GetCurrentActiveMaster, TypeOK
<1>5. CASE AddFinalizer(o)
  <2> DEFINE new == [cr EXCEPT !.finalizer = TRUE]
  <2>0. new \in CRType
    BY DEF CRType
  <2>1. Decode(new, w.gp) \in CRType
    BY <1>0, <2>0, LocalCopyTypes
  <2>2. w' \in WorkerType /\ queued' \in BOOLEAN
    BY <1>0, <1>5, <2>1 DEF AddFinalizer, Retry, WorkerType, PCs, TypeOK
  <2>3. crLog' \in Seq(CRType) /\ crLog' # <<>> /\ upd' \in Nat
    BY <1>5, <2>0, WriteCRType DEF AddFinalizer, NoWriteCR, TypeOK
  <2> QED BY <1>5, <2>2, <2>3, CallType DEF AddFinalizer, TypeOK
<1>6. CASE SetDeleting(o)
  <2> DEFINE new == [cr EXCEPT !.phase = "Deleting"]
             local == [w.gp EXCEPT !.phase = "Deleting"]
  <2>1. new \in CRType /\ local \in CRType
    BY <1>0 DEF CRType, Phases
  <2>2. Decode(new, local) \in CRType
    BY <2>1, LocalCopyTypes
  <2>3. w' \in WorkerType
    BY <1>0, <1>6, <2>1, <2>2 DEF SetDeleting, WorkerType, PCs
  <2>4. crLog' \in Seq(CRType) /\ crLog' # <<>> /\ upd' \in Nat
    BY <1>6, <2>1, WriteCRType DEF SetDeleting, NoWriteCR, TypeOK
  <2> QED BY <1>6, <2>3, <2>4, CallType DEF SetDeleting, TypeOK
<1>7. CASE EnsureGreenplumClusterStopped(o)
  <2>1. w' \in WorkerType
    BY <1>0, <1>7 DEF EnsureGreenplumClusterStopped, WorkerType, PCs
  <2>2. db' \in [up : BOOLEAN, segs : Nat, schema : BOOLEAN]
    BY <1>7 DEF EnsureGreenplumClusterStopped, TypeOK
  <2> QED BY <1>7, <2>1, <2>2, CallType DEF EnsureGreenplumClusterStopped, TypeOK
<1>8. CASE RemoveFinalizer(o)
  <2> DEFINE patched == [cr EXCEPT !.finalizer = FALSE,
                            !.phase = IF w.mark = "none" THEN @ ELSE "Deleting"]
             new == IF cr.deleting THEN NoCR ELSE patched
             local == [w.gp EXCEPT !.finalizer = FALSE]
  <2>1. patched \in CRType /\ local \in CRType
    BY <1>0 DEF CRType, Phases
  <2>2. new \in CRType /\ Decode(patched, local) \in CRType
    BY <2>1, LocalCopyTypes
  <2>3. w' \in WorkerType /\ queued' \in BOOLEAN
    BY <1>0, <1>8, <2>1, <2>2 DEF RemoveFinalizer, Retry, WorkerType, PCs, TypeOK
  <2>4. crLog' \in Seq(CRType) /\ crLog' # <<>> /\ upd' \in Nat
    BY <1>8, <2>2, WriteCRType DEF RemoveFinalizer, NoWriteCR, TypeOK
  <2> QED BY <1>8, <2>3, <2>4, CallType DEF RemoveFinalizer, TypeOK
<1>9. CASE HandleAntiAffinity(o)
  <2>1. w' \in WorkerType /\ queued' \in BOOLEAN /\ labelled' \in BOOLEAN
    BY <1>0, <1>9 DEF HandleAntiAffinity, Goto, Retry, WorkerType, PCs, TypeOK
  <2> QED BY <1>9, <2>1, CallType DEF HandleAntiAffinity, TypeOK
<1> QED BY <1>1, <1>2, <1>3, <1>4, <1>5, <1>6, <1>7, <1>8, <1>9

\* A step of Reconcile that creates resources, writes the status or expands
\* keeps the types.
LEMMA TypeWorkerBack ==
    ASSUME TypeOK, NEW o \in Outcomes,
           \/ \E k \in Tracked : CreateOrUpdate(k, o)
           \/ ReconcileStatus(o) \/ SetRunning(o) \/ GetCurrentSegmentCount(o)
           \/ CheckJob(o) \/ CreateJob(o)
    PROVE  TypeOK'
<1> USE AbsentTypes, ObjectTypes
<1>0. w.gp \in CRType /\ w \in WorkerType
  BY DEF TypeOK, WorkerType
<1>1. ASSUME NEW k \in Tracked, CreateOrUpdate(k, o)
      PROVE  TypeOK'
  <2> DEFINE new == Mutate(k, Cached(resLog[k]))
  <2>1. new \in ResType
    BY MutateType
  <2>2. resLog[k] \in Seq(ResType) /\ resLog[k] # <<>>
    BY DEF TypeOK
  <2>3. Record(resLog[k], new) \in Seq(ResType) /\ Record(resLog[k], new) # <<>>
    BY <2>1, <2>2, RecordTypes
  <2>4. /\ resLog' \in [Tracked -> Seq(ResType)]
        /\ \A j \in Tracked : resLog'[j] # <<>>
    <3> HIDE DEF new
    <3>1. resLog' = resLog \/ resLog' = [resLog EXCEPT ![k] = Record(resLog[k], new)]
      BY <1>1 DEF CreateOrUpdate, new
    <3> QED BY <2>3, <3>1 DEF TypeOK
  <2>5. w' \in WorkerType /\ queued' \in BOOLEAN
    <3>1. [w EXCEPT !.done = @ \cup {k}] \in WorkerType
      BY <1>0 DEF WorkerType
    <3>2. \/ w' = [w EXCEPT !.done = @ \cup {k}] /\ queued' = queued
          \/ Retry
      BY <1>1 DEF CreateOrUpdate
    <3> QED BY <3>1, <3>2 DEF Retry, TypeOK
  <2>6. keyGen' \in 0..2
    BY <1>1 DEF CreateOrUpdate, NextKey, TypeOK
  <2> QED BY <1>1, <2>4, <2>5, <2>6, CallType DEF CreateOrUpdate, TypeOK
<1>2. CASE ReconcileStatus(o)
  <2> DEFINE local == [w.gp EXCEPT !.image = opImage,
                          !.phase = IF @ = "unset" THEN "Pending" ELSE @]
             new == [cr EXCEPT
                        !.image = IF w.gp.image # opImage THEN opImage ELSE @,
                        !.phase = IF w.gp.phase = "unset" THEN "Pending" ELSE @]
  <2>1. local \in CRType /\ new \in CRType
    BY <1>0 DEF CRType, Phases, TypeOK
  <2>2. Decode(new, local) \in CRType
    BY <2>1, LocalCopyTypes
  <2>3. ASSUME NEW gp \in CRType, AfterStatus(gp)
        PROVE  w' \in WorkerType /\ queued' \in BOOLEAN
    BY <1>0, <2>3 DEF AfterStatus, Retry, WorkerType, PCs, TypeOK
  <2>4. w' \in WorkerType /\ queued' \in BOOLEAN
    BY <1>0, <1>2, <2>2, <2>3 DEF ReconcileStatus, Retry, TypeOK
  <2>5. crLog' \in Seq(CRType) /\ crLog' # <<>> /\ upd' \in Nat
    BY <1>2, <2>1, WriteCRType DEF ReconcileStatus, NoWriteCR, TypeOK
  <2>6. faults' \in Nat
    BY <1>2, CallType DEF ReconcileStatus, TypeOK
  <2> QED BY <1>2, <2>4, <2>5, <2>6 DEF ReconcileStatus, TypeOK
<1>3. CASE SetRunning(o)
  <2> DEFINE new == [cr EXCEPT !.phase = "Running"]
             local == [w.gp EXCEPT !.phase = "Running"]
  <2>1. new \in CRType /\ local \in CRType
    BY <1>0 DEF CRType, Phases
  <2>2. Decode(new, local) \in CRType
    BY <2>1, LocalCopyTypes
  <2>3. w' \in WorkerType
    BY <1>0, <1>3, <2>1, <2>2 DEF SetRunning, WorkerType, PCs
  <2>4. crLog' \in Seq(CRType) /\ crLog' # <<>> /\ upd' \in Nat
    BY <1>3, <2>1, WriteCRType DEF SetRunning, NoWriteCR, TypeOK
  <2> QED BY <1>3, <2>3, <2>4, CallType DEF SetRunning, TypeOK
<1>4. CASE GetCurrentSegmentCount(o)
  <2>1. w' \in WorkerType /\ queued' \in BOOLEAN
    BY <1>0, <1>4 DEF GetCurrentSegmentCount, Goto, Retry, Finish, WorkerType, PCs, TypeOK
  <2> QED BY <1>4, <2>1, CallType DEF GetCurrentSegmentCount, TypeOK
<1>5. CASE CheckJob(o)
  <2>1. w' \in WorkerType /\ queued' \in BOOLEAN
    BY <1>0, <1>5 DEF CheckJob, Goto, Retry, Finish, WorkerType, PCs, TypeOK
  <2>2. jobLog' \in Seq(JobType) /\ jobLog' # <<>>
    BY <1>5, RecordJobType DEF CheckJob, TypeOK
  <2> QED BY <1>5, <2>1, <2>2, CallType DEF CheckJob, TypeOK
<1>6. CASE CreateJob(o)
  <2> DEFINE new == [owner |-> w.gp.uid, count |-> w.gp.spec.count,
                     state |-> "running"]
  <2>1. new \in JobType
    BY <1>0 DEF CRType, SpecType, JobType
  <2>2. w' \in WorkerType /\ queued' \in BOOLEAN
    BY <1>0, <1>6 DEF CreateJob, Retry, Finish, TypeOK
  <2>3. jobLog' \in Seq(JobType) /\ jobLog' # <<>>
    BY <1>6, <2>1, RecordJobType DEF CreateJob, TypeOK
  <2> QED BY <1>6, <2>2, <2>3, CallType DEF CreateJob, TypeOK
<1> QED BY <1>1, <1>2, <1>3, <1>4, <1>5, <1>6

\* A step of the API server, the caches, the other controllers or the database
\* keeps the types.
LEMMA TypeEnvironment ==
    ASSUME TypeOK, Environment
    PROVE  TypeOK'
<1> USE AbsentTypes, ObjectTypes
<1>1. CASE DeliverCR
  <2>1. crLog' \in Seq(CRType) /\ crLog' # <<>>
    BY <1>1, LogTypes DEF DeliverCR, TypeOK
  <2> QED BY <1>1, <2>1 DEF DeliverCR, TypeOK
<1>2. CASE DeliverJob
  <2>1. jobLog' \in Seq(JobType) /\ jobLog' # <<>>
    BY <1>2, LogTypes DEF DeliverJob, TypeOK
  <2> QED BY <1>2, <2>1 DEF DeliverJob, TypeOK
<1>3. CASE Resync
  BY <1>3 DEF Resync, TypeOK
<1>4. ASSUME NEW k \in Tracked,
             DeliverResource(k) \/ TouchStatefulSet(k) \/ CollectResource(k)
      PROVE  TypeOK'
  <2>1. resLog[k] \in Seq(ResType) /\ resLog[k] # <<>> /\ Stored(resLog[k]) \in ResType
    BY LogTypes DEF TypeOK
  <2>2. ASSUME NEW log \in Seq(ResType), log # <<>>,
               resLog' = [resLog EXCEPT ![k] = log]
        PROVE  /\ resLog' \in [Tracked -> Seq(ResType)]
               /\ \A j \in Tracked : resLog'[j] # <<>>
    BY <2>2 DEF TypeOK
  <2>3. CASE DeliverResource(k)
    <3>1. Deliver(resLog[k]) \in Seq(ResType) /\ Deliver(resLog[k]) # <<>>
      BY <2>1, <2>3, LogTypes DEF DeliverResource
    <3>2. resLog' = [resLog EXCEPT ![k] = Deliver(resLog[k])]
      BY <2>3 DEF DeliverResource
    <3>3. queued' \in BOOLEAN
      BY <2>3 DEF DeliverResource
    <3> QED BY <2>2, <2>3, <3>1, <3>2, <3>3 DEF DeliverResource, TypeOK
  <2>4. CASE TouchStatefulSet(k)
    <3> DEFINE log == Append(resLog[k], Stored(resLog[k]))
    <3>1. log \in Seq(ResType) /\ log # <<>>
      BY <2>1, RecordTypes
    <3>2. resLog' = [resLog EXCEPT ![k] = log]
      BY <2>4 DEF TouchStatefulSet
    <3>3. faults' \in Nat
      BY <2>4, CallType DEF TouchStatefulSet
    <3> HIDE DEF log
    <3> QED BY <2>2, <2>4, <3>1, <3>2, <3>3 DEF TouchStatefulSet, TypeOK
  <2>5. CASE CollectResource(k)
    <3>1. Record(resLog[k], NoRes) \in Seq(ResType) /\ Record(resLog[k], NoRes) # <<>>
      BY <2>1, RecordTypes
    <3>2. resLog' = [resLog EXCEPT ![k] = Record(resLog[k], NoRes)]
      BY <2>5 DEF CollectResource
    <3> QED BY <2>2, <2>5, <3>1, <3>2 DEF CollectResource, TypeOK
  <2> QED BY <1>4, <2>3, <2>4, <2>5
<1>5. CASE CollectJob
  BY <1>5, RecordJobType DEF CollectJob, TypeOK
<1>6. CASE StartDatabase
  <2>1. res("greenplum-config").data.count \in Nat
    BY ConstantsAssumption DEF ResType, DataType
  <2>2. db' \in [up : BOOLEAN, segs : Nat, schema : BOOLEAN]
    BY <1>6, <2>1 DEF StartDatabase, TypeOK
  <2> QED BY <1>6, <2>2 DEF StartDatabase, TypeOK
<1>7. CASE StopDatabase
  <2>1. faults' \in Nat
    BY <1>7, CallType DEF StopDatabase, TypeOK
  <2> QED BY <1>7, <2>1 DEF StopDatabase, TypeOK
<1>8. CASE JobSucceeds
  <2>1. [job EXCEPT !.state = "succeeded"] \in JobType /\ job.count \in Nat
    BY DEF JobType
  <2>2. db' \in [up : BOOLEAN, segs : Nat, schema : BOOLEAN]
    BY <1>8, <2>1 DEF JobSucceeds, TypeOK
  <2> QED BY <1>8, <2>1, <2>2, RecordJobType DEF JobSucceeds, TypeOK
<1>9. CASE JobFails
  <2>1. [job EXCEPT !.state = "failed"] \in JobType
    BY DEF JobType
  <2>2. faults' \in Nat
    BY <1>9, CallType DEF JobFails, TypeOK
  <2> QED BY <1>9, <2>1, <2>2, RecordJobType DEF JobFails, TypeOK
<1> QED BY <1>1, <1>2, <1>3, <1>4, <1>5, <1>6, <1>7, <1>8, <1>9 DEF Environment

\* A step of the user, or a restart of the operator, keeps the types.
LEMMA TypeUser ==
    ASSUME TypeOK, User \/ \E image \in Images : Restart(image)
    PROVE  TypeOK'
<1> USE AbsentTypes, ObjectTypes
<1>0. ASSUME Outdate PROVE w' \in WorkerType
  BY <1>0 DEF Outdate, WorkerType, TypeOK
<1>1. ASSUME NEW spec \in Specs, UserCreate(spec)
      PROVE  TypeOK'
  <2>1. spec \in SpecType
    BY ConstantsAssumption
  <2>2. uids + 1 \in Nat
    BY DEF TypeOK
  <2>3. [NoCR EXCEPT !.uid = uids + 1, !.spec = spec] \in CRType
    BY <2>1, <2>2 DEF CRType
  <2> QED BY <1>0, <1>1, <2>2, <2>3, WriteCRType DEF UserCreate, TypeOK
<1>2. CASE UserDelete
  <2>1. (IF cr.finalizer THEN [cr EXCEPT !.deleting = TRUE] ELSE NoCR) \in CRType
    BY DEF CRType
  <2> QED BY <1>0, <1>2, <2>1, WriteCRType DEF UserDelete, TypeOK
<1>3. ASSUME NEW n \in Counts, AdmitUpdate(n)
      PROVE  TypeOK'
  BY <1>3, ConstantsAssumption DEF AdmitUpdate, TypeOK
<1>4. CASE StoreUpdate
  <2>1. cr.spec \in SpecType /\ upd \in Nat
    BY DEF CRType, TypeOK
  <2>2. [cr EXCEPT !.spec.count = upd] \in CRType
    BY <2>1 DEF CRType, SpecType
  <2> QED BY <1>0, <1>4, <2>2, WriteCRType DEF StoreUpdate, TypeOK
<1>5. CASE CleanSchema
  BY <1>5 DEF CleanSchema, TypeOK
<1>6. ASSUME NEW image \in Images, Restart(image)
      PROVE  TypeOK'
  <2>1. crLog' \in Seq(CRType) /\ crLog' # <<>>
    BY <1>6, LogTypes DEF Restart, TypeOK
  <2>2. jobLog' \in Seq(JobType) /\ jobLog' # <<>>
    BY <1>6, LogTypes DEF Restart, TypeOK
  <2>3. ASSUME NEW k \in Tracked
        PROVE  Relist(resLog[k]) \in Seq(ResType) /\ Relist(resLog[k]) # <<>>
    BY LogTypes DEF TypeOK
  <2>4. /\ resLog' \in [Tracked -> Seq(ResType)]
        /\ \A k \in Tracked : resLog'[k] # <<>>
    BY <1>6, <2>3 DEF Restart
  <2>5. queued' \in BOOLEAN /\ faults' \in Nat
    BY <1>6, CallType DEF Restart
  <2> QED BY <1>6, <2>1, <2>2, <2>4, <2>5 DEF Restart, TypeOK
<1> QED BY <1>1, <1>2, <1>3, <1>4, <1>5, <1>6 DEF User

\* The initial state is of its type.
LEMMA TypeInit ==
    ASSUME Init
    PROVE  TypeOK
<1>1. /\ <<NoCR>> \in Seq(CRType) /\ <<NoCR>> # <<>>
      /\ <<NoRes>> \in Seq(ResType) /\ <<NoRes>> # <<>>
      /\ <<NoJob>> \in Seq(JobType) /\ <<NoJob>> # <<>>
  BY AbsentTypes
<1>2. resLog \in [Tracked -> Seq(ResType)] /\ \A k \in Tracked : resLog[k] # <<>>
  BY <1>1 DEF Init
<1>3. db \in [up : BOOLEAN, segs : Nat, schema : BOOLEAN]
  BY DEF Init
<1>4. crLog \in Seq(CRType) /\ crLog # <<>> /\ jobLog \in Seq(JobType) /\ jobLog # <<>>
  BY <1>1 DEF Init
<1>5. queued \in BOOLEAN /\ labelled \in BOOLEAN
  BY DEF Init
<1>6. uids \in Nat /\ upd \in Nat /\ keyGen \in 0..2 /\ faults \in Nat
  BY DEF Init
<1>7. w \in WorkerType /\ opImage \in Images
  BY AbsentTypes DEF Init
<1> QED BY <1>2, <1>3, <1>4, <1>5, <1>6, <1>7 DEF TypeOK

\* A step keeps the types, whoever takes it.
LEMMA TypeStep ==
    ASSUME TypeOK, [Next]_vars
    PROVE  TypeOK'
<1>1. CASE Worker
  BY <1>1, TypeWorkerFront, TypeWorkerBack DEF Worker, Outcomes
<1>2. CASE Environment
  BY <1>2, TypeEnvironment
<1>3. CASE User \/ \E image \in Images : Restart(image)
  BY <1>3, TypeUser
<1>4. CASE UNCHANGED vars
  BY <1>4 DEF vars, TypeOK
<1> QED BY <1>1, <1>2, <1>3, <1>4 DEF Next

\* Every variable of the operator, the API server and the database keeps its
\* type, whatever Reconcile reads from its caches and writes back.
THEOREM TypeCorrect == Spec => []TypeOK
<1>1. Init => TypeOK
  BY TypeInit
<1>2. TypeOK /\ [Next]_vars => TypeOK'
  BY TypeStep
<1> QED BY <1>1, <1>2, PTL DEF Spec
-----------------------------------------------------------------------------
(***************************************************************************)
(* The finalizer comes before the resources.                               *)
(***************************************************************************)

\* What FinalizerBeforeResources rests on, when users wait for a deletion to be
\* seen before they create the cluster again.  No version of the
\* GreenplumCluster on its way to the cache is of an earlier incarnation, and
\* none promises a finalizer or a deletion that the API server does not know.
Sound(v) ==
    /\ v.uid \in {0, uids}
    /\ v.uid = 0 => ~v.deleting /\ ~v.finalizer
    /\ v.deleting => v.finalizer /\ (cr.uid = 0 \/ cr.deleting)
    /\ v.finalizer => (cr.uid = 0 \/ cr.finalizer)

SoundVersions == \A i \in 1..Len(crLog) : Sound(crLog[i])

\* The program counters after handleFinalizer.
Past == PCs \ {"idle", "activeMaster", "addFinalizer", "setDeleting", "gpstop",
               "removeFinalizer"}

\* The worker's copy is of the present incarnation, and once the worker is past
\* handleFinalizer the API server holds the finalizer, or the cluster is gone.
SoundWorker ==
    w.pc # "idle" =>
        /\ w.gp.uid = uids
        /\ w.gp.deleting => cr.uid = 0 \/ cr.deleting
        /\ w.gp.finalizer => cr.uid = 0 \/ cr.finalizer
        /\ w.pc = "activeMaster" /\ w.gp.deleting => w.gp.finalizer
        /\ w.pc \in {"setDeleting", "gpstop", "removeFinalizer"} => w.gp.deleting
        /\ w.pc \in Past => cr.uid = 0 \/ cr.finalizer

SoundOwners ==
    \A k \in Tracked : /\ res(k).owner <= uids
                       /\ res(k).owner = cr.uid /\ cr.uid # 0 => cr.finalizer

FinalizerInv == TypeOK /\ SoundVersions /\ SoundWorker /\ SoundOwners

\* A write to the GreenplumCluster that neither takes back a deletion nor the
\* finalizer keeps the versions sound.
LEMMA WriteSound ==
    ASSUME TypeOK, SoundVersions, uids' = uids,
           NEW new \in CRType, WriteCR(new),
           new.uid \in {0, uids},
           new.uid = 0 => ~new.deleting /\ ~new.finalizer,
           new.deleting => new.finalizer,
           new.uid # 0 => /\ cr.uid # 0
                          /\ cr.deleting => new.deleting
                          /\ cr.finalizer => new.finalizer
    PROVE  SoundVersions' /\ cr' = new
<1>1. crLog \in Seq(CRType) /\ crLog # <<>> /\ crLog' = Record(crLog, new)
  BY DEF TypeOK, WriteCR
<1>2. cr' = new
  BY <1>1, StoredRecord DEF cr
<1>3. ASSUME NEW i \in 1..Len(crLog')
      PROVE  Sound(crLog[i])' \/ crLog'[i] = new
  <2>1. crLog'[i] = new \/ (i \in 1..Len(crLog) /\ crLog'[i] = crLog[i])
    BY <1>1, RecordVersions
  <2>2. CASE i \in 1..Len(crLog) /\ crLog'[i] = crLog[i]
    <3>1. Sound(crLog[i])
      BY <2>2 DEF SoundVersions
    <3> QED BY <1>2, <2>2, <3>1 DEF Sound
  <2> QED BY <2>1, <2>2
<1>4. ASSUME NEW i \in 1..Len(crLog'), crLog'[i] = new
      PROVE  Sound(crLog[i])'
  BY <1>2, <1>4 DEF Sound
<1> QED BY <1>2, <1>3, <1>4 DEF SoundVersions

\* A delivery, or a relist, keeps the versions sound and the API server's
\* GreenplumCluster as it is.
LEMMA DeliverSound ==
    ASSUME TypeOK, SoundVersions, uids' = uids,
           \/ ~InSync(crLog) /\ crLog' = Deliver(crLog)
           \/ crLog' = Relist(crLog)
           \/ crLog' = crLog
    PROVE  SoundVersions' /\ cr' = cr
<1>1. crLog \in Seq(CRType) /\ crLog # <<>> /\ Len(crLog) \in Nat /\ Len(crLog) > 0
  BY LogTypes DEF TypeOK
<1>2. cr' = cr
  BY <1>1, DeliverVersions DEF cr
<1>3. ASSUME NEW i \in 1..Len(crLog')
      PROVE  \E j \in 1..Len(crLog) : crLog'[i] = crLog[j]
  <2>1. CASE ~InSync(crLog) /\ crLog' = Deliver(crLog)
    BY <1>1, <2>1, DeliverVersions
  <2>2. CASE crLog' = Relist(crLog)
    <3>1. i = 1
      <4>1. Len(crLog') = 1
        BY <1>1, <2>2, DeliverVersions
      <4> QED BY <4>1
    <3>2. crLog'[1] = crLog[Len(crLog)]
      BY <2>2 DEF Relist, Stored
    <3>3. Len(crLog) \in 1..Len(crLog)
      BY <1>1
    <3> QED BY <3>1, <3>2, <3>3
  <2>3. CASE crLog' = crLog
    BY <2>3
  <2> QED BY <2>1, <2>2, <2>3
<1>4. ASSUME NEW i \in 1..Len(crLog')
      PROVE  Sound(crLog[i])'
  <2>1. PICK j \in 1..Len(crLog) : crLog'[i] = crLog[j]
    BY <1>3
  <2>2. Sound(crLog[j])
    BY DEF SoundVersions
  <2> QED BY <1>2, <2>1, <2>2 DEF Sound
<1> QED BY <1>2, <1>4 DEF SoundVersions

\* The GreenplumCluster in the API server and the one in the cache are sound
\* versions.
LEMMA EndsSound ==
    ASSUME TypeOK, SoundVersions
    PROVE  Sound(cr) /\ Sound(Cached(crLog))
<1>1. Len(crLog) \in Nat /\ Len(crLog) > 0
  BY LogTypes DEF TypeOK
<1> QED BY <1>1 DEF SoundVersions, cr, Stored, Cached

\* Steps that leave the resources alone, and the GreenplumCluster where it was
\* or with all that SoundOwners looks at, keep SoundOwners.
LEMMA OwnersKept ==
    ASSUME SoundOwners, uids' = uids, resLog' = resLog,
           cr'.uid = 0 \/ (cr'.uid = cr.uid /\ (cr.finalizer => cr'.finalizer))
    PROVE  SoundOwners'
BY DEF SoundOwners, res

\* A step of handleFinalizer keeps the invariant.
LEMMA FinalizerFront ==
    ASSUME TypeOK, SoundVersions, SoundWorker, SoundOwners, NEW o \in Outcomes,
           \/ Reconcile \/ GetCurrentActiveMaster(o) \/ AddFinalizer(o)
           \/ SetDeleting(o) \/ EnsureGreenplumClusterStopped(o)
           \/ RemoveFinalizer(o)
    PROVE  SoundVersions' /\ SoundWorker' /\ SoundOwners'
<1> USE ObjectTypes, EndsSound
<1>0. w.gp \in CRType /\ w \in WorkerType
  BY DEF TypeOK, WorkerType
<1>1. CASE Reconcile
  <2>1. SoundVersions' /\ cr' = cr
    BY <1>1, DeliverSound DEF Reconcile
  <2>2. SoundOwners'
    BY <1>1, <2>1, OwnersKept DEF Reconcile
  <2>3. SoundWorker'
    <3> DEFINE v == Cached(crLog)
               gp == SetDefaultGreenplumClusterValues(v)
    <3>1. gp.uid = v.uid /\ gp.deleting = v.deleting /\ gp.finalizer = v.finalizer
      BY DEF SetDefaultGreenplumClusterValues, CRType
    <3>2. Sound(v)
      OBVIOUS
    <3>3. \/ w' = Idle
          \/ v.uid # 0 /\ w'.pc = "activeMaster" /\ w'.gp = gp
      BY <1>1 DEF Reconcile, Idle
    <3> HIDE DEF v, gp
    <3>4. uids' = uids
      BY <1>1 DEF Reconcile
    <3> QED BY <2>1, <3>1, <3>2, <3>3, <3>4 DEF SoundWorker, Sound, Past, Idle
  <2> QED BY <2>1, <2>2, <2>3
<1>2. CASE GetCurrentActiveMaster(o)
  <2>1. SoundVersions' /\ cr' = cr
    BY <1>2, DeliverSound DEF GetCurrentActiveMaster
  <2>2. SoundOwners'
    BY <1>2, <2>1, OwnersKept DEF GetCurrentActiveMaster
  <2>3. w'.gp = w.gp /\ w'.pc = FinalizerBranch(w.gp)
    BY <1>0, <1>2 DEF GetCurrentActiveMaster, WorkerType
  <2>4. SoundWorker'
    <3>1. w.pc = "activeMaster" /\ uids' = uids
      BY <1>2 DEF GetCurrentActiveMaster
    <3>2. /\ w.gp.uid = uids
          /\ w.gp.deleting => (cr.uid = 0 \/ cr.deleting) /\ w.gp.finalizer
          /\ w.gp.finalizer => cr.uid = 0 \/ cr.finalizer
      BY <3>1 DEF SoundWorker
    <3>3. w'.pc \in {"addFinalizer", "setDeleting", "gpstop", "exists"}
      BY <2>3 DEF FinalizerBranch
    <3>4. w'.pc \in {"setDeleting", "gpstop"} => w.gp.deleting
      BY <2>3 DEF FinalizerBranch
    <3>5. w'.pc = "exists" => w.gp.finalizer
      BY <2>3, <3>2 DEF FinalizerBranch
    <3> QED BY <2>1, <2>3, <3>1, <3>2, <3>3, <3>4, <3>5 DEF SoundWorker, Past
  <2> QED BY <2>1, <2>2, <2>4
<1>3. CASE AddFinalizer(o)
  <2> DEFINE new == [cr EXCEPT !.finalizer = TRUE]
  <2>1. new \in CRType
    BY DEF CRType
  <2>2. /\ new.uid = cr.uid /\ new.deleting = cr.deleting /\ new.finalizer = TRUE
    BY DEF CRType
  <2>3. CASE NoWriteCR /\ Retry
    <3>1. SoundVersions' /\ cr' = cr
      BY <1>3, <2>3, DeliverSound DEF AddFinalizer, NoWriteCR
    <3> QED BY <1>3, <2>3, <3>1, OwnersKept
            DEF AddFinalizer, SoundWorker, Retry, Idle
  <2>4. CASE cr.uid # 0 /\ WriteCR(new)
    <3>1. SoundVersions' /\ cr' = new
      <4>1. new.uid \in {0, uids} /\ uids' = uids
        BY <1>3, <2>2 DEF AddFinalizer, Sound
      <4> HIDE DEF new
      <4> QED BY <2>1, <2>2, <2>4, <4>1, WriteSound
    <3>2. SoundOwners'
      BY <1>3, <2>2, <3>1, OwnersKept DEF AddFinalizer
    <3>3. \/ w' = Idle
          \/ w' = [w EXCEPT !.pc = "exists", !.gp = Decode(new, w.gp)]
      BY <1>3, <2>4 DEF AddFinalizer, Retry
    <3>4. Decode(new, w.gp).uid = cr.uid
      BY <1>0, <2>1, <2>2 DEF Decode, CRType
    <3>5. Decode(new, w.gp).deleting => cr.deleting \/ w.gp.deleting
      BY <1>0, <2>1, <2>2 DEF Decode, CRType
    <3>6. SoundWorker'
      <4>1. CASE w' = Idle
        BY <4>1 DEF SoundWorker, Idle
      <4>2. CASE w' = [w EXCEPT !.pc = "exists", !.gp = Decode(new, w.gp)]
        <5>1. w'.pc = "exists" /\ w'.gp = Decode(new, w.gp)
          BY <1>0, <4>2 DEF WorkerType
        <5>2. w.pc # "idle" /\ uids' = uids
          BY <1>3 DEF AddFinalizer
        <5> HIDE DEF new
        <5> QED BY <2>2, <2>4, <3>1, <3>4, <3>5, <5>1, <5>2
                DEF SoundWorker, Sound, Past
      <4> QED BY <3>3, <4>1, <4>2
    <3> QED BY <3>1, <3>2, <3>6
  <2> QED BY <1>3, <2>3, <2>4 DEF AddFinalizer
<1>4. CASE SetDeleting(o)
  <2> DEFINE new == [cr EXCEPT !.phase = "Deleting"]
             local == [w.gp EXCEPT !.phase = "Deleting"]
  <2>1. new \in CRType /\ local \in CRType
    BY <1>0 DEF CRType, Phases
  <2>2. /\ new.uid = cr.uid /\ new.deleting = cr.deleting
        /\ new.finalizer = cr.finalizer
        /\ local.uid = w.gp.uid /\ local.deleting = w.gp.deleting
        /\ local.finalizer = w.gp.finalizer
    BY <1>0 DEF CRType
  <2>3. /\ SoundVersions' /\ cr'.uid = cr.uid
        /\ cr'.deleting = cr.deleting /\ cr'.finalizer = cr.finalizer
    <3>1. CASE NoWriteCR
      BY <1>4, <3>1, DeliverSound DEF SetDeleting, NoWriteCR
    <3>2. CASE cr.uid # 0 /\ WriteCR(new)
      <4>1. /\ new.uid \in {0, uids} /\ uids' = uids
            /\ new.deleting => new.finalizer
        BY <1>4, <2>2 DEF SetDeleting, Sound
      <4> HIDE DEF new
      <4> QED BY <2>1, <2>2, <3>2, <4>1, WriteSound
    <3> QED BY <1>4, <3>1, <3>2 DEF SetDeleting
  <2>4. SoundOwners'
    BY <1>4, <2>3, OwnersKept DEF SetDeleting
  <2>5. /\ w'.pc = "gpstop"
        /\ w'.gp = local \/ (cr.uid # 0 /\ w'.gp = Decode(new, local))
    BY <1>0, <1>4 DEF SetDeleting, WorkerType
  <2>6. /\ Decode(new, local).uid = cr.uid
        /\ Decode(new, local).deleting <=> cr.deleting \/ w.gp.deleting
        /\ Decode(new, local).finalizer => cr.finalizer \/ w.gp.finalizer
    BY <1>0, <2>1, <2>2 DEF Decode, CRType
  <2>7. SoundWorker'
    <3>1. w.pc = "setDeleting" /\ uids' = uids /\ w.gp.deleting
      BY <1>4 DEF SetDeleting, SoundWorker
    <3> HIDE DEF new, local
    <3> QED BY <2>2, <2>3, <2>5, <2>6, <3>1 DEF SoundWorker, Sound, Past
  <2> QED BY <2>3, <2>4, <2>7
<1>5. CASE EnsureGreenplumClusterStopped(o)
  <2>1. SoundVersions' /\ cr' = cr
    BY <1>5, DeliverSound DEF EnsureGreenplumClusterStopped
  <2>2. SoundOwners'
    BY <1>5, <2>1, OwnersKept DEF EnsureGreenplumClusterStopped
  <2>3. w'.pc = "removeFinalizer" /\ w'.gp = w.gp
    BY <1>0, <1>5 DEF EnsureGreenplumClusterStopped, WorkerType
  <2>4. SoundWorker'
    BY <1>5, <2>1, <2>3 DEF EnsureGreenplumClusterStopped, SoundWorker, Past
  <2> QED BY <2>1, <2>2, <2>4
<1>6. CASE RemoveFinalizer(o)
  <2> DEFINE patched == [cr EXCEPT !.finalizer = FALSE,
                            !.phase = IF w.mark = "none" THEN @ ELSE "Deleting"]
             new == IF cr.deleting THEN NoCR ELSE patched
             local == [w.gp EXCEPT !.finalizer = FALSE]
  <2>0. w.pc = "removeFinalizer" /\ w.gp.deleting /\ uids' = uids
    BY <1>6 DEF RemoveFinalizer, SoundWorker
  <2>1. cr.uid = 0 \/ cr.deleting
    BY <2>0 DEF SoundWorker
  <2>2. CASE NoWriteCR
    <3>1. SoundVersions' /\ cr' = cr
      BY <1>6, <2>2, DeliverSound DEF RemoveFinalizer, NoWriteCR
    <3>2. SoundOwners'
      BY <1>6, <3>1, OwnersKept DEF RemoveFinalizer
    <3>3. SoundWorker'
      <4>1. \/ w' = Idle
            \/ cr.uid = 0 /\ w' = [w EXCEPT !.pc = "exists", !.gp = local]
            \/ cr.uid # 0 /\ WriteCR(new)
               /\ w' = [w EXCEPT !.pc = "exists", !.gp = Decode(patched, local)]
        BY <1>6 DEF RemoveFinalizer, Retry
      <4>2. local.uid = w.gp.uid
        BY <1>0 DEF CRType
      <4>3. CASE cr.uid # 0 /\ WriteCR(new)
        <5>1. crLog \in Seq(CRType) /\ crLog # <<>> /\ new = NoCR
              /\ crLog' = Record(crLog, new)
          BY <2>1, <4>3 DEF TypeOK, WriteCR
        <5>2. cr' = NoCR
          BY <5>1, StoredRecord, AbsentTypes DEF cr
        <5>3. NoCR.uid = 0
          BY DEF NoCR
        <5> QED BY <3>1, <4>3, <5>2, <5>3
      <4>4. CASE w' = Idle
        BY <4>4 DEF SoundWorker, Idle
      <4>5. CASE cr.uid = 0 /\ w' = [w EXCEPT !.pc = "exists", !.gp = local]
        <5>1. w'.pc = "exists" /\ w'.gp = local
          BY <1>0, <4>5 DEF WorkerType
        <5> HIDE DEF local
        <5> QED BY <2>0, <3>1, <4>2, <4>5, <5>1 DEF SoundWorker
      <4> QED BY <4>1, <4>3, <4>4, <4>5
    <3> QED BY <3>1, <3>2, <3>3
  <2>3. CASE cr.uid # 0 /\ WriteCR(new)
    <3>1. new = NoCR /\ NoCR \in CRType /\ NoCR.uid = 0 /\ ~NoCR.deleting /\ ~NoCR.finalizer
      BY <2>1, <2>3, AbsentTypes DEF NoCR
    <3>2. SoundVersions' /\ cr' = NoCR
      BY <2>0, <2>3, <3>1, WriteSound
    <3>3. SoundOwners'
      BY <1>6, <2>0, <3>1, <3>2, OwnersKept DEF RemoveFinalizer
    <3>4. SoundWorker'
      <4>1. \/ w' = Idle
            \/ w' = [w EXCEPT !.pc = "exists", !.gp = Decode(patched, local)]
        BY <1>6, <2>3 DEF RemoveFinalizer, Retry
      <4>2. Decode(patched, local).uid = uids
        <5>1. patched \in CRType /\ patched.uid = cr.uid
          BY DEF CRType, Phases
        <5>2. cr.uid = uids
          BY <2>3 DEF Sound
        <5> HIDE DEF patched, local
        <5> QED BY <5>1, <5>2 DEF Decode, CRType
      <4>3. CASE w' = Idle
        BY <4>3 DEF SoundWorker, Idle
      <4>4. CASE w' = [w EXCEPT !.pc = "exists", !.gp = Decode(patched, local)]
        <5>1. w'.pc = "exists" /\ w'.gp = Decode(patched, local)
          BY <1>0, <4>4 DEF WorkerType
        <5> HIDE DEF patched, local
        <5> QED BY <2>0, <3>1, <3>2, <4>2, <5>1 DEF SoundWorker
      <4> QED BY <4>1, <4>3, <4>4
    <3> QED BY <3>2, <3>3, <3>4
  <2> QED BY <1>6, <2>2, <2>3 DEF RemoveFinalizer
<1> QED BY <1>1, <1>2, <1>3, <1>4, <1>5, <1>6

\* A step of Reconcile past handleFinalizer keeps the invariant.
LEMMA FinalizerBack ==
    ASSUME TypeOK, SoundVersions, SoundWorker, SoundOwners, NEW o \in Outcomes,
           \/ ClusterExists \/ ResourcesDone \/ HandleAntiAffinity(o)
           \/ \E k \in Tracked : CreateOrUpdate(k, o)
           \/ ReconcileStatus(o) \/ SetRunning(o) \/ GetCurrentSegmentCount(o)
           \/ CheckJob(o) \/ CreateJob(o)
    PROVE  SoundVersions' /\ SoundWorker' /\ SoundOwners'
<1> USE ObjectTypes, EndsSound
<1>0. w.gp \in CRType /\ w \in WorkerType /\ uids' = uids /\ w.pc \in Past
  BY DEF TypeOK, WorkerType, ClusterExists, ResourcesDone, HandleAntiAffinity,
         CreateOrUpdate, ReconcileStatus, SetRunning, GetCurrentSegmentCount,
         CheckJob, CreateJob, Past, PCs
<1>1. /\ w.gp.uid = uids
      /\ w.gp.deleting => cr.uid = 0 \/ cr.deleting
      /\ cr.uid = 0 \/ cr.finalizer
  BY <1>0 DEF SoundWorker, Past
<1>2. ASSUME SoundVersions', cr'.uid = cr.uid, cr'.deleting = cr.deleting,
             cr'.finalizer = cr.finalizer,
             w' = Idle \/ (w'.pc \in Past /\ w'.gp = w.gp)
      PROVE  SoundWorker'
  <2>1. CASE w' = Idle
    BY <2>1 DEF SoundWorker, Idle
  <2>2. CASE w'.pc \in Past /\ w'.gp = w.gp
    BY <1>0, <1>1, <1>2, <2>2 DEF SoundWorker, Past
  <2> QED BY <1>2, <2>1, <2>2
<1>3. CASE ClusterExists \/ ResourcesDone \/ HandleAntiAffinity(o)
           \/ GetCurrentSegmentCount(o) \/ CheckJob(o) \/ CreateJob(o)
  <2>1. crLog' = crLog /\ resLog' = resLog
    BY <1>3 DEF ClusterExists, ResourcesDone, HandleAntiAffinity,
                GetCurrentSegmentCount, CheckJob, CreateJob
  <2>2. SoundVersions' /\ cr' = cr
    BY <1>0, <2>1, DeliverSound
  <2>3. w' = Idle \/ (w'.pc \in Past /\ w'.gp = w.gp)
    BY <1>0, <1>3 DEF ClusterExists, ResourcesDone, HandleAntiAffinity,
       GetCurrentSegmentCount, CheckJob, CreateJob, Goto, Retry, Finish, Past,
       PCs, WorkerType
  <2>4. SoundOwners'
    BY <1>0, <2>1, <2>2, OwnersKept
  <2> QED BY <1>2, <2>2, <2>3, <2>4
<1>4. ASSUME NEW k \in Tracked, CreateOrUpdate(k, o)
      PROVE  SoundVersions' /\ SoundWorker' /\ SoundOwners'
  <2> DEFINE new == Mutate(k, Cached(resLog[k]))
  <2>1. SoundVersions' /\ cr' = cr
    BY <1>0, <1>4, DeliverSound DEF CreateOrUpdate
  <2>2. w' = Idle \/ (w'.pc \in Past /\ w'.gp = w.gp)
    <3>1. w' = Idle \/ w' = [w EXCEPT !.done = @ \cup {k}]
      BY <1>4 DEF CreateOrUpdate, Retry
    <3> QED BY <1>0, <3>1 DEF WorkerType
  <2>3. new \in ResType /\ new.owner = uids
    <3>1. new \in ResType
      BY MutateType
    <3> QED BY <1>1, <3>1 DEF Mutate, ControllerReference
  <2>4. \/ resLog' = resLog
        \/ resLog' = [resLog EXCEPT ![k] = Record(resLog[k], new)]
    BY <1>4 DEF CreateOrUpdate
  <2>5. CASE resLog' = resLog
    BY <1>0, <1>2, <2>1, <2>2, <2>5, OwnersKept
  <2>6. CASE resLog' = [resLog EXCEPT ![k] = Record(resLog[k], new)]
    <3> HIDE DEF new
    <3>1. resLog[k] \in Seq(ResType) /\ resLog[k] # <<>>
      BY DEF TypeOK
    <3>2. Stored(Record(resLog[k], new)) = new
      BY <2>3, <3>1, StoredRecord
    <3>3. resLog'[k] = Record(resLog[k], new)
          /\ \A j \in Tracked : j # k => resLog'[j] = resLog[j]
      BY <2>6 DEF TypeOK
    <3>4. ASSUME NEW j \in Tracked
          PROVE  /\ res(j)'.owner <= uids
                 /\ res(j)'.owner = cr.uid /\ cr.uid # 0 => cr.finalizer
      <4>1. CASE j = k
        <5>1. res(j)' = new
          BY <3>2, <3>3, <4>1 DEF res
        <5>2. uids <= uids
          BY DEF TypeOK
        <5> QED BY <1>1, <2>3, <5>1, <5>2
      <4>2. CASE j # k
        <5>1. res(j)' = res(j)
          BY <3>3, <4>2 DEF res
        <5> QED BY <5>1 DEF SoundOwners
      <4> QED BY <4>1, <4>2
    <3>5. SoundOwners'
      BY <1>0, <2>1, <3>4 DEF SoundOwners
    <3> QED BY <1>2, <2>1, <2>2, <3>5
  <2> QED BY <2>4, <2>5, <2>6
<1>5. ASSUME NEW new \in CRType, NEW local \in CRType, WriteCR(new), cr.uid # 0,
             resLog' = resLog,
             new.uid = cr.uid, new.deleting = cr.deleting,
             new.finalizer = cr.finalizer,
             local.uid = uids,
             local.deleting = w.gp.deleting, local.finalizer = w.gp.finalizer,
             \/ w' = Idle
             \/ w'.pc \in Past /\ w'.gp \in {local, Decode(new, local)}
      PROVE  SoundVersions' /\ SoundWorker' /\ SoundOwners'
  <2>1. new.uid \in {0, uids} /\ (new.deleting => new.finalizer)
    BY <1>5 DEF Sound
  <2>2. SoundVersions' /\ cr' = new
    BY <1>0, <1>5, <2>1, WriteSound
  <2>3. SoundOwners'
    BY <1>0, <1>5, <2>2, OwnersKept
  <2>4. /\ Decode(new, local).uid = cr.uid
        /\ Decode(new, local).deleting => cr.deleting \/ w.gp.deleting
        /\ Decode(new, local).finalizer => cr.finalizer \/ w.gp.finalizer
    BY <1>5 DEF Decode, CRType
  <2>5. SoundWorker'
    <3>1. CASE w' = Idle
      BY <3>1 DEF SoundWorker, Idle
    <3>2. CASE w'.pc \in Past /\ w'.gp \in {local, Decode(new, local)}
      <4>1. w'.gp.uid = uids
        BY <1>5, <2>1, <2>4, <3>2
      <4>2. w'.gp.deleting => cr'.deleting
        BY <1>1, <1>5, <2>2, <2>4, <3>2
      <4>3. cr'.finalizer
        BY <1>1, <1>5, <2>2
      <4> QED BY <1>0, <3>2, <4>1, <4>2, <4>3 DEF SoundWorker, Past
    <3> QED BY <1>5, <3>1, <3>2
  <2> QED BY <2>2, <2>3, <2>5
<1>6. CASE ReconcileStatus(o)
  <2> DEFINE local == [w.gp EXCEPT !.image = opImage,
                          !.phase = IF @ = "unset" THEN "Pending" ELSE @]
             new == [cr EXCEPT
                        !.image = IF w.gp.image # opImage THEN opImage ELSE @,
                        !.phase = IF w.gp.phase = "unset" THEN "Pending" ELSE @]
  <2>1. local \in CRType /\ new \in CRType
    BY <1>0 DEF CRType, Phases, TypeOK
  <2>2. /\ new.uid = cr.uid /\ new.deleting = cr.deleting
        /\ new.finalizer = cr.finalizer
        /\ local.uid = w.gp.uid /\ local.deleting = w.gp.deleting
        /\ local.finalizer = w.gp.finalizer
    BY <1>0 DEF CRType
  <2>3. ASSUME NEW gp, AfterStatus(gp)
        PROVE  w' = Idle \/ (w'.pc \in Past /\ w'.gp = gp)
    BY <1>0, <2>3 DEF AfterStatus, Retry, Past, PCs, WorkerType
  <2>4. resLog' = resLog
    BY <1>6 DEF ReconcileStatus
  <2>5. CASE NoWriteCR /\ (AfterStatus(w.gp) \/ Retry)
    <3>1. SoundVersions' /\ cr' = cr
      BY <1>0, <2>5, DeliverSound DEF NoWriteCR
    <3> QED BY <1>0, <1>2, <2>3, <2>4, <2>5, <3>1, OwnersKept DEF Retry
  <2>6. CASE cr.uid # 0 /\ WriteCR(new) /\ (Retry \/ AfterStatus(Decode(new, local)))
    <3> HIDE DEF new, local
    <3>1. \/ w' = Idle
          \/ w'.pc \in Past /\ w'.gp \in {local, Decode(new, local)}
      BY <2>3, <2>6 DEF Retry
    <3> QED BY <1>1, <1>5, <2>1, <2>2, <2>4, <2>6, <3>1
  <2> QED BY <1>6, <2>5, <2>6 DEF ReconcileStatus
<1>7. CASE SetRunning(o)
  <2> DEFINE new == [cr EXCEPT !.phase = "Running"]
             local == [w.gp EXCEPT !.phase = "Running"]
  <2>1. new \in CRType /\ local \in CRType
    BY <1>0 DEF CRType, Phases
  <2>2. /\ new.uid = cr.uid /\ new.deleting = cr.deleting
        /\ new.finalizer = cr.finalizer
        /\ local.uid = w.gp.uid /\ local.deleting = w.gp.deleting
        /\ local.finalizer = w.gp.finalizer
    BY <1>0 DEF CRType
  <2>3. /\ resLog' = resLog /\ w'.pc \in Past
        /\ w'.gp \in {local, Decode(new, local)}
    BY <1>0, <1>7 DEF SetRunning, Past, PCs, WorkerType
  <2>4. CASE cr.uid # 0 /\ WriteCR(new)
    <3> HIDE DEF new, local
    <3> QED BY <1>1, <1>5, <2>1, <2>2, <2>3, <2>4
  <2>5. CASE NoWriteCR /\ w'.gp = local
    <3>1. SoundVersions' /\ cr' = cr
      BY <1>0, <2>5, DeliverSound DEF NoWriteCR
    <3>2. SoundOwners'
      BY <1>0, <2>3, <3>1, OwnersKept
    <3>3. SoundWorker'
      <4> HIDE DEF local
      <4> QED BY <1>0, <1>1, <2>2, <2>3, <2>5, <3>1 DEF SoundWorker, Past
    <3> QED BY <3>1, <3>2, <3>3
  <2> QED BY <1>0, <1>7, <2>4, <2>5 DEF SetRunning, WorkerType
<1> QED BY <1>3, <1>4, <1>6, <1>7

\* A step of the surroundings, of a user who waits for deletions, or a restart
\* keeps the invariant.
LEMMA FinalizerOutside ==
    ASSUME TypeOK, SoundVersions, SoundWorker, SoundOwners, PatientUser,
           Environment \/ User \/ \E image \in Images : Restart(image)
    PROVE  SoundVersions' /\ SoundWorker' /\ SoundOwners'
<1> USE ObjectTypes, EndsSound
<1>0. w \in WorkerType
  BY DEF TypeOK
<1>1. ASSUME cr'.uid = 0 \/ (cr'.uid = cr.uid /\ (cr.finalizer => cr'.finalizer)
                                /\ (cr.deleting => cr'.deleting)),
             uids' = uids,
             w' = w \/ w' = Idle \/ (w'.pc = w.pc /\ w'.gp = w.gp)
      PROVE  SoundWorker'
  <2>1. CASE w' = Idle
    BY <2>1 DEF SoundWorker, Idle
  <2>2. CASE w'.pc = w.pc /\ w'.gp = w.gp
    BY <1>1, <2>2 DEF SoundWorker, Past
  <2> QED BY <1>1, <2>1, <2>2
<1>2. ASSUME Outdate PROVE w'.pc = w.pc /\ w'.gp = w.gp
  BY <1>0, <1>2 DEF Outdate, WorkerType
<1>3. CASE DeliverCR \/ DeliverJob \/ Resync \/ CollectJob \/ StartDatabase
           \/ StopDatabase \/ JobSucceeds \/ JobFails \/ CleanSchema
           \/ \E n \in Counts : AdmitUpdate(n)
  <2>1. /\ uids' = uids /\ w' = w /\ resLog' = resLog
        /\ crLog' = crLog \/ (~InSync(crLog) /\ crLog' = Deliver(crLog))
    BY <1>3 DEF DeliverCR, DeliverJob, Resync, CollectJob, StartDatabase,
       StopDatabase, JobSucceeds, JobFails, CleanSchema, AdmitUpdate
  <2>2. SoundVersions' /\ cr' = cr
    BY <2>1, DeliverSound
  <2> QED BY <1>1, <2>1, <2>2, OwnersKept
<1>4. ASSUME NEW k \in Tracked,
             DeliverResource(k) \/ TouchStatefulSet(k) \/ CollectResource(k)
      PROVE  SoundVersions' /\ SoundWorker' /\ SoundOwners'
  <2>1. uids' = uids /\ w' = w /\ crLog' = crLog
    BY <1>4 DEF DeliverResource, TouchStatefulSet, CollectResource
  <2>2. SoundVersions' /\ cr' = cr
    BY <2>1, DeliverSound
  <2>3. resLog[k] \in Seq(ResType) /\ resLog[k] # <<>> /\ Stored(resLog[k]) \in ResType
    BY LogTypes DEF TypeOK
  <2>4. /\ Stored(resLog'[k]) = Stored(resLog[k]) \/ Stored(resLog'[k]) = NoRes
        /\ \A j \in Tracked : j # k => resLog'[j] = resLog[j]
    <3>1. CASE DeliverResource(k)
      <4>1. Stored(Deliver(resLog[k])) = Stored(resLog[k])
        BY <2>3, <3>1, DeliverVersions DEF DeliverResource
      <4> QED BY <3>1, <4>1 DEF DeliverResource, TypeOK
    <3>2. CASE TouchStatefulSet(k)
      <4>1. Stored(Append(resLog[k], Stored(resLog[k]))) = Stored(resLog[k])
        BY <2>3, StoredRecord
      <4> QED BY <3>2, <4>1 DEF TouchStatefulSet, TypeOK
    <3>3. CASE CollectResource(k)
      <4>1. Stored(Record(resLog[k], NoRes)) = NoRes
        BY <2>3, StoredRecord, AbsentTypes
      <4> QED BY <3>3, <4>1 DEF CollectResource, TypeOK
    <3> QED BY <1>4, <3>1, <3>2, <3>3
  <2>5. ASSUME NEW j \in Tracked
        PROVE  res(j)' = res(j) \/ res(j)' = NoRes
    BY <2>4 DEF res
  <2>6. NoRes.owner = 0 /\ uids \in Nat
    BY DEF NoRes, TypeOK
  <2>7. SoundOwners'
    BY <2>1, <2>2, <2>5, <2>6 DEF SoundOwners
  <2> QED BY <1>1, <2>1, <2>2, <2>7
<1>5. ASSUME NEW spec \in Specs, UserCreate(spec)
      PROVE  SoundVersions' /\ SoundWorker' /\ SoundOwners'
  <2> DEFINE new == [NoCR EXCEPT !.uid = uids + 1, !.spec = spec]
  <2>1. /\ InSync(crLog) /\ w.pc = "idle" /\ cr.uid = 0
        /\ uids' = uids + 1 /\ resLog' = resLog /\ Outdate
        /\ crLog' = Record(crLog, new)
    BY <1>5 DEF UserCreate, WriteCR
  <2>2. uids \in Nat /\ crLog \in Seq(CRType) /\ crLog # <<>>
    BY DEF TypeOK
  <2>3. /\ new \in CRType /\ new.uid = uids + 1 /\ ~new.deleting /\ ~new.finalizer
    <3>1. spec \in SpecType
      BY ConstantsAssumption
    <3>2. uids + 1 \in Nat
      BY <2>2
    <3>3. new \in CRType
      BY <3>1, <3>2, AbsentTypes DEF CRType
    <3>4. new.uid = uids + 1 /\ ~new.deleting /\ ~new.finalizer
      BY DEF NoCR
    <3> QED BY <3>3, <3>4
  <2> HIDE DEF new
  <2>4. cr' = new
    BY <2>1, <2>2, <2>3, StoredRecord DEF cr
  <2>5. SoundVersions'
    <3>1. ASSUME NEW i \in 1..Len(crLog')
          PROVE  Sound(crLog[i])'
      <4>1. crLog'[i] = new \/ (i \in 1..Len(crLog) /\ crLog'[i] = crLog[i])
        BY <2>1, <2>2, <2>3, RecordVersions
      <4>2. CASE crLog'[i] = new
        BY <2>1, <2>3, <2>4, <4>2 DEF Sound
      <4>3. CASE i \in 1..Len(crLog) /\ crLog'[i] = crLog[i]
        <5>1. crLog'[i] = cr
          <6>1. Len(crLog) = 1
            BY <2>1 DEF InSync
          <6> QED BY <4>3, <6>1 DEF cr, Stored
        <5>2. Sound(cr)
          OBVIOUS
        <5> QED BY <2>1, <5>1, <5>2 DEF Sound
      <4> QED BY <4>1, <4>2, <4>3
    <3> QED BY <3>1 DEF SoundVersions
  <2>6. SoundWorker'
    BY <1>2, <2>1 DEF SoundWorker
  <2>7. SoundOwners'
    <3>1. ASSUME NEW k \in Tracked
          PROVE  res(k).owner <= uids + 1 /\ res(k).owner # uids + 1
      <4>1. res(k).owner <= uids /\ res(k).owner \in Nat
        BY DEF SoundOwners, ResType
      <4> QED BY <2>2, <4>1
    <3> QED BY <2>1, <2>3, <2>4, <3>1 DEF SoundOwners, res
  <2> QED BY <2>5, <2>6, <2>7
<1>6. CASE UserDelete
  <2> DEFINE new == IF cr.finalizer THEN [cr EXCEPT !.deleting = TRUE] ELSE NoCR
  <2>1. /\ new \in CRType
        /\ \/ new.uid = 0 /\ ~new.deleting /\ ~new.finalizer
           \/ new.uid = cr.uid /\ new.deleting /\ new.finalizer
    BY AbsentTypes DEF CRType, NoCR
  <2>2. uids' = uids /\ resLog' = resLog /\ Outdate /\ WriteCR(new) /\ cr.uid # 0
    BY <1>6 DEF UserDelete
  <2> HIDE DEF new
  <2>3. new.uid \in {0, uids}
    BY <2>1 DEF Sound
  <2>4. SoundVersions' /\ cr' = new
    BY <2>1, <2>2, <2>3, WriteSound
  <2> QED BY <1>1, <1>2, <2>1, <2>2, <2>4, OwnersKept
<1>7. CASE StoreUpdate
  <2> DEFINE new == [cr EXCEPT !.spec.count = upd]
  <2>0. cr.spec \in SpecType /\ upd \in Nat
    BY DEF CRType, TypeOK
  <2>1. new \in CRType
    BY <2>0 DEF CRType, SpecType
  <2>2. new.uid = cr.uid /\ new.deleting = cr.deleting /\ new.finalizer = cr.finalizer
    BY DEF CRType
  <2>3. uids' = uids /\ resLog' = resLog /\ Outdate /\ WriteCR(new)
    BY <1>7 DEF StoreUpdate
  <2> HIDE DEF new
  <2>4. CASE cr.uid # 0
    <3>1. SoundVersions' /\ cr' = new
      BY <2>1, <2>2, <2>3, <2>4, WriteSound DEF Sound
    <3> QED BY <1>1, <1>2, <2>2, <2>3, <3>1, OwnersKept
  <2>5. CASE cr.uid = 0
    <3>1. SoundVersions' /\ cr' = new
      BY <2>1, <2>2, <2>3, <2>5, WriteSound DEF Sound
    <3> QED BY <1>1, <1>2, <2>2, <2>3, <3>1, OwnersKept
  <2> QED BY <2>4, <2>5
<1>8. ASSUME NEW image \in Images, Restart(image)
      PROVE  SoundVersions' /\ SoundWorker' /\ SoundOwners'
  <2>1. /\ uids' = uids /\ w' = Idle /\ crLog' = Relist(crLog)
        /\ resLog' = [k \in Tracked |-> Relist(resLog[k])]
    BY <1>8 DEF Restart
  <2>2. SoundVersions' /\ cr' = cr
    BY <2>1, DeliverSound
  <2>3. ASSUME NEW k \in Tracked PROVE res(k)' = res(k)
    <3>1. resLog[k] \in Seq(ResType) /\ resLog[k] # <<>>
      BY DEF TypeOK
    <3>2. Stored(Relist(resLog[k])) = Stored(resLog[k])
      BY <3>1, DeliverVersions
    <3>3. resLog'[k] = Relist(resLog[k])
      BY <2>1
    <3> QED BY <3>2, <3>3 DEF res
  <2>4. SoundOwners'
    BY <2>1, <2>2, <2>3 DEF SoundOwners
  <2> QED BY <1>1, <2>1, <2>2, <2>4
<1> QED BY <1>3, <1>4, <1>5, <1>6, <1>7, <1>8 DEF Environment, User

\* Before the first cluster the invariant holds.
LEMMA FinalizerInit ==
    ASSUME Init
    PROVE  FinalizerInv
<1>1. Len(crLog) = 1 /\ crLog[1] = NoCR
  BY DEF Init
<1>2. NoCR.uid = 0 /\ ~NoCR.deleting /\ ~NoCR.finalizer /\ Idle.pc = "idle"
      /\ NoRes.owner = 0
  BY DEF NoCR, Idle, NoRes
<1>3. cr = NoCR /\ \A k \in Tracked : res(k) = NoRes
  BY DEF Init, cr, res, Stored
<1>4. SoundVersions
  BY <1>1, <1>2, <1>3 DEF SoundVersions, Sound
<1>5. uids = 0 /\ w = Idle
  BY DEF Init
<1>6. SoundWorker /\ SoundOwners
  BY <1>2, <1>3, <1>5 DEF SoundWorker, SoundOwners
<1> QED BY <1>4, <1>6, TypeInit DEF FinalizerInv

\* A step keeps types and invariant, whoever takes it.
LEMMA FinalizerStep ==
    ASSUME PatientUser, FinalizerInv, [Next]_vars
    PROVE  FinalizerInv'
<1>1. TypeOK'
  BY TypeStep DEF FinalizerInv
<1>2. SoundVersions' /\ SoundWorker' /\ SoundOwners'
  <2> USE DEF FinalizerInv
  <2>1. CASE Worker
    BY <2>1, FinalizerFront, FinalizerBack DEF Worker, Outcomes
  <2>2. CASE Environment \/ User \/ \E image \in Images : Restart(image)
    BY <2>2, FinalizerOutside
  <2>3. CASE UNCHANGED vars
    BY <2>3 DEF vars, SoundVersions, Sound, SoundWorker, SoundOwners, cr, res
  <2> QED BY <2>1, <2>2, <2>3 DEF Next
<1> QED BY <1>1, <1>2 DEF FinalizerInv

\* No resource is created for a GreenplumCluster before the API server holds
\* the finalizer that makes the operator stop the database first, whatever the
\* caches lag and wherever calls fail or the operator crashes, as long as users
\* re-create a cluster only once the operator has seen the deletion.
THEOREM FinalizerFirst == PatientUser => (Spec => []FinalizerBeforeResources)
<1> SUFFICES ASSUME PatientUser PROVE Spec => []FinalizerBeforeResources
  OBVIOUS
<1>1. Init => FinalizerInv
  BY FinalizerInit
<1>2. FinalizerInv /\ [Next]_vars => FinalizerInv'
  BY FinalizerStep
<1>3. FinalizerInv => FinalizerBeforeResources
  BY DEF FinalizerInv, SoundOwners, FinalizerBeforeResources
<1> QED BY <1>1, <1>2, <1>3, PTL DEF Spec
=============================================================================
