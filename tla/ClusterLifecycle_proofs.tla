----------------------- MODULE ClusterLifecycle_proofs -----------------------
(***************************************************************************)
(* The control loop implements ClusterLifecycle, and the safety properties *)
(* that go with it, for every value of the constants: any resources,       *)
(* specifications and images, any lag of the caches, any number of         *)
(* incarnations, faults and restarts.  Users are patient throughout.       *)
(***************************************************************************)
EXTENDS GreenplumClusterReconciler_proofs

Alive == cr.uid # 0

\* Where the worker is past handleFinalizer and has not written the status yet ...
Building == {"exists", "antiAffinity", "create", "status"}

\* ... and where it handles a deletion.
Deleting == {"setDeleting", "gpstop", "removeFinalizer"}

-----------------------------------------------------------------------------
(***************************************************************************)
(* The versions of the living cluster on their way to the cache.           *)
(***************************************************************************)
Absent == cr.uid = 0 => cr = NoCR

\* Of the specification only the count changes, and it grows.
VersionsFollowSpec ==
    Alive => \A v \in Versions(crLog) : v.uid # 0 =>
        /\ v.spec.mirrors = cr.spec.mirrors
        /\ v.spec.count <= cr.spec.count

\* A deletion timestamp and a finalizer stay.
Ordered ==
    Alive => \A i, j \in 1..Len(crLog) : i <= j =>
        /\ crLog[i].deleting => crLog[j].deleting
        /\ crLog[i].finalizer => crLog[j].finalizer

\* The phase and the image are written together, and stay written.
Bound(v) == /\ v.phase = "unset" => v.image = "unset"
            /\ v.image = "unset" => v.phase \in {"unset", "Deleting"}

PhaseWithImage(v) ==
    /\ Bound(v)
    /\ v.phase = "Deleting" => v.deleting
    /\ v.phase # "unset" => cr.phase # "unset"

VersionsHavePhase == Alive => \A v \in Versions(crLog) : PhaseWithImage(v)

\* The operator marks a cluster Deleting when its cache knows of the deletion.
DeletingInCache ==
    Alive /\ cr.phase = "Deleting" => \A v \in Versions(crLog) : v.deleting

\* An operator with another image than the cluster's has seen that in its cache.
Foreign == Alive /\ cr.image \notin {"unset", opImage}

ForeignInCache == Foreign => \A v \in Versions(crLog) : v.image = cr.image

\* An admitted update is for the living cluster as it is stored.
UpdateGrows == upd # 0 => Alive /\ upd > cr.spec.count

LogInv == /\ Absent /\ VersionsFollowSpec /\ Ordered /\ VersionsHavePhase
          /\ DeletingInCache /\ ForeignInCache /\ UpdateGrows
-----------------------------------------------------------------------------
(***************************************************************************)
(* The worker's copy of the living cluster.                                *)
(***************************************************************************)
WorkerFollowsSpec ==
    Alive /\ w.pc # "idle" =>
        /\ w.gp.spec.mirrors \in {cr.spec.mirrors, ToLower(cr.spec.mirrors)}
        /\ w.pc = "activeMaster" => w.gp.spec.mirrors = ToLower(cr.spec.mirrors)
        /\ w.gp.spec.count <= cr.spec.count

WorkerHasPhase ==
    /\ Alive /\ w.pc = "activeMaster" => PhaseWithImage(w.gp)
    /\ Alive /\ w.pc \in Past \cup {"addFinalizer"} =>
          w.gp.phase # "Deleting" /\ (w.gp.phase # "unset" => cr.phase # "unset")
    /\ Alive /\ w.pc \in Building \cup {"addFinalizer"} => Bound(w.gp)
    /\ Alive /\ w.pc = "setRunning" => w.gp.phase # "unset"

\* A worker that handles a deletion has seen it in the cache, where it stays ...
DeletionSeen ==
    Alive /\ (w.pc \in Deleting \/ (w.pc = "activeMaster" /\ w.gp.deleting))
        => \A v \in Versions(crLog) : v.deleting

\* ... so that nobody goes on with a cluster whose phase is Deleting.
DeletingIsFinal ==
    Alive /\ cr.phase = "Deleting" =>
        /\ w.pc \notin Past \cup {"addFinalizer"}
        /\ w.pc = "activeMaster" => w.gp.deleting

\* Nobody goes on with a cluster that is bound to another image.
ForeignStops ==
    /\ Foreign => /\ w.pc # "idle" => w.gp.image = cr.image
                  /\ w.pc \notin Past \ {"exists"}
    /\ w.pc \in Past \ {"exists"} => w.gp.image \in {"unset", opImage}

WorkerInv == /\ WorkerFollowsSpec /\ WorkerHasPhase /\ DeletionSeen
             /\ DeletingIsFinal /\ ForeignStops
-----------------------------------------------------------------------------
(***************************************************************************)
(* What a step does to the versions.                                       *)
(***************************************************************************)

\* The cluster is left alone; its cache may catch up.
SameCR ==
    /\ uids' = uids
    /\ \/ crLog' = crLog
       \/ crLog' = Relist(crLog)
       \/ ~InSync(crLog) /\ crLog' = Deliver(crLog)

\* A delivery or a relist drops versions from the front of the log.
LEMMA SameVersions ==
    ASSUME FinalizerInv, SameCR
    PROVE  /\ cr' = cr /\ Versions(crLog') \subseteq Versions(crLog)
           /\ Ordered => Ordered'
<1>1. crLog \in Seq(CRType) /\ crLog # <<>>
  BY DEF FinalizerInv, TypeOK
<1>2. cr' = cr
  BY DeliverSound DEF FinalizerInv, SameCR
<1>3. cr \in Versions(crLog)
  BY <1>1, VersionsEnds DEF cr
<1>4. Versions(crLog') \subseteq Versions(crLog)
  BY <1>1, <1>3, VersionsKept DEF SameCR, cr
<1>5. ASSUME Ordered PROVE Ordered'
  <2>1. CASE crLog' = crLog
    BY <1>2, <1>5, <2>1 DEF Ordered, Alive
  <2>2. CASE crLog' = Relist(crLog)
    <3>1. Len(crLog') = 1
      BY <1>1, <2>2, DeliverVersions
    <3>2. \A i, j \in 1..Len(crLog') : i = j
      BY <3>1
    <3> QED BY <3>2 DEF Ordered
  <2>3. CASE ~InSync(crLog) /\ crLog' = Deliver(crLog)
    <3>1. \A i \in 1..Len(crLog') : i + 1 \in 1..Len(crLog) /\ crLog'[i] = crLog[i + 1]
      BY <1>1, <2>3, DeliverVersions
    <3>2. SUFFICES ASSUME Alive, NEW i \in 1..Len(crLog'),
                          NEW j \in 1..Len(crLog'), i <= j
                   PROVE  /\ crLog'[i].deleting => crLog'[j].deleting
                          /\ crLog'[i].finalizer => crLog'[j].finalizer
      BY <1>2 DEF Ordered, Alive
    <3>3. i + 1 <= j + 1
      BY <3>2
    <3> QED BY <1>5, <3>1, <3>2, <3>3 DEF Ordered
  <2> QED BY <2>1, <2>2, <2>3 DEF SameCR
<1> QED BY <1>2, <1>4, <1>5

\* A write to the living cluster adds a version that takes back neither its
\* deletion nor its finalizer.
LEMMA NewVersion ==
    ASSUME FinalizerInv, Ordered, Alive, NEW new \in CRType, WriteCR(new),
           cr.deleting => new.deleting, cr.finalizer => new.finalizer
    PROVE  /\ cr' = new /\ Versions(crLog') \subseteq Versions(crLog) \cup {new}
           /\ Ordered'
<1>1. crLog \in Seq(CRType) /\ crLog # <<>> /\ crLog' = Record(crLog, new)
  BY DEF FinalizerInv, TypeOK, WriteCR
<1>2. cr' = new
  BY <1>1, StoredRecord DEF cr
<1>3. Versions(crLog') \subseteq Versions(crLog) \cup {new}
  BY <1>1, VersionsWritten
<1>4. Ordered'
  <2>1. SUFFICES ASSUME NEW i \in 1..Len(crLog'), NEW j \in 1..Len(crLog'), i <= j
                 PROVE  /\ crLog'[i].deleting => crLog'[j].deleting
                        /\ crLog'[i].finalizer => crLog'[j].finalizer
    BY DEF Ordered
  <2>2. CASE new = Stored(crLog)
    <3>1. crLog' = crLog
      BY <1>1, <2>2 DEF Record
    <3> QED BY <2>1, <3>1 DEF Ordered
  <2>3. CASE new # Stored(crLog)
    <3>1. /\ Len(crLog') = Len(crLog) + 1 /\ crLog'[Len(crLog) + 1] = new
          /\ \A n \in 1..Len(crLog) : crLog'[n] = crLog[n]
      BY <1>1, <2>3 DEF Record
    <3>2. CASE j \in 1..Len(crLog)
      <4>1. i \in 1..Len(crLog)
        BY <2>1, <3>2
      <4> QED BY <2>1, <3>1, <3>2, <4>1 DEF Ordered
    <3>3. CASE j = Len(crLog) + 1
      <4>1. CASE i \in 1..Len(crLog)
        <5>1. Sound(crLog[i])
          BY <4>1 DEF FinalizerInv, SoundVersions
        <5>2. crLog'[i] = crLog[i] /\ crLog'[j] = new
          BY <3>1, <3>3, <4>1
        <5> QED BY <5>1, <5>2 DEF Sound, Alive
      <4>2. CASE i = Len(crLog) + 1
        BY <3>3, <4>2
      <4> QED BY <3>1, <4>1, <4>2
    <3> QED BY <3>1, <3>2, <3>3
  <2> QED BY <2>2, <2>3
<1> QED BY <1>2, <1>3, <1>4

\* Leaving the cluster alone keeps LogInv.
LEMMA LogKept ==
    ASSUME FinalizerInv, LogInv, SameCR, upd' = upd,
           opImage' = opImage \/ crLog' = Relist(crLog)
    PROVE  LogInv' /\ cr' = cr /\ Versions(crLog') \subseteq Versions(crLog)
<1>1. /\ cr' = cr /\ Versions(crLog') \subseteq Versions(crLog)
      /\ Ordered'
  BY SameVersions DEF LogInv
<1>2. crLog' = Relist(crLog) => Versions(crLog') = {cr}
  BY VersionsKept DEF FinalizerInv, TypeOK, cr
<1>3. ForeignInCache'
  BY <1>1, <1>2 DEF LogInv, ForeignInCache, Foreign, Alive
<1>4. (Absent /\ VersionsFollowSpec /\ DeletingInCache /\ UpdateGrows)'
  BY <1>1 DEF LogInv, Absent, VersionsFollowSpec, DeletingInCache, UpdateGrows, Alive
<1>5. VersionsHavePhase'
  BY <1>1 DEF LogInv, VersionsHavePhase, PhaseWithImage, Alive
<1> QED BY <1>1, <1>3, <1>4, <1>5 DEF LogInv

\* A write to the living cluster that loses nothing keeps LogInv.
LEMMA LogWritten ==
    ASSUME FinalizerInv, LogInv, Alive, NEW new \in CRType, WriteCR(new),
           new.uid = cr.uid,
           cr.deleting => new.deleting, cr.finalizer => new.finalizer,
           new.spec.mirrors = cr.spec.mirrors, cr.spec.count <= new.spec.count,
           cr.phase # "unset" => new.phase # "unset",
           Bound(new),
           new.phase = "Deleting" =>
               new.deleting /\ \A v \in Versions(crLog) : v.deleting,
           opImage' = opImage,
           \/ new.image \in {"unset", opImage}
           \/ new.image = cr.image
    PROVE  LogInv' /\ cr' = new /\ Versions(crLog') \subseteq Versions(crLog) \cup {new}
<1>1. /\ cr' = new /\ Versions(crLog') \subseteq Versions(crLog) \cup {new}
      /\ Ordered'
  BY NewVersion DEF LogInv
<1>2. cr.spec.count \in Nat /\ new.spec.count \in Nat
      /\ \A v \in Versions(crLog) : v.spec.count \in Nat
  <2>1. \A v \in Versions(crLog) : v \in CRType
    BY VersionsEnds DEF FinalizerInv, TypeOK
  <2>2. \A v \in CRType : v.spec.count \in Nat
    BY DEF CRType, SpecType
  <2>3. cr \in CRType
    BY ObjectTypes DEF FinalizerInv
  <2> QED BY <2>1, <2>2, <2>3
<1>3. VersionsFollowSpec'
  <2>1. SUFFICES ASSUME NEW v \in Versions(crLog) \cup {new}, v.uid # 0
                 PROVE  /\ v.spec.mirrors = new.spec.mirrors
                        /\ v.spec.count <= new.spec.count
    BY <1>1 DEF VersionsFollowSpec
  <2>2. CASE v \in Versions(crLog)
    <3>1. v.spec.mirrors = cr.spec.mirrors /\ v.spec.count <= cr.spec.count
      BY <2>1, <2>2 DEF LogInv, VersionsFollowSpec
    <3> QED BY <1>2, <2>2, <3>1
  <2>3. CASE v = new
    BY <1>2, <2>3
  <2> QED BY <2>1, <2>2, <2>3
<1>4. VersionsHavePhase'
  BY <1>1 DEF LogInv, VersionsHavePhase, PhaseWithImage, Alive
<1>5. DeletingInCache'
  BY <1>1 DEF DeletingInCache
<1>6. ForeignInCache'
  BY <1>1 DEF LogInv, ForeignInCache, Foreign, Alive
<1>7. UpdateGrows'
  BY <1>1 DEF LogInv, UpdateGrows, Alive, WriteCR
<1>8. Absent'
  BY <1>1 DEF Absent, Alive
<1> QED BY <1>1, <1>3, <1>4, <1>5, <1>6, <1>7, <1>8 DEF LogInv
-----------------------------------------------------------------------------
(***************************************************************************)
(* What a step does to the cluster in the API server.                      *)
(***************************************************************************)
Born ==
    /\ cr.uid = 0 /\ w.pc = "idle" /\ w'.pc = "idle"
    /\ uids' = uids + 1 /\ cr'.uid = uids' /\ resLog' = resLog
    /\ cr'.phase = "unset" /\ cr'.image = "unset" /\ ~cr'.deleting

Gone ==
    /\ Alive /\ cr' = NoCR /\ uids' = uids /\ resLog' = resLog
    /\ cr.deleting \/ ~cr.finalizer

\* The living cluster is written to; the count may grow, the finalizer be added.
SameCluster ==
    /\ Alive /\ cr'.uid = cr.uid /\ uids' = uids
    /\ resLog' = resLog /\ opImage' = opImage
    /\ cr'.spec.mirrors = cr.spec.mirrors /\ cr.spec.count <= cr'.spec.count
    /\ cr.finalizer => cr'.finalizer
    /\ Versions(crLog') \subseteq Versions(crLog) \cup {cr'}

LeftAlone == cr' = cr /\ uids' = uids /\ Versions(crLog') \subseteq Versions(crLog)

KeepsStatus == cr'.phase = cr.phase /\ cr'.image = cr.image

TurnsDeleting ==
    /\ cr.deleting /\ cr'.deleting
    /\ cr'.phase = "Deleting" /\ cr'.image = cr.image

TurnsPending ==
    /\ w.pc = "status"
    /\ cr.phase # "Deleting" /\ cr'.phase = "Pending"
    /\ cr.image \in {"unset", opImage} /\ cr'.image = opImage
    /\ cr'.deleting = cr.deleting

TurnsRunning ==
    /\ cr.phase \in {"Pending", "Running"} /\ cr'.phase = "Running"
    /\ cr'.image = cr.image /\ cr'.deleting = cr.deleting

ClusterStep ==
    \/ LeftAlone
    \/ Born
    \/ Gone
    \/ SameCluster /\ \/ KeepsStatus /\ (cr'.deleting = cr.deleting
                                            \/ (~cr.deleting /\ cr'.deleting))
                      \/ TurnsDeleting \/ TurnsPending \/ TurnsRunning

\* An idle worker has no copy of the cluster.
LEMMA WorkerIdle ==
    ASSUME w'.pc = "idle"
    PROVE  WorkerInv'
BY DEF WorkerInv, WorkerFollowsSpec, WorkerHasPhase, DeletionSeen, DeletingIsFinal,
       ForeignStops, Past, PCs, Building, Deleting

\* A worker that stays where it is keeps WorkerInv while the cluster is left alone.
LEMMA WorkerSame ==
    ASSUME WorkerInv, cr' = cr, Versions(crLog') \subseteq Versions(crLog),
           opImage' = opImage, w'.pc = w.pc, w'.gp = w.gp
    PROVE  WorkerInv'
<1>1. WorkerFollowsSpec'
  BY DEF WorkerInv, WorkerFollowsSpec, Alive
<1>2. WorkerHasPhase'
  BY DEF WorkerInv, WorkerHasPhase, PhaseWithImage, Bound, Alive
<1>3. DeletionSeen'
  BY DEF WorkerInv, DeletionSeen, Alive
<1>4. DeletingIsFinal'
  BY DEF WorkerInv, DeletingIsFinal, Alive
<1>5. ForeignStops'
  BY DEF WorkerInv, ForeignStops, Foreign, Alive
<1> QED BY <1>1, <1>2, <1>3, <1>4, <1>5 DEF WorkerInv

\* A worker that goes on past handleFinalizer keeps WorkerInv.
LEMMA WorkerMoves ==
    ASSUME WorkerInv, cr' = cr, opImage' = opImage,
           w.pc \in Past, w'.gp = w.gp,
           w'.pc \in Past \ {"exists", "setRunning"},
           w'.pc \in Building => w.pc \in Building,
           w.pc = "exists" => w.gp.image \in {"unset", opImage}
    PROVE  WorkerInv'
<1>0. w.pc # "idle" /\ w'.pc \notin Deleting \cup {"activeMaster", "addFinalizer", "idle"}
  BY DEF Past, PCs, Deleting
<1>1. WorkerFollowsSpec'
  BY <1>0 DEF WorkerInv, WorkerFollowsSpec, Alive
<1>2. WorkerHasPhase'
  BY <1>0 DEF WorkerInv, WorkerHasPhase, Bound, Alive
<1>3. DeletionSeen'
  BY <1>0 DEF DeletionSeen
<1>4. DeletingIsFinal'
  BY <1>0 DEF WorkerInv, DeletingIsFinal, Alive
<1>5. ForeignStops'
  BY <1>0 DEF WorkerInv, ForeignStops, Foreign, Alive
<1> QED BY <1>1, <1>2, <1>3, <1>4, <1>5 DEF WorkerInv

\* A step of the surroundings, or a restart, leaves the cluster alone.
LEMMA CopiesEnvironment ==
    ASSUME FinalizerInv, LogInv, WorkerInv,
           Environment \/ \E image \in Images : Restart(image)
    PROVE  LogInv' /\ WorkerInv' /\ ClusterStep
<1>1. SameCR /\ upd' = upd
  BY DEF SameCR, Environment, Restart, DeliverCR, DeliverJob, Resync, DeliverResource,
     TouchStatefulSet, CollectResource, CollectJob, StartDatabase, StopDatabase,
     JobSucceeds, JobFails
<1>2. \/ opImage' = opImage /\ w' = w
      \/ w' = Idle /\ crLog' = Relist(crLog)
  BY DEF Environment, Restart, DeliverCR, DeliverJob, Resync, DeliverResource,
     TouchStatefulSet, CollectResource, CollectJob, StartDatabase, StopDatabase,
     JobSucceeds, JobFails
<1>3. LogInv' /\ cr' = cr /\ Versions(crLog') \subseteq Versions(crLog)
  BY <1>1, <1>2, LogKept
<1>4. WorkerInv'
  BY <1>2, <1>3, WorkerIdle, WorkerSame DEF Idle
<1> QED BY <1>1, <1>3, <1>4 DEF ClusterStep, LeftAlone, SameCR

\* A step of a patient user: a cluster is created when the operator is idle and
\* has seen the last one go, and an admitted update is for the stored cluster.
LEMMA CopiesUser ==
    ASSUME FinalizerInv, LogInv, WorkerInv, PatientUser, User
    PROVE  LogInv' /\ WorkerInv' /\ ClusterStep
<1> USE DEF FinalizerInv
<1>0. /\ cr \in CRType /\ cr \in Versions(crLog) /\ Sound(cr)
      /\ crLog \in Seq(CRType) /\ crLog # <<>> /\ w \in WorkerType
      /\ cr.spec \in SpecType /\ cr.spec.count \in Nat
  <2>1. cr \in CRType /\ Sound(cr)
    BY ObjectTypes, EndsSound
  <2>2. /\ cr \in Versions(crLog) /\ crLog \in Seq(CRType) /\ crLog # <<>>
        /\ w \in WorkerType
    BY VersionsEnds DEF TypeOK, cr
  <2>3. cr.spec \in SpecType /\ cr.spec.count \in Nat
    BY <2>1 DEF CRType, SpecType
  <2> QED BY <2>1, <2>2, <2>3
<1>1. ASSUME Outdate PROVE w'.pc = w.pc /\ w'.gp = w.gp
  BY <1>0, <1>1 DEF Outdate, WorkerType
<1>2. Alive => PhaseWithImage(cr)
  BY <1>0 DEF LogInv, VersionsHavePhase
<1>3. CASE CleanSchema
  <2>1. SameCR /\ upd' = upd /\ opImage' = opImage /\ w' = w
    BY <1>3 DEF CleanSchema, SameCR
  <2> QED BY <2>1, LogKept, WorkerSame DEF ClusterStep, LeftAlone, SameCR
<1>4. ASSUME NEW n \in Counts, AdmitUpdate(n)
      PROVE  LogInv' /\ WorkerInv' /\ ClusterStep
  <2>1. /\ crLog' = crLog /\ uids' = uids /\ opImage' = opImage /\ w' = w
        /\ upd' = n /\ Alive /\ n > cr.spec.count
    BY <1>4 DEF AdmitUpdate, ValidateExpand, Alive
  <2>2. cr' = cr
    BY <2>1 DEF cr
  <2>3. WorkerInv' /\ ClusterStep
    BY <2>1, <2>2, WorkerSame DEF ClusterStep, LeftAlone
  <2>4. UpdateGrows'
    BY <2>1, <2>2 DEF UpdateGrows, Alive
  <2>5. (/\ Absent /\ VersionsFollowSpec /\ Ordered /\ VersionsHavePhase
         /\ DeletingInCache /\ ForeignInCache)'
    BY <2>1, <2>2 DEF LogInv, Absent, VersionsFollowSpec, Ordered,
       VersionsHavePhase, PhaseWithImage, DeletingInCache, ForeignInCache, Foreign, Alive
  <2> QED BY <2>3, <2>4, <2>5 DEF LogInv
<1>5. CASE StoreUpdate
  <2> DEFINE new == [cr EXCEPT !.spec.count = upd]
  <2>1. Alive /\ upd > cr.spec.count /\ upd \in Nat
    BY <1>5 DEF StoreUpdate, LogInv, UpdateGrows, TypeOK
  <2>2. /\ new \in CRType /\ new.spec.count = upd /\ new.spec.mirrors = cr.spec.mirrors
    BY <1>0, <2>1 DEF CRType, SpecType
  <2>3. /\ new.uid = cr.uid /\ new.deleting = cr.deleting /\ new.finalizer = cr.finalizer
        /\ new.phase = cr.phase /\ new.image = cr.image
    BY <1>0 DEF CRType
  <2>4. /\ WriteCR(new) /\ uids' = uids /\ opImage' = opImage /\ resLog' = resLog
        /\ Outdate
    BY <1>5 DEF StoreUpdate
  <2> HIDE DEF new
  <2>5. cr.spec.count <= new.spec.count
    BY <1>0, <2>1, <2>2
  <2>6. /\ Bound(new)
        /\ new.phase = "Deleting" => new.deleting /\ \A v \in Versions(crLog) : v.deleting
    BY <1>2, <2>1, <2>3 DEF PhaseWithImage, Bound, LogInv, DeletingInCache
  <2>7. /\ LogInv' /\ cr' = new /\ Versions(crLog') \subseteq Versions(crLog) \cup {new}
    BY <2>1, <2>2, <2>3, <2>4, <2>5, <2>6, LogWritten
  <2>8. ClusterStep
    BY <2>1, <2>2, <2>3, <2>4, <2>5, <2>7 DEF ClusterStep, SameCluster, KeepsStatus
  <2>9. WorkerInv'
    <3> USE <1>1, <2>3, <2>4, <2>7
    <3>1. WorkerFollowsSpec'
      <4>1. w.gp.spec.count \in Nat
        BY <1>0 DEF WorkerType, CRType, SpecType
      <4>2. \A a, b, c \in Nat : a <= b /\ b <= c => a <= c
        OBVIOUS
      <4> QED BY <1>0, <2>1, <2>2, <2>5, <4>1, <4>2
              DEF WorkerInv, WorkerFollowsSpec, Alive
    <3>2. WorkerHasPhase'
      BY DEF WorkerInv, WorkerHasPhase, PhaseWithImage, Bound, Alive
    <3>3. DeletionSeen'
      BY <1>0 DEF WorkerInv, DeletionSeen, Alive
    <3>4. DeletingIsFinal'
      BY DEF WorkerInv, DeletingIsFinal, Alive
    <3>5. ForeignStops'
      BY DEF WorkerInv, ForeignStops, Foreign, Alive
    <3> QED BY <3>1, <3>2, <3>3, <3>4, <3>5 DEF WorkerInv
  <2> QED BY <2>7, <2>8, <2>9
<1>6. CASE UserDelete /\ ~cr.finalizer
  <2>1. /\ crLog' = Record(crLog, NoCR) /\ Alive /\ uids' = uids /\ resLog' = resLog
        /\ Outdate /\ upd' = (IF NoCR = cr THEN upd ELSE 0) /\ opImage' = opImage
    BY <1>6 DEF UserDelete, WriteCR, Alive
  <2>2. cr' = NoCR /\ NoCR.uid = 0
    BY <1>0, <2>1, AbsentTypes, StoredRecord DEF cr, NoCR
  <2>3. upd' = 0
    BY <2>1, <2>2 DEF Alive
  <2>4. LogInv'
    BY <2>2, <2>3 DEF LogInv, Absent, VersionsFollowSpec, Ordered, VersionsHavePhase,
       DeletingInCache, ForeignInCache, Foreign, UpdateGrows, Alive
  <2>5. WorkerInv'
    BY <1>1, <2>1, <2>2 DEF WorkerInv, WorkerFollowsSpec, WorkerHasPhase, DeletionSeen,
       DeletingIsFinal, ForeignStops, Foreign, Alive
  <2> QED BY <1>6, <2>1, <2>2, <2>4, <2>5 DEF ClusterStep, Gone
<1>7. CASE UserDelete /\ cr.finalizer
  <2> DEFINE new == [cr EXCEPT !.deleting = TRUE]
  <2>1. Alive /\ ~cr.deleting
    BY <1>7 DEF UserDelete, Alive
  <2>2. /\ new \in CRType /\ new.uid = cr.uid /\ new.deleting
        /\ new.finalizer = cr.finalizer
        /\ new.phase = cr.phase /\ new.image = cr.image /\ new.spec = cr.spec
    BY <1>0 DEF CRType
  <2>3. /\ WriteCR(new) /\ uids' = uids /\ opImage' = opImage /\ resLog' = resLog
        /\ Outdate
    BY <1>7 DEF UserDelete
  <2> HIDE DEF new
  <2>4. cr.phase # "Deleting" /\ Bound(new)
    BY <1>2, <2>1, <2>2 DEF PhaseWithImage, Bound
  <2>5. cr.spec.count <= new.spec.count /\ new.spec.mirrors = cr.spec.mirrors
    BY <1>0, <2>2
  <2>6. /\ LogInv' /\ cr' = new /\ Versions(crLog') \subseteq Versions(crLog) \cup {new}
    BY <2>1, <2>2, <2>3, <2>4, <2>5, LogWritten
  <2>7. ClusterStep
    BY <2>1, <2>2, <2>3, <2>5, <2>6 DEF ClusterStep, SameCluster, KeepsStatus
  <2>8. WorkerInv'
    <3> USE <1>1, <2>2, <2>3, <2>6
    <3>1. WorkerFollowsSpec'
      BY <2>1 DEF WorkerInv, WorkerFollowsSpec, Alive
    <3>2. WorkerHasPhase'
      BY <2>1 DEF WorkerInv, WorkerHasPhase, PhaseWithImage, Bound, Alive
    <3>3. DeletionSeen'
      BY <2>1 DEF SoundWorker, DeletionSeen, Deleting, Alive
    <3>4. DeletingIsFinal'
      BY <2>4 DEF DeletingIsFinal
    <3>5. ForeignStops'
      BY <2>1 DEF WorkerInv, ForeignStops, Foreign, Alive
    <3> QED BY <3>1, <3>2, <3>3, <3>4, <3>5 DEF WorkerInv
  <2> QED BY <2>6, <2>7, <2>8
<1>8. ASSUME NEW spec \in Specs, UserCreate(spec)
      PROVE  LogInv' /\ WorkerInv' /\ ClusterStep
  <2> DEFINE new == [NoCR EXCEPT !.uid = uids + 1, !.spec = spec]
  <2>1. /\ cr.uid = 0 /\ InSync(crLog) /\ w.pc = "idle" /\ uids' = uids + 1
        /\ crLog' = Record(crLog, new) /\ upd' \in {upd, 0} /\ Outdate
        /\ resLog' = resLog
    BY <1>8 DEF UserCreate, WriteCR
  <2>2. /\ uids \in Nat /\ spec \in SpecType /\ uids + 1 \in Nat /\ uids + 1 # 0
    BY ConstantsAssumption DEF TypeOK
  <2>3. new \in CRType
    BY <2>2, AbsentTypes DEF CRType
  <2>4. /\ new.uid = uids + 1 /\ ~new.deleting /\ ~new.finalizer
        /\ new.phase = "unset" /\ new.image = "unset"
    BY DEF NoCR
  <2> HIDE DEF new
  <2>5. cr = NoCR /\ upd = 0
    BY <2>1 DEF LogInv, Absent, UpdateGrows, Alive
  <2>6. cr' = new
    BY <1>0, <2>1, <2>3, StoredRecord DEF cr
  <2>7. Versions(crLog) = {cr}
    <3>1. Len(crLog) = 1
      BY <2>1 DEF InSync
    <3>2. 1..Len(crLog) = {1}
      BY <3>1
    <3> QED BY <3>1, <3>2 DEF Versions, cr, Stored
  <2>8. Versions(crLog') \subseteq {NoCR, new}
    BY <1>0, <2>1, <2>3, <2>5, <2>7, VersionsWritten
  <2>9. /\ NoCR.uid = 0 /\ ~NoCR.deleting /\ ~NoCR.finalizer
        /\ NoCR.phase = "unset" /\ NoCR.image = "unset"
    BY DEF NoCR
  <2>10. Ordered'
    <3>1. \A i \in 1..Len(crLog') : ~crLog'[i].deleting /\ ~crLog'[i].finalizer
      BY <2>4, <2>8, <2>9 DEF Versions
    <3> QED BY <3>1 DEF Ordered
  <2>11. VersionsFollowSpec'
    <3>1. new.spec.count \in Nat
      BY <2>3 DEF CRType, SpecType
    <3>2. new.spec.count <= new.spec.count
      BY <3>1
    <3> QED BY <2>6, <2>8, <2>9, <3>2 DEF VersionsFollowSpec
  <2>12. VersionsHavePhase'
    BY <2>4, <2>6, <2>8, <2>9 DEF VersionsHavePhase, PhaseWithImage, Bound
  <2>13. (Absent /\ DeletingInCache /\ ForeignInCache /\ UpdateGrows)'
    BY <2>1, <2>2, <2>4, <2>5, <2>6
       DEF Absent, DeletingInCache, ForeignInCache, Foreign, UpdateGrows
  <2>14. w'.pc = "idle"
    BY <1>1, <2>1
  <2>15. Born
    BY <2>1, <2>4, <2>6, <2>14 DEF Born
  <2> QED BY <2>10, <2>11, <2>12, <2>13, <2>14, <2>15, WorkerIdle DEF LogInv, ClusterStep
<1> QED BY <1>3, <1>4, <1>5, <1>6, <1>7, <1>8 DEF User

\* A step of Reconcile up to the end of handleFinalizer.
LEMMA CopiesFront ==
    ASSUME FinalizerInv, LogInv, WorkerInv, NEW o \in Outcomes,
           \/ Reconcile \/ GetCurrentActiveMaster(o) \/ AddFinalizer(o)
           \/ SetDeleting(o) \/ EnsureGreenplumClusterStopped(o)
           \/ RemoveFinalizer(o)
    PROVE  LogInv' /\ WorkerInv' /\ ClusterStep
<1> USE DEF FinalizerInv
<1>0. /\ cr \in CRType /\ cr \in Versions(crLog) /\ Sound(cr)
      /\ crLog \in Seq(CRType) /\ crLog # <<>> /\ w \in WorkerType
      /\ w.gp \in CRType /\ cr.spec.count \in Nat
  <2>1. cr \in CRType /\ Sound(cr)
    BY ObjectTypes, EndsSound
  <2>2. /\ cr \in Versions(crLog) /\ crLog \in Seq(CRType) /\ crLog # <<>>
        /\ w \in WorkerType
    BY VersionsEnds DEF TypeOK, cr
  <2>3. cr.spec.count \in Nat /\ w.gp \in CRType
    BY <2>1, <2>2 DEF CRType, SpecType, WorkerType
  <2> QED BY <2>1, <2>2, <2>3
<1>1. uids' = uids /\ opImage' = opImage /\ resLog' = resLog
  BY DEF Reconcile, GetCurrentActiveMaster, AddFinalizer, SetDeleting,
     EnsureGreenplumClusterStopped, RemoveFinalizer
<1>2. Alive => PhaseWithImage(cr)
  BY <1>0 DEF LogInv, VersionsHavePhase
<1>3. ASSUME NoWriteCR
      PROVE  /\ LogInv' /\ cr' = cr /\ ClusterStep
             /\ Versions(crLog') \subseteq Versions(crLog)
  BY <1>1, <1>3, LogKept DEF NoWriteCR, SameCR, ClusterStep, LeftAlone
<1>4. CASE Reconcile
  <2> DEFINE v == Cached(crLog)
             gp == SetDefaultGreenplumClusterValues(v)
  <2>1. NoWriteCR
    BY <1>4 DEF Reconcile, NoWriteCR
  <2>2. v \in CRType /\ v \in Versions(crLog)
    BY <1>0, VersionsEnds
  <2>3. /\ gp.uid = v.uid /\ gp.deleting = v.deleting /\ gp.finalizer = v.finalizer
        /\ gp.phase = v.phase /\ gp.image = v.image
        /\ gp.spec.mirrors = ToLower(v.spec.mirrors) /\ gp.spec.count = v.spec.count
    BY <2>2 DEF SetDefaultGreenplumClusterValues, CRType, SpecType
  <2>4. \/ w' = Idle
        \/ v.uid # 0 /\ w'.pc = "activeMaster" /\ w'.gp = gp
    BY <1>4 DEF Reconcile, Idle
  <2> HIDE DEF v, gp
  <2>5. CASE w' = Idle
    BY <1>3, <2>1, <2>5, WorkerIdle DEF Idle
  <2>6. CASE v.uid # 0 /\ w'.pc = "activeMaster" /\ w'.gp = gp
    <3> USE <1>1, <1>3, <2>1, <2>2, <2>3, <2>6
    <3>1. WorkerFollowsSpec'
      BY DEF LogInv, VersionsFollowSpec, WorkerFollowsSpec, Alive
    <3>2. WorkerHasPhase'
      <4>1. Alive => PhaseWithImage(v)
        BY DEF LogInv, VersionsHavePhase
      <4>2. w'.pc \notin Past \cup Building \cup {"addFinalizer", "setRunning"}
        BY DEF Past, Building
      <4> QED BY <4>1, <4>2 DEF WorkerHasPhase, PhaseWithImage, Bound, Alive
    <3>3. DeletionSeen'
      <4>1. Alive /\ v.deleting => \A i \in 1..Len(crLog) : crLog[i].deleting
        <5>1. \A i \in 1..Len(crLog) : 1 <= i /\ 1 \in 1..Len(crLog)
          OBVIOUS
        <5> QED BY <5>1 DEF LogInv, Ordered, v, Cached
      <4>2. w'.pc \notin Deleting
        BY DEF Deleting
      <4> QED BY <4>1, <4>2 DEF DeletionSeen, Versions, Alive
    <3>4. DeletingIsFinal'
      BY DEF LogInv, DeletingInCache, DeletingIsFinal, Alive, Past
    <3>5. ForeignStops'
      BY DEF LogInv, ForeignInCache, ForeignStops, Foreign, Alive, Past
    <3> QED BY <3>1, <3>2, <3>3, <3>4, <3>5 DEF WorkerInv
  <2> QED BY <1>3, <2>1, <2>4, <2>5, <2>6
<1>5. CASE GetCurrentActiveMaster(o)
  <2>1. NoWriteCR /\ w.pc = "activeMaster"
    BY <1>5 DEF GetCurrentActiveMaster, NoWriteCR
  <2>2. w'.gp = w.gp /\ w'.pc = FinalizerBranch(w.gp)
    BY <1>0, <1>5 DEF GetCurrentActiveMaster, WorkerType
  <2>3. w.gp.deleting => w.gp.finalizer
    BY <2>1 DEF SoundWorker
  <2>4. /\ w'.pc \in {"addFinalizer", "setDeleting", "gpstop", "exists"}
        /\ w'.pc \in {"setDeleting", "gpstop"} <=> w.gp.deleting
    BY <2>2, <2>3 DEF FinalizerBranch
  <2> USE <1>1, <1>3, <2>1, <2>2, <2>4
  <2>5. WorkerFollowsSpec'
    BY DEF WorkerInv, WorkerFollowsSpec, Alive
  <2>6. WorkerHasPhase'
    <3>1. Alive => PhaseWithImage(w.gp)
      BY DEF WorkerInv, WorkerHasPhase
    <3>2. CASE w.gp.deleting
      <4>1. w'.pc \in {"setDeleting", "gpstop"}
        BY <3>2
      <4> QED BY <4>1 DEF WorkerHasPhase, Past, Building
    <3>3. CASE ~w.gp.deleting
      <4>1. w'.pc # "activeMaster" /\ w'.pc # "setRunning"
        OBVIOUS
      <4> QED BY <3>1, <3>3, <4>1 DEF WorkerHasPhase, PhaseWithImage, Bound, Alive
    <3> QED BY <3>2, <3>3
  <2>7. DeletionSeen'
    BY DEF WorkerInv, DeletionSeen, Alive, Deleting
  <2>8. DeletingIsFinal'
    BY DEF WorkerInv, DeletingIsFinal, Alive, Past
  <2>9. ForeignStops'
    BY DEF WorkerInv, ForeignStops, Foreign, Alive, Past
  <2> QED BY <2>5, <2>6, <2>7, <2>8, <2>9 DEF WorkerInv
<1>6. CASE AddFinalizer(o)
  <2> DEFINE new == [cr EXCEPT !.finalizer = TRUE]
             gp == Decode(new, w.gp)
  <2>1. /\ new \in CRType /\ new.uid = cr.uid /\ new.deleting = cr.deleting
        /\ new.finalizer /\ new.phase = cr.phase /\ new.image = cr.image
        /\ new.spec = cr.spec
    BY <1>0 DEF CRType
  <2>2. /\ gp.spec = cr.spec
        /\ gp.phase = IF cr.phase = "unset" THEN w.gp.phase ELSE cr.phase
        /\ gp.image = IF cr.image = "unset" THEN w.gp.image ELSE cr.image
    BY <1>0, <2>1 DEF Decode, CRType
  <2>3. w.pc = "addFinalizer"
    BY <1>6 DEF AddFinalizer
  <2>4. \/ NoWriteCR /\ w' = Idle
        \/ /\ Alive /\ WriteCR(new)
           /\ w' = Idle \/ (w'.pc = "exists" /\ w'.gp = gp)
    BY <1>0, <1>6 DEF AddFinalizer, Retry, Alive, WorkerType
  <2> HIDE DEF new, gp
  <2>5. CASE NoWriteCR /\ w' = Idle
    BY <1>3, <2>5, WorkerIdle DEF Idle
  <2>6. CASE Alive /\ WriteCR(new) /\ (w' = Idle \/ (w'.pc = "exists" /\ w'.gp = gp))
    <3>1. cr.phase # "Deleting"
      BY <2>3, <2>6 DEF WorkerInv, DeletingIsFinal
    <3>2. /\ cr.spec.count <= new.spec.count /\ Bound(new)
          /\ new.spec.mirrors = cr.spec.mirrors /\ new.phase # "Deleting"
      BY <1>0, <1>2, <2>1, <2>6, <3>1 DEF PhaseWithImage, Bound
    <3>3. /\ LogInv' /\ cr' = new /\ Versions(crLog') \subseteq Versions(crLog) \cup {new}
      BY <1>1, <2>1, <2>6, <3>2, LogWritten
    <3>4. ClusterStep
      BY <1>1, <2>1, <2>6, <3>2, <3>3 DEF ClusterStep, SameCluster, KeepsStatus
    <3>5. CASE w' = Idle
      BY <3>3, <3>4, <3>5, WorkerIdle DEF Idle
    <3>6. CASE w'.pc = "exists" /\ w'.gp = gp
      <4> USE <1>1, <2>1, <2>2, <2>3, <2>6, <3>1, <3>3, <3>6
      <4>1. WorkerFollowsSpec'
        BY <1>0 DEF WorkerFollowsSpec
      <4>2. WorkerHasPhase'
        <5>1. /\ w.gp.phase # "unset" => cr.phase # "unset"
              /\ Bound(w.gp) /\ w.gp.phase # "Deleting"
          BY DEF WorkerInv, WorkerHasPhase
        <5>2. cr.image = "unset" => cr.phase = "unset"
          BY <1>2 DEF PhaseWithImage, Bound
        <5>3. cr.phase = "unset" => cr.image = "unset"
          BY <1>2 DEF PhaseWithImage, Bound
        <5> QED BY <5>1, <5>2, <5>3 DEF WorkerHasPhase, Bound
      <4>3. DeletionSeen'
        BY DEF DeletionSeen, Deleting
      <4>4. DeletingIsFinal'
        BY DEF DeletingIsFinal
      <4>5. ForeignStops'
        BY DEF WorkerInv, ForeignStops, Foreign, Alive
      <4> QED BY <3>4, <4>1, <4>2, <4>3, <4>4, <4>5 DEF WorkerInv
    <3> QED BY <2>6, <3>5, <3>6
  <2> QED BY <2>4, <2>5, <2>6
<1>7. CASE SetDeleting(o)
  <2> DEFINE new == [cr EXCEPT !.phase = "Deleting"]
             local == [w.gp EXCEPT !.phase = "Deleting"]
             gp == Decode(new, local)
  <2>1. /\ new \in CRType /\ new.uid = cr.uid /\ new.deleting = cr.deleting
        /\ new.finalizer = cr.finalizer /\ new.phase = "Deleting"
        /\ new.image = cr.image /\ new.spec = cr.spec
    BY <1>0 DEF CRType, Phases
  <2>2. local.spec = w.gp.spec /\ local.image = w.gp.image /\ local \in CRType
    BY <1>0 DEF CRType, Phases
  <2>3. /\ gp.spec = cr.spec
        /\ gp.image = IF cr.image = "unset" THEN w.gp.image ELSE cr.image
    BY <2>1, <2>2 DEF Decode, CRType
  <2>4. w.pc = "setDeleting"
    BY <1>7 DEF SetDeleting
  <2>5. /\ w'.pc = "gpstop"
        /\ \/ NoWriteCR /\ w'.gp = local
           \/ Alive /\ WriteCR(new) /\ w'.gp \in {local, gp}
    BY <1>0, <1>7 DEF SetDeleting, Alive, WorkerType
  <2> HIDE DEF new, local, gp
  <2>6. Alive => cr.deleting /\ \A v \in Versions(crLog) : v.deleting
    BY <2>4 DEF SoundWorker, WorkerInv, DeletionSeen, Deleting, Alive
  <2>7. /\ LogInv' /\ ClusterStep /\ cr'.uid = cr.uid /\ cr'.spec = cr.spec
        /\ cr'.image = cr.image
        /\ Alive => \A v \in Versions(crLog') : v.deleting
    <3>1. CASE NoWriteCR
      BY <1>3, <2>6, <3>1
    <3>2. CASE Alive /\ WriteCR(new)
      <4>1. /\ cr.spec.count <= new.spec.count /\ Bound(new) /\ new.deleting
            /\ new.spec.mirrors = cr.spec.mirrors
        BY <1>0, <2>1, <2>6, <3>2 DEF Bound
      <4>2. /\ LogInv' /\ cr' = new
            /\ Versions(crLog') \subseteq Versions(crLog) \cup {new}
        BY <1>1, <2>1, <2>6, <3>2, <4>1, LogWritten
      <4>3. ClusterStep
        BY <1>1, <2>1, <2>6, <3>2, <4>1, <4>2 DEF ClusterStep, SameCluster, TurnsDeleting
      <4> QED BY <2>1, <2>6, <4>1, <4>2, <4>3
    <3> QED BY <2>5, <3>1, <3>2
  <2>8. WorkerInv'
    <3> USE <1>1, <2>2, <2>3, <2>4, <2>5, <2>7
    <3>1. WorkerFollowsSpec'
      BY <1>0 DEF WorkerInv, WorkerFollowsSpec, Alive
    <3>2. WorkerHasPhase'
      BY DEF WorkerHasPhase, Past, Building
    <3>3. DeletionSeen'
      BY DEF DeletionSeen, Alive
    <3>4. DeletingIsFinal'
      BY DEF DeletingIsFinal, Past
    <3>5. ForeignStops'
      BY DEF WorkerInv, ForeignStops, Foreign, Alive, Past
    <3> QED BY <3>1, <3>2, <3>3, <3>4, <3>5 DEF WorkerInv
  <2> QED BY <2>7, <2>8
<1>8. CASE EnsureGreenplumClusterStopped(o)
  <2>1. NoWriteCR /\ w.pc = "gpstop"
    BY <1>8 DEF EnsureGreenplumClusterStopped, NoWriteCR
  <2>2. w'.pc = "removeFinalizer" /\ w'.gp = w.gp
    BY <1>0, <1>8 DEF EnsureGreenplumClusterStopped, WorkerType
  <2> USE <1>1, <1>3, <2>1, <2>2
  <2>3. WorkerFollowsSpec'
    BY DEF WorkerInv, WorkerFollowsSpec, Alive
  <2>4. WorkerHasPhase'
    BY DEF WorkerHasPhase, Past, Building
  <2>5. DeletionSeen'
    BY DEF WorkerInv, DeletionSeen, Alive, Deleting
  <2>6. DeletingIsFinal'
    BY DEF DeletingIsFinal, Past
  <2>7. ForeignStops'
    BY DEF WorkerInv, ForeignStops, Foreign, Alive, Past
  <2> QED BY <2>3, <2>4, <2>5, <2>6, <2>7 DEF WorkerInv
<1>9. CASE RemoveFinalizer(o)
  <2>1. w.pc = "removeFinalizer"
    BY <1>9 DEF RemoveFinalizer
  <2>2. Alive => cr.deleting
    BY <2>1 DEF SoundWorker, Alive
  <2>3. \/ NoWriteCR /\ (w' = Idle \/ (~Alive /\ w'.pc = "exists"))
        \/ Alive /\ WriteCR(NoCR) /\ (w' = Idle \/ w'.pc = "exists")
    BY <1>0, <1>9, <2>2 DEF RemoveFinalizer, Retry, Alive, WorkerType
  <2>4. ASSUME w'.pc = "exists", cr'.uid = 0 PROVE WorkerInv'
    BY <2>4 DEF WorkerInv, WorkerFollowsSpec, WorkerHasPhase, DeletionSeen,
       DeletingIsFinal, ForeignStops, Foreign, Alive, Past
  <2>5. CASE NoWriteCR
    <3>1. w'.pc = "exists" => cr.uid = 0
      <4>1. CASE Alive /\ WriteCR(NoCR)
        <5>1. cr' = NoCR /\ NoCR.uid = 0
          BY <1>0, <4>1, StoredRecord, AbsentTypes DEF WriteCR, cr, NoCR
        <5> QED BY <1>3, <2>5, <4>1, <5>1 DEF Alive
      <4> QED BY <2>3, <4>1 DEF Alive, Idle
    <3> QED BY <1>3, <2>3, <2>4, <2>5, <3>1, WorkerIdle DEF Idle
  <2>6. CASE Alive /\ WriteCR(NoCR) /\ (w' = Idle \/ w'.pc = "exists")
    <3>1. cr' = NoCR /\ NoCR.uid = 0
      BY <1>0, <2>6, StoredRecord, AbsentTypes DEF WriteCR, cr, NoCR
    <3>2. upd' = 0
      BY <2>6, <3>1 DEF WriteCR, Alive
    <3>3. LogInv'
      BY <3>1, <3>2 DEF LogInv, Absent, VersionsFollowSpec, Ordered, VersionsHavePhase,
         DeletingInCache, ForeignInCache, Foreign, UpdateGrows, Alive
    <3>4. ClusterStep
      BY <1>1, <2>2, <2>6, <3>1 DEF ClusterStep, Gone
    <3> QED BY <2>4, <2>6, <3>1, <3>3, <3>4, WorkerIdle DEF Idle
  <2> QED BY <2>3, <2>5, <2>6
<1> QED BY <1>4, <1>5, <1>6, <1>7, <1>8, <1>9

\* A step of Reconcile past handleFinalizer.
LEMMA CopiesBack ==
    ASSUME FinalizerInv, LogInv, WorkerInv, NEW o \in Outcomes,
           \/ ClusterExists \/ ResourcesDone \/ HandleAntiAffinity(o)
           \/ \E k \in Tracked : CreateOrUpdate(k, o)
           \/ ReconcileStatus(o) \/ SetRunning(o) \/ GetCurrentSegmentCount(o)
           \/ CheckJob(o) \/ CreateJob(o)
    PROVE  LogInv' /\ WorkerInv' /\ ClusterStep
<1> USE DEF FinalizerInv
<1>0. /\ cr \in CRType /\ cr \in Versions(crLog)
      /\ crLog \in Seq(CRType) /\ crLog # <<>> /\ w \in WorkerType
      /\ w.gp \in CRType /\ cr.spec.count \in Nat
      /\ opImage \in Images /\ opImage # "unset"
  <2>1. cr \in CRType /\ opImage \in Images /\ opImage # "unset"
    BY ObjectTypes, ConstantsAssumption DEF TypeOK
  <2>2. /\ cr \in Versions(crLog) /\ crLog \in Seq(CRType) /\ crLog # <<>>
        /\ w \in WorkerType
    BY VersionsEnds DEF TypeOK, cr
  <2>3. cr.spec.count \in Nat /\ w.gp \in CRType
    BY <2>1, <2>2 DEF CRType, SpecType, WorkerType
  <2> QED BY <2>1, <2>2, <2>3
<1>1. uids' = uids /\ opImage' = opImage
  BY DEF ClusterExists, ResourcesDone, HandleAntiAffinity, CreateOrUpdate,
     ReconcileStatus, SetRunning, GetCurrentSegmentCount, CheckJob, CreateJob
<1>2. Alive => PhaseWithImage(cr)
  BY <1>0 DEF LogInv, VersionsHavePhase
<1>3. ASSUME NoWriteCR
      PROVE  /\ LogInv' /\ cr' = cr /\ ClusterStep
             /\ Versions(crLog') \subseteq Versions(crLog)
  BY <1>1, <1>3, LogKept DEF NoWriteCR, SameCR, ClusterStep, LeftAlone
<1>4. ASSUME NoWriteCR, w.pc \in Past,
             \/ w' = Idle
             \/ w'.pc = w.pc /\ w'.gp = w.gp
             \/ /\ w'.gp = w.gp /\ w'.pc \in Past \ {"exists", "setRunning"}
                /\ w'.pc \in Building => w.pc \in Building
                /\ w.pc = "exists" => w.gp.image \in {"unset", opImage}
      PROVE  LogInv' /\ WorkerInv' /\ ClusterStep
  BY <1>1, <1>3, <1>4, WorkerIdle, WorkerSame, WorkerMoves DEF Idle
<1>5. CASE \/ ClusterExists \/ ResourcesDone \/ HandleAntiAffinity(o)
           \/ GetCurrentSegmentCount(o) \/ CheckJob(o) \/ CreateJob(o)
  <2>1. NoWriteCR /\ w.pc \in Past
    BY <1>5 DEF ClusterExists, ResourcesDone, HandleAntiAffinity,
       GetCurrentSegmentCount, CheckJob, CreateJob, NoWriteCR, Past, PCs
  <2>2. \/ w' = Idle
        \/ w'.pc = w.pc /\ w'.gp = w.gp
        \/ /\ w'.gp = w.gp /\ w'.pc \in Past \ {"exists", "setRunning"}
           /\ w'.pc \in Building => w.pc \in Building
           /\ w.pc = "exists" => w.gp.image \in {"unset", opImage}
    BY <1>0, <1>5 DEF ClusterExists, ResourcesDone, HandleAntiAffinity,
       GetCurrentSegmentCount, CheckJob, CreateJob, Goto, Retry, Finish, ImageSupported,
       Past, PCs, Building, WorkerType
  <2> QED BY <1>4, <2>1, <2>2
<1>6. ASSUME NEW k \in Tracked, CreateOrUpdate(k, o)
      PROVE  LogInv' /\ WorkerInv' /\ ClusterStep
  <2>1. NoWriteCR /\ w.pc \in Past
    BY <1>6 DEF CreateOrUpdate, NoWriteCR, Past, PCs
  <2>2. w' = Idle \/ w' = [w EXCEPT !.done = @ \cup {k}]
    BY <1>6 DEF CreateOrUpdate, Retry
  <2>3. w' = Idle \/ (w'.pc = w.pc /\ w'.gp = w.gp)
    BY <1>0, <2>2 DEF WorkerType
  <2> QED BY <1>4, <2>1, <2>3
<1>7. CASE ReconcileStatus(o)
  <2> DEFINE local == [w.gp EXCEPT !.image = opImage,
                          !.phase = IF @ = "unset" THEN "Pending" ELSE @]
             new == [cr EXCEPT
                        !.image = IF w.gp.image # opImage THEN opImage ELSE @,
                        !.phase = IF w.gp.phase = "unset" THEN "Pending" ELSE @]
             gp == Decode(new, local)
  <2>1. w.pc = "status" /\ w.pc \in Past /\ w.pc \in Building /\ resLog' = resLog
    BY <1>7 DEF ReconcileStatus, Past, PCs, Building
  <2>2. w.gp.image \in {"unset", opImage}
    BY <2>1 DEF WorkerInv, ForeignStops
  <2>3. ASSUME NEW g, AfterStatus(g)
        PROVE  \/ w' = Idle
               \/ w'.gp = g /\ w'.pc \in {"setRunning", "segmentCount"}
    BY <1>0, <2>3 DEF AfterStatus, Retry, WorkerType
  <2>4. \/ NoWriteCR /\ Retry
        \/ NoWriteCR /\ local = w.gp /\ AfterStatus(w.gp)
        \/ /\ Alive /\ local # w.gp /\ WriteCR(new)
           /\ Retry \/ AfterStatus(gp)
    BY <1>7 DEF ReconcileStatus, Alive
  <2>5. /\ local.image = opImage /\ local.spec = w.gp.spec
        /\ local.phase = IF w.gp.phase = "unset" THEN "Pending" ELSE w.gp.phase
    BY <1>0 DEF CRType
  <2>6. local \in CRType /\ new \in CRType
    BY <1>0 DEF CRType, Phases
  <2>7. /\ new.uid = cr.uid /\ new.deleting = cr.deleting
        /\ new.finalizer = cr.finalizer /\ new.spec = cr.spec
        /\ new.image = IF w.gp.image # opImage THEN opImage ELSE cr.image
        /\ new.phase = IF w.gp.phase = "unset" THEN "Pending" ELSE cr.phase
    BY <1>0 DEF CRType
  <2>8. (w.gp.phase # "unset" /\ w.gp.image = opImage) => local = w.gp
    BY <1>0 DEF CRType
  <2>9. /\ gp.spec = new.spec
        /\ gp.phase = IF new.phase = "unset" THEN local.phase ELSE new.phase
        /\ gp.image = IF new.image = "unset" THEN local.image ELSE new.image
    BY <2>6 DEF Decode, CRType
  <2> HIDE DEF local, new, gp
  <2>10. CASE NoWriteCR /\ Retry
    BY <1>4, <2>1, <2>10 DEF Retry
  <2>11. CASE NoWriteCR /\ local = w.gp /\ AfterStatus(w.gp)
    <3>1. w.gp.phase # "unset"
      BY <2>5, <2>11
    <3>2. CASE w' = Idle
      BY <1>4, <2>1, <2>11, <3>2
    <3>3. CASE w'.gp = w.gp /\ w'.pc = "segmentCount"
      BY <1>4, <2>1, <2>11, <3>3 DEF Past, PCs, Building
    <3>4. CASE w'.gp = w.gp /\ w'.pc = "setRunning"
      <4> USE <1>1, <1>3, <2>1, <2>2, <2>11, <3>4
      <4>1. WorkerFollowsSpec'
        BY DEF WorkerInv, WorkerFollowsSpec, Alive
      <4>2. WorkerHasPhase'
        BY <3>1 DEF WorkerInv, WorkerHasPhase, Alive, Building
      <4>3. DeletionSeen'
        BY DEF DeletionSeen, Deleting
      <4>4. DeletingIsFinal'
        BY DEF WorkerInv, DeletingIsFinal, Alive
      <4>5. ForeignStops'
        BY DEF WorkerInv, ForeignStops, Foreign, Alive
      <4> QED BY <4>1, <4>2, <4>3, <4>4, <4>5 DEF WorkerInv
    <3> QED BY <2>3, <2>11, <3>2, <3>3, <3>4
  <2>12. CASE Alive /\ local # w.gp /\ WriteCR(new) /\ (Retry \/ AfterStatus(gp))
    <3>1. w.gp.phase = "unset" /\ w.gp.image = "unset"
      <4>1. Bound(w.gp) /\ w.gp.phase # "Deleting"
        BY <2>1, <2>12 DEF WorkerInv, WorkerHasPhase
      <4> QED BY <2>2, <2>8, <2>12, <4>1 DEF Bound
    <3>2. new.phase = "Pending" /\ new.image = opImage
      BY <1>0, <2>7, <3>1
    <3>3. cr.phase # "Deleting" /\ cr.image \in {"unset", opImage}
      BY <2>1, <2>12 DEF WorkerInv, DeletingIsFinal, ForeignStops, Foreign
    <3>4. /\ cr.spec.count <= new.spec.count /\ Bound(new)
          /\ new.spec.mirrors = cr.spec.mirrors
      BY <1>0, <2>7, <3>2 DEF Bound
    <3>5. /\ LogInv' /\ cr' = new /\ Versions(crLog') \subseteq Versions(crLog) \cup {new}
      BY <1>1, <2>6, <2>7, <2>12, <3>2, <3>4, LogWritten
    <3>6. ClusterStep
      BY <1>1, <2>1, <2>7, <2>12, <3>2, <3>3, <3>4, <3>5
         DEF ClusterStep, SameCluster, TurnsPending
    <3>7. CASE Retry
      BY <3>5, <3>6, <3>7, WorkerIdle DEF Retry, Idle
    <3>8. CASE w'.gp = gp /\ w'.pc \in {"setRunning", "segmentCount"}
      <4>1. gp.phase = "Pending" /\ gp.image = opImage /\ gp.spec = cr.spec
        BY <1>0, <2>7, <2>9, <3>2
      <4> USE <1>1, <3>2, <3>5, <3>8, <4>1
      <4>2. WorkerFollowsSpec'
        BY <1>0, <2>7 DEF WorkerFollowsSpec
      <4>3. WorkerHasPhase'
        BY DEF WorkerHasPhase, Building
      <4>4. DeletionSeen'
        BY DEF DeletionSeen, Deleting
      <4>5. DeletingIsFinal'
        BY DEF DeletingIsFinal
      <4>6. ForeignStops'
        BY DEF ForeignStops, Foreign
      <4> QED BY <3>6, <4>2, <4>3, <4>4, <4>5, <4>6 DEF WorkerInv
    <3> QED BY <2>3, <2>12, <3>5, <3>6, <3>7, <3>8, WorkerIdle DEF Idle
  <2> QED BY <2>4, <2>10, <2>11, <2>12
<1>8. CASE SetRunning(o)
  <2> DEFINE new == [cr EXCEPT !.phase = "Running"]
             local == [w.gp EXCEPT !.phase = "Running"]
             gp == Decode(new, local)
  <2>1. /\ new \in CRType /\ new.uid = cr.uid /\ new.deleting = cr.deleting
        /\ new.finalizer = cr.finalizer /\ new.phase = "Running"
        /\ new.image = cr.image /\ new.spec = cr.spec
    BY <1>0 DEF CRType, Phases
  <2>2. /\ local.spec = w.gp.spec /\ local.image = w.gp.image
        /\ local.phase = "Running" /\ local \in CRType
    BY <1>0 DEF CRType, Phases
  <2>3. /\ gp.spec = cr.spec /\ gp.phase = "Running"
        /\ gp.image = IF cr.image = "unset" THEN w.gp.image ELSE cr.image
    BY <2>1, <2>2 DEF Decode, CRType
  <2>4. w.pc = "setRunning" /\ w.pc \in Past /\ resLog' = resLog
    BY <1>8 DEF SetRunning, Past, PCs
  <2>5. /\ w'.pc = "segmentCount"
        /\ \/ NoWriteCR /\ w'.gp = local
           \/ Alive /\ WriteCR(new) /\ w'.gp \in {local, gp}
    BY <1>0, <1>8 DEF SetRunning, Alive, WorkerType
  <2> HIDE DEF new, local, gp
  <2>6. Alive => cr.phase \in {"Pending", "Running"}
    <3>1. cr.phase \in Phases
      BY <1>0 DEF CRType
    <3>2. Alive => cr.phase # "unset" /\ cr.phase # "Deleting"
      BY <2>4 DEF WorkerInv, WorkerHasPhase, DeletingIsFinal
    <3> QED BY <3>1, <3>2 DEF Phases
  <2>7. w.gp.image \in {"unset", opImage} /\ (Alive => cr.image \in {"unset", opImage})
    BY <2>4 DEF WorkerInv, ForeignStops, Foreign
  <2>8. /\ LogInv' /\ ClusterStep /\ cr'.uid = cr.uid /\ cr'.spec = cr.spec
        /\ cr'.image = cr.image
        /\ Alive => cr'.phase \in {"Pending", "Running"}
    <3>1. CASE NoWriteCR
      BY <1>3, <2>6, <3>1
    <3>2. CASE Alive /\ WriteCR(new)
      <4>1. /\ cr.spec.count <= new.spec.count
            /\ new.spec.mirrors = cr.spec.mirrors /\ Bound(new)
        BY <1>0, <1>2, <2>1, <2>6, <3>2 DEF Bound, PhaseWithImage
      <4>2. /\ LogInv' /\ cr' = new
            /\ Versions(crLog') \subseteq Versions(crLog) \cup {new}
        BY <1>1, <2>1, <3>2, <4>1, LogWritten
      <4>3. ClusterStep
        BY <1>1, <2>1, <2>4, <2>6, <3>2, <4>1, <4>2
           DEF ClusterStep, SameCluster, TurnsRunning
      <4> QED BY <2>1, <4>2, <4>3
    <3> QED BY <2>5, <3>1, <3>2
  <2>9. WorkerInv'
    <3> USE <1>1, <2>2, <2>3, <2>4, <2>5, <2>7, <2>8
    <3>1. WorkerFollowsSpec'
      BY <1>0 DEF WorkerInv, WorkerFollowsSpec, Alive
    <3>2. WorkerHasPhase'
      BY DEF WorkerHasPhase, Building, Alive
    <3>3. DeletionSeen'
      BY DEF DeletionSeen, Deleting
    <3>4. DeletingIsFinal'
      BY DEF DeletingIsFinal, Alive
    <3>5. ForeignStops'
      BY DEF ForeignStops, Foreign, Alive
    <3> QED BY <3>1, <3>2, <3>3, <3>4, <3>5 DEF WorkerInv
  <2> QED BY <2>8, <2>9
<1> QED BY <1>5, <1>6, <1>7, <1>8

\* Every step keeps the copies right.
LEMMA CopiesStep ==
    ASSUME PatientUser, FinalizerInv, LogInv, WorkerInv, [Next]_vars
    PROVE  LogInv' /\ WorkerInv' /\ ClusterStep
<1>1. CASE Worker
  BY <1>1, CopiesFront, CopiesBack DEF Worker, Outcomes
<1>2. CASE Environment \/ \E image \in Images : Restart(image)
  BY <1>2, CopiesEnvironment
<1>3. CASE User
  BY <1>3, CopiesUser
<1>4. CASE UNCHANGED vars
  <2>1. SameCR /\ upd' = upd /\ opImage' = opImage /\ w' = w
    BY <1>4 DEF vars, SameCR
  <2> QED BY <2>1, LogKept, WorkerSame DEF ClusterStep, LeftAlone, SameCR
<1> QED BY <1>1, <1>2, <1>3, <1>4 DEF Next
-----------------------------------------------------------------------------
(***************************************************************************)
(* What a step does to the resources and to the worker.                    *)
(***************************************************************************)
ResourceKept(k) ==
    /\ res(k)' = res(k)
    /\ Versions(resLog'[k]) \subseteq Versions(resLog[k])
    /\ opImage' = opImage \/ Versions(resLog'[k]) = {res(k)}

ResourceCollected(k) ==
    /\ res(k)' = NoRes /\ res(k).owner # cr.uid
    /\ Versions(resLog'[k]) \subseteq Versions(resLog[k]) \cup {NoRes}
    /\ crLog' = crLog /\ uids' = uids /\ opImage' = opImage /\ w' = w

\* What createOrUpdateClusterResources makes of a resource it found as old.
MadeFrom(k, old) ==
    /\ res(k)' = Mutate(k, old)
    /\ res(k)'.owner = uids
    /\ k \in Ssets => res(k)'.data.image = opImage
    /\ k = "greenplum-config" => res(k)'.data.count = w.gp.spec.count
    /\ k = "ssh-secrets" => res(k)'.data = [NoData EXCEPT !.key = SecretKey(old)]

ResourceMade(k) ==
    /\ w.pc = "create" /\ k \in Wanted(w.gp.spec)
    /\ MadeFrom(k, Cached(resLog[k]))
    /\ Versions(resLog'[k]) \subseteq Versions(resLog[k]) \cup {res(k)'}
    /\ res(k)' # Cached(resLog[k])
    /\ \/ Cached(resLog[k]).owner = 0 /\ res(k).owner = 0
       \/ Cached(resLog[k]) = res(k)
    /\ crLog' = crLog /\ uids' = uids /\ opImage' = opImage
    /\ w'.pc = "idle" \/ (w'.pc = w.pc /\ w'.gp = w.gp)

ResourceStep(k) == ResourceKept(k) \/ ResourceCollected(k) \/ ResourceMade(k)

\* The mutate functions, by what later steps look at.
LEMMA Mutated ==
    ASSUME FinalizerInv, w.pc = "create", NEW k \in Tracked, NEW old \in ResType
    PROVE  /\ Mutate(k, old) \in ResType
           /\ Mutate(k, old).owner = uids
           /\ k \in Ssets => Mutate(k, old).data.image = opImage
           /\ k = "greenplum-config" => Mutate(k, old).data.count = w.gp.spec.count
           /\ k = "ssh-secrets"
                 => Mutate(k, old).data = [NoData EXCEPT !.key = SecretKey(old)]
<1>1. w.gp.uid = uids
  BY DEF FinalizerInv, SoundWorker
<1>2. Mutate(k, old) \in ResType
  BY MutateType DEF FinalizerInv
<1>3. Mutate(k, old).owner = uids
  BY <1>1 DEF Mutate, ControllerReference
<1>4. ASSUME k = "ssh-secrets"
      PROVE  Mutate(k, old).data = [NoData EXCEPT !.key = SecretKey(old)]
  <2>1. k \notin Ssets /\ k # "greenplum-config"
    BY <1>4 DEF Ssets
  <2> QED BY <1>4, <2>1 DEF Mutate
<1>5. ASSUME k = "greenplum-config" PROVE Mutate(k, old).data.count = w.gp.spec.count
  <2>0. k \notin Ssets /\ k # "ssh-secrets"
    BY <1>5 DEF Ssets
  <2>1. Mutate(k, old).data = ModifyConfigMap(w.gp.spec)
    BY <1>5, <2>0 DEF Mutate
  <2>2. ModifyConfigMap(w.gp.spec).count = w.gp.spec.count
    BY DEF ModifyConfigMap, NoData
  <2> QED BY <2>1, <2>2
<1>6. ASSUME k \in Ssets PROVE Mutate(k, old).data.image = opImage
  <2>1. k # "greenplum-config" /\ k # "ssh-secrets"
    BY <1>6 DEF Ssets
  <2>2. Mutate(k, old).data = ModifyGreenplumStatefulSet(k, w.gp.spec, old)
    BY <1>6, <2>1 DEF Mutate
  <2>3. ModifyGreenplumStatefulSet(k, w.gp.spec, old).image = opImage
    BY DEF ModifyGreenplumStatefulSet, NoData
  <2> QED BY <2>2, <2>3
<1> QED BY <1>2, <1>3, <1>4, <1>5, <1>6

\* A resource whose log is left alone is kept.
LEMMA ResourceUntouched ==
    ASSUME NEW k, resLog'[k] = resLog[k], opImage' = opImage
    PROVE  ResourceStep(k)
BY DEF ResourceStep, ResourceKept, res

\* A resource is kept, collected when its owner is gone, or made from what the
\* cache has of it, if that is up to date or the resource does not exist.
LEMMA ResourceSteps ==
    ASSUME FinalizerInv, [Next]_vars, NEW k \in Tracked
    PROVE  ResourceStep(k)
<1> USE DEF FinalizerInv
<1>0. /\ resLog[k] \in Seq(ResType) /\ resLog[k] # <<>>
      /\ resLog \in [Tracked -> Seq(ResType)]
      /\ Cached(resLog[k]) \in ResType /\ w \in WorkerType /\ res(k) \in ResType
  BY ObjectTypes DEF TypeOK
<1>1. ASSUME NEW o \in Outcomes, NEW j \in Tracked, CreateOrUpdate(j, o)
      PROVE  ResourceStep(k)
  <2> DEFINE old == Cached(resLog[k])
             new == Mutate(k, old)
  <2>1. /\ w.pc = "create" /\ opImage' = opImage /\ crLog' = crLog /\ uids' = uids
        /\ j \in Wanted(w.gp.spec)
    BY <1>1 DEF CreateOrUpdate, IsNext
  <2>2. CASE resLog' = resLog \/ j # k
    <3>1. resLog'[k] = resLog[k]
      BY <1>0, <1>1, <2>2 DEF CreateOrUpdate
    <3> QED BY <2>1, <3>1, ResourceUntouched
  <2>3. CASE resLog' # resLog /\ j = k
    <3>1. /\ new # old
          /\ IF old.owner = 0 THEN res(k).owner = 0 ELSE InSync(resLog[k])
          /\ resLog' = [resLog EXCEPT ![k] = Record(resLog[k], new)]
      BY <1>1, <2>3 DEF CreateOrUpdate
    <3>2. w'.pc = "idle" \/ (w'.pc = w.pc /\ w'.gp = w.gp)
      <4>1. w' = Idle \/ w' = [w EXCEPT !.done = @ \cup {k}]
        BY <1>1, <2>3 DEF CreateOrUpdate, Retry
      <4> QED BY <1>0, <4>1 DEF WorkerType, Idle
    <3>3. /\ new \in ResType /\ new.owner = uids
          /\ k \in Ssets => new.data.image = opImage
          /\ k = "greenplum-config" => new.data.count = w.gp.spec.count
          /\ k = "ssh-secrets" => new.data = [NoData EXCEPT !.key = SecretKey(old)]
      BY <1>0, <2>1, Mutated
    <3>4. old.owner # 0 => old = res(k)
      BY <3>1 DEF InSync, Cached, res, Stored
    <3> HIDE DEF new
    <3>5. resLog'[k] = Record(resLog[k], new)
      BY <1>0, <3>1
    <3>6. res(k)' = new /\ Versions(resLog'[k]) \subseteq Versions(resLog[k]) \cup {new}
      BY <1>0, <3>3, <3>5, StoredRecord, VersionsWritten DEF res
    <3>7. MadeFrom(k, old)
      BY <3>3, <3>6 DEF MadeFrom, new
    <3> QED BY <2>1, <2>3, <3>1, <3>2, <3>4, <3>6, <3>7 DEF ResourceStep, ResourceMade
  <2> QED BY <2>2, <2>3
<1>2. ASSUME NEW j \in Tracked,
             DeliverResource(j) \/ TouchStatefulSet(j) \/ CollectResource(j)
      PROVE  ResourceStep(k)
  <2>1. opImage' = opImage /\ crLog' = crLog /\ uids' = uids /\ w' = w
    BY <1>2 DEF DeliverResource, TouchStatefulSet, CollectResource
  <2>2. CASE j # k
    <3>1. resLog'[k] = resLog[k]
      BY <1>0, <1>2, <2>2 DEF DeliverResource, TouchStatefulSet, CollectResource
    <3> QED BY <2>1, <3>1, ResourceUntouched
  <2>3. CASE j = k /\ DeliverResource(k)
    <3>1. resLog'[k] = Deliver(resLog[k]) /\ ~InSync(resLog[k])
      BY <1>0, <2>3 DEF DeliverResource
    <3> QED BY <1>0, <2>1, <3>1, DeliverVersions, VersionsKept
            DEF ResourceStep, ResourceKept, res
  <2>4. CASE j = k /\ TouchStatefulSet(k)
    <3>1. /\ resLog'[k] = Append(resLog[k], Stored(resLog[k]))
          /\ Stored(resLog[k]) \in ResType
      BY <1>0, <2>4, LogTypes DEF TouchStatefulSet
    <3> QED BY <1>0, <2>1, <3>1, StoredRecord, VersionsKept
            DEF ResourceStep, ResourceKept, res
  <2>5. CASE j = k /\ CollectResource(k)
    <3>1. resLog'[k] = Record(resLog[k], NoRes) /\ res(k).owner # cr.uid
      BY <1>0, <2>5 DEF CollectResource
    <3> QED BY <1>0, <2>1, <3>1, StoredRecord, VersionsWritten, AbsentTypes
            DEF ResourceStep, ResourceCollected, res
  <2> QED BY <1>2, <2>2, <2>3, <2>4, <2>5
<1>3. ASSUME NEW image \in Images, Restart(image)
      PROVE  ResourceStep(k)
  <2>1. resLog'[k] = Relist(resLog[k])
    BY <1>3 DEF Restart
  <2>2. Versions(resLog'[k]) = {res(k)} /\ res(k)' = res(k)
    BY <1>0, <2>1, VersionsKept, DeliverVersions DEF res
  <2>3. res(k) \in Versions(resLog[k])
    BY <1>0, VersionsEnds DEF res
  <2> QED BY <2>2, <2>3 DEF ResourceStep, ResourceKept
<1>4. CASE UNCHANGED vars
  BY <1>4, ResourceUntouched DEF vars
<1>5. CASE Worker
  <2>1. CASE \E o \in Outcomes, j \in Tracked : CreateOrUpdate(j, o)
    BY <1>1, <2>1
  <2>2. CASE ~ \E o \in Outcomes, j \in Tracked : CreateOrUpdate(j, o)
    <3>1. resLog' = resLog /\ opImage' = opImage
      BY <1>5, <2>2 DEF Worker, Reconcile, ClusterExists, ResourcesDone,
         GetCurrentActiveMaster, AddFinalizer, SetDeleting,
         EnsureGreenplumClusterStopped, RemoveFinalizer, HandleAntiAffinity,
         ReconcileStatus, SetRunning, GetCurrentSegmentCount, CheckJob, CreateJob
    <3> QED BY <3>1, ResourceUntouched
  <2> QED BY <2>1, <2>2
<1>6. CASE User
  <2>1. resLog' = resLog /\ opImage' = opImage
    BY <1>6 DEF User, UserCreate, UserDelete, AdmitUpdate, StoreUpdate, CleanSchema
  <2> QED BY <2>1, ResourceUntouched
<1>7. CASE Environment
  <2>1. CASE \E j \in Tracked : DeliverResource(j) \/ TouchStatefulSet(j)
                                  \/ CollectResource(j)
    BY <1>2, <2>1
  <2>2. CASE DeliverCR \/ DeliverJob \/ Resync \/ CollectJob \/ StartDatabase
             \/ StopDatabase \/ JobSucceeds \/ JobFails
    <3>1. resLog' = resLog /\ opImage' = opImage
      BY <2>2 DEF DeliverCR, DeliverJob, Resync, CollectJob, StartDatabase,
         StopDatabase, JobSucceeds, JobFails
    <3> QED BY <3>1, ResourceUntouched
  <2> QED BY <1>7, <2>1, <2>2 DEF Environment
<1> QED BY <1>3, <1>4, <1>5, <1>6, <1>7 DEF Next

\* What a step does to the worker, as far as the resources are concerned.
Stops == w'.pc = "idle" /\ w'.done = {}

Stays == w'.pc = w.pc /\ w'.gp = w.gp /\ w'.done = w.done

Starts == /\ w'.pc = "activeMaster" /\ w'.done = {} /\ crLog' = crLog
          /\ Cached(crLog).uid # 0 /\ w'.gp.finalizer = Cached(crLog).finalizer

Branches == /\ w.pc = "activeMaster" /\ w'.gp = w.gp /\ w'.done = w.done
            /\ crLog' = crLog
            /\ \/ w'.pc = "addFinalizer" /\ ~w.gp.finalizer
               \/ w'.pc \in Deleting
               \/ w'.pc = "exists" /\ w.gp.finalizer

Finalizes == /\ w.pc = "addFinalizer" /\ w'.pc = "exists" /\ w'.done = w.done
             /\ w'.gp.spec = cr.spec /\ resLog' = resLog

HandlesDeletion == /\ w.pc \in Deleting /\ w'.done = w.done
                   /\ w'.pc \in Deleting \/ (w'.pc = "exists" /\ cr'.uid = 0)

Prepares == /\ w.pc \in {"exists", "antiAffinity"}
            /\ w'.pc \in {"antiAffinity", "create"}
            /\ w'.gp = w.gp /\ w'.done = w.done /\ crLog' = crLog

Visits(k) ==
    /\ w.pc = "create" /\ w'.pc = "create" /\ w'.gp = w.gp /\ crLog' = crLog
    /\ w'.done = w.done \cup {k}
    /\ \/ MadeFrom(k, Cached(resLog[k]))
       \/ Mutate(k, Cached(resLog[k])) = Cached(resLog[k])

Completes == /\ w.pc = "create" /\ w'.pc = "status" /\ w'.gp = w.gp /\ w'.done = {}
             /\ Wanted(w.gp.spec) \subseteq w.done /\ crLog' = crLog

Reports == /\ w.pc \in Past \ {"create"} /\ w'.pc \in Past \ Building
           /\ w'.done = w.done

WorkerStep == \/ Stops \/ Starts \/ Branches \/ Finalizes \/ HandlesDeletion
              \/ (opImage' = opImage /\ (Stays \/ Prepares \/ Completes \/ Reports))
              \/ (opImage' = opImage /\ \E k \in Tracked : Visits(k))

\* Every step is one of these.
LEMMA WorkerSteps ==
    ASSUME FinalizerInv, [Next]_vars
    PROVE  WorkerStep
<1> USE DEF FinalizerInv
<1>0. /\ w \in WorkerType /\ w.gp \in CRType /\ cr \in CRType
      /\ crLog \in Seq(CRType) /\ crLog # <<>> /\ Cached(crLog) \in CRType
  BY ObjectTypes DEF TypeOK, WorkerType
<1>1. Idle.pc = "idle" /\ Idle.done = {}
  BY DEF Idle
<1>2. CASE UNCHANGED vars
  BY <1>2 DEF vars, WorkerStep, Stays
<1>3. CASE Environment
  <2>1. w' = w /\ opImage' = opImage
    BY <1>3 DEF Environment, DeliverCR, DeliverJob, Resync, DeliverResource,
       TouchStatefulSet, CollectResource, CollectJob, StartDatabase, StopDatabase,
       JobSucceeds, JobFails
  <2> QED BY <2>1 DEF WorkerStep, Stays
<1>4. CASE User
  <2>1. (w' = w \/ Outdate) /\ opImage' = opImage
    BY <1>4 DEF User, UserCreate, UserDelete, AdmitUpdate, StoreUpdate, CleanSchema
  <2>2. Stays
    BY <1>0, <2>1 DEF Outdate, Stays, WorkerType
  <2> QED BY <2>1, <2>2 DEF WorkerStep
<1>5. CASE \E image \in Images : Restart(image)
  BY <1>1, <1>5 DEF Restart, WorkerStep, Stops
<1>6. CASE Reconcile
  <2> DEFINE gp == SetDefaultGreenplumClusterValues(Cached(crLog))
  <2>1. gp.finalizer = Cached(crLog).finalizer
    BY <1>0 DEF SetDefaultGreenplumClusterValues, CRType
  <2>2. \/ w' = Idle
        \/ /\ w'.pc = "activeMaster" /\ w'.gp = gp /\ w'.done = {}
           /\ Cached(crLog).uid # 0
    BY <1>6 DEF Reconcile, Idle
  <2>3. crLog' = crLog
    BY <1>6 DEF Reconcile
  <2> HIDE DEF gp
  <2> QED BY <1>1, <2>1, <2>2, <2>3 DEF WorkerStep, Stops, Starts
<1>7. ASSUME NEW o \in Outcomes, GetCurrentActiveMaster(o)
      PROVE  WorkerStep
  <2>1. /\ w.pc = "activeMaster" /\ w'.gp = w.gp /\ w'.done = w.done
        /\ w'.pc = FinalizerBranch(w.gp) /\ crLog' = crLog
    BY <1>0, <1>7 DEF GetCurrentActiveMaster, WorkerType
  <2>2. w.gp.deleting => w.gp.finalizer
    BY <2>1 DEF SoundWorker
  <2>3. Branches
    BY <2>1, <2>2 DEF Branches, FinalizerBranch, Deleting
  <2> QED BY <2>3 DEF WorkerStep
<1>8. ASSUME NEW o \in Outcomes, AddFinalizer(o)
      PROVE  WorkerStep
  <2> DEFINE new == [cr EXCEPT !.finalizer = TRUE]
  <2>1. new \in CRType /\ new.spec = cr.spec
    BY <1>0 DEF CRType
  <2>2. Decode(new, w.gp).spec = cr.spec
    BY <1>0, <2>1 DEF Decode, CRType
  <2>3. /\ w.pc = "addFinalizer" /\ resLog' = resLog
        /\ \/ w' = Idle
           \/ w' = [w EXCEPT !.pc = "exists", !.gp = Decode(new, w.gp)]
    BY <1>8 DEF AddFinalizer, Retry
  <2> HIDE DEF new
  <2>4. \/ w' = Idle
        \/ w'.pc = "exists" /\ w'.gp = Decode(new, w.gp) /\ w'.done = w.done
    BY <1>0, <2>3 DEF WorkerType
  <2> QED BY <1>1, <2>2, <2>3, <2>4 DEF WorkerStep, Stops, Finalizes
<1>9. ASSUME NEW o \in Outcomes, SetDeleting(o) \/ EnsureGreenplumClusterStopped(o)
      PROVE  WorkerStep
  <2>1. w.pc \in Deleting /\ w'.pc \in Deleting /\ w'.done = w.done
    BY <1>0, <1>9 DEF SetDeleting, EnsureGreenplumClusterStopped, Deleting, WorkerType
  <2> QED BY <2>1 DEF WorkerStep, HandlesDeletion
<1>10. ASSUME NEW o \in Outcomes, RemoveFinalizer(o)
       PROVE  WorkerStep
  <2>1. w.pc = "removeFinalizer" /\ (cr.uid # 0 => cr.deleting)
    BY <1>10 DEF RemoveFinalizer, SoundWorker
  <2>2. \/ w' = Idle
        \/ /\ w'.pc = "exists" /\ w'.done = w.done
           /\ (cr.uid = 0 /\ NoWriteCR) \/ WriteCR(NoCR)
    BY <1>0, <1>10, <2>1 DEF RemoveFinalizer, Retry, WorkerType
  <2>3. WriteCR(NoCR) => cr' = NoCR
    BY <1>0, StoredRecord, AbsentTypes DEF WriteCR, cr
  <2>4. NoWriteCR => cr' = cr
    BY DEF NoWriteCR, cr
  <2>5. NoCR.uid = 0
    BY DEF NoCR
  <2> QED BY <1>1, <2>1, <2>2, <2>3, <2>4, <2>5
          DEF WorkerStep, Stops, HandlesDeletion, Deleting
<1>11. CASE ClusterExists \/ \E o \in Outcomes : HandleAntiAffinity(o)
  <2>1. /\ w' = Idle \/ Prepares
        /\ opImage' = opImage
    BY <1>0, <1>11 DEF ClusterExists, HandleAntiAffinity, Goto, Finish, Retry, Prepares,
       WorkerType
  <2> QED BY <1>1, <2>1 DEF WorkerStep, Stops
<1>12. CASE ResourcesDone
  <2>1. Completes /\ opImage' = opImage
    BY <1>0, <1>12 DEF ResourcesDone, Completes, WorkerType
  <2> QED BY <2>1 DEF WorkerStep
<1>13. ASSUME NEW o \in Outcomes, NEW k \in Tracked, CreateOrUpdate(k, o)
       PROVE  WorkerStep
  <2>1. w.pc = "create" /\ opImage' = opImage /\ crLog' = crLog
    BY <1>13 DEF CreateOrUpdate
  <2> DEFINE old == Cached(resLog[k])
             new == Mutate(k, old)
  <2>2. \/ w' = Idle
        \/ /\ w' = [w EXCEPT !.done = @ \cup {k}]
           /\ new = old \/ resLog' = [resLog EXCEPT ![k] = Record(resLog[k], new)]
    BY <1>13 DEF CreateOrUpdate, Retry
  <2>3. CASE w' = Idle
    BY <1>1, <2>3 DEF WorkerStep, Stops
  <2>4. CASE w' # Idle
    <3>1. w'.pc = "create" /\ w'.gp = w.gp /\ w'.done = w.done \cup {k}
      BY <1>0, <2>1, <2>2, <2>4 DEF WorkerType
    <3>2. CASE resLog' = [resLog EXCEPT ![k] = Record(resLog[k], new)]
      <4>1. /\ resLog[k] \in Seq(ResType) /\ resLog[k] # <<>> /\ k \in DOMAIN resLog
            /\ old \in ResType
        BY ObjectTypes DEF TypeOK
      <4>2. /\ new \in ResType /\ new.owner = uids
            /\ k \in Ssets => new.data.image = opImage
            /\ k = "greenplum-config" => new.data.count = w.gp.spec.count
            /\ k = "ssh-secrets" => new.data = [NoData EXCEPT !.key = SecretKey(old)]
        BY <2>1, <4>1, Mutated
      <4> HIDE DEF new
      <4>3. res(k)' = new
        BY <3>2, <4>1, <4>2, StoredRecord DEF res
      <4>4. MadeFrom(k, old)
        BY <4>2, <4>3 DEF MadeFrom, new
      <4> QED BY <2>1, <3>1, <4>4 DEF WorkerStep, Visits
    <3> QED BY <2>1, <2>2, <2>4, <3>1, <3>2 DEF WorkerStep, Visits
  <2> QED BY <2>3, <2>4
<1>14. ASSUME NEW o \in Outcomes,
              \/ ReconcileStatus(o) \/ SetRunning(o) \/ GetCurrentSegmentCount(o)
              \/ CheckJob(o) \/ CreateJob(o)
       PROVE  WorkerStep
  <2>1. opImage' = opImage
    BY <1>14 DEF ReconcileStatus, SetRunning, GetCurrentSegmentCount, CheckJob, CreateJob
  <2>2. ASSUME NEW g, AfterStatus(g), w.pc = "status"
        PROVE  w' = Idle \/ Reports
    <3>1. \/ w' = Idle
          \/ w'.pc \in {"setRunning", "segmentCount"} /\ w'.done = w.done
      BY <1>0, <2>2 DEF AfterStatus, Retry, WorkerType
    <3> QED BY <2>2, <3>1 DEF Reports, Past, PCs, Building
  <2>3. CASE ReconcileStatus(o)
    <3>1. w' = Idle \/ Reports
      BY <2>2, <2>3 DEF ReconcileStatus, Retry
    <3> QED BY <1>1, <2>1, <3>1 DEF WorkerStep, Stops
  <2>4. CASE SetRunning(o) \/ GetCurrentSegmentCount(o) \/ CheckJob(o) \/ CreateJob(o)
    <3>1. w' = Idle \/ Reports
      BY <1>0, <2>4 DEF SetRunning, GetCurrentSegmentCount, CheckJob, CreateJob,
         Retry, Finish, Goto, Reports, Past, PCs, Building, WorkerType
    <3> QED BY <1>1, <2>1, <3>1 DEF WorkerStep, Stops
  <2> QED BY <1>14, <2>3, <2>4
<1>15. CASE Worker
  BY <1>6, <1>7, <1>8, <1>9, <1>10, <1>11, <1>12, <1>13, <1>14, <1>15 DEF Worker
<1> QED BY <1>2, <1>3, <1>4, <1>5, <1>15 DEF Next
-----------------------------------------------------------------------------
(***************************************************************************)
(* The resources of the living cluster.                                    *)
(***************************************************************************)
OwnersBounded == \A k \in Tracked : \A v \in Versions(resLog[k]) : v.owner <= uids

Own(k) == res(k).owner = cr.uid

\* Nothing is taken from a living cluster: what the cache shows as its own is, and
\* a StatefulSet that was brought to the operator's image has it.
OwnStays ==
    Alive => \A k \in Tracked : \A v \in Versions(resLog[k]) :
        v.owner = cr.uid =>
            Own(k) /\ (k \in Ssets /\ v.data.image = opImage
                          => res(k).data.image = opImage)

Has(k) == Own(k) /\ (k \in Ssets => res(k).data.image = opImage)

\* What the worker has visited is there, and before it writes the status all is.
WorkDone ==
    /\ w.pc # "create" => w.done = {}
    /\ Alive => \A k \in w.done : Has(k)
    /\ Alive /\ w.pc = "status" => \A k \in Wanted(w.gp.spec) : Has(k)

Provisioned ==
    Alive /\ cr.phase \in {"Pending", "Running"} => \A k \in Wanted(cr.spec) : Own(k)

AllFinalized == \A v \in Versions(crLog) : v.finalizer

OwnMirrors == "segment-b" \in Tracked /\ Own("segment-b")

\* The mirrors' StatefulSet, when the user wrote "Yes": a worker that adds the
\* finalizer gets that spelling back and does not want the StatefulSet, so that
\* only a later reconciliation makes it.
MirrorsLate ==
    Alive /\ cr.spec.mirrors # "yes" =>
        /\ OwnMirrors => cr.spec.mirrors = "Yes" /\ AllFinalized
        /\ w.pc = "activeMaster" /\ ~w.gp.finalizer => ~OwnMirrors
        /\ w.pc = "addFinalizer" => ~OwnMirrors
        /\ w.pc = "activeMaster" /\ w.gp.finalizer => AllFinalized
        /\ w.pc \in Building /\ w.gp.spec.mirrors # "yes" => ~OwnMirrors
        /\ w.pc \in Building /\ w.gp.spec.mirrors = "yes" => AllFinalized

ResourceInv == /\ OwnersBounded /\ OwnStays /\ WorkDone /\ Provisioned
               /\ OneImage /\ MirrorsLate

Inv == FinalizerInv /\ LogInv /\ WorkerInv /\ ResourceInv

StepFacts == /\ ClusterStep /\ WorkerStep
             /\ \A k \in Tracked : ResourceStep(k)

\* A cluster is born, gone, or the one it was.
LEMMA ClusterCases ==
    ASSUME ClusterStep
    PROVE  \/ Born
           \/ cr'.uid = 0
           \/ /\ Alive /\ cr'.uid = cr.uid /\ uids' = uids
              /\ cr'.spec.mirrors = cr.spec.mirrors
<1>1. NoCR.uid = 0
  BY DEF NoCR
<1> QED BY <1>1 DEF ClusterStep, LeftAlone, Gone, SameCluster, Alive

\* The living cluster is the latest incarnation.
LEMMA LatestAlive ==
    ASSUME FinalizerInv, Alive
    PROVE  cr.uid = uids
BY EndsSound DEF FinalizerInv, Sound, Alive

\* What the living cluster has, it keeps.
LEMMA OwnKept ==
    ASSUME FinalizerInv, Alive, cr'.uid = cr.uid, NEW k \in Tracked, ResourceStep(k)
    PROVE  /\ Own(k) => Own(k)'
           /\ opImage' = opImage /\ Has(k) => Has(k)'
<1>1. cr.uid = uids
  BY LatestAlive
<1>2. CASE ResourceKept(k)
  BY <1>2 DEF ResourceKept, Own, Has
<1>3. CASE ResourceCollected(k)
  BY <1>3 DEF ResourceCollected, Own, Has
<1>4. CASE ResourceMade(k)
  BY <1>1, <1>4 DEF ResourceMade, MadeFrom, Own, Has
<1> QED BY <1>2, <1>3, <1>4 DEF ResourceStep

\* No version of a resource has an owner that was not created yet.
LEMMA OwnersBoundedStep ==
    ASSUME Inv, StepFacts
    PROVE  OwnersBounded'
<1>1. SUFFICES ASSUME NEW k \in Tracked, NEW v \in Versions(resLog'[k])
               PROVE  v.owner <= uids'
  BY DEF OwnersBounded
<1>2. /\ uids \in Nat /\ uids' \in {uids, uids + 1} /\ NoRes.owner = 0
  BY DEF Inv, FinalizerInv, TypeOK, StepFacts, ClusterStep, Born, Gone, SameCluster,
     LeftAlone, NoRes
<1>3. ASSUME v \in Versions(resLog[k]) PROVE v.owner <= uids'
  <2>1. v.owner <= uids
    BY <1>3 DEF Inv, ResourceInv, OwnersBounded
  <2>2. v.owner \in Nat
    <3>1. v \in ResType
      BY <1>3, VersionsEnds DEF Inv, FinalizerInv, TypeOK
    <3> QED BY <3>1 DEF ResType
  <2> QED BY <1>2, <2>1, <2>2
<1>4. ResourceStep(k)
  BY DEF StepFacts
<1>5. v \in Versions(resLog[k]) \/ v.owner \in {0, uids}
  BY <1>1, <1>2, <1>4 DEF ResourceStep, ResourceKept, ResourceCollected, ResourceMade,
     MadeFrom
<1>6. 0 <= uids' /\ uids <= uids'
  BY <1>2
<1> QED BY <1>3, <1>5, <1>6

\* A newborn cluster has no resource.
LEMMA NewbornHasNone ==
    ASSUME Inv, Born, NEW k \in Tracked
    PROVE  /\ ~Own(k)'
           /\ \A v \in Versions(resLog'[k]) : v.owner # cr'.uid
<1>1. resLog' = resLog /\ cr'.uid = uids + 1 /\ uids \in Nat
  BY DEF Born, Inv, FinalizerInv, TypeOK
<1>2. resLog[k] \in Seq(ResType) /\ resLog[k] # <<>>
  BY DEF Inv, FinalizerInv, TypeOK
<1>3. ASSUME NEW v \in Versions(resLog[k]) PROVE v.owner # uids + 1
  <2>1. v.owner <= uids
    BY DEF Inv, ResourceInv, OwnersBounded
  <2>2. v \in ResType
    BY <1>2, VersionsEnds
  <2>3. v.owner \in Nat
    BY <2>2 DEF ResType
  <2> QED BY <1>1, <2>1, <2>3
<1>4. res(k) \in Versions(resLog[k])
  BY <1>2, VersionsEnds DEF res
<1>5. res(k)' = res(k)
  BY <1>1 DEF res
<1> QED BY <1>1, <1>3, <1>4, <1>5 DEF Own

\* A step takes nothing from a living cluster.
LEMMA OwnStaysStep ==
    ASSUME Inv, StepFacts
    PROVE  OwnStays'
<1> USE DEF Inv
<1>1. SUFFICES ASSUME Alive', NEW k \in Tracked, NEW v \in Versions(resLog'[k]),
                      v.owner = cr'.uid
               PROVE  /\ Own(k)'
                      /\ k \in Ssets /\ v.data.image = opImage'
                            => res(k)'.data.image = opImage'
  BY DEF OwnStays
<1>2. ~Born
  BY <1>1, NewbornHasNone
<1>3. Alive /\ cr'.uid = cr.uid /\ cr.uid = uids
  BY <1>1, <1>2, ClusterCases, LatestAlive DEF StepFacts, Alive
<1>4. v \in Versions(resLog[k]) =>
          Own(k) /\ (k \in Ssets /\ v.data.image = opImage => res(k).data.image = opImage)
  BY <1>1, <1>3 DEF ResourceInv, OwnStays
<1>5. NoRes.owner = 0
  BY DEF NoRes
<1>6. CASE ResourceKept(k)
  BY <1>1, <1>3, <1>4, <1>6 DEF ResourceKept, Own
<1>7. CASE ResourceCollected(k)
  BY <1>1, <1>3, <1>4, <1>5, <1>7 DEF ResourceCollected, Own, Alive
<1>8. CASE ResourceMade(k)
  BY <1>1, <1>3, <1>8 DEF ResourceMade, MadeFrom, Own
<1> QED BY <1>6, <1>7, <1>8 DEF StepFacts, ResourceStep

\* What the worker visits, it leaves in place.
LEMMA VisitedIsThere ==
    ASSUME Inv, StepFacts, Alive, cr'.uid = cr.uid, opImage' = opImage,
           NEW k \in Tracked, Visits(k)
    PROVE  Has(k)'
<1> USE DEF Inv
<1>1. cr.uid = uids /\ ResourceStep(k)
  BY LatestAlive DEF StepFacts
<1>2. CASE MadeFrom(k, Cached(resLog[k]))
  BY <1>1, <1>2 DEF MadeFrom, Has, Own
<1>3. CASE Mutate(k, Cached(resLog[k])) = Cached(resLog[k])
  <2> DEFINE old == Cached(resLog[k])
  <2>1. old \in ResType /\ old \in Versions(resLog[k])
    BY ObjectTypes, VersionsEnds DEF FinalizerInv, TypeOK
  <2>2. /\ Mutate(k, old).owner = uids
        /\ k \in Ssets => Mutate(k, old).data.image = opImage
    BY <2>1, Mutated DEF Visits
  <2>3. old.owner = cr.uid /\ (k \in Ssets => old.data.image = opImage)
    BY <1>1, <1>3, <2>2
  <2> HIDE DEF old
  <2>4. Has(k)
    BY <2>1, <2>3 DEF ResourceInv, OwnStays, Has
  <2> QED BY <1>1, <2>4, OwnKept
<1> QED BY <1>2, <1>3 DEF Visits

\* A step of the worker, or of anyone else, keeps WorkDone.
LEMMA WorkDoneStep ==
    ASSUME Inv, StepFacts
    PROVE  WorkDone'
<1> USE DEF Inv
<1>1. WorkDone /\ WorkerStep
  BY DEF ResourceInv, StepFacts
<1>2. w.pc # "create" => w.done = {}
  BY <1>1 DEF WorkDone
<1>3. \/ w'.done = {}
      \/ opImage' = opImage /\ Stays
      \/ opImage' = opImage /\ \E k \in Tracked : Visits(k)
  <2>1. Branches \/ Finalizes \/ HandlesDeletion \/ Prepares => w'.done = {}
    BY <1>2 DEF Branches, Finalizes, HandlesDeletion, Prepares, Deleting
  <2>2. Reports => w'.done = {}
    BY <1>2 DEF Reports
  <2> QED BY <1>1, <2>1, <2>2 DEF WorkerStep, Stops, Starts, Completes
<1>4. (w.pc # "create" => w.done = {})'
  BY <1>2, <1>3 DEF Stays, Visits
<1>5. Alive' /\ (w'.pc # "idle" \/ w'.done # {})
          => Alive /\ cr'.uid = cr.uid /\ \A k \in Tracked : ResourceStep(k)
  <2>1. ASSUME Born PROVE w'.pc = "idle" /\ w'.done = {}
    BY <1>4, <2>1 DEF Born
  <2> QED BY <2>1, ClusterCases DEF StepFacts, Alive
<1>6. ASSUME Alive', NEW k \in w'.done PROVE Has(k)'
  <2>1. Alive /\ cr'.uid = cr.uid /\ \A j \in Tracked : ResourceStep(j)
    BY <1>5, <1>6
  <2>2. w.done \subseteq Tracked
    BY DEF FinalizerInv, TypeOK, WorkerType
  <2>3. opImage' = opImage
    BY <1>3, <1>6
  <2>4. ASSUME k \in w.done PROVE Has(k)'
    <3>1. Has(k)
      BY <1>1, <2>1, <2>4 DEF WorkDone
    <3> QED BY <2>1, <2>2, <2>3, <2>4, <3>1, OwnKept
  <2>5. ASSUME NEW j \in Tracked, Visits(j) PROVE Has(k)'
    BY <1>6, <2>1, <2>3, <2>4, <2>5, VisitedIsThere DEF Visits
  <2> QED BY <1>3, <1>6, <2>4, <2>5 DEF Stays
<1>7. ASSUME Alive', w'.pc = "status", NEW k \in Wanted(w'.gp.spec) PROVE Has(k)'
  <2>1. Alive /\ cr'.uid = cr.uid /\ \A j \in Tracked : ResourceStep(j)
    BY <1>5, <1>7
  <2>2. /\ opImage' = opImage /\ w'.gp = w.gp
        /\ w.pc = "status" \/ Wanted(w.gp.spec) \subseteq w.done
    BY <1>1, <1>7 DEF WorkerStep, Stops, Starts, Branches, Finalizes, HandlesDeletion,
       Prepares, Stays, Completes, Reports, Visits, Deleting, Building
  <2>3. Has(k)
    BY <1>1, <1>7, <2>1, <2>2 DEF WorkDone
  <2>4. k \in Tracked
    BY <1>7 DEF Wanted
  <2> QED BY <2>1, <2>2, <2>3, <2>4, OwnKept
<1> QED BY <1>4, <1>6, <1>7 DEF WorkDone

\* A cluster that is reported Pending or Running has all it asks for.
LEMMA ProvisionedStep ==
    ASSUME Inv, StepFacts
    PROVE  Provisioned'
<1> USE DEF Inv
<1>1. SUFFICES ASSUME Alive', cr'.phase \in {"Pending", "Running"},
                      NEW k \in Wanted(cr'.spec)
               PROVE  Own(k)'
  BY DEF Provisioned, Wanted
<1>2. ~Born
  BY <1>1 DEF Born
<1>3. /\ Alive /\ cr'.uid = cr.uid
      /\ cr'.spec.mirrors = cr.spec.mirrors
  BY <1>1, <1>2, ClusterCases DEF StepFacts, Alive
<1>4. k \in Wanted(cr.spec) /\ k \in Tracked /\ ResourceStep(k)
  BY <1>1, <1>3 DEF Wanted, StepFacts
<1>5. CASE cr.phase \in {"Pending", "Running"}
  <2>1. Own(k)
    BY <1>3, <1>4, <1>5 DEF ResourceInv, Provisioned
  <2> QED BY <1>3, <1>4, <2>1, OwnKept
<1>6. CASE cr.phase \notin {"Pending", "Running"}
  <2>1. NoCR.uid = 0
    BY DEF NoCR
  <2>2. w.pc = "status"
    BY <1>1, <1>2, <1>6, <2>1 DEF StepFacts, ClusterStep, LeftAlone, Gone, KeepsStatus,
       TurnsDeleting, TurnsPending, TurnsRunning, Alive
  <2>3. cr.spec.mirrors = "yes" => w.gp.spec.mirrors = "yes"
    BY <1>3, <2>2 DEF WorkerInv, WorkerFollowsSpec, ToLower
  <2>4. k \in Wanted(w.gp.spec)
    BY <1>4, <2>3 DEF Wanted
  <2>5. Own(k)
    BY <1>3, <2>2, <2>4 DEF ResourceInv, WorkDone, Has
  <2> QED BY <1>3, <1>4, <2>5, OwnKept
<1> QED BY <1>5, <1>6

\* The StatefulSets of a cluster keep the image it is bound to.
LEMMA OneImageStep ==
    ASSUME Inv, StepFacts
    PROVE  OneImage'
<1> USE DEF Inv
<1>1. SUFFICES ASSUME NEW k \in Tracked \cap Ssets, Own(k)', Alive', cr'.image # "unset"
               PROVE  res(k)'.data.image = cr'.image
  BY DEF OneImage, Own, Alive
<1>2. ~Born
  BY <1>1 DEF Born
<1>3. /\ Alive /\ cr'.uid = cr.uid /\ cr.uid = uids
      /\ cr'.spec.mirrors = cr.spec.mirrors
  BY <1>1, <1>2, ClusterCases, LatestAlive DEF StepFacts, Alive
<1>4. ASSUME Own(k), cr.image # "unset" PROVE res(k).data.image = cr.image
  BY <1>1, <1>3, <1>4 DEF ResourceInv, OneImage, Own, Alive
<1>5. CASE LeftAlone
  <2>1. cr' = cr
    BY <1>5 DEF LeftAlone
  <2>2. CASE ResourceKept(k)
    BY <1>1, <1>4, <2>1, <2>2 DEF ResourceKept, Own
  <2>3. CASE ResourceCollected(k)
    <3>1. NoRes.owner = 0
      BY DEF NoRes
    <3> QED BY <1>1, <1>3, <2>3, <3>1 DEF ResourceCollected, Own, Alive
  <2>4. CASE ResourceMade(k)
    <3>1. w.pc \in Past \ {"exists"}
      BY <2>4 DEF ResourceMade, Past, PCs
    <3>2. cr.image \in {"unset", opImage}
      BY <1>3, <3>1 DEF WorkerInv, ForeignStops, Foreign
    <3> QED BY <1>1, <2>1, <2>4, <3>2 DEF ResourceMade, MadeFrom
  <2> QED BY <1>1, <2>2, <2>3, <2>4 DEF StepFacts, ResourceStep
<1>6. CASE SameCluster
  <2>1. res(k)' = res(k)
    BY <1>6 DEF SameCluster, res
  <2>2. Own(k)
    BY <1>1, <1>3, <2>1 DEF Own
  <2>3. CASE cr'.image = cr.image
    BY <1>1, <1>4, <2>1, <2>2, <2>3
  <2>4. CASE TurnsPending
    <3>1. k \in Wanted(w.gp.spec)
      <4>1. SUFFICES ASSUME k = "segment-b" PROVE w.gp.spec.mirrors = "yes"
        BY DEF Wanted
      <4>2. SUFFICES ASSUME w.gp.spec.mirrors # "yes" PROVE FALSE
        OBVIOUS
      <4>3. w.pc = "status"
        BY <2>4 DEF TurnsPending
      <4>4. cr.spec.mirrors # "yes"
        BY <1>3, <4>2, <4>3 DEF WorkerInv, WorkerFollowsSpec, ToLower
      <4>5. ~OwnMirrors
        BY <1>3, <4>2, <4>3, <4>4 DEF ResourceInv, MirrorsLate, Building
      <4> QED BY <2>2, <4>1, <4>5 DEF OwnMirrors
    <3>2. Has(k)
      BY <1>3, <2>4, <3>1 DEF ResourceInv, WorkDone, TurnsPending
    <3> QED BY <2>1, <2>4, <3>2 DEF Has, TurnsPending
  <2> QED BY <1>1, <1>2, <1>3, <1>5, <2>3, <2>4
          DEF StepFacts, ClusterStep, KeepsStatus, TurnsDeleting, TurnsRunning, Gone,
              NoCR, Alive
<1>7. NoCR.uid = 0
  BY DEF NoCR
<1> QED BY <1>1, <1>2, <1>5, <1>6, <1>7 DEF StepFacts, ClusterStep, Gone, Alive

\* Versions with the finalizer are followed by versions with the finalizer.
LEMMA StaysFinalized ==
    ASSUME Inv, StepFacts, Alive', ~Born
    PROVE  AllFinalized => AllFinalized'
<1>1. cr \in Versions(crLog)
  BY VersionsEnds DEF Inv, FinalizerInv, TypeOK, cr
<1>2. NoCR.uid = 0
  BY DEF NoCR
<1> QED BY <1>1, <1>2 DEF StepFacts, ClusterStep, LeftAlone, SameCluster, Gone, Alive,
        AllFinalized

\* Only a worker whose copy says "yes" makes the mirrors' StatefulSet.
LEMMA MirrorsMade ==
    ASSUME Inv, StepFacts, Alive, cr'.uid = cr.uid, OwnMirrors'
    PROVE  OwnMirrors \/ ("segment-b" \in Tracked /\ ResourceMade("segment-b"))
<1>1. "segment-b" \in Tracked
  BY DEF OwnMirrors
<1>2. ResourceStep("segment-b") /\ NoRes.owner = 0
  BY <1>1 DEF StepFacts, NoRes
<1> QED BY <1>1, <1>2
        DEF OwnMirrors, Own, ResourceStep, ResourceKept, ResourceCollected, Alive

\* The mirrors' StatefulSet stays late.
LEMMA MirrorsLateStep ==
    ASSUME Inv, StepFacts
    PROVE  MirrorsLate'
<1> USE DEF Inv
<1>1. SUFFICES ASSUME Alive', cr'.spec.mirrors # "yes" PROVE MirrorsLate'
  BY DEF MirrorsLate
<1>2. CASE Born
  <2>1. w'.pc = "idle"
    BY <1>2 DEF Born
  <2>2. ~OwnMirrors'
    BY <1>2, NewbornHasNone DEF OwnMirrors
  <2> QED BY <2>1, <2>2 DEF MirrorsLate, Building
<1>3. CASE ~Born
  <2>1. /\ Alive /\ cr'.uid = cr.uid
        /\ cr'.spec.mirrors = cr.spec.mirrors /\ cr.spec.mirrors # "yes"
    BY <1>1, <1>3, ClusterCases DEF StepFacts, Alive
  <2>2. /\ OwnMirrors => cr.spec.mirrors = "Yes" /\ AllFinalized
        /\ w.pc = "activeMaster" /\ ~w.gp.finalizer => ~OwnMirrors
        /\ w.pc = "addFinalizer" => ~OwnMirrors
        /\ w.pc = "activeMaster" /\ w.gp.finalizer => AllFinalized
        /\ w.pc \in Building /\ w.gp.spec.mirrors # "yes" => ~OwnMirrors
        /\ w.pc \in Building /\ w.gp.spec.mirrors = "yes" => AllFinalized
    BY <2>1 DEF ResourceInv, MirrorsLate
  <2>3. AllFinalized => AllFinalized'
    BY <1>1, <1>3, StaysFinalized
  <2>4. CASE "segment-b" \in Tracked /\ ResourceMade("segment-b")
    <3>1. w.pc = "create" /\ w.gp.spec.mirrors = "yes"
      BY <2>4 DEF ResourceMade, Wanted
    <3>2. cr.spec.mirrors = "Yes"
      BY <2>1, <3>1 DEF WorkerInv, WorkerFollowsSpec, ToLower
    <3>3. AllFinalized'
      BY <2>2, <2>3, <3>1 DEF Building
    <3>4. w'.pc = "idle" \/ (w'.pc = "create" /\ w'.gp.spec.mirrors = "yes")
      BY <2>4, <3>1 DEF ResourceMade
    <3> QED BY <2>1, <3>2, <3>3, <3>4 DEF MirrorsLate, Building
  <2>5. CASE ~("segment-b" \in Tracked /\ ResourceMade("segment-b"))
    <3>1. OwnMirrors' => OwnMirrors
      BY <2>1, <2>5, MirrorsMade
    <3>2. (OwnMirrors => cr.spec.mirrors = "Yes" /\ AllFinalized)'
      BY <2>1, <2>2, <2>3, <3>1
    <3>3. CASE w'.pc = "idle"
      BY <3>2, <3>3 DEF MirrorsLate, Building
    <3>4. CASE Starts
      <4>1. crLog \in Seq(CRType) /\ crLog # <<>> /\ 1 \in 1..Len(crLog)
        BY LogTypes DEF FinalizerInv, TypeOK
      <4>2. Cached(crLog).finalizer => AllFinalized
        BY <2>1, <4>1 DEF LogInv, Ordered, AllFinalized, Versions, Cached
      <4>3. AllFinalized => Cached(crLog).finalizer
        BY <4>1, VersionsEnds DEF AllFinalized
      <4> QED BY <2>2, <2>3, <3>1, <3>2, <3>4, <4>2, <4>3
              DEF Starts, MirrorsLate, Building
    <3>5. CASE Branches
      <4>1. w.gp.spec.mirrors = ToLower(cr.spec.mirrors)
        BY <2>1, <3>5 DEF WorkerInv, WorkerFollowsSpec, Branches
      <4>2. w.gp.spec.mirrors # "yes" => ~OwnMirrors
        BY <2>2, <4>1 DEF ToLower
      <4> QED BY <2>2, <2>3, <3>1, <3>2, <3>5, <4>2
              DEF Branches, MirrorsLate, Building, Deleting
    <3>6. CASE Finalizes
      BY <2>1, <2>2, <3>1, <3>2, <3>6 DEF Finalizes, MirrorsLate, Building
    <3>7. CASE HandlesDeletion
      BY <1>1, <3>2, <3>7 DEF HandlesDeletion, MirrorsLate, Building, Deleting, Alive
    <3>8. CASE Stays
      BY <2>2, <2>3, <3>1, <3>2, <3>8 DEF Stays, MirrorsLate
    <3>9. CASE Prepares \/ Completes \/ \E k \in Tracked : Visits(k)
      <4>1. w.pc \in Building /\ w'.pc \in Building /\ w'.gp = w.gp
        BY <3>9 DEF Prepares, Completes, Visits, Building
      <4> QED BY <2>2, <2>3, <3>1, <3>2, <4>1 DEF MirrorsLate, Building
    <3>10. CASE Reports
      BY <3>2, <3>10 DEF Reports, MirrorsLate, Past
    <3> QED BY <3>3, <3>4, <3>5, <3>6, <3>7, <3>8, <3>9, <3>10
            DEF StepFacts, WorkerStep, Stops
  <2> QED BY <2>4, <2>5
<1> QED BY <1>2, <1>3

\* Before the first cluster the invariant holds.
LEMMA InvInit ==
    ASSUME Init
    PROVE  Inv
<1>1. Len(crLog) = 1 /\ crLog[1] = NoCR /\ w = Idle /\ upd = 0 /\ uids = 0
  BY DEF Init
<1>2. NoCR.uid = 0 /\ NoCR.phase = "unset" /\ Idle.pc = "idle" /\ Idle.done = {}
      /\ NoRes.owner = 0
  BY DEF NoCR, Idle, NoRes
<1>3. cr = NoCR /\ ~Alive
  BY <1>1, <1>2 DEF cr, Stored, Alive
<1>4. LogInv
  BY <1>1, <1>3 DEF LogInv, Absent, VersionsFollowSpec, Ordered, VersionsHavePhase,
     DeletingInCache, ForeignInCache, Foreign, UpdateGrows
<1>5. WorkerInv
  BY <1>1, <1>2, <1>3 DEF WorkerInv, WorkerFollowsSpec, WorkerHasPhase, DeletionSeen,
     DeletingIsFinal, ForeignStops, Foreign, Past, PCs, Building, Deleting
<1>6. OwnersBounded
  <2>1. ASSUME NEW k \in Tracked PROVE Versions(resLog[k]) = {NoRes}
    <3>1. resLog[k] = <<NoRes>>
      BY DEF Init
    <3>2. Len(resLog[k]) = 1 /\ resLog[k][1] = NoRes /\ 1..1 = {1}
      BY <3>1
    <3> QED BY <3>2 DEF Versions
  <2> QED BY <1>1, <1>2, <2>1 DEF OwnersBounded
<1>7. ResourceInv
  BY <1>1, <1>2, <1>3, <1>6 DEF ResourceInv, OwnStays, WorkDone, Provisioned, OneImage,
     MirrorsLate, Alive
<1> QED BY <1>4, <1>5, <1>7, FinalizerInit DEF Inv

\* Every step is what StepFacts says, and keeps the invariant.
LEMMA InvStep ==
    ASSUME PatientUser, Inv, [Next]_vars
    PROVE  Inv' /\ StepFacts
<1>1. FinalizerInv'
  BY FinalizerStep DEF Inv
<1>2. LogInv' /\ WorkerInv' /\ ClusterStep
  BY CopiesStep DEF Inv
<1>3. StepFacts
  BY <1>2, ResourceSteps, WorkerSteps DEF Inv, StepFacts
<1>4. ResourceInv'
  BY <1>3, OwnersBoundedStep, OwnStaysStep, WorkDoneStep, ProvisionedStep, OneImageStep,
     MirrorsLateStep DEF ResourceInv
<1> QED BY <1>1, <1>2, <1>3, <1>4 DEF Inv
-----------------------------------------------------------------------------
(***************************************************************************)
(* The theorems.                                                           *)
(***************************************************************************)

\* A GreenplumCluster that is reported Running has every resource it asks for, all
\* of them its own, whatever the caches held when createOrUpdateClusterResources
\* ran and whichever of its calls failed.
THEOREM RunningHasAll == PatientUser => (Spec => []RunningIsProvisioned)
<1> SUFFICES ASSUME PatientUser PROVE Spec => []RunningIsProvisioned
  OBVIOUS
<1>1. Init => Inv
  BY InvInit
<1>2. Inv /\ [Next]_vars => Inv'
  BY InvStep
<1>3. Inv => RunningIsProvisioned
  <2>1. NoCR.phase = "unset"
    BY DEF NoCR
  <2> QED BY <2>1 DEF Inv, LogInv, Absent, ResourceInv, Provisioned, RunningIsProvisioned,
          Own, Alive
<1> QED BY <1>1, <1>2, <1>3, PTL DEF Spec

\* The StatefulSets of a GreenplumCluster that is bound to an image run that image,
\* whichever images the operators that come and go were started with.
THEOREM OneImageForLife == PatientUser => (Spec => []OneImage)
<1> SUFFICES ASSUME PatientUser PROVE Spec => []OneImage
  OBVIOUS
<1>1. Init => Inv
  BY InvInit
<1>2. Inv /\ [Next]_vars => Inv'
  BY InvStep
<1>3. Inv => OneImage
  BY DEF Inv, ResourceInv
<1> QED BY <1>1, <1>2, <1>3, PTL DEF Spec

\* A secret holds nothing but its key.
SecretShape ==
    LET s == res("ssh-secrets") IN
    s.owner # 0 => s.data = [NoData EXCEPT !.key = s.data.key]

\* createOrUpdateClusterResources makes secrets of this shape.
LEMMA SecretShapeStep ==
    ASSUME SecretShape, ResourceStep("ssh-secrets")
    PROVE  SecretShape'
<1> DEFINE s == res("ssh-secrets")
<1>1. CASE ResourceKept("ssh-secrets")
  BY <1>1 DEF ResourceKept, SecretShape
<1>2. CASE ResourceCollected("ssh-secrets")
  <2>1. s'.owner = 0
    BY <1>2 DEF ResourceCollected, NoRes
  <2> QED BY <2>1 DEF SecretShape
<1>3. CASE ResourceMade("ssh-secrets")
  <2> DEFINE key == SecretKey(Cached(resLog["ssh-secrets"]))
  <2>1. s'.data = [NoData EXCEPT !.key = key]
    BY <1>3 DEF ResourceMade, MadeFrom
  <2> HIDE DEF key
  <2>2. s'.data.key = key
    BY <2>1 DEF NoData
  <2> HIDE DEF s
  <2>3. s'.owner # 0 => s'.data = [NoData EXCEPT !.key = s'.data.key]
    BY <2>1, <2>2
  <2> QED BY <2>3 DEF SecretShape, s
<1> QED BY <1>1, <1>2, <1>3 DEF ResourceStep

\* No step changes the secret of the living cluster.
LEMMA SecretStep ==
    ASSUME Inv, Inv', StepFacts, SecretShape, Alive, cr'.uid = cr.uid,
           res("ssh-secrets").owner = cr.uid
    PROVE  res("ssh-secrets")' = res("ssh-secrets")
<1> DEFINE s == res("ssh-secrets")
<1>1. "ssh-secrets" \in Tracked
  BY ConstantsAssumption
<1>2. ResourceStep("ssh-secrets") /\ cr.uid = uids
  BY <1>1, LatestAlive DEF StepFacts, Inv
<1>3. s \in ResType /\ s' \in ResType
  <2>1. s \in ResType
    BY <1>1, ObjectTypes DEF Inv, FinalizerInv
  <2>2. resLog'["ssh-secrets"] \in Seq(ResType) /\ resLog'["ssh-secrets"] # <<>>
    BY <1>1 DEF Inv, FinalizerInv, TypeOK
  <2> QED BY <2>1, <2>2, LogTypes DEF res
<1>4. CASE ResourceMade("ssh-secrets")
  <2>1. Cached(resLog["ssh-secrets"]) = s
    BY <1>4 DEF ResourceMade, Alive
  <2>2. s'.owner = s.owner /\ s'.data = [NoData EXCEPT !.key = SecretKey(s)]
    BY <1>2, <1>4, <2>1 DEF ResourceMade, MadeFrom
  <2>3. SecretKey(s) = s.data.key /\ s.data = [NoData EXCEPT !.key = s.data.key]
    BY DEF SecretKey, SecretShape, Alive
  <2> HIDE DEF s
  <2>4. s'.data = s.data
    BY <2>2, <2>3
  <2>5. s' = s
    BY <1>3, <2>2, <2>4 DEF ResType
  <2> QED BY <2>5 DEF s
<1> QED BY <1>2, <1>4 DEF ResourceStep, ResourceKept, ResourceCollected

\* While a GreenplumCluster lives its SSH key stays: a secret found in the cache keeps
\* its key, and one that the cache does not have yet is not created twice.
THEOREM KeyKept == PatientUser => (Spec => SshKeyKept)
<1> SUFFICES ASSUME PatientUser PROVE Spec => SshKeyKept
  OBVIOUS
<1>1. Init => Inv /\ SecretShape
  <2>1. ASSUME Init PROVE res("ssh-secrets").owner = 0
    BY <2>1, ConstantsAssumption DEF Init, res, Stored, NoRes
  <2> QED BY <2>1, InvInit DEF SecretShape
<1>2. Inv /\ SecretShape /\ [Next]_vars => (Inv /\ SecretShape)'
  BY InvStep, SecretShapeStep, ConstantsAssumption DEF StepFacts
<1>3. Inv /\ SecretShape /\ [Next]_vars =>
          [ LET s == res("ssh-secrets") IN
            s.owner = cr.uid /\ cr.uid # 0 /\ cr'.uid = cr.uid
                => res("ssh-secrets")' = s ]_vars
  BY InvStep, SecretStep DEF Alive
<1> QED BY <1>1, <1>2, <1>3, PTL DEF Spec, SshKeyKept
-----------------------------------------------------------------------------
(***************************************************************************)
(* The refinement.                                                         *)
(***************************************************************************)

\* Of the resources the life cycle sees whether none, some or all are there.
HasNone == ~Alive \/ \A k \in Wanted(cr.spec) : ~Own(k)

HasAll == Alive /\ \A k \in Wanted(cr.spec) : Own(k)

ProvidedMeans == /\ Provided \in {"none", "some", "all"}
                 /\ Provided = "none" <=> HasNone
                 /\ Provided = "all" <=> HasAll

\* Every specification asks for something, so that Provided is well defined.
LEMMA ProvidedCases == ProvidedMeans /\ ProvidedMeans'
<1>1. \A spec : "segment-a" \in Wanted(spec)
  BY ConstantsAssumption DEF Wanted
<1>2. ProvidedMeans
  <2> DEFINE own == {k \in Wanted(cr.spec) : res(k).owner = cr.uid}
  <2>1. own = {} <=> \A k \in Wanted(cr.spec) : ~Own(k)
    BY DEF Own
  <2>2. own = Wanted(cr.spec) <=> \A k \in Wanted(cr.spec) : Own(k)
    BY DEF Own
  <2>3. own = {} => own # Wanted(cr.spec)
    BY <1>1
  <2>4. Provided = CASE cr.uid = 0 \/ own = {} -> "none"
                     [] cr.uid # 0 /\ own = Wanted(cr.spec) -> "all"
                     [] OTHER -> "some"
    BY DEF Provided
  <2> HIDE DEF own
  <2> QED BY <2>1, <2>2, <2>3, <2>4 DEF ProvidedMeans, HasNone, HasAll, Alive
<1>3. ProvidedMeans'
  <2> DEFINE own == {k \in Wanted(cr'.spec) : res(k)'.owner = cr'.uid}
  <2>1. own = {} <=> \A k \in Wanted(cr'.spec) : ~Own(k)'
    BY DEF Own
  <2>2. own = Wanted(cr'.spec) <=> \A k \in Wanted(cr'.spec) : Own(k)'
    BY DEF Own
  <2>3. own = {} => own # Wanted(cr'.spec)
    BY <1>1
  <2>4. Provided' = CASE cr'.uid = 0 \/ own = {} -> "none"
                      [] cr'.uid # 0 /\ own = Wanted(cr'.spec) -> "all"
                      [] OTHER -> "some"
    BY DEF Provided, Wanted
  <2>5. HasNone' <=> cr'.uid = 0 \/ \A k \in Wanted(cr'.spec) : ~Own(k)'
    BY DEF HasNone, Alive, Wanted
  <2>6. HasAll' <=> cr'.uid # 0 /\ \A k \in Wanted(cr'.spec) : Own(k)'
    BY DEF HasAll, Alive, Wanted
  <2> HIDE DEF own
  <2> QED BY <2>1, <2>2, <2>3, <2>4, <2>5, <2>6 DEF ProvidedMeans
<1> QED BY <1>2, <1>3

\* Resources that are left alone provide what they did.
LEMMA ProvidedKept ==
    ASSUME resLog' = resLog, Alive, cr'.uid = cr.uid,
           cr'.spec.mirrors = cr.spec.mirrors
    PROVE  Provided' = Provided
<1>1. Wanted(cr'.spec) = Wanted(cr.spec) /\ \A k : res(k)' = res(k)
  BY DEF Wanted, res
<1>2. (HasNone' <=> HasNone) /\ (HasAll' <=> HasAll)
  BY <1>1 DEF HasNone, HasAll, Own, Alive, Wanted
<1> QED BY <1>2, ProvidedCases DEF ProvidedMeans

\* A step that leaves the cluster alone provides resources, or is no step of the
\* life cycle.
LEMMA ProvideStep ==
    ASSUME Inv, StepFacts, LeftAlone
    PROVE  Lifecycle!Provide \/ UNCHANGED Lifecycle!vars
<1>1. cr' = cr
  BY DEF LeftAlone
<1>2. HasAll => HasAll'
  BY <1>1, OwnKept DEF HasAll, Wanted, StepFacts, Inv, Alive
<1>3. HasNone' => HasNone
  BY <1>1, OwnKept DEF HasNone, Wanted, StepFacts, Inv, Alive
<1>4. ~Alive => HasNone'
  BY <1>1 DEF HasNone, Alive
<1>5. cr \in CRType
  BY ObjectTypes DEF Inv, FinalizerInv
<1>6. cr.phase # "absent"
  BY <1>5 DEF CRType, Phases
<1>7. CASE Provided' = Provided
  BY <1>1, <1>7 DEF Lifecycle!vars
<1>8. CASE Provided' # Provided
  <2>1. Alive /\ \/ Provided = "none" /\ Provided' \in {"some", "all"}
                 \/ Provided = "some" /\ Provided' = "all"
    BY <1>2, <1>3, <1>4, <1>8, ProvidedCases DEF ProvidedMeans
  <2> QED BY <1>1, <1>6, <2>1 DEF Lifecycle!Provide, Alive
<1> QED BY <1>7, <1>8

\* The cluster has its type before and after a step.
LEMMA ClusterTypes ==
    ASSUME Inv, Inv'
    PROVE  /\ cr.deleting \in BOOLEAN /\ cr'.deleting \in BOOLEAN
           /\ cr.phase \in Phases /\ cr'.phase \in Phases
<1>1. cr \in CRType
  BY ObjectTypes DEF Inv, FinalizerInv
<1>2. crLog' \in Seq(CRType) /\ crLog' # <<>>
  BY DEF Inv, FinalizerInv, TypeOK
<1>3. cr' \in CRType
  BY <1>2, LogTypes DEF cr
<1> QED BY <1>1, <1>3 DEF CRType

\* A cluster is born without anything.
LEMMA CreateStep ==
    ASSUME Inv, Inv', Born
    PROVE  Lifecycle!Create
<1>1. cr = NoCR /\ cr.uid = 0
  BY DEF Inv, LogInv, Absent, Born
<1>2. cr.deleting = FALSE /\ cr.image = "unset"
  BY <1>1 DEF NoCR
<1>3. HasNone /\ HasNone'
  BY <1>1, NewbornHasNone DEF HasNone, Alive, Wanted
<1>4. Provided = "none" /\ Provided' = "none"
  BY <1>3, ProvidedCases DEF ProvidedMeans
<1>5. uids' # 0
  BY DEF Born, Inv, FinalizerInv, TypeOK
<1>6. /\ cr'.uid # 0 /\ cr'.phase = "unset" /\ cr'.image = "unset"
      /\ cr'.deleting = FALSE
  BY <1>5, ClusterTypes DEF Born
<1> QED BY <1>1, <1>2, <1>4, <1>6 DEF Lifecycle!Create

\* A cluster goes when its finalizer was handled, or before it had anything.
LEMMA GoneStep ==
    ASSUME Inv, Inv', Gone
    PROVE  Lifecycle!Finalize \/ Lifecycle!Delete
<1>1. cr.uid # 0 /\ cr.phase # "absent" /\ cr.deleting \in BOOLEAN
  BY ClusterTypes DEF Gone, Alive, Phases
<1>2. cr' = NoCR /\ NoCR.uid = 0 /\ NoCR.deleting = FALSE /\ NoCR.image = "unset"
  BY DEF Gone, NoCR
<1>3. HasNone'
  BY <1>2 DEF HasNone, Alive
<1>4. Provided' = "none"
  BY <1>3, ProvidedCases DEF ProvidedMeans
<1>5. Lifecycle!Gone
  BY <1>2, <1>4 DEF Lifecycle!Gone
<1>6. CASE cr.deleting
  BY <1>5, <1>6 DEF Lifecycle!Finalize
<1>7. CASE ~cr.deleting
  <2>1. ~cr.finalizer
    BY <1>7 DEF Gone
  <2>2. HasNone
    BY <1>1, <2>1 DEF HasNone, Own, Wanted, Inv, FinalizerInv, SoundOwners
  <2>3. Provided = "none"
    BY <2>2, ProvidedCases DEF ProvidedMeans
  <2> QED BY <1>1, <1>5, <1>7, <2>3 DEF Lifecycle!Delete
<1> QED BY <1>6, <1>7

\* A write to the living cluster reports its phase, or marks it deleted.
LEMMA ReportStep ==
    ASSUME Inv, Inv', SameCluster,
           \/ KeepsStatus /\ (cr'.deleting = cr.deleting
                                  \/ (~cr.deleting /\ cr'.deleting))
           \/ TurnsDeleting \/ TurnsPending \/ TurnsRunning
    PROVE  [Lifecycle!Next]_(Lifecycle!vars)
<1>1. cr.uid # 0 /\ cr'.uid # 0 /\ cr.phase # "absent"
  BY ClusterTypes DEF SameCluster, Alive, Phases
<1>2. cr.deleting \in BOOLEAN /\ cr'.deleting \in BOOLEAN
  BY ClusterTypes
<1>3. Provided' = Provided
  BY ProvidedKept DEF SameCluster
<1>4. CASE KeepsStatus /\ cr'.deleting = cr.deleting
  BY <1>1, <1>3, <1>4 DEF KeepsStatus, Lifecycle!vars
<1>5. CASE KeepsStatus /\ ~cr.deleting /\ cr'.deleting
  <2>1. cr'.deleting = TRUE
    BY <1>2, <1>5
  <2> QED BY <1>1, <1>3, <1>5, <2>1 DEF KeepsStatus, Lifecycle!Next, Lifecycle!Delete
<1>6. CASE TurnsDeleting
  <2>1. cr'.deleting = cr.deleting
    BY <1>2, <1>6 DEF TurnsDeleting
  <2> QED BY <1>1, <1>3, <1>6, <2>1
          DEF TurnsDeleting, Lifecycle!Next, Lifecycle!ReportDeleting
<1>7. CASE TurnsPending
  <2>1. w.pc = "status"
    BY <1>7 DEF TurnsPending
  <2>2. cr.spec.mirrors = "yes" => w.gp.spec.mirrors = "yes"
    BY <1>1, <2>1 DEF Inv, WorkerInv, WorkerFollowsSpec, ToLower, Alive
  <2>3. Wanted(cr.spec) \subseteq Wanted(w.gp.spec)
    BY <2>2 DEF Wanted
  <2>4. HasAll
    BY <1>1, <2>1, <2>3 DEF HasAll, Inv, ResourceInv, WorkDone, Has, Alive
  <2>5. Provided = "all"
    BY <2>4, ProvidedCases DEF ProvidedMeans
  <2>6. cr.phase \in {"unset", "Pending", "Running"}
    BY <1>7, ClusterTypes DEF TurnsPending, Phases
  <2>7. opImage \in Images
    BY DEF Inv, FinalizerInv, TypeOK
  <2>8. IF cr.image = "unset" THEN cr'.image \in Images ELSE cr'.image = cr.image
    BY <1>7, <2>7 DEF TurnsPending
  <2>9. Lifecycle!ReportPending
    BY <1>1, <1>3, <1>7, <2>5, <2>6, <2>8 DEF TurnsPending, Lifecycle!ReportPending
  <2> QED BY <2>9 DEF Lifecycle!Next
<1>8. CASE TurnsRunning
  BY <1>1, <1>3, <1>8
     DEF TurnsRunning, Lifecycle!Next, Lifecycle!ReportRunning, Lifecycle!vars
<1> QED BY <1>4, <1>5, <1>6, <1>7, <1>8

\* The control loop implements the life cycle: through stale caches, lost answers,
\* crashes and changes of the operator's image, a phase is reported only when all
\* resources are there to stay, the image is bound once, Deleting is final, and a
\* cluster that has a resource is not gone before its finalizer was handled.
THEOREM LifecycleImplemented == PatientUser => (Spec => ImplementsLifecycle)
<1> SUFFICES ASSUME PatientUser PROVE Spec => Lifecycle!Spec
  BY DEF ImplementsLifecycle
<1>1. Init => Inv
  BY InvInit
<1>2. Inv /\ [Next]_vars => Inv'
  BY InvStep
<1>3. Init => Lifecycle!Init
  <2>1. SUFFICES ASSUME Init PROVE Lifecycle!Init
    OBVIOUS
  <2>2. cr = NoCR
    BY <2>1 DEF Init, cr, Stored
  <2>3. cr.uid = 0 /\ ~cr.deleting /\ cr.image = "unset"
    BY <2>2 DEF NoCR
  <2>4. HasNone
    BY <2>3 DEF HasNone, Alive
  <2>5. Provided = "none"
    BY <2>4, ProvidedCases DEF ProvidedMeans
  <2> QED BY <2>3, <2>5 DEF Lifecycle!Init
<1>4. Inv /\ [Next]_vars => [Lifecycle!Next]_(Lifecycle!vars)
  <2>1. SUFFICES ASSUME Inv, [Next]_vars PROVE [Lifecycle!Next]_(Lifecycle!vars)
    OBVIOUS
  <2>2. Inv' /\ StepFacts
    BY <2>1, InvStep
  <2>3. CASE LeftAlone
    BY <2>1, <2>2, <2>3, ProvideStep DEF Lifecycle!Next
  <2>4. CASE Born
    BY <2>1, <2>2, <2>4, CreateStep DEF Lifecycle!Next
  <2>5. CASE Gone
    BY <2>1, <2>2, <2>5, GoneStep DEF Lifecycle!Next
  <2>6. CASE ~LeftAlone /\ ~Born /\ ~Gone
    BY <2>1, <2>2, <2>6, ReportStep DEF StepFacts, ClusterStep
  <2> QED BY <2>3, <2>4, <2>5, <2>6
<1> QED BY <1>1, <1>2, <1>3, <1>4, PTL DEF Spec, Lifecycle!Spec
-----------------------------------------------------------------------------
(***************************************************************************)
(* Expansion.                                                              *)
(***************************************************************************)

\* What a step does to the gpexpand job ...
JobMade ==
    /\ w.pc = "createJob" /\ crLog' = crLog /\ uids' = uids
    /\ job'.owner = w.gp.uid /\ job'.count = w.gp.spec.count /\ job'.state = "running"

JobEnds ==
    job.state = "running" /\ job'.owner = job.owner /\ job'.count = job.count

JobStep == job' = job \/ job' = NoJob \/ JobMade \/ JobEnds

\* ... and to the number of segments.
DatabaseInitialised ==
    /\ res("greenplum-config").owner # 0 /\ crLog' = crLog /\ uids' = uids
    /\ db'.segs = res("greenplum-config").data.count

DatabaseExpanded ==
    /\ job.state = "running" /\ crLog' = crLog /\ uids' = uids
    /\ db'.segs = job.count

DatabaseStep == db'.segs = db.segs \/ DatabaseInitialised \/ DatabaseExpanded

\* Only the operator, the garbage collector and the job controller write the job.
LEMMA JobSteps ==
    ASSUME FinalizerInv, [Next]_vars
    PROVE  JobStep
<1> USE DEF FinalizerInv
<1>1. /\ jobLog \in Seq(JobType) /\ jobLog # <<>> /\ job \in JobType /\ NoJob \in JobType
      /\ w.gp \in CRType
  BY ObjectTypes, AbsentTypes DEF TypeOK, WorkerType
<1>2. jobLog' = jobLog => job' = job
  BY DEF job
<1>3. ASSUME NEW new \in JobType, jobLog' = Record(jobLog, new) PROVE job' = new
  BY <1>1, <1>3, StoredRecord DEF job
<1>4. CASE Worker
  <2>1. ASSUME NEW o \in Outcomes, CreateJob(o) PROVE JobStep
    <3> DEFINE new == [owner |-> w.gp.uid, count |-> w.gp.spec.count,
                       state |-> "running"]
    <3>1. new \in JobType
      BY <1>1 DEF JobType, CRType, SpecType
    <3>2. /\ w.pc = "createJob" /\ crLog' = crLog /\ uids' = uids
          /\ jobLog' = jobLog \/ jobLog' = Record(jobLog, new)
      BY <2>1 DEF CreateJob
    <3>3. new.owner = w.gp.uid /\ new.count = w.gp.spec.count /\ new.state = "running"
      OBVIOUS
    <3> HIDE DEF new
    <3>4. job' = job \/ job' = new
      BY <1>2, <1>3, <3>1, <3>2
    <3> QED BY <3>2, <3>3, <3>4 DEF JobStep, JobMade
  <2>2. ASSUME NEW o \in Outcomes, CheckJob(o) PROVE JobStep
    <3>1. jobLog' = jobLog \/ jobLog' = Record(jobLog, NoJob)
      BY <2>2 DEF CheckJob
    <3> QED BY <1>1, <1>2, <1>3, <3>1 DEF JobStep
  <2>3. CASE ~\E o \in Outcomes : CreateJob(o) \/ CheckJob(o)
    <3>1. jobLog' = jobLog
      BY <1>4, <2>3 DEF Worker, Reconcile, ClusterExists, ResourcesDone, CreateOrUpdate,
         GetCurrentActiveMaster, AddFinalizer, SetDeleting, EnsureGreenplumClusterStopped,
         RemoveFinalizer, HandleAntiAffinity, ReconcileStatus, SetRunning,
         GetCurrentSegmentCount
    <3> QED BY <1>2, <3>1 DEF JobStep
  <2> QED BY <2>1, <2>2, <2>3
<1>5. CASE Environment
  <2>1. CASE JobSucceeds \/ JobFails
    <3> DEFINE ended(state) == [job EXCEPT !.state = state]
    <3>1. \A state \in {"succeeded", "failed"} :
              /\ ended(state) \in JobType
              /\ ended(state).owner = job.owner /\ ended(state).count = job.count
      BY <1>1 DEF JobType
    <3>2. job.state = "running" /\ \E state \in {"succeeded", "failed"} :
              jobLog' = Record(jobLog, ended(state))
      BY <2>1 DEF JobSucceeds, JobFails
    <3> HIDE DEF ended
    <3>3. \E state \in {"succeeded", "failed"} : job' = ended(state)
      BY <1>3, <3>1, <3>2
    <3> QED BY <3>1, <3>2, <3>3 DEF JobStep, JobEnds
  <2>2. CASE DeliverJob \/ CollectJob
    <3>1. \/ ~InSync(jobLog) /\ jobLog' = Deliver(jobLog)
          \/ jobLog' = Record(jobLog, NoJob)
      BY <2>2 DEF DeliverJob, CollectJob
    <3>2. ~InSync(jobLog) /\ jobLog' = Deliver(jobLog) => job' = job
      BY <1>1, DeliverVersions DEF job
    <3> QED BY <1>1, <1>3, <3>1, <3>2 DEF JobStep
  <2>3. CASE ~(JobSucceeds \/ JobFails \/ DeliverJob \/ CollectJob)
    <3>1. jobLog' = jobLog
      BY <1>5, <2>3 DEF Environment, DeliverCR, Resync, DeliverResource,
         TouchStatefulSet, CollectResource, StartDatabase, StopDatabase
    <3> QED BY <1>2, <3>1 DEF JobStep
  <2> QED BY <2>1, <2>2, <2>3
<1>6. CASE User
  <2>1. jobLog' = jobLog
    BY <1>6 DEF User, UserCreate, UserDelete, AdmitUpdate, StoreUpdate, CleanSchema
  <2> QED BY <1>2, <2>1 DEF JobStep
<1>7. CASE \E image \in Images : Restart(image)
  <2>1. jobLog' = Relist(jobLog)
    BY <1>7 DEF Restart
  <2>2. job' = job
    BY <1>1, <2>1, DeliverVersions DEF job
  <2> QED BY <2>2 DEF JobStep
<1>8. CASE UNCHANGED vars
  BY <1>2, <1>8 DEF vars, JobStep
<1> QED BY <1>4, <1>5, <1>6, <1>7, <1>8 DEF Next

\* The number of segments comes from the configuration, once, and from the jobs.
LEMMA DatabaseSteps ==
    ASSUME FinalizerInv, [Next]_vars
    PROVE  DatabaseStep
<1>1. db \in [up : BOOLEAN, segs : Nat, schema : BOOLEAN]
  BY DEF FinalizerInv, TypeOK
<1>2. CASE Worker
  <2>1. db' = db \/ db' = [db EXCEPT !.up = FALSE]
    BY <1>2 DEF Worker, Reconcile, ClusterExists, ResourcesDone, CreateOrUpdate,
       GetCurrentActiveMaster, AddFinalizer, SetDeleting, EnsureGreenplumClusterStopped,
       RemoveFinalizer, HandleAntiAffinity, ReconcileStatus, SetRunning,
       GetCurrentSegmentCount, CheckJob, CreateJob
  <2> QED BY <1>1, <2>1 DEF DatabaseStep
<1>3. CASE StartDatabase
  <2>1. "greenplum-config" \in Tracked \ {"segment-b"}
    BY ConstantsAssumption
  <2>2. db'.segs = db.segs \/ db'.segs = res("greenplum-config").data.count
    BY <1>1, <1>3 DEF StartDatabase
  <2>3. res("greenplum-config").owner # 0 /\ crLog' = crLog /\ uids' = uids
    BY <1>3, <2>1 DEF StartDatabase
  <2> QED BY <2>2, <2>3 DEF DatabaseStep, DatabaseInitialised
<1>4. CASE JobSucceeds
  BY <1>1, <1>4 DEF JobSucceeds, DatabaseStep, DatabaseExpanded
<1>5. CASE Environment /\ ~StartDatabase /\ ~JobSucceeds
  <2>1. db' = db \/ db' = [db EXCEPT !.up = FALSE]
    BY <1>5 DEF Environment, DeliverCR, DeliverJob, Resync, DeliverResource,
       TouchStatefulSet, CollectResource, CollectJob, StopDatabase, JobFails
  <2> QED BY <1>1, <2>1 DEF DatabaseStep
<1>6. CASE User
  <2>1. db' = db \/ db' = [db EXCEPT !.schema = FALSE]
    BY <1>6 DEF User, UserCreate, UserDelete, AdmitUpdate, StoreUpdate, CleanSchema
  <2> QED BY <1>1, <2>1 DEF DatabaseStep
<1>7. CASE \E image \in Images : Restart(image)
  BY <1>7 DEF Restart, DatabaseStep
<1>8. CASE UNCHANGED vars
  BY <1>8 DEF vars, DatabaseStep
<1> QED BY <1>2, <1>3, <1>4, <1>5, <1>6, <1>7, <1>8 DEF Next

\* A job belongs to a cluster that was created, and only a cluster has a worker.
JobKnown == /\ job.owner <= uids
            /\ job.owner = 0 => job.state = "unset"
            /\ w.pc # "idle" => uids # 0

\* The job, the configuration and, of the first cluster, the database are within
\* the specification.
CountsFollowSpec ==
    Alive => /\ job.owner = cr.uid => job.count <= cr.spec.count
             /\ Own("greenplum-config")
                   => res("greenplum-config").data.count <= cr.spec.count
             /\ uids = 1 => db.segs <= cr.spec.count

\* Before the first cluster there is no database.
NothingYet == uids = 0 => db.segs = 0

ExpansionInv == JobKnown /\ CountsFollowSpec /\ NothingYet

\* The numbers that ExpansionInv compares.
LEMMA Numbers ==
    ASSUME TypeOK
    PROVE  /\ uids \in Nat /\ cr.spec.count \in Nat
           /\ w.gp.uid \in Nat /\ w.gp.spec.count \in Nat
           /\ job.owner \in Nat /\ job.count \in Nat /\ db.segs \in Nat
           /\ res("greenplum-config").owner \in Nat
           /\ res("greenplum-config").data.count \in Nat
<1>1. /\ cr \in CRType /\ w.gp \in CRType /\ job \in JobType
      /\ res("greenplum-config") \in ResType
  BY ObjectTypes, ConstantsAssumption DEF TypeOK, WorkerType
<1>2. cr.spec \in SpecType /\ w.gp.spec \in SpecType /\ w.gp.uid \in Nat
  BY <1>1 DEF CRType
<1>3. cr.spec.count \in Nat /\ w.gp.spec.count \in Nat
  BY <1>2 DEF SpecType
<1>4. job.owner \in Nat /\ job.count \in Nat
  BY <1>1 DEF JobType
<1>5. res("greenplum-config").owner \in Nat /\ res("greenplum-config").data \in DataType
  BY <1>1 DEF ResType
<1>6. res("greenplum-config").data.count \in Nat
  BY <1>5 DEF DataType
<1> QED BY <1>2, <1>3, <1>4, <1>5, <1>6 DEF TypeOK

\* Every step keeps ExpansionInv.
LEMMA ExpansionStep ==
    ASSUME Inv, Inv', StepFacts, JobStep, DatabaseStep, ExpansionInv
    PROVE  ExpansionInv'
<1> USE DEF Inv
<1> DEFINE config == res("greenplum-config")
<1>1. /\ uids \in Nat /\ cr.spec.count \in Nat /\ w.gp.spec.count \in Nat
      /\ job.owner \in Nat /\ job.count \in Nat /\ db.segs \in Nat
      /\ config.owner \in Nat /\ config.data.count \in Nat
  BY Numbers DEF FinalizerInv
<1>2. /\ uids' \in {uids, uids + 1}
      /\ NoJob.owner = 0 /\ NoJob.state = "unset" /\ NoCR.uid = 0 /\ NoRes.owner = 0
  BY DEF StepFacts, ClusterStep, Born, Gone, SameCluster, LeftAlone, NoJob, NoCR, NoRes
<1>3. "greenplum-config" \in Tracked
  BY ConstantsAssumption
<1>4. ResourceStep("greenplum-config") /\ config.owner <= uids
  BY <1>3 DEF StepFacts, FinalizerInv, SoundOwners
<1>5. cr'.spec.count \in Nat
  <2>1. crLog' \in Seq(CRType) /\ crLog' # <<>>
    BY DEF FinalizerInv, TypeOK
  <2>2. cr' \in CRType
    BY <2>1, LogTypes DEF cr
  <2>3. cr'.spec \in SpecType
    BY <2>2 DEF CRType
  <2> QED BY <2>3 DEF SpecType
<1>6. w.pc # "idle" => w.gp.uid = uids /\ uids # 0
  BY DEF FinalizerInv, SoundWorker, ExpansionInv, JobKnown
<1>7. JobKnown'
  <2>1. job'.owner <= uids'
    <3>1. job'.owner \in {job.owner, 0, uids}
      BY <1>2, <1>6 DEF JobStep, JobMade, JobEnds
    <3>2. job.owner <= uids' /\ 0 <= uids' /\ uids <= uids'
      BY <1>1, <1>2 DEF ExpansionInv, JobKnown
    <3> QED BY <3>1, <3>2
  <2>2. job'.owner = 0 => job'.state = "unset"
    BY <1>2, <1>6 DEF JobStep, JobMade, JobEnds, ExpansionInv, JobKnown
  <2>3. w'.pc # "idle" => w.pc # "idle" \/ uids # 0
    <3>1. CASE Starts
      <4>1. Cached(crLog).uid \in {0, uids}
        BY EndsSound DEF FinalizerInv, Sound
      <4> QED BY <3>1, <4>1 DEF Starts
    <3>2. CASE ~Starts
      BY <3>2 DEF StepFacts, WorkerStep, Stops, Stays, Branches, Finalizes,
         HandlesDeletion, Prepares, Visits, Completes, Reports, Deleting, Past
    <3> QED BY <3>1, <3>2
  <2>4. uids # 0 => uids' # 0
    BY <1>1, <1>2
  <2> QED BY <1>6, <2>1, <2>2, <2>3, <2>4 DEF JobKnown
<1>8. NothingYet'
  <2>1. SUFFICES ASSUME uids' = 0 PROVE db'.segs = 0
    BY DEF NothingYet
  <2>2. uids = 0 /\ db.segs = 0
    BY <1>1, <1>2, <2>1 DEF ExpansionInv, NothingYet
  <2>3. config.owner = 0 /\ job.state = "unset"
    BY <1>1, <1>4, <2>2 DEF ExpansionInv, JobKnown
  <2> QED BY <2>2, <2>3 DEF DatabaseStep, DatabaseInitialised, DatabaseExpanded
<1>9. CASE Born
  <2>1. uids' = uids + 1 /\ cr'.uid = uids' /\ resLog' = resLog
    BY <1>9 DEF Born
  <2>2. job'.owner # cr'.uid
    <3>1. job'.owner \in {job.owner, 0}
      BY <1>1, <1>2, <2>1 DEF JobStep, JobMade, JobEnds
    <3> QED BY <1>1, <2>1, <3>1 DEF ExpansionInv, JobKnown
  <2>3. ~Own("greenplum-config")'
    BY <1>3, <1>9, NewbornHasNone
  <2>4. uids' = 1 => db'.segs = 0
    <3>1. db'.segs = db.segs
      BY <1>1, <2>1 DEF DatabaseStep, DatabaseInitialised, DatabaseExpanded
    <3> QED BY <1>1, <2>1, <3>1 DEF ExpansionInv, NothingYet
  <2>5. CountsFollowSpec'
    BY <1>5, <2>2, <2>3, <2>4 DEF CountsFollowSpec
  <2> QED BY <1>7, <1>8, <2>5 DEF ExpansionInv
<1>10. CASE ~Born /\ Alive'
  <2>1. Alive /\ cr'.uid = cr.uid /\ uids' = uids /\ cr.uid = uids /\ uids # 0
    BY <1>10, ClusterCases, LatestAlive DEF StepFacts, Alive
  <2>2. cr.spec.count <= cr'.spec.count
    BY <1>1, <1>2, <1>10 DEF StepFacts, ClusterStep, LeftAlone, SameCluster, Gone, Alive
  <2>3. /\ job.owner = cr.uid => job.count <= cr.spec.count
        /\ Own("greenplum-config") => config.data.count <= cr.spec.count
        /\ uids = 1 => db.segs <= cr.spec.count
    BY <2>1 DEF ExpansionInv, CountsFollowSpec
  <2>4. w.pc # "idle" => w.gp.spec.count <= cr.spec.count
    BY <2>1 DEF WorkerInv, WorkerFollowsSpec
  <2>5. ASSUME job'.owner = cr'.uid PROVE job'.count <= cr'.spec.count
    <3>1. job'.count \in Nat /\ job'.count <= cr.spec.count
      BY <1>1, <1>2, <2>1, <2>3, <2>4, <2>5 DEF JobStep, JobMade, JobEnds
    <3> QED BY <1>1, <1>5, <2>2, <3>1
  <2>6. ASSUME Own("greenplum-config")' PROVE config'.data.count <= cr'.spec.count
    <3>1. config'.data.count \in Nat /\ config'.data.count <= cr.spec.count
      BY <1>1, <1>2, <1>4, <2>1, <2>3, <2>4, <2>6 DEF ResourceStep, ResourceKept,
         ResourceCollected, ResourceMade, MadeFrom, Own
    <3> QED BY <1>1, <1>5, <2>2, <3>1
  <2>7. ASSUME uids' = 1 PROVE db'.segs <= cr'.spec.count
    <3>1. config.owner # 0 => Own("greenplum-config")
      BY <1>1, <1>4, <2>1, <2>7 DEF Own
    <3>2. job.state = "running" => job.owner = cr.uid
      BY <1>1, <2>1, <2>7 DEF ExpansionInv, JobKnown
    <3>3. db'.segs \in Nat /\ db'.segs <= cr.spec.count
      BY <1>1, <2>1, <2>3, <2>7, <3>1, <3>2 DEF DatabaseStep, DatabaseInitialised,
         DatabaseExpanded
    <3> QED BY <1>1, <1>5, <2>2, <3>3
  <2>8. CountsFollowSpec'
    BY <2>5, <2>6, <2>7 DEF CountsFollowSpec
  <2> QED BY <1>7, <1>8, <2>8 DEF ExpansionInv
<1>11. CASE ~Alive'
  BY <1>7, <1>8, <1>11 DEF ExpansionInv, CountsFollowSpec
<1> QED BY <1>9, <1>10, <1>11

\* An expansion never asks for more segments than the specification, however old the
\* copy it was computed from: the count only grows, and a job that is left over from
\* an earlier cluster is not taken for one of this cluster.
THEOREM NeverTooManySegments == PatientUser => (Spec => []ExpansionWithinSpec)
<1> SUFFICES ASSUME PatientUser PROVE Spec => []ExpansionWithinSpec
  OBVIOUS
<1>1. Init => Inv /\ ExpansionInv
  <2>1. SUFFICES ASSUME Init PROVE Inv /\ ExpansionInv
    OBVIOUS
  <2>2. cr = NoCR /\ job = NoJob /\ w = Idle /\ uids = 0
    BY <2>1 DEF Init, cr, job, Stored
  <2>3. db.segs = 0
    BY <2>1 DEF Init
  <2>4. NoCR.uid = 0 /\ NoJob.owner = 0 /\ NoJob.state = "unset" /\ Idle.pc = "idle"
    BY DEF NoCR, NoJob, Idle
  <2> QED BY <2>1, <2>2, <2>3, <2>4, InvInit
          DEF ExpansionInv, JobKnown, CountsFollowSpec, NothingYet, Alive
<1>2. Inv /\ ExpansionInv /\ [Next]_vars => (Inv /\ ExpansionInv)'
  BY InvStep, ExpansionStep, JobSteps, DatabaseSteps DEF Inv
<1>3. Inv /\ ExpansionInv => ExpansionWithinSpec
  BY DEF ExpansionInv, CountsFollowSpec, ExpansionWithinSpec, Alive
<1> QED BY <1>1, <1>2, <1>3, PTL DEF Spec
=============================================================================
