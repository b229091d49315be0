----------------------------- MODULE PXFService -----------------------------
(***************************************************************************)
(* The GreenplumPXFService custom resource: the control loop               *)
(* GreenplumPXFServiceReconciler.Reconcile, the webhook's rule for         *)
(* updates, and the Deployment whose containers run startPXF.              *)
(***************************************************************************)
EXTENDS Informer

CONSTANTS
    Images,     \* the instance images an operator may be started with
    Specs,      \* the specifications a user may ask for
    MaxWrites,  \* bound: creations and updates by the user
    MaxLag,     \* bound: watch events in flight for an object
    MaxFaults   \* bound: failed or lost calls, restarts, containers that fail

VARIABLES
    log,      \* per object, its versions from the cached to the stored one
    opImage,  \* r.InstanceImage of the running operator
    queued,   \* the request is in the controller's work queue
    w,        \* the controller's worker
    pods,     \* the pods of the Deployment
    uids, updates, faults

vars == <<log, opImage, queued, w, pods, uids, updates, faults>>

Kinds == {"pxf", "service", "deployment"}

\* pxfConf: whether there is an S3 source, and what its folder holds.
ConfType == [s3 : BOOLEAN, objects : SUBSET {"file", "empty file", "directory"}]

NoConf == [s3 |-> FALSE, objects |-> {}]

SpecType == [replicas : Nat \ {0}, conf : ConfType]

NoSpec == [replicas |-> 0, conf |-> NoConf]

NoPxf == [uid |-> 0, spec |-> NoSpec, phase |-> ""]

NoService == [owner |-> 0]

NoStatus == [ready |-> 0, updated |-> 0, unavailable |-> 0]

NoDeployment == [owner |-> 0, spec |-> NoSpec, image |-> "", status |-> NoStatus]

Absent == [k \in Kinds |-> CASE k = "pxf" -> NoPxf [] k = "service" -> NoService
                             [] k = "deployment" -> NoDeployment]

\* The running pods: n of them have the template (conf, image), ready of those
\* are Ready, and old are Ready with an earlier template.
NoPods == [conf |-> NoConf, image |-> "", n |-> 0, ready |-> 0, old |-> 0]

Idle == [pc |-> "idle", gp |-> NoPxf, phase |-> ""]

ASSUME ConstantsAssumption ==
    /\ Images # {} /\ "" \notin Images
    /\ Specs \subseteq SpecType
    /\ MaxWrites \in Nat /\ MaxLag \in Nat /\ MaxFaults \in Nat

pxf == Stored(log["pxf"])
service == Stored(log["service"])
deployment == Stored(log["deployment"])
-----------------------------------------------------------------------------
Write(k, v) ==
    /\ Len(log[k]) <= MaxLag
    /\ log' = [log EXCEPT ![k] = Record(@, v)]

Outcomes == {"ok", "failed", "lost"}

Call(c) ==
    \/ c = "ok" /\ UNCHANGED faults
    \/ c \in {"failed", "lost"} /\ faults < MaxFaults /\ faults' = faults + 1

Goto(worker) == w' = worker /\ UNCHANGED queued

\* Reconcile returns ctrl.Result{}, nil, or an error.
Finish == Goto(Idle)
Retry == w' = Idle /\ queued' = TRUE

others == <<opImage, pods, uids, updates>>

\* Faulty variant of ImageSupported: the check is missing.
AnyImage == TRUE

\* The check of the image version, on the cached Deployment.
ImageSupported == Cached(log["deployment"]).image \in {"", opImage}

CheckImage ==
    /\ w.pc = "idle" /\ queued
    /\ queued' = FALSE
    /\ w' = [w EXCEPT !.pc = IF ImageSupported THEN "getPxf" ELSE "idle"]
    /\ UNCHANGED <<log, others, faults>>

GetPxf ==
    /\ w.pc = "getPxf"
    /\ LET gp == Cached(log["pxf"]) IN
       IF gp.uid = 0 THEN Finish
       ELSE Goto([pc |-> "service", gp |-> gp, phase |-> gp.phase])
    /\ UNCHANGED <<log, others, faults>>

\* ctrl.CreateOrUpdate: Get from the cache, then Create, nothing, or an Update
\* that fails if the cached version is not the stored one.
Accepted(k, new) ==
    \/ Cached(log[k]).owner = 0 /\ Stored(log[k]).owner = 0
    \/ Cached(log[k]).owner # 0 /\ (Cached(log[k]) = new \/ InSync(log[k]))

\* The write of an accepted CreateOrUpdate, unless its call fails.
Apply(k, new, c) ==
    IF Accepted(k, new) /\ c # "failed" /\ Cached(log[k]) # new
    THEN Write(k, new) ELSE UNCHANGED log

\* controllerutil.SetControllerReference replaces a reference to a namesake.
ModifyService(svc) == [svc EXCEPT !.owner = w.gp.uid]

CreateOrUpdateService(c) ==
    /\ w.pc = "service"
    /\ Call(c)
    /\ LET new == ModifyService(Cached(log["service"])) IN
       /\ Apply("service", new, c)
       /\ IF Accepted("service", new) /\ c = "ok"
          THEN Goto([w EXCEPT !.pc = "deployment"]) ELSE Retry
    /\ UNCHANGED others

ModifyDeployment(dep) ==
    [dep EXCEPT !.owner = w.gp.uid, !.spec = w.gp.spec, !.image = opImage]

\* The phase, from the status the Deployment had when it was read or written.
Phase(replicas, status) ==
    CASE status.ready = 0 -> "Pending"
      [] status.ready # 0 /\ (status.unavailable # 0 \/ status.updated < replicas)
            -> "Degraded"
      [] OTHER -> "Running"

CreateOrUpdateDeployment(c) ==
    /\ w.pc = "deployment"
    /\ Call(c)
    /\ LET new == ModifyDeployment(Cached(log["deployment"]))
           phase == Phase(w.gp.spec.replicas, new.status) IN
       /\ Apply("deployment", new, c)
       /\ IF ~Accepted("deployment", new) \/ c # "ok" THEN Retry
          ELSE IF phase = w.gp.phase THEN Finish
          ELSE Goto([w EXCEPT !.pc = "patch", !.phase = phase])
    /\ UNCHANGED others

\* The patch of the phase addresses the GreenplumPXFService by name.
PatchStatus(c) ==
    /\ w.pc = "patch"
    /\ Call(c)
    /\ IF pxf.uid # 0 /\ c # "failed"
       THEN Write("pxf", [pxf EXCEPT !.phase = w.phase]) ELSE UNCHANGED log
    /\ IF pxf.uid # 0 /\ c = "ok" THEN Finish ELSE Retry
    /\ UNCHANGED others

Worker ==
    \/ CheckImage \/ GetPxf
    \/ \E c \in Outcomes : \/ CreateOrUpdateService(c)
                           \/ CreateOrUpdateDeployment(c) \/ PatchStatus(c)

-----------------------------------------------------------------------------
(***************************************************************************)
(* The surroundings.                                                       *)
(***************************************************************************)

\* Faulty variant of Watched: the Deployments are not watched.
OnlyPxf == {"pxf"}

\* The controller is For GreenplumPXFServices and Owns Deployments; an event of a
\* Deployment queues its owner's name.
Watched == {"pxf", "deployment"}

DeliverEvent(k) ==
    /\ ~InSync(log[k])
    /\ log' = [log EXCEPT ![k] = Deliver(@)]
    /\ queued' = (queued \/ k \in Watched)
    /\ UNCHANGED <<w, others, faults>>

\* The operator crashes, or is replaced by one with another image; the new
\* process lists the objects and queues what there is.
Restart(image) ==
    /\ Call("failed")
    /\ opImage' = image
    /\ w' = Idle
    /\ log' = [k \in Kinds |-> Relist(log[k])]
    /\ queued' = (pxf.uid # 0 \/ deployment.owner # 0)
    /\ UNCHANGED <<pods, uids, updates>>

UserCreate(spec) ==
    /\ pxf.uid = 0 /\ uids + updates < MaxWrites
    /\ Write("pxf", [NoPxf EXCEPT !.uid = uids + 1, !.spec = spec])
    /\ uids' = uids + 1
    /\ UNCHANGED <<opImage, queued, w, pods, updates, faults>>

\* validateGreenplumPXFService, for an update that changes the specification.
ValidateGreenplumPXFService == deployment.owner # 0 /\ deployment.image = opImage

UserUpdate(spec) ==
    /\ pxf.uid # 0 /\ spec # pxf.spec /\ uids + updates < MaxWrites
    /\ ValidateGreenplumPXFService
    /\ Write("pxf", [pxf EXCEPT !.spec = spec])
    /\ updates' = updates + 1
    /\ UNCHANGED <<opImage, queued, w, pods, uids, faults>>

UserDelete ==
    /\ pxf.uid # 0
    /\ Write("pxf", NoPxf)
    /\ UNCHANGED <<queued, w, others, faults>>

CollectService ==
    /\ service.owner \notin {0, pxf.uid}
    /\ Write("service", NoService)
    /\ UNCHANGED <<queued, w, others, faults>>

CollectDeployment ==
    /\ deployment.owner \notin {0, pxf.uid}
    /\ Write("deployment", NoDeployment)
    /\ pods' = NoPods
    /\ UNCHANGED <<opImage, queued, w, uids, updates, faults>>
-----------------------------------------------------------------------------
(***************************************************************************)
(* The pods.  The Deployment controller takes down an old pod when enough  *)
(* pods are Ready (the default rolling update of a few replicas).          *)
(***************************************************************************)
Roll ==
    /\ deployment.owner # 0
    /\ <<pods.conf, pods.image>> # <<deployment.spec.conf, deployment.image>>
    /\ pods' = [conf |-> deployment.spec.conf, image |-> deployment.image,
                n |-> 0, ready |-> 0, old |-> pods.old + pods.ready]

Current == /\ deployment.owner # 0
           /\ <<pods.conf, pods.image>> = <<deployment.spec.conf, deployment.image>>

Scale ==
    /\ Current
    /\ LET want == deployment.spec.replicas IN
       \/ pods.n < want /\ pods' = [pods EXCEPT !.n = @ + 1]
       \/ pods.n > want /\ pods' = [pods EXCEPT !.n = @ - 1,
                                       !.ready = IF @ = pods.n THEN @ - 1 ELSE @]
       \/ /\ pods.old > 0 /\ pods.ready + pods.old > want
          /\ pods' = [pods EXCEPT !.old = @ - 1]

\* Files without content and directories are skipped; a folder without any other
\* file is an error.
DownloadBucketPath(objects) == "file" \in objects

\* PXFStarter.Run gets as far as pxf start, so that the readiness probe, pxf
\* status, succeeds.  An error ends the container, and Kubernetes restarts it.
PodReady ==
    /\ pods.ready < pods.n
    /\ pods.conf.s3 => DownloadBucketPath(pods.conf.objects)
    /\ pods' = [pods EXCEPT !.ready = @ + 1]

\* PXF ends, and with it the tail that PXFStarter.Run waits for.
PodFails ==
    /\ pods.ready > 0
    /\ Call("failed")
    /\ pods' = [pods EXCEPT !.ready = @ - 1]
    /\ UNCHANGED <<log, opImage, queued, w, uids, updates>>

TrueStatus ==
    LET live == pods.n + pods.old ready == pods.ready + pods.old IN
    [ready |-> ready, updated |-> pods.n, unavailable |-> live - ready]

PublishStatus ==
    /\ deployment.owner # 0 /\ deployment.status # TrueStatus
    /\ Write("deployment", [deployment EXCEPT !.status = TrueStatus])
    /\ UNCHANGED <<queued, w, others, faults>>

MovePods ==
    /\ Roll \/ Scale \/ PodReady
    /\ UNCHANGED <<log, opImage, queued, w, uids, updates, faults>>
-----------------------------------------------------------------------------
Init ==
    /\ log = [k \in Kinds |-> <<Absent[k]>>]
    /\ opImage \in Images
    /\ queued = FALSE
    /\ w = Idle
    /\ pods = NoPods
    /\ uids = 0 /\ updates = 0 /\ faults = 0

Next ==
    \/ Worker
    \/ \E k \in Kinds : DeliverEvent(k)
    \/ \E image \in Images : Restart(image)
    \/ \E spec \in Specs : UserCreate(spec) \/ UserUpdate(spec)
    \/ UserDelete \/ CollectService \/ CollectDeployment
    \/ MovePods \/ PodFails \/ PublishStatus

Spec == Init /\ [][Next]_vars

\* The operator's process, its caches, the garbage collector and the Deployment
\* controller keep running.  The periodic resync of the caches (10 hours) is not
\* relied upon.
Fairness ==
    /\ WF_vars(Worker) /\ \A k \in Kinds : WF_vars(DeliverEvent(k))
    /\ WF_vars(CollectService) /\ WF_vars(CollectDeployment)
    /\ WF_vars(MovePods) /\ WF_vars(PublishStatus)

FairSpec == Spec /\ Fairness
-----------------------------------------------------------------------------
(***************************************************************************)
(* Properties.                                                             *)
(***************************************************************************)

\* When the user and the faults have come to an end, so has the controller:
\* nothing is left of a deleted GreenplumPXFService, and a living one has its
\* Service and its Deployment.  Unless that Deployment belongs to an operator with
\* another image, it has the specification last admitted, and the phase tells the
\* truth about its pods, although each phase was computed from the status some
\* earlier version of the Deployment had and patched without a precondition.
PxfSettles ==
    <>[](/\ service.owner = pxf.uid /\ deployment.owner = pxf.uid
         /\ pxf.uid # 0 /\ deployment.image = opImage =>
               /\ deployment.spec = pxf.spec
               /\ pxf.phase = Phase(pxf.spec.replicas, TrueStatus))

\* A Deployment keeps the image it was created with (the image check of
\* Reconcile): an operator with another image leaves it alone, wherever its
\* predecessor stopped and whatever is in flight.
ImageKept ==
    [][ deployment.owner # 0 /\ deployment'.owner # 0
            => deployment'.image = deployment.image ]_vars
=============================================================================
