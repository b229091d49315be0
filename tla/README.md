# A TLA+ model of Greenplum for Kubernetes

The repository holds a Kubernetes operator for the Greenplum database
(`greenplum-operator`) and the programs that run in the database's pods
(`greenplum-instance`), with shared packages (`pkg`). This directory models the
parts of it that keep state and react to each other, checks them with TLC on small
instances, and proves some of the properties with TLAPS for every instance.

    tlc -workers 2 -config lifecycle.cfg MCReconciler     (one run)
    tlapm GreenplumClusterReconciler_proofs.tla           (one proof module)

`PROJECT.json` lists the components, the runs, the source lines behind every
definition, the hazards the properties are aimed at, and the theorems.

## 1. The system

| Component | State | Operations | Meets the others through |
|---|---|---|---|
| GreenplumCluster controller (`greenplum-operator/controllers/greenplumcluster`) | none of its own; a watch cache, a work queue, one worker | `Reconcile`: finalizer, image check, node labels, ten owned resources, status, expansion job | API server, watch events, `exec` into the master pod |
| Admission webhook (`greenplum-operator/pkg/admission`) | none | validate creation and update of GreenplumClusters and GreenplumPXFServices | API server asks it; it lists clusters and claims, and execs into the master pod |
| Webhook startup (`new_webhook.go`, `webhook.go`, `certificate.go`, `server.go`) | key and certificate of the process; one certificate request, one webhook configuration, a Service per pod | `NewWebhook`, `Webhook.Run`, once per process, beside the manager under `multidaemon` | API server; overlapping operators share the request and the configuration |
| GreenplumPXFService controller (`greenplumpxfservice_controller.go`, `pkg/pxf`) | a watch cache, a work queue, one worker | `Reconcile`: image check, a Service, a Deployment, the phase | API server, events of its Deployments |
| PXF container (`cmd/startPXF`) | the downloaded configuration | download from S3, `pxf start`, wait | started by the Deployment; its readiness is the Deployment's status |
| Node labels and affinity (`reconcile_antiaffinity.go`, `sset.go`) | labels on the nodes, affinity in the templates | label alternate nodes once, before the first StatefulSet | cached node list, scheduler |
| Container start (`cmd/startGreenplumContainer`) | files of the container | root, gpadmin and label starters; daemons | other pods by DNS and ssh |
| Cluster initialisation (`cluster_init_daemon.go`, `cluster/`) | the data directories on the volumes | initialise or start the database, once per container start | all pods |
| Known-hosts controller (`greenplum-instance/controllers`) | `known_hosts` in each container | append the host keys of new ready pods | Endpoints of the service `agent`, ssh |
| gpexpand job (`cmd/runGpexpand`, `cmd/waitForKnownHosts`) | gpexpand configuration, catalog | wait for all pods, run gpexpand | created by the controller, runs in the active master |
| Utilities, generated code, CI | | pure I/O or constants | |

What is hard here:

* the controller reads a cache that is behind the API server, and writes to the
  API server; a patch decodes the server's answer into the local copy;
* every call may fail, or succeed while its answer is lost; the operator may crash
  between any two calls, and be replaced by one with another instance image;
* a cluster may be deleted and created again under the same name while the worker
  and the garbage collector still deal with the old one;
* the webhook decides before the object is stored, from claims that a deployment
  creates one by one and that outlive it;
* initialisation is a chain of commands that runs once per container start, on
  volumes that remember an interrupted attempt;
* two goroutines write one `known_hosts`, from events that arrive late;
* operators overlap in a rollout, and share a certificate request and a webhook
  configuration whose names are constants;
* nodes are labelled one by one, from a list without an order, and never again once
  the cache shows a StatefulSet.

## 2. Modules

`Informer` is one API object with its cache: the sequence of versions from the one
in the operator's cache to the one stored. It is external code (client-go and
controller-runtime), modelled from how the controllers use it. Writes that change
nothing make no version and send no event; a new process lists everything.

`GreenplumClusterReconciler` (extends `Informer`) is the controller: one action per
call of `Reconcile` to the API server or into a pod. `w` is the worker with its
program counter and its local copy `w.gp`; `Reconcile` reads the cache,
`AddFinalizer`, `SetDeleting`, `EnsureGreenplumClusterStopped`, `RemoveFinalizer`
are `handleFinalizer`; `ClusterExists`, `HandleAntiAffinity`, `CreateOrUpdate(k)`
the resources in the order of the code; `ReconcileStatus`, `SetRunning` the status;
`GetCurrentSegmentCount`, `CheckJob`, `CreateJob` are `handleExpand`. Each call has
an outcome: `ok`, `failed`, or `lost` (done, but the worker sees an error). Around
it: delivery of watch events, resync, the garbage collector, the StatefulSet
controller's writes, the database, the expansion job, the user, the webhook's rule
for expansions, and the restart of the operator.
Abstractions: the services, the service account, the role and its binding have
constant content, so an instance may leave them out of `Tracked`; a specification
is its segment count and its three switches; the node labels are one Boolean. `"unset"`
stands for the empty string of a phase or an image.

`ClusterLifecycle` is the abstract specification of the same: a cluster as its user
sees it, with its phase, its deletion, its image, and whether none, some or all of
its resources exist. `GreenplumClusterReconciler!Lifecycle` is the refinement mapping:
`phase`, `deleting` and `image` are the stored object's, `resources` counts the wanted
resources that the current incarnation owns. A phase needs all resources, which stay;
the image is bound once; `Deleting` is left only for good; with resources, the end
comes only after the finalizer. It allows `Running` to fall back to `Pending`, since an
operator whose cache is two versions behind does that (`reconcile_status.go:16`).

`Placement` (extends `Informer`) follows anti-affinity from `labelAlternateNodes` to the
scheduler: `CheckClusterExists` is the Get, `handleFinalizer` (whose patch makes the copy
that of a namesake created meanwhile), `clusterExists` and the checks of
`handleAntiAffinity`, a different `antiAffinity` for masters and segments included;
`LabelMasterNodes` and `LabelSegmentNode` are its patches, `CreateOrUpdateSet` the
StatefulSets, whose template gets the affinity and never loses it. The worker sees the
cluster, the nodes and the StatefulSets through caches that are behind; the next node of
the list is any that is left. One primary and its mirror stand for all pairs. `mishaps`
is a history variable: the labelling was skipped because of a predecessor's
StatefulSets, an affinity was inherited from one of these, a patch was empty for a stale
node, labels were changed under StatefulSets.

`Admission` is the webhook's rules for GreenplumClusters over the claims that
earlier deployments left. A request is admitted and stored in two steps. The
operator and the pods appear as far as they change what the rules look at: claims
are created one by one, labelled by the pods, and filled by the first
initialisation or an expansion. The switches reach the StatefulSets in lower case or as
the user spelled them (`LocalSpecs`), depending on the reconciliation. The operator's
patches (`AddFinalizer`, `ReconcileStatus`, `SetRunning`) pass the webhook like a user's
updates. `validateExpand` looks at the phase, at the gpexpand schema and at the job, as
`CreateJob`, `RunJob`, `FailJob`, `RemoveJob` and the user's `CleanUpSchema` leave them;
that two expansions may be stored before the first job exists is in the model. The
ConfigMap and the three StatefulSets are written in one step, since each creates its
claims at any time after it.

`ClusterInit` is what the pods do: `RunStarter` is the chain of starters of
`startGreenplumContainer`; `ResolveHosts` to `CreatePXFExtension` are the steps of
`masterPostgresInitializer.InitializePostgres`, `Cluster.Initialize`, `GPStart` and
`RunPostInitialization`; `SegmentInitializePostgres` is the other pods' part. A
crash takes processes and leaves volumes; `StepFails` is an error of any command or
read, and `AfterError` where it leads: most end the goroutine, which nothing retries, but
an error of psql counts as a database that is down and ends it without an error
(`skipped`, `cluster.go:145-151`), and gpinitsystem's exit status 1 counts as success
(`gpinitsystem_config.go:117-122`). `MasterHba` and `StandbyHba` are the two ssh calls for
`pg_hba.conf`. `halfMade` is a history variable: `Cluster.Initialize`, which is not run a
second time, began and did not get to its end. One pod stands for all primaries and one for all
mirrors. The user's `gpactivatestandby` and `gpstart` are external.

`SegmentConfiguration` (extended by `ClusterInit`) is the catalog of the database: the
rows that `gpInitSystem.GenerateConfig` and `GenerateGpexpandConfigParams` ask
gpinitsystem and gpexpand for. Here the segments are counted one by one, so that
`ClusterInit!RunGpexpand` can expand again and again, also after a failover.

`KnownHosts` is the controller of each pod's `known_hosts`, the second writer of
master-0 (`SetupPasswordlessSSH`), and the waits of the gpexpand job. The job's
`WaitForMaster` and `WaitForKnownHosts` may give up whenever an entry is missing,
since they wait 30 seconds for what may take minutes.

`WebhookStartup` is `NewWebhook` and `Webhook.Run`: `DeleteCertificateSigningRequest` to
`WaitForSignedCertificate` are `GenerateAndSignTLSCertificate`, `GetConfiguration`,
`WriteConfiguration` and `CreateSVCForValidatingWebhookConfiguration` are
`ReconcileValidatingWebhookConfiguration`, `StartServer` and `Shutdown` the server;
`Exit` is what `InitializeDaemons` makes of an error. Pods are numbered in the order
the Deployment creates them, and may overlap; a container restarts in its pod and finds
the Service its predecessor made. Keys are numbers, used again when nobody holds them.
A Service is identified with the pod it is named after: its selector
`app=greenplum-operator` (`webhook.go:191`) matches every operator pod, so that in an
overlap a request may reach the other pod; which one is not modelled, and
`ServedIsTrusted` speaks of the pod itself.

`PXFService` (extends `Informer`) is the controller of GreenplumPXFServices, its rule in
the webhook, and the pods: `PodReady` stands for all of `PXFStarter.Run`, which needs a
file with content in its S3 folder.

`MCReconciler`, `MCAdmission`, `MCClusterInit`, `MCKnownHosts`, `MCWebhookStartup`,
`MCPXFService` and `MCPlacement` hold the constants of
the runs; `*_proofs` the theorems. Definitions introduced by "Faulty variant of"
are mutations, kept to show that each property can fail.

## 3. Runs

Passing runs:

| Run | Properties | What it shows |
|---|---|---|
| `lifecycle` | `TypeOK`, `FinalizerBeforeResources`, `RunningIsProvisioned`, `OneImage`, `SshKeyKept`, `ImplementsLifecycle` | two incarnations, two operator images, two faults anywhere; the refinement of `ClusterLifecycle` |
| `progress` | `EventuallyRunning`, `DeletionCompletes`, `NothingLeftBehind` | the same under fairness, one incarnation, one fault |
| `expansion` | `ExpansionWithinSpec`, `ExpansionCompletes` | two expansions in a row, each within the specification, carried out or left as a failed job |
| `admission` | `DataFitsSpec` | three deployments of two names, any early deletion, nine specifications (`Yes` for standby and for mirrors among them), updates, and expansions with their jobs, also two stored before the first job exists |
| `cluster_init` | `OneActingMaster`, `Configured`, `CatalogWellFormed`, `ComesUp` | two deployments, two crashes, one error (psql's and gpinitsystem's exit status 1, which the code takes for something else, included), three configurations, expansions to three segments before and after a failover |
| `known_hosts` | `KeysAreTrue`, `GpexpandCanSsh`, `AllTrustAll` | two pods, two crashes, two undelivered events each |
| `webhook` | `ServedIsTrusted`, `WebhookComesUp` | two operator pods that overlap, two faults |
| `pxf` | `PxfSettles`, `ImageKept` | creation, update or re-creation, two images, one fault, pods that cannot start |
| `placement` | `MirrorApart`, `PodsPlaced` | two nodes, one of which joins late, two deployments that ask for anti-affinity of both parts, of one or of none, one fault or eviction |

Runs that refute a statement of the repository (`findings` in `PROJECT.json`):

| Run | Statement | What the code does |
|---|---|---|
| `capital_switches` | "The Phase should eventually transition to `Running`" | with `antiAffinity: Yes` the finalizer patch brings the user's spelling back into the local copy; the nodes are not labelled, later the affinity is set, and the pods stay pending |
| `init_crash` | a failed master-0 restarts the database | stopped during gpinitsystem, it leaves a directory that can neither be started nor initialised |
| `relabelled_nodes` | "the Operator guarantees scheduling a mirror segment to a different worker node" | a retry that does not see its own StatefulSets yet labels the nodes in another order while the primary runs; the mirror, scheduled for the first time after that, joins it |

Bounds. `MaxUID` = 2 gives an old and a new incarnation, and all code paths compare
only these two. `MaxLag` = 1 lets every cache be one version behind while the
worker runs, so each decision can be made on a stale copy; `MaxFaults` = 2 is
enough for a fault and a fault during its repair. `Tracked` has the configuration,
the secret and one StatefulSet: one resource of each behaviour (`segment-b` and
`master` behave as `segment-a`). `Counts` = {2, 3} is an expansion started on top of
another. `MaxCreates` = 3 gives a deployment, one that misreads its claims, and one
that is misread. In `known_hosts` master-0 stands for the pods
that exist and `segment-a-1` for the ones an expansion adds; each also scans
itself, so an event with one reachable and one unreachable host occurs. A run of
the safety properties with three pods and one crash (4 million states) passes as well.
`Keys` = 1..7 in `webhook` is as many as two processes, the request and the
configuration can hold at a time, with the copies read; a run out of keys would block.
In `placement` `MaxLag` = 1: one undelivered version of the cluster, of the nodes and of
the StatefulSets, each, is enough for all four mishaps. `relabelled_nodes` has
`MaxLag` = 2, so that `master` and `segment-a` can both be created and not yet seen by the
retry; its one fault is the lost answer that ends the first try. In `admission` the two
names are symmetric.
In `pxf` one specification has pods that never start and one a different number of
replicas, so that an update may be rolled out or get stuck.
`CHECK_DEADLOCK FALSE` is set everywhere: a cluster that runs and a user who does
nothing more are a legitimate end.

`PatientUser`. In `lifecycle`, whose refinement needs it too, a user creates a cluster
anew only when the operator's cache has seen the deletion of the previous one and the
worker has ended its reconciliation of it; in `admission`, when the old pods are gone.
What a worker in the middle of a reconciliation does by name to the next incarnation (the
status patches of `setStatus`, section 5) is therefore not in the runs with `PatientUser`;
`pxf` and `placement`, which have no such constant, let it happen. Without it
`FinalizerBeforeResources` fails (a new incarnation is given resources by a worker
that still holds the old copy), and `DataFitsSpec` fails (the old pods initialise a
database after the new specification was admitted): the code does not guard against
either.

Fairness. In the controller's module: the worker and the caches run (the process
is restarted by its Deployment, and faults are bounded), the garbage collector and
the job controller act, pods that can be scheduled start. No fairness on the user,
on faults or on restarts. `Resync` is fair because the manager resyncs its caches
periodically and StatefulSets keep sending events while pods change. In
`ClusterInit`: containers are restarted and their processes run; users act at
will. In `KnownHosts`: containers restart, Endpoints follow readiness, goroutines
run, and the informer resyncs every two hours (`knownHosts_controller.go:83`). In
`WebhookStartup`: processes run, containers are restarted, the signer signs, and a
missing pod is replaced; the end of a rollout (`Terminate` of a pod that has a
successor) is strongly fair, because the Deployment controller sees the successor's
container running one time or another although that container may keep restarting.
In `PXFService` and `Placement`: the worker, the caches, the garbage collector, the
Deployment or StatefulSet controller and the scheduler run; the resync, every ten
hours, is not relied upon.

What `WebhookComesUp` and `PodsPlaced` except. `Locked` (a process starts in a pod that
has its Service) and `Overwritten` (an older pod's process wrote the configuration after
its successor) are the two states a starting webhook does not recover from, and
`mishaps` the four events in which labels are left that do not serve; section 5 describes
them. `"skipped"` is recorded only for StatefulSets that are not the cluster's own: that
a cluster's own StatefulSets keep it from finishing its labelling is not excused. The
properties say that there is no other way. `PodsPlaced` also leaves out a cluster that
`handleAntiAffinity` refuses, for a mismatch or fewer than two nodes. `Configured` and
`ComesUp` except a cluster whose `Initialize` was cut short (`halfMade`), by a crash, an
error or a pod that is away, and `Configured` asks for the reload and the extension only
where psql did not fail by itself (`"skipped"` of `init`): these are the code's own gaps,
described in section 5.

## 4. Proofs

Every theorem holds for every value of the constants that satisfies the assumptions
beside their declarations: any sets of resources, specifications, images, pods or
nodes, and any bounds on lag, faults, crashes and incarnations. None has a further
hypothesis, but for `PatientUser` (section 3) where it is written.

### The control loop (`GreenplumClusterReconciler_proofs`, `ClusterLifecycle_proofs`)

* `TypeCorrect` : `Spec => []TypeOK`.
* `FinalizerFirst` : `PatientUser => (Spec => []FinalizerBeforeResources)`. The
  property speaks of stored objects, while the worker decides from cached ones and
  from its local copy, so it is not inductive. The invariant `FinalizerInv` adds:
  `SoundVersions` (every version of the cluster, cached, undelivered or stored, that
  carries the current uid, and what the newer ones say), `SoundWorker` (a worker
  past `handleFinalizer` that holds a living cluster's uid does so after the
  finalizer was stored) and `SoundOwners` (the owner of every version of every
  resource is a uid that has been given out). Lemmas about `Informer` (in
  `Informer_proofs`) say what a write, a delivery and a relisting leave in a log.
* `RunningHasAll`, `OneImageForLife` and `LifecycleImplemented` :
  `PatientUser => (Spec => []RunningIsProvisioned)`, the same for `[]OneImage`, and
  `PatientUser => (Spec => ImplementsLifecycle)`, from one invariant,
  `FinalizerInv /\ LogInv /\ WorkerInv /\ ResourceInv`:
  * `LogInv` is about the versions of the living cluster on their way to the cache: of
    the specification only the count changes, and grows; a deletion timestamp, a
    finalizer, a phase and an image stay once written; an operator with another image
    than the cluster's has that image in its cache (`ForeignInCache`: a restart lists
    everything), which is why it never writes a StatefulSet.
  * `WorkerInv` is the same of the worker's copy, whose switches are spelled as the
    user wrote them or in lower case, depending on whether a patch has been decoded into
    it since the defaults were set.
  * `ResourceInv` is about what the cluster owns. `OwnStays` says that a resource which
    any version, cached or on its way, shows as the cluster's own still is, so that a
    worker that skips it on the word of its cache is right; `WorkDone` (what the worker
    has visited is there, and before the status all is) and `Provisioned` (a phase means
    that all is) give the property. `MirrorsLate` is needed for `mirrors: Yes`, which the
    copy spells as the user did after the finalizer was patched: that reconciliation
    does not want `segment-b`, and it exists only once every version has the finalizer.
* Each action of `Next` is summarised once, by `StepFacts`: what it may do to the
  cluster (`ClusterStep`: born, gone, left alone, or a write of one of five kinds), to
  the worker (`WorkerStep`) and to each resource (`ResourceStep`). The invariants and the
  refinement are proved from these summaries, not action by action. For the refinement,
  a birth is `Create`, an end `Finalize` or `Delete`, a write to the cluster one of the
  reports, `Delete` or a stutter; a step that leaves the cluster alone is `Provide` or a
  stutter, since what is owned stays owned.
* `KeyKept` : `PatientUser => (Spec => SshKeyKept)`. A write goes through only when the
  cache is not behind, and then puts back the secret it read, which holds nothing but its
  key (`SecretShape`); the garbage collector takes nothing that the cluster owns.
* `NeverTooManySegments` : `PatientUser => (Spec => []ExpansionWithinSpec)`. The count
  reaches the database along two ways, the configuration and the job, each through a
  copy that may be old. `ExpansionInv` bounds both by the stored specification
  (`CountsFollowSpec`), from `LogInv` and `WorkerInv`, and says that the job belongs to
  a uid that was given out (`JobKnown`), so that a new cluster is not given an old job's
  count.

### The pods (`ClusterInit_proofs`, `KnownHosts_proofs`)

* `OneMaster` : `Spec => []OneActingMaster` of `ClusterInit`. Three commands start
  Postgres on master-0. `InitialisesOnce` (a standby with complete data implies
  complete data on master-0) excludes `gpinitsystem` after a failover, and
  `StandbyNotStarted` excludes `gpstart` and `gpstop -ar`.
* `ConfiguredAsAsked` : `Spec => []Configured`. `init` may be done because the whole
  chain ran, or because it ran in an earlier container on the same volumes, or partly,
  behind an error that the code does not take for one. The invariant therefore says what
  every step of the chain finds: `HasDirectory` (past the check, master-0 has a data
  directory, so that making begins once), `AtMostOnce` (entries are appended in the last
  steps of making only), `MadeOnce` (what a database has that was not left half made),
  `Loaded` and `Extended` (a master that runs and is past the reload has read the entries;
  past CREATE EXTENSION the extension is there). Two cases the property has to name were
  found in this way: with a standby, a master-0 lost before CREATE EXTENSION never runs
  it, and after an error of psql neither the reload nor CREATE EXTENSION is run
  (section 5).
* `TrueKeys` : `Spec => []KeysAreTrue` of `KnownHosts`. The writers check the file, scan
  for minutes and then append. That this is harmless rests on a host's key being made
  once, before its container runs (`HasKey`), so that what was scanned and is not yet
  appended stays true (`TrueEntries`).
* `CanSsh` : `Spec => []GpexpandCanSsh`. The job checks the pods one after the other, so
  `Waited` (a pod that the job has waited for and that was not restarted has an entry
  for every host) must survive everything that happens while it waits for the others.

* `CatalogInOrder` : `Spec => []CatalogWellFormed` of `ClusterInit`. gpexpand is given
  identifiers computed from two maxima and a count. `Catalog(R, mirrors, n)` says when
  these are right: no two rows share an identifier or a pod, the contents are 0 .. n - 1
  without a gap, and there is a greatest identifier. A failover keeps it, since it drops
  the row with the first one. `CatalogInv` adds that gpexpand finds a catalog at all.

### The webhook and the placement (`Admission_proofs`, `WebhookStartup_proofs`, `Placement_proofs`)

* `StoredFitsData` : `PatientUser => (Spec => []DataFitsSpec)` of `Admission`, for all
  spellings of the switches. The webhook sees claims, and answers before the object is
  stored. `OnClaims` relates the data to the claims (a second master's claim if the
  database has a standby, and only then, or if it was initialised with `Yes`), `SameSize`
  makes the one claim looked at stand for all, and `SetsFit`, `ClustersFit` and
  `RequestsFit` say that the StatefulSets, the cluster and an admitted request all agree
  with the claims (`Fits`), so that whatever a deployment adds, also after its cluster was
  deleted, does. That the segments of the database never exceed the specification
  (`Enough`) rests on a job's count coming from a StatefulSet or a cluster whose count only
  grows (`Follows`); the webhook itself does not look at it. For a database initialised
  with `standby: Yes` the property states no rule for the standby (section 5); for such
  a one it states the rest.
* `Trusted` : `Spec => []ServedIsTrusted` of `WebhookStartup`. The property speaks of
  a process that serves; what makes it so happened several calls earlier, in objects
  other operators delete and overwrite. `OwnCertificate` (a process that has loaded a
  certificate holds its key) rests on the check of the request's key when the
  certificate is read; `OwnBundle` (a configuration that names the pod of a process
  which has written it carries that process's certificate) on the Service being named
  after the pod, so that only a later process of the same pod could replace it, and that
  one is not there yet. That keys differ is not needed.
* `MirrorsApart` : `Spec => []MirrorApart` of `Placement`. The invariant:
  `WorkerHolds` (the worker writes for a cluster, so what it writes has an owner),
  `Backed` (a running pod has its StatefulSet, so a node that changes its label under
  it is the mishap the property excepts) and `OnItsLabel` (without that mishap every pod
  made from a template with affinity stands on a node with its label). It holds for every
  set of anti-affinities asked for, mismatches included.

The inductive invariants were model-checked, as invariants of the instances of
section 3, before they were proved; `ConfiguredAsAsked`'s on all
sixteen configurations.

### Only model-checked

Liveness under fairness (`EventuallyRunning`, `DeletionCompletes`, `NothingLeftBehind`,
`ExpansionCompletes`, `ComesUp`, `AllTrustAll`, `WebhookComesUp`, `PxfSettles`,
`PodsPlaced`) and everything about `ENABLED` are out of the prover's reach, and so is what
a recursive definition computes for every input (the models have none). Not proved
yet: `ImageKept` of `PXFService`.

## 5. Known divergences without a run of their own

Found while modelling, reproduced with TLC, and kept here as prose:

* A cluster re-created with anti-affinity while the StatefulSets of its
  predecessor are still there is never labelled for
  (`greenplumcluster_controller.go:89`), and stays pending (`"skipped"` in `Placement`).
  One re-created without it takes over a StatefulSet whose affinity nothing removes
  (`sset.go`), and whose labels an interrupted labelling may have left incomplete
  (`"inherited"`).
* A label patch is computed against the cached node (`reconcile_antiaffinity.go:90`).
  After an interrupted labelling the cache may still show the label of the try before:
  the patch is empty, both nodes keep the same label, and the mirrors or the primaries
  stay pending (`"stale"` in `Placement`).
* The webhook's Service is created with `Create` and owned by the pod
  (`webhook.go:120`). A container that restarts in its pod, after any failure of the
  manager or of a later step, finds it and exits, and does so until the pod is deleted
  (`Locked` in `WebhookStartup`); every write of a GreenplumCluster is refused meanwhile.
* An operator that is told to end while it starts goes on to write the webhook
  configuration (`webhook.go:51` uses `context.Background()`). If its successor wrote it
  before, the configuration keeps naming the Service of a pod that is gone
  (`Overwritten`).
* The segment count is read before the job (`reconcile_expansion.go:21`): a job that
  ends in between is deleted and created again; gpexpand refuses a count that is not
  larger, and the failed job blocks later expansions, where
  `doc/expanding.html.md.erb:74` says that the expansion is complete at 1/1 completions.
* `validateExpand` refuses an expansion for the schema or the job of the one before
  (`validate_update_greenplumclusters.go:119-157`: "you must redistribute data and clean up
  expansion schema prior to performing another expansion"), but neither exists until the
  operator has seen the update: a second expansion stored before that is admitted, and its
  job is started over the schema the first one leaves, fails, and blocks later
  expansions. The run `admission` goes through this.
* A deployment deleted when it has mirror claims and no primary claims lets the next one
  be admitted without mirrors and the one after it with mirrors, on data without
  (`validate_create_greenplumclusters.go:214`), against
  `doc/operator-reference.html.md.erb:152`. `DataFitsSpec` leaves mirrors out for this
  reason.
* With `standby: Yes` the reconciliation that adds the finalizer deploys one master, and
  the next one, which sees `yes`, the standby (`reconcile_finalizer.go:34`). A database
  initialised in between has no standby, where `doc/operator-reference.html.md.erb:74`
  says that the value "cannot be dynamically changed for an existing cluster".
  `DataFitsSpec` states no rule for the standby of a database initialised with that
  spelling.
* `!=` on two decoded quantities like `1.5Gi` compares pointers
  (`validate_update_greenplumclusters.go:70`, `SameStruct` in `Admission`): every update,
  the operator's own finalizer patch included, is refused as a change of storage.
* `setStatus(Deleting)` addresses the cluster by name: a cluster re-created at once
  may begin in the phase `Deleting`, where `doc/deploy-operator.html.md.erb:228`
  says `Pending`.
* `handleExpand` deletes by name a job that its cache shows as succeeded; with the
  cache three events behind that is the running job of the next expansion.
* Two creations admitted before either is stored give two clusters in a namespace
  (`doc/operator-reference.html.md.erb:57` allows one). The second never gets its
  StatefulSets, since `SetControllerReference` refuses them.
* An `antiAffinity` left empty is refused where "no" is admitted
  (`validate_create_greenplumclusters.go:145`; the documentation says empty means "no").
* A cluster deleted before its pods have labelled their claims cannot be deployed
  again until the claims are deleted (`validatePvcGreenplumVersion`).
* A crash or an error between gpinitsystem and createdb leaves a cluster that starts
  without the database `gpadmin`, so the operator never finds an active master; one
  before the entries of `hostBasedAuthentication` are appended loses them, on the standby
  alone if it comes between the two calls. gpinitsystem's exit status 1, meant for its
  warnings, is also that of a failure, and createdb follows. `Configured` and `ComesUp`
  therefore except an `Initialize` that was cut short (`halfMade`).
* `RunPostInitialization` takes any error of psql for a database that is not running and
  returns nil (`cluster.go:145-151`): a database that runs, on which psql failed once, is
  left without the reload of `pg_hba.conf` and without the pxf extension, and the daemon
  reports success.
* With a standby, a master-0 that is lost between createdb and CREATE EXTENSION does not
  create the pxf extension when it comes back: `checkAndRunGPStart` leaves the start to
  the user (`cluster_init_daemon.go:154`), and `RunPostInitialization` runs before, without
  a database. `doc/operator-reference.html.md.erb:158` says that the extension "is
  automatically created". `Configured` excepts it.

## 6. Not modelled

Two operators that reconcile at the same time: the manager has no leader election
(`cmd/greenplumOperator/main.go:47`), so they overlap in a rollout. `WebhookStartup`
lets their webhooks overlap; the control loops have one worker at a time, because a
second one with a cache of its own is beyond what TLC finishes. The sshKeyScan and
initializeCluster command lines, greenplumReady and the waits of the integration tests,
file and logging utilities, generated code, and the build and CI scripts are sequential
I/O or constants. Durations are not modelled: a
timeout may expire whenever what it waits for is not there. The contents of
resolv.conf, bashrc, cgroups, certificates and downloaded files, and the text of
messages, are left out.

## 7. Plan

Done, in this order: `Informer`, `GreenplumClusterReconciler` with its runs and the
first two theorems, `Admission`, `ClusterInit` with its theorem, `KnownHosts`;
`ClusterLifecycle` and the refinement, `SegmentConfiguration`, `WebhookStartup`,
`PXFService`, `Placement`, and the theorems `Trusted` and `MirrorsApart`; the theorems
about `KnownHosts`, the refinement with the other properties of the control loop,
`ConfiguredAsAsked`, `CatalogInOrder` and `StoredFitsData`. Nothing more is planned to
be modelled.

Next: `ImageKept` of `PXFService`, from the invariant that once a version of the
Deployment has no image or the operator's, so have the later ones.
