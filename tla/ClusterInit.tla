----------------------------- MODULE ClusterInit -----------------------------
(***************************************************************************)
(* What the pods of a GreenplumCluster do on their own: every container    *)
(* runs startGreenplumContainer (greenplum-instance/cmd), whose            *)
(* ClusterInitDaemon initialises a new database, or starts the one it      *)
(* finds on the persistent volumes.  Nothing retries it: the goroutine     *)
(* runs once per start of the container.                                   *)
(*                                                                         *)
(* Volumes survive a crash of a container and a deletion of the cluster;   *)
(* processes and the files in the container do not.                        *)
(***************************************************************************)
EXTENDS SegmentConfiguration

CONSTANTS
    Configs,     \* the configurations of the greenplum-config ConfigMap
    Counts,      \* the values of primarySegmentCount
    MaxCrashes,  \* bound: containers that stop by themselves
    MaxErrors,   \* bound: waits that time out and commands that fail
    MaxDeploys   \* bound: how often the cluster is deployed

VARIABLES
    config,    \* the ConfigMap: the same for every deployment on these volumes
    stage,     \* per pod, how far startGreenplumContainer has come
    init,      \* per pod, where the goroutine of ClusterInitDaemon is
    dir,       \* per pod, the Postgres data directory on its volume
    pg,        \* per pod, its Postgres process
    hba,       \* per master, how often the entries were appended to pg_hba.conf
    loaded,    \* the running master has read the entries
    gpadmin,   \* the database gpadmin exists
    extension, \* the pxf extension exists
    acting,    \* the master whose data directory is that of the acting master
    rows,      \* its catalog gp_segment_configuration
    deploys, deployed, crashes, errors,
    halfMade   \* history: Initialize began and did not get to its end

vars == <<config, stage, init, dir, pg, hba, loaded, gpadmin, extension, acting,
          rows, deploys, deployed, crashes, errors, halfMade>>

volumes == <<dir, hba, gpadmin, extension, acting, rows>>
bounds == <<deploys, deployed, crashes, errors, halfMade>>

AllPods == {"master-0", "master-1", "segment-a", "segment-b"}

Masters == {"master-0", "master-1"}

ConfigType == [standby : BOOLEAN, mirrors : BOOLEAN, hba : BOOLEAN, pxf : BOOLEAN]

\* GenerateHostList, with one pod standing for all primaries and one for all
\* mirrors.
Pods == {p \in AllPods : /\ p = "master-1" => config.standby
                         /\ p = "segment-b" => config.mirrors}

Stages == {"down", "root", "gpadmin", "labelPVC", "daemons"}

\* The goroutine ends without an error at "done", and at "skipped", where psql
\* failed for a reason of its own.
Inits == {"none", "resolve", "scan", "check", "gpinitsystem", "createdb", "hba",
          "standbyHba", "gpstart", "gpstop", "psql", "reload", "createExtension",
          "done", "skipped", "failed"}

\* Where master-0 is in Cluster.Initialize, which makes the database.
Making == {"gpinitsystem", "createdb", "hba", "standbyHba"}

ASSUME ConstantsAssumption ==
    /\ Configs \subseteq ConfigType /\ Configs # {}
    /\ Counts \subseteq Nat \ {0} /\ Counts # {}
    /\ MaxCrashes \in Nat /\ MaxErrors \in Nat /\ MaxDeploys \in Nat

\* sshd runs, so that ssh from another pod works and the pod is Ready, which
\* puts it into the headless service's DNS records.
Reachable(P) == \A p \in P : stage[p] = "daemons"
-----------------------------------------------------------------------------
(***************************************************************************)
(* The container: GreenplumContainerStarter.Run.                           *)
(***************************************************************************)
NextStage == [s \in Stages |->
    CASE s = "down" -> "root" [] s = "root" -> "gpadmin"
      [] s = "gpadmin" -> "labelPVC" [] OTHER -> "daemons"]

\* Kubernetes starts the container; each starter runs when the one before has
\* succeeded, and the last one starts the daemons.
RunStarter(p) ==
    /\ deployed /\ p \in Pods
    /\ stage[p] # "daemons"
    /\ stage' = [stage EXCEPT ![p] = NextStage[@]]
    /\ init' = [init EXCEPT ![p] = IF NextStage[stage[p]] # "daemons" THEN @
                                   ELSE IF p = "master-0" THEN "resolve"
                                   ELSE "check"]
    /\ UNCHANGED <<config, pg, loaded, volumes, bounds>>

Stop(P) ==
    /\ stage' = [p \in AllPods |-> IF p \in P THEN "down" ELSE stage[p]]
    /\ init' = [p \in AllPods |-> IF p \in P THEN "none" ELSE init[p]]
    /\ pg' = [p \in AllPods |-> IF p \in P THEN "off" ELSE pg[p]]
    /\ loaded' = (loaded /\ "master-0" \notin P)
    /\ halfMade' = (halfMade \/ ("master-0" \in P /\ init["master-0"] \in Making))

\* A starter or a daemon fails and the container exits, or the pod is lost.
Crash(p) ==
    /\ p \in Pods /\ stage[p] # "down"
    /\ crashes < MaxCrashes
    /\ crashes' = crashes + 1
    /\ Stop({p})
    /\ UNCHANGED <<config, volumes, deploys, deployed, errors>>

\* Where an error leads: psql's is taken for a database that is not running, and
\* gpinitsystem's exit status 1 for success.
AfterError(s) ==
    IF s = "psql" THEN {"skipped"}
    ELSE {"failed"} \cup (IF s = "gpinitsystem" THEN {"createdb"} ELSE {})

\* A command or a read of the configuration fails for a reason of its own: the
\* goroutine logs the error and ends, and the container keeps running.
StepFails(p) ==
    /\ init[p] \notin {"none", "done", "skipped", "failed"}
    /\ errors < MaxErrors
    /\ errors' = errors + 1
    /\ \E s \in AfterError(init[p]) : init' = [init EXCEPT ![p] = s]
    /\ halfMade' = (halfMade \/ (p = "master-0" /\ init[p] \in Making))
    /\ UNCHANGED <<config, stage, pg, loaded, volumes, deploys, deployed, crashes>>

Deploy ==
    /\ ~deployed /\ deploys < MaxDeploys
    /\ deployed' = TRUE /\ deploys' = deploys + 1
    /\ UNCHANGED <<config, stage, init, pg, loaded, volumes, crashes, errors,
                   halfMade>>

Undeploy ==
    /\ deployed
    /\ deployed' = FALSE
    /\ Stop(Pods)
    /\ UNCHANGED <<config, volumes, deploys, crashes, errors>>
-----------------------------------------------------------------------------
(***************************************************************************)
(* segmentPostgresInitializer: the segments and the standby master.        *)
(***************************************************************************)
\* The data of a mirror is in another directory than the one looked at.
CheckPreinitializedCluster(p) == p # "segment-b" /\ dir[p] # "none"

SegmentInitializePostgres(p) ==
    /\ p # "master-0" /\ init[p] = "check"
    /\ \/ ~CheckPreinitializedCluster(p)
          /\ init' = [init EXCEPT ![p] = "done"] /\ UNCHANGED pg
       \/ CheckPreinitializedCluster(p) /\ dir[p] = "complete"
          /\ init' = [init EXCEPT ![p] = "done"] /\ pg' = [pg EXCEPT ![p] = "on"]
       \/ CheckPreinitializedCluster(p) /\ dir[p] = "partial"
          /\ init' = [init EXCEPT ![p] = "failed"] /\ UNCHANGED pg
    /\ UNCHANGED <<config, stage, loaded, volumes, bounds>>
-----------------------------------------------------------------------------
(***************************************************************************)
(* masterPostgresInitializer: master-0.                                    *)
(***************************************************************************)
At(s) == init["master-0"] = s
Go(s) == init' = [init EXCEPT !["master-0"] = s]

\* Two waits for all hosts, first for DNS, then for the ssh host keys.
WaitForHosts(here, next) ==
    /\ At(here)
    /\ \/ Reachable(Pods) /\ Go(next) /\ UNCHANGED errors
       \/ /\ ~Reachable(Pods) /\ errors < MaxErrors
          /\ errors' = errors + 1 /\ Go("failed")
    /\ UNCHANGED <<config, stage, pg, loaded, volumes, deploys, deployed,
                   crashes, halfMade>>

ResolveHosts == WaitForHosts("resolve", "scan")
SetupPasswordlessSSH == WaitForHosts("scan", "check")

\* Faulty variant of StartMode: the standby is not considered.
AlwaysStart == "gpstart"

\* checkAndRunGPStart: with a standby the user decides which master to start.
StartMode == IF config.standby THEN "psql" ELSE "gpstart"

MasterInitializePostgres ==
    /\ At("check")
    /\ Go(IF CheckPreinitializedCluster("master-0") THEN StartMode
          ELSE "gpinitsystem")
    \* gpinitsystem creates the master's directory first.
    /\ dir' = [dir EXCEPT !["master-0"] = IF @ = "none" THEN "partial" ELSE @]
    /\ UNCHANGED <<config, stage, pg, loaded, hba, gpadmin, extension, acting, rows,
                   bounds>>

RunGpinitsystem ==
    /\ At("gpinitsystem")
    /\ IF Reachable(Pods)
       THEN /\ Go("createdb")
            /\ dir' = [p \in AllPods |-> IF p \in Pods THEN "complete" ELSE dir[p]]
            /\ pg' = [p \in AllPods |-> IF p \in Pods THEN "on" ELSE pg[p]]
            /\ rows' = Gpinitsystem(Min(Counts), config.mirrors, config.standby)
            /\ UNCHANGED halfMade
       ELSE /\ \E s \in AfterError("gpinitsystem") : Go(s)
            /\ \E P \in SUBSET Pods :
                  dir' = [p \in AllPods |-> IF p \in P /\ dir[p] = "none"
                                            THEN "partial" ELSE dir[p]]
            /\ halfMade' = TRUE
            /\ UNCHANGED <<pg, rows>>
    /\ UNCHANGED <<config, stage, hba, loaded, gpadmin, extension, acting, deploys,
                   deployed, crashes, errors>>

CreateDB ==
    /\ At("createdb")
    /\ \/ pg["segment-a"] = "on" /\ gpadmin' = TRUE /\ Go("hba") /\ UNCHANGED halfMade
       \/ pg["segment-a"] # "on" /\ UNCHANGED gpadmin /\ Go("failed") /\ halfMade' = TRUE
    /\ UNCHANGED <<config, stage, pg, dir, hba, loaded, extension, acting, rows,
                   deploys, deployed, crashes, errors>>

\* Append the user's entries to pg_hba.conf of master m, by ssh.
AddHostBasedAuthentication(m, here, next) ==
    /\ At(here)
    /\ \/ ~config.hba /\ Go(next) /\ UNCHANGED <<hba, halfMade>>
       \/ /\ config.hba /\ Reachable({m})
          /\ hba' = [hba EXCEPT ![m] = @ + 1] /\ Go(next) /\ UNCHANGED halfMade
       \/ /\ config.hba /\ ~Reachable({m})
          /\ UNCHANGED hba /\ Go("failed") /\ halfMade' = TRUE
    /\ UNCHANGED <<config, stage, pg, dir, loaded, gpadmin, extension, acting, rows,
                   deploys, deployed, crashes, errors>>

\* Faulty variant of AfterMasterHba: the standby is forgotten.
NoStandbyHba == "psql"

\* addMasterAndStandbyHostBasedAuthentication reads the configuration between its
\* two calls.
AfterMasterHba == IF config.standby THEN "standbyHba" ELSE "psql"

MasterHba == AddHostBasedAuthentication("master-0", "hba", AfterMasterHba)
StandbyHba == AddHostBasedAuthentication("master-1", "standbyHba", "psql")

\* gpstart -am: the master alone, in maintenance mode.
GPStart ==
    /\ At("gpstart")
    /\ \/ dir["master-0"] = "complete"
          /\ Go("gpstop") /\ pg' = [pg EXCEPT !["master-0"] = "maintenance"]
       \/ dir["master-0"] # "complete" /\ Go("failed") /\ UNCHANGED pg
    /\ UNCHANGED <<config, stage, loaded, volumes, bounds>>

\* Faulty variant of Restarted: the master is left in maintenance mode.
NotRestarted == [p \in AllPods |-> pg[p]]

\* What gpstop -ar makes of the Postgres processes.
Restarted == [p \in AllPods |-> IF p \in Pods THEN "on" ELSE pg[p]]

GPStopRestart ==
    /\ At("gpstop")
    /\ \/ Reachable(Pods) /\ (\A p \in Pods : dir[p] = "complete")
          /\ Go("psql") /\ pg' = Restarted /\ loaded' = (hba["master-0"] > 0)
       \/ ~(Reachable(Pods) /\ \A p \in Pods : dir[p] = "complete")
          /\ Go("failed") /\ pg' = [pg EXCEPT !["master-0"] = "off"]
          /\ UNCHANGED loaded
    /\ UNCHANGED <<config, stage, volumes, bounds>>

\* psql connects to the database gpadmin of a master that is up: the test of
\* GetCurrentActiveMaster and of RunPostInitialization.
Answers(m) == pg[m] = "on" /\ m = acting /\ gpadmin

\* RunPostInitialization.
PostPsql ==
    /\ At("psql")
    /\ Go(IF Answers("master-0") THEN "reload" ELSE "done")
    /\ UNCHANGED <<config, stage, pg, loaded, volumes, bounds>>

\* gpstop -u.
ReloadGpConfig ==
    /\ At("reload")
    /\ \/ Reachable(Pods) /\ Go("createExtension") /\ loaded' = (hba["master-0"] > 0)
       \/ ~Reachable(Pods) /\ Go("failed") /\ UNCHANGED loaded
    /\ UNCHANGED <<config, stage, pg, volumes, bounds>>

CreatePXFExtension ==
    /\ At("createExtension")
    /\ \/ ~config.pxf /\ Go("done") /\ UNCHANGED extension
       \/ config.pxf /\ pg["segment-a"] = "on" /\ Go("done") /\ extension' = TRUE
       \/ config.pxf /\ pg["segment-a"] # "on" /\ Go("failed") /\ UNCHANGED extension
    /\ UNCHANGED <<config, stage, pg, dir, hba, loaded, gpadmin, acting, rows,
                   bounds>>
-----------------------------------------------------------------------------
(***************************************************************************)
(* runGpexpand on the active master, for n segments (see KnownHosts for    *)
(* its waits); gpexpand undoes what it has not finished.                   *)
(***************************************************************************)
RunGpexpand(n) ==
    /\ n > GetOldSegmentCount(rows)
    /\ Answers(acting) /\ Reachable(Pods) /\ pg["segment-a"] = "on"
    /\ rows' = rows \cup GenerateGpexpandConfig(rows, n, config.mirrors)
    /\ UNCHANGED <<config, stage, init, pg, loaded, dir, hba, gpadmin, extension,
                   acting, bounds>>
-----------------------------------------------------------------------------
(***************************************************************************)
(* The user of a cluster with a standby (doc/failover.html.md.erb).        *)
(***************************************************************************)
GpActivateStandby ==
    /\ "master-1" \in Pods /\ acting = "master-0"
    /\ pg["master-1"] = "on" /\ pg["master-0"] = "off"
    /\ acting' = "master-1"
    /\ rows' = ActivateStandby(rows)
    /\ UNCHANGED <<config, stage, init, pg, dir, hba, loaded, gpadmin, extension,
                   bounds>>

\* gpstart on the acting master, by hand.  (doc/deploy-operator.html.md.erb:177
\* names master-0, which is the acting master until a failover; a user who starts
\* master-0 after one acts against doc/failover.html.md.erb.)
UserGpStart ==
    /\ config.standby /\ deployed
    /\ Reachable(Pods) /\ \A p \in Pods : dir[p] = "complete"
    /\ pg[acting] # "on"
    /\ pg' = [p \in AllPods |->
                 IF p \in Pods \ {"master-0"} \/ p = acting THEN "on" ELSE pg[p]]
    /\ loaded' = (acting = "master-0" /\ hba["master-0"] > 0)
    /\ UNCHANGED <<config, stage, init, volumes, bounds>>
-----------------------------------------------------------------------------
Init ==
    /\ config \in Configs
    /\ stage = [p \in AllPods |-> "down"]
    /\ init = [p \in AllPods |-> "none"]
    /\ dir = [p \in AllPods |-> "none"]
    /\ pg = [p \in AllPods |-> "off"]
    /\ hba = [p \in Masters |-> 0]
    /\ loaded = FALSE /\ gpadmin = FALSE /\ extension = FALSE
    /\ acting = "master-0" /\ rows = {}
    /\ deploys = 0 /\ deployed = FALSE
    /\ crashes = 0 /\ errors = 0 /\ halfMade = FALSE

Master ==
    \/ ResolveHosts \/ SetupPasswordlessSSH \/ MasterInitializePostgres
    \/ RunGpinitsystem \/ CreateDB \/ MasterHba \/ StandbyHba
    \/ GPStart \/ GPStopRestart
    \/ PostPsql \/ ReloadGpConfig \/ CreatePXFExtension

Next ==
    \/ Master
    \/ \E p \in AllPods : \/ RunStarter(p) \/ Crash(p) \/ StepFails(p)
                          \/ SegmentInitializePostgres(p)
    \/ Deploy \/ Undeploy \/ GpActivateStandby \/ UserGpStart
    \/ \E n \in Counts : RunGpexpand(n)

Spec == Init /\ [][Next]_vars

\* Containers are started and their processes run; the user deploys at will.
Fairness ==
    /\ WF_vars(Master)
    /\ \A p \in AllPods : /\ WF_vars(RunStarter(p))
                          /\ WF_vars(SegmentInitializePostgres(p))

FairSpec == Spec /\ Fairness
-----------------------------------------------------------------------------
(***************************************************************************)
(* Properties.                                                             *)
(***************************************************************************)
\* After a failover to the standby, master-0 does not come up as a second
\* master on its old data, however often its container and the whole cluster
\* are restarted (checkAndRunGPStart, cluster_init_daemon.go:154-160).
OneActingMaster == acting = "master-1" => pg["master-0"] = "off"

\* The user's entries are never in pg_hba.conf twice, wherever the chain of steps
\* is cut and however often it is started again.  And unless Initialize, which is
\* not run a second time, was cut short, InitializePostgres leaves a running
\* database configured as asked, after any number of crashes, errors, restarts and
\* redeployments: each master's pg_hba.conf has the entries; and if psql did not
\* fail by itself since the container started (cluster.go:145-151 takes that for a
\* database that is down, and skips the rest), the acting master has read them and
\* the pxf extension exists.  (With a standby, a master-0 lost just before CREATE
\* EXTENSION never runs it: the user starts the database then, and
\* RunPostInitialization is over.)
Configured ==
    /\ \A m \in Masters : hba[m] <= 1
    /\ init["master-0"] \in {"done", "skipped"} /\ Answers("master-0") /\ ~halfMade =>
          /\ config.hba => \A m \in Masters \cap Pods : hba[m] = 1
          /\ init["master-0"] = "done" =>
                /\ config.hba => loaded
                /\ config.pxf /\ ~config.standby => extension

\* The files written for gpinitsystem and gpexpand together keep the catalog in
\* order, whenever a failover removes a master from it (GenerateConfig of
\* gpinitsystem_config.go and of generategpexpandconfig.go).
CatalogWellFormed == rows # {} => WellFormed(rows, config.mirrors)

\* Without a standby a deployed cluster comes up by itself, the first time and
\* again after every restart of a pod and every redeployment, also when the try
\* before ended in an error or a timeout; unless this try does as well, or
\* Initialize was cut short.
ComesUp ==
    (deployed /\ ~config.standby)
        ~> (\/ Answers("master-0") \/ ~deployed
            \/ init["master-0"] = "failed" \/ halfMade)

\* "if the pod `master-0` [...] fails or is deleted, the Greenplum `StatefulSet`
\* restarts the pod. As part of the restart process, master-0 pod will run
\* `gpstart -am && gpstop -ar` to automatically restart the greenplum cluster."
\* (doc/failover.html.md.erb:4-5, for standby=no): whenever master-0 is down and
\* its volume has a data directory, its Postgres comes up again.
MasterRestarts ==
    (/\ deployed /\ ~config.standby
     /\ stage["master-0"] = "down" /\ dir["master-0"] # "none")
        ~> (pg["master-0"] = "on" \/ ~deployed)
=============================================================================
