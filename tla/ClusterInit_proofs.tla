-------------------------- MODULE ClusterInit_proofs --------------------------
(***************************************************************************)
(* After a failover there is one acting master, and an initialisation that *)
(* was not cut short leaves the database configured as asked, with a catalog  *)
(* in order, for every configuration and any number of crashes, errors,    *)
(* deployments and expansions.                                             *)
(*                                                                         *)
(* OneActingMaster is not inductive: gpinitsystem, gpstart -am and         *)
(* gpstop -ar all start Postgres on master-0.  The first is excluded by    *)
(* the volumes (a standby that can be activated has complete data, so      *)
(* master-0 has complete data as well and never initialises again), the    *)
(* others by checkAndRunGPStart.                                           *)
(***************************************************************************)
EXTENDS ClusterInit, FiniteSetTheorems, FunctionTheorems, TLAPS

\* The parts of the inductive invariant.
Types ==
    /\ config \in ConfigType
    /\ init \in [AllPods -> Inits]
    /\ dir \in [AllPods -> {"none", "partial", "complete"}]
    /\ pg \in [AllPods -> {"off", "maintenance", "on"}]
    /\ acting \in Masters

StandbyNotStarted ==
    config.standby => init["master-0"] \notin {"gpstart", "gpstop"}

InitialisesOnce ==
    /\ init["master-0"] = "gpinitsystem" => dir["master-0"] = "partial"
    /\ dir["master-1"] = "complete" => dir["master-0"] = "complete"

StandbyHasData == pg["master-1"] # "off" => dir["master-1"] = "complete"

FailedOver ==
    acting = "master-1" => /\ config.standby
                           /\ dir["master-1"] = "complete"
                           /\ pg["master-0"] = "off"

FailoverInv ==
    /\ Types
    /\ StandbyNotStarted
    /\ InitialisesOnce
    /\ StandbyHasData
    /\ FailedOver

\* The inductive invariant holds in the empty namespace.
LEMMA InitInv == Init => FailoverInv
<1>1. SUFFICES ASSUME Init PROVE FailoverInv
  OBVIOUS
<1>2. Types
  BY <1>1, ConstantsAssumption DEF Init, Types, AllPods, Masters, Inits
<1>3. StandbyNotStarted /\ InitialisesOnce /\ StandbyHasData /\ FailedOver
  BY <1>1 DEF Init, StandbyNotStarted, InitialisesOnce, StandbyHasData,
     FailedOver, AllPods, Masters
<1>. QED BY <1>2, <1>3 DEF FailoverInv

\* No step gives a variable a value outside its type.
LEMMA TypesKept == Types /\ [Next]_vars => Types'
<1>. SUFFICES ASSUME Types, [Next]_vars PROVE Types'
  OBVIOUS
<1>. USE DEF Types, AllPods, Masters, Inits, volumes, bounds
<1>1. CASE ResolveHosts \/ SetupPasswordlessSSH
  BY <1>1 DEF ResolveHosts, SetupPasswordlessSSH, WaitForHosts, Go
<1>2. CASE MasterInitializePostgres
  BY <1>2 DEF MasterInitializePostgres, Go, StartMode
<1>3. CASE RunGpinitsystem
  BY <1>3 DEF RunGpinitsystem, AfterError, Go
<1>4. CASE CreateDB
  BY <1>4 DEF CreateDB, Go
<1>5. CASE MasterHba \/ StandbyHba
  BY <1>5 DEF MasterHba, StandbyHba, AddHostBasedAuthentication, AfterMasterHba, Go
<1>6. CASE GPStart
  BY <1>6 DEF GPStart, Go
<1>7. CASE GPStopRestart
  BY <1>7 DEF GPStopRestart, Go, Restarted
<1>8. CASE PostPsql
  BY <1>8 DEF PostPsql, Go
<1>9. CASE ReloadGpConfig
  BY <1>9 DEF ReloadGpConfig, Go
<1>10. CASE CreatePXFExtension
  BY <1>10 DEF CreatePXFExtension, Go
<1>11. ASSUME NEW p \in AllPods, RunStarter(p) PROVE Types'
  BY <1>11 DEF RunStarter
<1>12. ASSUME NEW p \in AllPods, Crash(p) PROVE Types'
  BY <1>12 DEF Crash, Stop
<1>13. ASSUME NEW p \in AllPods, StepFails(p) PROVE Types'
  BY <1>13 DEF StepFails, AfterError
<1>14. ASSUME NEW p \in AllPods, SegmentInitializePostgres(p) PROVE Types'
  BY <1>14 DEF SegmentInitializePostgres
<1>15. CASE Deploy
  BY <1>15 DEF Deploy
<1>16. CASE Undeploy
  BY <1>16 DEF Undeploy, Stop
<1>17. CASE GpActivateStandby
  BY <1>17 DEF GpActivateStandby
<1>18. CASE UserGpStart
  BY <1>18 DEF UserGpStart
<1>19. ASSUME NEW n \in Counts, RunGpexpand(n) PROVE Types'
  BY <1>19 DEF RunGpexpand
<1>20. CASE UNCHANGED vars
  BY <1>20 DEF vars
<1>. QED
  BY <1>1, <1>2, <1>3, <1>4, <1>5, <1>6, <1>7, <1>8, <1>9, <1>10, <1>11, <1>12,
     <1>13, <1>14, <1>15, <1>16, <1>17, <1>18, <1>19, <1>20 DEF Next, Master

\* A pod that stops loses its processes and not its volume.
LEMMA StopsSafely ==
    ASSUME FailoverInv, NEW P \in SUBSET AllPods, Stop(P),
           UNCHANGED <<config, volumes>>
    PROVE  /\ StandbyNotStarted' /\ InitialisesOnce'
           /\ StandbyHasData' /\ FailedOver'
  BY DEF Stop, FailoverInv, Types, StandbyNotStarted, InitialisesOnce,
     StandbyHasData, FailedOver, volumes, AllPods

\* Every step keeps the parts of the invariant that are not types.
LEMMA PartsKept ==
    ASSUME FailoverInv, [Next]_vars
    PROVE  /\ StandbyNotStarted' /\ InitialisesOnce'
           /\ StandbyHasData' /\ FailedOver'
<1>. DEFINE Parts == /\ StandbyNotStarted /\ InitialisesOnce
                    /\ StandbyHasData /\ FailedOver
<1>. SUFFICES Parts'
  OBVIOUS
<1>0. Types
  BY DEF FailoverInv
<1>. USE <1>0 DEF FailoverInv, StandbyNotStarted, InitialisesOnce, StandbyHasData,
         FailedOver, Types, ConfigType, AllPods, Masters, volumes, bounds
<1>1. CASE ResolveHosts \/ SetupPasswordlessSSH
  BY <1>1 DEF ResolveHosts, SetupPasswordlessSSH, WaitForHosts, Go
<1>2. CASE MasterInitializePostgres
  BY <1>2 DEF MasterInitializePostgres, Go, At, StartMode,
     CheckPreinitializedCluster
<1>3. CASE RunGpinitsystem
  \* master-0 has partial data: no standby can have been activated.
  <2>1. acting = "master-0"
    BY <1>3 DEF RunGpinitsystem, At
  <2>. QED BY <1>3, <2>1 DEF RunGpinitsystem, AfterError, Go, At, Pods
<1>4. CASE CreateDB
  BY <1>4 DEF CreateDB, Go
<1>5. CASE MasterHba \/ StandbyHba
  BY <1>5 DEF MasterHba, StandbyHba, AddHostBasedAuthentication, AfterMasterHba, Go
<1>6. CASE GPStart
  BY <1>6 DEF GPStart, Go, At
<1>7. CASE GPStopRestart
  BY <1>7 DEF GPStopRestart, Go, At, Restarted, Pods
<1>8. CASE PostPsql
  BY <1>8 DEF PostPsql, Go
<1>9. CASE ReloadGpConfig
  BY <1>9 DEF ReloadGpConfig, Go
<1>10. CASE CreatePXFExtension
  BY <1>10 DEF CreatePXFExtension, Go
<1>11. ASSUME NEW p \in AllPods, RunStarter(p) PROVE Parts'
  BY <1>11 DEF RunStarter
<1>12. ASSUME NEW p \in AllPods, Crash(p) PROVE Parts'
  BY <1>12, StopsSafely DEF Crash
<1>13. ASSUME NEW p \in AllPods, StepFails(p) PROVE Parts'
  BY <1>13 DEF StepFails, AfterError
<1>14. ASSUME NEW p \in AllPods, SegmentInitializePostgres(p) PROVE Parts'
  BY <1>14 DEF SegmentInitializePostgres, CheckPreinitializedCluster
<1>15. CASE Deploy
  BY <1>15 DEF Deploy
<1>16. CASE Undeploy
  BY <1>16, StopsSafely DEF Undeploy, Pods
<1>17. CASE GpActivateStandby
  BY <1>17 DEF GpActivateStandby, Pods
<1>18. CASE UserGpStart
  BY <1>18 DEF UserGpStart, Pods
<1>19. ASSUME NEW n \in Counts, RunGpexpand(n) PROVE Parts'
  BY <1>19 DEF RunGpexpand
<1>20. CASE UNCHANGED vars
  BY <1>20 DEF vars
<1>. QED
  BY <1>1, <1>2, <1>3, <1>4, <1>5, <1>6, <1>7, <1>8, <1>9, <1>10, <1>11, <1>12,
     <1>13, <1>14, <1>15, <1>16, <1>17, <1>18, <1>19, <1>20 DEF Next, Master

\* After a failover to the standby, master-0 does not run as a second master on
\* its old data, whatever crashes, fails, is restarted or redeployed
\* (checkAndRunGPStart and CheckPreinitalizedCluster of cluster_init_daemon.go).
THEOREM OneMaster == Spec => []OneActingMaster
<1>1. Init => FailoverInv
  BY InitInv
<1>2. FailoverInv /\ [Next]_vars => FailoverInv'
  BY TypesKept, PartsKept DEF FailoverInv
<1>3. FailoverInv => OneActingMaster
  BY DEF FailoverInv, FailedOver, OneActingMaster
<1>. QED BY <1>1, <1>2, <1>3, PTL DEF Spec
-----------------------------------------------------------------------------
(***************************************************************************)
(* InitializePostgres configures the database.                             *)
(*                                                                         *)
(* Configured speaks of the end of a chain of steps that nobody repeats:   *)
(* after a restart only its later part is run.  The invariant says, for    *)
(* each place the goroutine can be in, what the volumes hold.              *)
(***************************************************************************)
MoreTypes ==
    /\ stage \in [AllPods -> Stages]
    /\ hba \in [Masters -> Nat]
    /\ loaded \in BOOLEAN /\ gpadmin \in BOOLEAN /\ extension \in BOOLEAN
    /\ halfMade \in BOOLEAN

\* The goroutine of ClusterInitDaemon belongs to a container that runs.
RunsInContainer == \A p \in AllPods : init[p] # "none" => stage[p] = "daemons"

\* It is past CheckPreinitializedCluster, so that master-0 has a data directory.
HasDirectory ==
    init["master-0"] \notin {"none", "resolve", "scan", "check", "failed"}
        => dir["master-0"] # "none"

\* The entries of pg_hba.conf are appended in the last steps of making, which
\* begins only when there is no directory.
AtMostOnce ==
    /\ \/ dir["master-0"] = "none"
       \/ init["master-0"] \in {"gpinitsystem", "createdb", "hba"}
       => hba["master-0"] = 0 /\ hba["master-1"] = 0
    /\ init["master-0"] = "standbyHba" => hba["master-1"] = 0
    /\ hba["master-0"] <= 1 /\ hba["master-1"] <= 1

Appended(m) == config.hba => hba[m] = 1

\* What a database has that was not left half made.
MadeOnce ==
    ~halfMade /\ dir["master-0"] # "none" =>
        /\ init["master-0"] \notin {"gpinitsystem", "createdb"} => gpadmin
        /\ init["master-0"] \notin {"gpinitsystem", "createdb", "hba"}
              => Appended("master-0")
        /\ init["master-0"] \notin Making /\ config.standby => Appended("master-1")

\* A master that runs has read them, once it is past the reload.
Loaded ==
    /\ ~halfMade /\ config.hba
    /\ pg["master-0"] = "on" /\ acting = "master-0"
    /\ init["master-0"] \notin Making \cup {"psql", "reload", "skipped", "failed"}
    => loaded

Extended ==
    /\ ~halfMade /\ config.pxf /\ ~config.standby
    /\ pg["master-0"] = "on" /\ init["master-0"] = "done"
    => extension

ConfiguredParts ==
    RunsInContainer /\ HasDirectory /\ AtMostOnce /\ MadeOnce /\ Loaded /\ Extended

ConfiguredInv == MoreTypes /\ ConfiguredParts

\* Nothing is done in the empty namespace.
LEMMA ConfiguredInit == Init => ConfiguredInv
<1>1. SUFFICES ASSUME Init PROVE ConfiguredInv
  OBVIOUS
<1>2. MoreTypes
  BY <1>1 DEF Init, MoreTypes, Stages, AllPods, Masters
<1>3. RunsInContainer /\ HasDirectory /\ AtMostOnce /\ MadeOnce /\ Loaded /\ Extended
  BY <1>1 DEF Init, RunsInContainer, HasDirectory, AtMostOnce, MadeOnce, Loaded,
     Extended, Making, AllPods, Masters
<1> QED BY <1>2, <1>3 DEF ConfiguredInv, ConfiguredParts

\* No step gives the other variables a value outside their types.
LEMMA MoreTypesKept ==
    ASSUME Types, MoreTypes, [Next]_vars
    PROVE  MoreTypes'
<1> USE DEF MoreTypes, Types, AllPods, Masters, volumes, bounds
<1>0. (hba["master-0"] > 0) \in BOOLEAN
  OBVIOUS
<1>1. CASE ResolveHosts \/ SetupPasswordlessSSH
  BY <1>1 DEF ResolveHosts, SetupPasswordlessSSH, WaitForHosts
<1>2. CASE MasterInitializePostgres \/ RunGpinitsystem \/ CreateDB
  BY <1>2 DEF MasterInitializePostgres, RunGpinitsystem, CreateDB
<1>3. CASE MasterHba \/ StandbyHba
  <2>1. PICK m \in Masters : hba' \in {hba, [hba EXCEPT ![m] = @ + 1]}
    BY <1>3 DEF MasterHba, StandbyHba, AddHostBasedAuthentication
  <2>2. hba' \in [Masters -> Nat]
    BY <2>1
  <2>3. halfMade' \in {halfMade, TRUE}
    BY <1>3 DEF MasterHba, StandbyHba, AddHostBasedAuthentication
  <2> QED
    BY <1>3, <2>2, <2>3 DEF MasterHba, StandbyHba, AddHostBasedAuthentication
<1>4. CASE GPStart \/ GPStopRestart
  <2>1. loaded' \in {loaded, hba["master-0"] > 0}
    BY <1>4 DEF GPStart, GPStopRestart
  <2>2. loaded' \in BOOLEAN
    BY <1>0, <2>1
  <2> QED BY <1>4, <2>2 DEF GPStart, GPStopRestart
<1>5. CASE PostPsql \/ ReloadGpConfig \/ CreatePXFExtension
  <2>1. loaded' \in {loaded, hba["master-0"] > 0}
    BY <1>5 DEF PostPsql, ReloadGpConfig, CreatePXFExtension
  <2>2. loaded' \in BOOLEAN
    BY <1>0, <2>1
  <2> QED BY <1>5, <2>2 DEF PostPsql, ReloadGpConfig, CreatePXFExtension
<1>6. ASSUME NEW p \in AllPods, RunStarter(p) PROVE MoreTypes'
  <2>1. \A s \in Stages : NextStage[s] \in Stages
    BY DEF NextStage, Stages
  <2> QED BY <1>6, <2>1 DEF RunStarter
<1>7. ASSUME NEW P \in SUBSET AllPods, Stop(P), UNCHANGED volumes PROVE MoreTypes'
  <2>1. stage' \in [AllPods -> Stages]
    BY <1>7 DEF Stop, Stages
  <2>2. loaded' \in BOOLEAN /\ halfMade' \in BOOLEAN
    BY <1>7 DEF Stop
  <2> QED BY <1>7, <2>1, <2>2
<1>8. ASSUME NEW p \in AllPods, Crash(p) PROVE MoreTypes'
  BY <1>7, <1>8 DEF Crash
<1>9. ASSUME NEW p \in AllPods, StepFails(p) PROVE MoreTypes'
  BY <1>9 DEF StepFails
<1>10. ASSUME NEW p \in AllPods, SegmentInitializePostgres(p) PROVE MoreTypes'
  BY <1>10 DEF SegmentInitializePostgres
<1>11. CASE Deploy
  BY <1>11 DEF Deploy
<1>12. CASE Undeploy
  BY <1>7, <1>12 DEF Undeploy, Pods
<1>13. CASE GpActivateStandby \/ UserGpStart
  BY <1>13 DEF GpActivateStandby, UserGpStart
<1>14. ASSUME NEW n \in Counts, RunGpexpand(n) PROVE MoreTypes'
  BY <1>14 DEF RunGpexpand
<1>15. CASE UNCHANGED vars
  BY <1>15 DEF vars
<1> QED
  BY <1>1, <1>2, <1>3, <1>4, <1>5, <1>6, <1>8, <1>9, <1>10, <1>11, <1>12,
     <1>13, <1>14, <1>15 DEF Next, Master

\* The pods that there always are.
LEMMA FixedPods ==
    /\ "master-0" \in AllPods /\ "segment-a" \in AllPods /\ "master-0" \in Masters
    /\ "master-1" \in Masters /\ "master-0" \in Pods /\ "segment-a" \in Pods
    /\ Pods \subseteq AllPods
BY DEF Pods, AllPods, Masters

\* A step that leaves the volumes alone and master-0 where it is, or where it need
\* not have done more.
LEMMA VolumesKept ==
    ASSUME HasDirectory, AtMostOnce, MadeOnce, UNCHANGED <<config, dir, hba, gpadmin>>,
           ~halfMade' => ~halfMade,
           \/ init'["master-0"] = init["master-0"]
           \/ /\ init'["master-0"] \in {"none", "resolve", "scan", "check", "failed"}
              /\ ~halfMade' => init["master-0"] \notin Making
           \/ /\ init["master-0"] \notin Making /\ init'["master-0"] \notin Making
              /\ dir["master-0"] # "none"
    PROVE  HasDirectory' /\ AtMostOnce' /\ MadeOnce'
BY DEF HasDirectory, AtMostOnce, MadeOnce, Making, Appended

\* Where master-0 stops while it makes the database, that is left half made;
\* otherwise what is made stays.
LEMMA ConfiguredStop ==
    ASSUME FailoverInv, ConfiguredInv, NEW P \in SUBSET AllPods, Stop(P),
           UNCHANGED <<config, volumes>>
    PROVE  ConfiguredParts'
<1> USE DEF ConfiguredInv, ConfiguredParts
<1>1. /\ UNCHANGED <<config, dir, hba, gpadmin>> /\ extension' = extension
      /\ acting' = acting
  BY DEF volumes
<1>2. /\ stage' = [p \in AllPods |-> IF p \in P THEN "down" ELSE stage[p]]
      /\ init' = [p \in AllPods |-> IF p \in P THEN "none" ELSE init[p]]
      /\ pg' = [p \in AllPods |-> IF p \in P THEN "off" ELSE pg[p]]
      /\ loaded' = (loaded /\ "master-0" \notin P)
      /\ ~halfMade' => ~halfMade /\ ("master-0" \in P => init["master-0"] \notin Making)
  BY DEF Stop
<1>3. RunsInContainer'
  BY <1>2 DEF RunsInContainer
<1>4. \/ init'["master-0"] = "none" /\ pg'["master-0"] = "off" /\ "master-0" \in P
      \/ /\ init'["master-0"] = init["master-0"] /\ pg'["master-0"] = pg["master-0"]
         /\ loaded' = loaded
  BY <1>2, FixedPods DEF MoreTypes
<1>5. HasDirectory' /\ AtMostOnce' /\ MadeOnce'
  BY <1>1, <1>2, <1>4, VolumesKept
<1>6. Loaded' /\ Extended'
  BY <1>1, <1>2, <1>4 DEF Loaded, Extended
<1> QED BY <1>3, <1>5, <1>6

\* Where a step of masterPostgresInitializer leads.
LEMMA MasterMoves ==
    ASSUME Types, Master
    PROVE  /\ config' = config /\ stage' = stage /\ acting' = acting
           /\ halfMade' = halfMade \/ halfMade' = TRUE
           /\ init["master-0"] # "none"
           /\ \A p \in AllPods \ {"master-0"} : init'[p] = init[p]
           /\ \A s : Go(s) => init'["master-0"] = s
<1>1. \A s : Go(s) => /\ init'["master-0"] = s
                      /\ \A p \in AllPods \ {"master-0"} : init'[p] = init[p]
  BY DEF Go, Types, AllPods
<1> USE DEF Master, ResolveHosts, SetupPasswordlessSSH, WaitForHosts,
     MasterInitializePostgres, RunGpinitsystem, CreateDB, MasterHba, StandbyHba,
     AddHostBasedAuthentication, GPStart, GPStopRestart, PostPsql, ReloadGpConfig,
     CreatePXFExtension
<1>2. \E s : Go(s)
  OBVIOUS
<1>3. init["master-0"] # "none"
  BY DEF At
<1>4. /\ config' = config /\ stage' = stage /\ acting' = acting
      /\ halfMade' = halfMade \/ halfMade' = TRUE
  BY DEF volumes, bounds
<1> QED BY <1>1, <1>2, <1>3, <1>4

\* A step of masterPostgresInitializer up to createdb keeps the invariant.
LEMMA ConfiguredFront ==
    ASSUME FailoverInv, ConfiguredInv,
           \/ ResolveHosts \/ SetupPasswordlessSSH \/ MasterInitializePostgres
           \/ RunGpinitsystem \/ CreateDB
    PROVE  ConfiguredParts'
<1> USE DEF ConfiguredInv, ConfiguredParts
<1>1. /\ config' = config /\ stage' = stage /\ acting' = acting
      /\ init["master-0"] # "none"
      /\ \A p \in AllPods \ {"master-0"} : init'[p] = init[p]
      /\ \A s : Go(s) => init'["master-0"] = s
  BY MasterMoves DEF Master, FailoverInv
<1>2. RunsInContainer'
  BY <1>1, FixedPods DEF RunsInContainer
<1>3. CASE ResolveHosts \/ SetupPasswordlessSSH
  <2>1. /\ init["master-0"] \in {"resolve", "scan"}
        /\ init'["master-0"] \in {"scan", "check", "failed"}
        /\ pg' = pg /\ loaded' = loaded /\ UNCHANGED <<config, dir, hba, gpadmin>>
        /\ extension' = extension /\ halfMade' = halfMade
    BY <1>1, <1>3 DEF ResolveHosts, SetupPasswordlessSSH, WaitForHosts, At, volumes
  <2>2. HasDirectory' /\ AtMostOnce' /\ MadeOnce'
    BY <2>1, VolumesKept DEF Making
  <2> QED BY <1>1, <1>2, <2>1, <2>2 DEF Loaded, Extended, Making
<1>4. CASE MasterInitializePostgres
  <2>1. /\ init["master-0"] = "check"
        /\ IF dir["master-0"] = "none" THEN init'["master-0"] = "gpinitsystem"
           ELSE init'["master-0"] \in {"psql", "gpstart"}
        /\ dir'["master-0"] # "none"
        /\ pg' = pg /\ loaded' = loaded /\ hba' = hba /\ halfMade' = halfMade
        /\ gpadmin' = gpadmin /\ extension' = extension
    BY <1>1, <1>4 DEF MasterInitializePostgres, At, CheckPreinitializedCluster, StartMode,
       FailoverInv, Types, AllPods, bounds
  <2>2. AtMostOnce' /\ MadeOnce'
    BY <1>1, <2>1 DEF AtMostOnce, MadeOnce, Making, Appended
  <2> QED BY <1>1, <1>2, <2>1, <2>2 DEF HasDirectory, Loaded, Extended, Making
<1>5. CASE RunGpinitsystem
  <2>1. /\ init["master-0"] = "gpinitsystem" /\ dir["master-0"] # "none"
        /\ dir'["master-0"] # "none"
        /\ \/ init'["master-0"] = "createdb"
           \/ init'["master-0"] = "failed" /\ halfMade'
        /\ hba' = hba
    BY <1>1, <1>5, FixedPods
       DEF RunGpinitsystem, At, HasDirectory, AfterError, FailoverInv, Types
  <2>2. AtMostOnce' /\ MadeOnce'
    BY <1>1, <2>1 DEF AtMostOnce, MadeOnce, Making
  <2> QED BY <1>2, <2>1, <2>2 DEF HasDirectory, Loaded, Extended, Making
<1>6. CASE CreateDB
  <2>1. /\ init["master-0"] = "createdb" /\ dir["master-0"] # "none"
        /\ \/ init'["master-0"] = "hba" /\ gpadmin' = TRUE
           \/ init'["master-0"] = "failed" /\ halfMade'
        /\ dir' = dir /\ hba' = hba
    BY <1>1, <1>6 DEF CreateDB, At, HasDirectory
  <2>2. AtMostOnce' /\ MadeOnce'
    BY <1>1, <2>1 DEF AtMostOnce, MadeOnce, Making
  <2> QED BY <1>2, <2>1, <2>2 DEF HasDirectory, Loaded, Extended, Making
<1> QED BY <1>3, <1>4, <1>5, <1>6

\* The entries are appended to one file and to no other, or making ends there.
LEMMA HbaStep ==
    ASSUME FailoverInv, ConfiguredInv, NEW m \in Masters, NEW here \in Making, NEW next,
           next # "none", AddHostBasedAuthentication(m, here, next)
    PROVE  /\ init["master-0"] = here /\ dir["master-0"] # "none" /\ dir' = dir
           /\ gpadmin' = gpadmin /\ config' = config /\ RunsInContainer'
           /\ ~halfMade' => ~halfMade
           /\ \/ init'["master-0"] = next /\ (~halfMade' => ~halfMade)
                   /\ hba'[m] = IF config.hba THEN hba[m] + 1 ELSE hba[m]
              \/ init'["master-0"] = "failed" /\ halfMade' /\ hba'[m] = hba[m]
           /\ \A o \in Masters \ {m} : hba'[o] = hba[o]
<1>1. /\ init["master-0"] = here /\ dir' = dir /\ gpadmin' = gpadmin
      /\ config' = config /\ stage' = stage
      /\ ~halfMade' => ~halfMade
    BY DEF AddHostBasedAuthentication, At, ConfiguredInv, MoreTypes
<1>2. dir["master-0"] # "none" /\ init["master-0"] # "none"
  BY <1>1 DEF ConfiguredInv, ConfiguredParts, HasDirectory, Making
<1>3. \A s : Go(s) => /\ init'["master-0"] = s
                      /\ \A p \in AllPods \ {"master-0"} : init'[p] = init[p]
  BY DEF Go, FailoverInv, Types, AllPods
<1>4. hba \in [Masters -> Nat]
  BY DEF ConfiguredInv, MoreTypes
<1>5. /\ \/ init'["master-0"] = next
              /\ hba'[m] = IF config.hba THEN hba[m] + 1 ELSE hba[m]
         \/ init'["master-0"] = "failed" /\ halfMade' /\ hba'[m] = hba[m]
      /\ \A o \in Masters \ {m} : hba'[o] = hba[o]
      /\ \A p \in AllPods \ {"master-0"} : init'[p] = init[p]
  BY <1>3, <1>4 DEF AddHostBasedAuthentication
<1>6. RunsInContainer'
  BY <1>1, <1>2, <1>5, FixedPods DEF ConfiguredInv, ConfiguredParts, RunsInContainer
<1> QED BY <1>1, <1>2, <1>5, <1>6

\* The two steps that append to pg_hba.conf keep the invariant.
LEMMA ConfiguredHba ==
    ASSUME FailoverInv, ConfiguredInv, MasterHba \/ StandbyHba
    PROVE  ConfiguredParts'
<1> USE DEF ConfiguredInv, ConfiguredParts
<1>1. hba["master-0"] \in Nat /\ hba["master-1"] \in Nat
  BY FixedPods DEF MoreTypes
<1>2. CASE MasterHba
  <2>1. /\ init["master-0"] = "hba" /\ dir["master-0"] # "none" /\ dir' = dir
        /\ gpadmin' = gpadmin /\ config' = config /\ RunsInContainer'
        /\ ~halfMade' => ~halfMade
        /\ \/ init'["master-0"] = AfterMasterHba
                /\ hba'["master-0"] = IF config.hba THEN hba["master-0"] + 1
                                      ELSE hba["master-0"]
           \/ init'["master-0"] = "failed" /\ halfMade' /\ hba'["master-0"] = hba["master-0"]
        /\ hba'["master-1"] = hba["master-1"]
    <3>1. AfterMasterHba # "none" /\ "hba" \in Making
      BY DEF AfterMasterHba, Making
    <3> QED BY <1>2, <3>1, HbaStep, FixedPods DEF MasterHba
  <2>2. AtMostOnce' /\ MadeOnce'
    BY <1>1, <2>1 DEF AtMostOnce, MadeOnce, Making, AfterMasterHba, Appended
  <2> QED BY <2>1, <2>2 DEF HasDirectory, Loaded, Extended, Making, AfterMasterHba
<1>3. CASE StandbyHba
  <2>1. /\ init["master-0"] = "standbyHba" /\ dir["master-0"] # "none" /\ dir' = dir
        /\ gpadmin' = gpadmin /\ config' = config /\ RunsInContainer'
        /\ ~halfMade' => ~halfMade
        /\ \/ init'["master-0"] = "psql"
                /\ hba'["master-1"] = IF config.hba THEN hba["master-1"] + 1
                                      ELSE hba["master-1"]
           \/ init'["master-0"] = "failed" /\ halfMade' /\ hba'["master-1"] = hba["master-1"]
        /\ hba'["master-0"] = hba["master-0"]
    <3>1. "standbyHba" \in Making
      BY DEF Making
    <3> QED BY <1>3, <3>1, HbaStep, FixedPods DEF StandbyHba
  <2>2. AtMostOnce' /\ MadeOnce'
    BY <1>1, <2>1 DEF AtMostOnce, MadeOnce, Making, Appended
  <2> QED BY <2>1, <2>2 DEF HasDirectory, Loaded, Extended, Making
<1> QED BY <1>2, <1>3

\* A step of masterPostgresInitializer after the database is made keeps the invariant.
LEMMA ConfiguredBack ==
    ASSUME FailoverInv, ConfiguredInv,
           \/ GPStart \/ GPStopRestart
           \/ PostPsql \/ ReloadGpConfig \/ CreatePXFExtension
    PROVE  ConfiguredParts'
<1> USE DEF ConfiguredInv, ConfiguredParts
<1>1. /\ config' = config /\ stage' = stage /\ acting' = acting
      /\ init["master-0"] # "none"
      /\ \A p \in AllPods \ {"master-0"} : init'[p] = init[p]
      /\ \A s : Go(s) => init'["master-0"] = s
  BY MasterMoves DEF Master, FailoverInv
<1>2. RunsInContainer'
  BY <1>1, FixedPods DEF RunsInContainer
<1>3. CASE GPStart
  <2>1. /\ init["master-0"] = "gpstart" /\ dir["master-0"] # "none"
        /\ init'["master-0"] \in {"gpstop", "failed"}
        /\ init'["master-0"] = "gpstop" => pg'["master-0"] = "maintenance"
        /\ UNCHANGED <<config, dir, hba, gpadmin>> /\ halfMade' = halfMade
    BY <1>1, <1>3, FixedPods
       DEF GPStart, At, HasDirectory, volumes, bounds, FailoverInv, Types
  <2>2. HasDirectory' /\ AtMostOnce' /\ MadeOnce'
    BY <2>1, VolumesKept DEF Making
  <2> QED BY <1>2, <2>1, <2>2 DEF Loaded, Extended
<1>4. CASE GPStopRestart
  <2>1. /\ init["master-0"] = "gpstop" /\ dir["master-0"] # "none"
        /\ init'["master-0"] \in {"psql", "failed"}
        /\ UNCHANGED <<config, dir, hba, gpadmin>> /\ halfMade' = halfMade
    BY <1>1, <1>4 DEF GPStopRestart, At, HasDirectory, volumes, bounds
  <2>2. HasDirectory' /\ AtMostOnce' /\ MadeOnce'
    BY <2>1, VolumesKept DEF Making
  <2> QED BY <1>2, <2>1, <2>2 DEF Loaded, Extended
<1>5. CASE PostPsql
  <2>1. /\ init["master-0"] = "psql" /\ dir["master-0"] # "none"
        /\ init'["master-0"] = IF Answers("master-0") THEN "reload" ELSE "done"
        /\ UNCHANGED <<config, dir, hba, gpadmin>> /\ pg' = pg /\ halfMade' = halfMade
    BY <1>1, <1>5 DEF PostPsql, At, HasDirectory, volumes, bounds
  <2>2. HasDirectory' /\ AtMostOnce' /\ MadeOnce'
    BY <2>1, VolumesKept DEF Making
  <2>3. ~halfMade => gpadmin
    BY <2>1 DEF MadeOnce
  <2>4. ~config.standby => acting = "master-0"
    BY DEF FailoverInv, FailedOver, Types, Masters
  <2>5. Loaded' /\ Extended'
    BY <1>1, <2>1, <2>3, <2>4 DEF Loaded, Extended, Answers
  <2> QED BY <1>2, <2>2, <2>5
<1>6. CASE ReloadGpConfig
  <2>1. /\ init["master-0"] = "reload" /\ dir["master-0"] # "none"
        /\ \/ init'["master-0"] = "failed"
           \/ init'["master-0"] = "createExtension" /\ (hba["master-0"] > 0 => loaded')
        /\ UNCHANGED <<config, dir, hba, gpadmin>> /\ halfMade' = halfMade
    BY <1>1, <1>6 DEF ReloadGpConfig, At, HasDirectory, volumes, bounds
  <2>2. HasDirectory' /\ AtMostOnce' /\ MadeOnce'
    BY <2>1, VolumesKept DEF Making
  <2>3. ~halfMade /\ config.hba => hba["master-0"] > 0
    BY <2>1 DEF MadeOnce, Appended
  <2>4. Loaded'
    BY <1>1, <2>1, <2>3 DEF Loaded
  <2> QED BY <1>2, <2>1, <2>2, <2>4 DEF Extended
<1>7. CASE CreatePXFExtension
  <2>1. /\ init["master-0"] = "createExtension" /\ dir["master-0"] # "none"
        /\ \/ init'["master-0"] = "failed"
           \/ init'["master-0"] = "done" /\ (config.pxf => extension' = TRUE)
        /\ UNCHANGED <<config, dir, hba, gpadmin>> /\ pg' = pg /\ loaded' = loaded
        /\ halfMade' = halfMade
    BY <1>1, <1>7 DEF CreatePXFExtension, At, HasDirectory, bounds
  <2>2. HasDirectory' /\ AtMostOnce' /\ MadeOnce'
    BY <2>1, VolumesKept DEF Making
  <2> QED BY <1>1, <1>2, <2>1, <2>2 DEF Loaded, Extended, Making
<1> QED BY <1>3, <1>4, <1>5, <1>6, <1>7

\* A step of anyone else keeps the invariant.
LEMMA ConfiguredOutside ==
    ASSUME FailoverInv, ConfiguredInv,
           \/ \E p \in AllPods : \/ RunStarter(p) \/ Crash(p) \/ StepFails(p)
                                 \/ SegmentInitializePostgres(p)
           \/ Deploy \/ Undeploy \/ GpActivateStandby \/ UserGpStart
           \/ \E n \in Counts : RunGpexpand(n)
           \/ UNCHANGED vars
    PROVE  ConfiguredParts'
<1> USE DEF ConfiguredInv, ConfiguredParts
<1>1. config' = config
  BY DEF RunStarter, Crash, StepFails, SegmentInitializePostgres, Deploy, Undeploy,
     GpActivateStandby, UserGpStart, RunGpexpand, vars
<1>2. /\ init \in [AllPods -> Inits] /\ stage \in [AllPods -> Stages]
      /\ pg \in [AllPods -> {"off", "maintenance", "on"}]
  BY DEF FailoverInv, Types, MoreTypes
<1>3. ASSUME NEW p \in AllPods, RunStarter(p) PROVE ConfiguredParts'
  <2>1. /\ stage[p] # "daemons" /\ init[p] = "none"
        /\ pg' = pg /\ loaded' = loaded /\ UNCHANGED <<config, dir, hba, gpadmin>>
        /\ extension' = extension /\ acting' = acting /\ halfMade' = halfMade
    BY <1>3 DEF RunStarter, volumes, bounds, RunsInContainer
  <2>2. /\ \A q \in AllPods \ {p} : init'[q] = init[q] /\ stage'[q] = stage[q]
        /\ init'[p] # "none" => stage'[p] = "daemons"
        /\ init'["master-0"] = init["master-0"]
              \/ (init["master-0"] = "none" /\ init'["master-0"] = "resolve")
    BY <1>2, <1>3, <2>1, FixedPods DEF RunStarter
  <2>3. RunsInContainer'
    BY <2>2 DEF RunsInContainer
  <2>4. HasDirectory' /\ AtMostOnce' /\ MadeOnce'
    BY <2>1, <2>2, VolumesKept DEF Making
  <2> QED BY <2>1, <2>2, <2>3, <2>4 DEF Loaded, Extended, Making
<1>4. ASSUME NEW p \in AllPods, Crash(p) PROVE ConfiguredParts'
  BY <1>4, ConfiguredStop DEF Crash
<1>5. ASSUME NEW p \in AllPods, StepFails(p) PROVE ConfiguredParts'
  <2>1. PICK s \in AfterError(init[p]) : init' = [init EXCEPT ![p] = s]
    BY <1>5 DEF StepFails
  <2>2. /\ init[p] \notin {"none", "done", "skipped", "failed"}
        /\ ~halfMade' => ~halfMade /\ (p = "master-0" => init[p] \notin Making)
        /\ stage' = stage /\ pg' = pg /\ loaded' = loaded /\ extension' = extension
        /\ acting' = acting /\ UNCHANGED <<config, dir, hba, gpadmin>>
    BY <1>5 DEF StepFails, volumes
  <2>3. RunsInContainer'
    BY <1>2, <2>1, <2>2 DEF RunsInContainer
  <2>4. \/ init'["master-0"] = init["master-0"]
        \/ init'["master-0"] = "failed" /\ (~halfMade' => init["master-0"] \notin Making)
        \/ init["master-0"] = "psql" /\ init'["master-0"] = "skipped"
        \/ init["master-0"] = "gpinitsystem" /\ init'["master-0"] = "createdb" /\ halfMade'
    BY <1>2, <2>1, <2>2, FixedPods DEF AfterError, Making
  <2>5. HasDirectory' /\ AtMostOnce' /\ MadeOnce'
    <3>1. CASE init["master-0"] = "gpinitsystem" /\ init'["master-0"] = "createdb" /\ halfMade'
      BY <2>2, <3>1 DEF HasDirectory, AtMostOnce, MadeOnce
    <3>2. CASE init["master-0"] = "psql" /\ init'["master-0"] = "skipped"
      BY <2>2, <3>2, VolumesKept DEF HasDirectory, Making
    <3> QED BY <2>2, <2>4, <3>1, <3>2, VolumesKept
  <2> QED BY <2>2, <2>3, <2>4, <2>5 DEF Loaded, Extended, Making
<1>6. ASSUME NEW p \in AllPods, SegmentInitializePostgres(p) PROVE ConfiguredParts'
  <2>1. /\ init[p] # "none" /\ p # "master-0"
        /\ init' = [init EXCEPT ![p] = "done"] \/ init' = [init EXCEPT ![p] = "failed"]
        /\ pg' = pg \/ pg' = [pg EXCEPT ![p] = "on"]
        /\ stage' = stage /\ loaded' = loaded /\ extension' = extension
        /\ acting' = acting /\ halfMade' = halfMade /\ UNCHANGED <<config, dir, hba, gpadmin>>
    <3>1. init[p] = "check"
      BY <1>6 DEF SegmentInitializePostgres
    <3> QED BY <1>6, <3>1 DEF SegmentInitializePostgres, volumes, bounds
  <2>2. init'["master-0"] = init["master-0"] /\ pg'["master-0"] = pg["master-0"]
    BY <1>2, <2>1, FixedPods
  <2>3. RunsInContainer'
    BY <1>2, <2>1 DEF RunsInContainer
  <2>4. HasDirectory' /\ AtMostOnce' /\ MadeOnce'
    BY <2>1, <2>2, VolumesKept
  <2> QED BY <2>1, <2>2, <2>3, <2>4 DEF Loaded, Extended
<1>7. CASE Undeploy
  BY <1>7, ConfiguredStop, FixedPods DEF Undeploy
<1>8. CASE Deploy \/ UNCHANGED vars \/ (\E n \in Counts : RunGpexpand(n))
           \/ GpActivateStandby
  <2>1. /\ init' = init /\ pg' = pg /\ stage' = stage /\ loaded' = loaded
        /\ UNCHANGED <<config, dir, hba, gpadmin>> /\ extension' = extension
        /\ halfMade' = halfMade
        /\ acting' = acting \/ acting' # "master-0"
    BY <1>8 DEF Deploy, vars, RunGpexpand, GpActivateStandby, volumes, bounds
  <2>2. RunsInContainer' /\ HasDirectory' /\ AtMostOnce' /\ MadeOnce'
    BY <2>1, VolumesKept DEF RunsInContainer
  <2> QED BY <2>1, <2>2 DEF Loaded, Extended
<1>9. CASE UserGpStart
  <2>1. /\ init' = init /\ stage' = stage /\ UNCHANGED <<config, dir, hba, gpadmin>>
        /\ extension' = extension /\ halfMade' = halfMade /\ acting' = acting
        /\ config.standby /\ dir["master-0"] = "complete"
        /\ acting = "master-0" /\ hba["master-0"] > 0 => loaded'
    BY <1>9, FixedPods DEF UserGpStart, volumes, bounds
  <2>2. RunsInContainer' /\ HasDirectory' /\ AtMostOnce' /\ MadeOnce'
    BY <2>1, VolumesKept DEF RunsInContainer
  <2>3. ~halfMade /\ config.hba /\ init["master-0"] \notin Making => hba["master-0"] > 0
    BY <2>1 DEF MadeOnce, Appended, Making
  <2>4. Loaded'
    BY <2>1, <2>3 DEF Loaded
  <2> QED BY <2>1, <2>2, <2>4 DEF Extended
<1> QED BY <1>3, <1>4, <1>5, <1>6, <1>7, <1>8, <1>9

\* The entries of pg_hba.conf are never appended twice; and unless Initialize was
\* cut short, the database that InitializePostgres leaves is configured as asked,
\* whatever failed, was restarted and redeployed: the entries are there, and if psql
\* did not fail by itself they are in force and, without a standby, the pxf extension
\* exists.
THEOREM ConfiguredAsAsked == Spec => []Configured
<1>1. Init => FailoverInv /\ ConfiguredInv
  BY InitInv, ConfiguredInit
<1>2. FailoverInv /\ ConfiguredInv /\ [Next]_vars => (FailoverInv /\ ConfiguredInv)'
  <2>1. SUFFICES ASSUME FailoverInv, ConfiguredInv, [Next]_vars
                 PROVE  FailoverInv' /\ ConfiguredInv'
    OBVIOUS
  <2>2. FailoverInv'
    BY <2>1, TypesKept, PartsKept DEF FailoverInv
  <2>3. MoreTypes'
    BY <2>1, MoreTypesKept DEF FailoverInv, ConfiguredInv
  <2>4. ConfiguredParts'
    BY <2>1, ConfiguredFront, ConfiguredHba, ConfiguredBack, ConfiguredOutside
       DEF Next, Master
  <2> QED BY <2>2, <2>3, <2>4 DEF ConfiguredInv
<1>3. FailoverInv /\ ConfiguredInv => Configured
  <2>1. SUFFICES ASSUME FailoverInv, ConfiguredInv PROVE Configured
    OBVIOUS
  <2>2. \A m \in Masters : hba[m] <= 1
    BY <2>1 DEF ConfiguredInv, ConfiguredParts, AtMostOnce, Masters
  <2>3. ASSUME init["master-0"] \in {"done", "skipped"}, Answers("master-0"), ~halfMade
        PROVE  /\ config.hba => \A m \in Masters \cap Pods : hba[m] = 1
               /\ init["master-0"] = "done" =>
                     /\ config.hba => loaded
                     /\ config.pxf /\ ~config.standby => extension
    <3>1. Appended("master-0") /\ (config.standby => Appended("master-1"))
      BY <2>1, <2>3 DEF ConfiguredInv, ConfiguredParts, MadeOnce, HasDirectory, Making
    <3>2. config.hba => \A m \in Masters \cap Pods : hba[m] = 1
      BY <3>1 DEF Appended, Masters, Pods
    <3>3. init["master-0"] = "done" /\ config.hba => loaded
      BY <2>1, <2>3 DEF ConfiguredInv, ConfiguredParts, Loaded, Answers, Making
    <3>4. init["master-0"] = "done" /\ config.pxf /\ ~config.standby => extension
      BY <2>1, <2>3 DEF ConfiguredInv, ConfiguredParts, Extended, Answers
    <3> QED BY <3>2, <3>3, <3>4
  <2> QED BY <2>2, <2>3 DEF Configured
<1> QED BY <1>1, <1>2, <1>3, PTL DEF Spec

-----------------------------------------------------------------------------
(***************************************************************************)
(* The catalog.  CatalogWellFormed does not say what gpexpand starts from: *)
(* it computes the next identifiers from maxima and a count of rows, which *)
(* are right for a catalog without gaps and double rows.                   *)
(***************************************************************************)
\* A set of naturals has a smallest element.
LEMMA SmallestExists ==
    ASSUME NEW S, S \subseteq Nat, S # {}
    PROVE  Min(S) \in S
<1> DEFINE R == OpToRel(<, Nat)
<1>1. IsWellFoundedOn(R, Nat)
  BY NatLessThanWellFounded, Zenon
<1>2. R = {ss \in Nat \X Nat : ss[1] < ss[2]}
  BY Zenon DEF OpToRel
<1> HIDE DEF R
<1>3. PICK x \in S : \A y \in S : ~(<<y, x>> \in R)
  BY <1>1, WFMin
<1>4. ASSUME NEW y \in S PROVE x <= y
  <2>1. x \in Nat /\ y \in Nat /\ <<y, x>> \in Nat \X Nat
    OBVIOUS
  <2>2. ~(y < x)
    BY <1>2, <1>3, <2>1
  <2> QED BY <2>1, <2>2
<1>5. \E z \in S : \A y \in S : z <= y
  BY <1>4
<1> QED BY <1>5, Zenon DEF Min

\* An upper bound in the set is its maximum.
LEMMA MaxIs ==
    ASSUME NEW S, S \subseteq Int, NEW t \in S, \A s \in S : s <= t
    PROVE  Max(S) = t
<1>1. \E x \in S : \A y \in S : x >= y
  OBVIOUS
<1>2. Max(S) \in S /\ \A y \in S : Max(S) >= y
  BY <1>1, Zenon DEF Max
<1>3. t <= Max(S) /\ Max(S) <= t /\ Max(S) \in Int /\ t \in Int
  BY <1>2
<1> QED BY <1>3

\* An instance has a positive number; masters have content -1.
RowType == [dbid : Nat \ {0}, content : Int, set : {"master", "segment-a", "segment-b"},
            i : Nat]

\* The StatefulSets of the segments.
SegmentSets(mirrors) == IF mirrors THEN {"segment-a", "segment-b"} ELSE {"segment-a"}

\* No two instances share a number, or a pod.
OwnNumber(R) == \A r, s \in R : r.dbid = s.dbid => r = s

OwnPod(R) == \A r, s \in R : r.set = s.set /\ r.i = s.i => r = s

\* master-0 has the first number, and content i is in the pods with ordinal i.
Placed(R, mirrors, n) ==
    \A r \in R : IF r.set = "master"
                 THEN r.content = -1 /\ r.i \in {0, 1} /\ (r.i = 0 => r.dbid = 1)
                 ELSE r.content = r.i /\ r.i < n /\ r.set \in SegmentSets(mirrors)

\* Every segment has its instances.
Complete(R, mirrors, n) ==
    \A set \in SegmentSets(mirrors) : \A i \in Segments(n) :
        \E r \in R : r.set = set /\ r.i = i

\* There is a greatest number.
HasLast(R) == \E r \in R : \A s \in R : s.dbid <= r.dbid

\* A catalog of n segments.
Catalog(R, mirrors, n) ==
    /\ R \subseteq RowType
    /\ OwnNumber(R) /\ OwnPod(R)
    /\ Placed(R, mirrors, n) /\ Complete(R, mirrors, n)
    /\ HasLast(R)

\* runGpexpand counts the segments right.
LEMMA CountIs ==
    ASSUME NEW R, NEW mirrors \in BOOLEAN, NEW n \in Nat, Catalog(R, mirrors, n)
    PROVE  GetOldSegmentCount(R) = n
<1> DEFINE A == {r \in R : r.set = "segment-a"}
           f == [r \in A |-> r.i]
           D == Segments(n)
<1>1. \A r \in A : r \in RowType /\ r.i \in D
  BY DEF Catalog, Placed, RowType, Segments
<1>2. f \in [A -> D]
  BY <1>1
<1>3. \A r, s \in A : f[r] = f[s] => r = s
  BY DEF Catalog, OwnPod
<1>4. \A i \in D : \E r \in A : f[r] = i
  BY DEF Catalog, Complete, SegmentSets
<1> HIDE DEF f, A, D
<1>5. f \in Bijection(A, D)
  BY <1>2, <1>3, <1>4, Fun_IsBij
<1>6. ExistsBijection(D, A)
  BY <1>5, Fun_BijInverse DEF ExistsBijection
<1>7. IsFiniteSet(D) /\ Cardinality(D) = n
  <2>1. 0 \in Int /\ n - 1 \in Int
    OBVIOUS
  <2>2. IsFiniteSet(0 .. n - 1)
        /\ Cardinality(0 .. n - 1) = IF 0 > n - 1 THEN 0 ELSE (n - 1) - 0 + 1
    BY <2>1, FS_Interval
  <2> QED BY <2>2 DEF D, Segments
<1>8. Cardinality(A) = n
  BY <1>6, <1>7, FS_Bijection
<1> QED BY <1>8 DEF GetOldSegmentCount, A

\* gpexpand's first new identifier follows the last one of the catalog ...
LEMMA MaxDbIDIs ==
    ASSUME NEW R, R \subseteq RowType, NEW r \in R, \A s \in R : s.dbid <= r.dbid
    PROVE  MaxDbID(R) = r.dbid
<1> DEFINE S == {s.dbid : s \in R}
<1>1. S \subseteq Int /\ r.dbid \in S /\ \A x \in S : x <= r.dbid
  BY DEF RowType
<1> HIDE DEF S
<1>2. Max(S) = r.dbid
  BY <1>1, MaxIs
<1> QED BY <1>2 DEF MaxDbID, S

\* ... and its first new content the last segment's.
LEMMA MaxContentIDIs ==
    ASSUME NEW R, NEW mirrors \in BOOLEAN, NEW n \in Nat \ {0}, Catalog(R, mirrors, n)
    PROVE  MaxContentID(R) = n - 1
<1> DEFINE S == {s.content : s \in R}
<1>1. S \subseteq Int /\ \A x \in S : x <= n - 1
  BY DEF Catalog, Placed, RowType
<1>2. n - 1 \in S
  <2>1. n - 1 \in Segments(n) /\ "segment-a" \in SegmentSets(mirrors)
    BY DEF Segments, SegmentSets
  <2>2. PICK r \in R : r.set = "segment-a" /\ r.i = n - 1
    BY <2>1 DEF Catalog, Complete
  <2>3. r.content = n - 1
    BY <2>2 DEF Catalog, Placed
  <2> QED BY <2>3
<1> HIDE DEF S
<1>3. Max(S) = n - 1
  BY <1>1, <1>2, MaxIs
<1> QED BY <1>3 DEF MaxContentID, S

\* Such a catalog is in order.
LEMMA CatalogIsWellFormed ==
    ASSUME NEW R, NEW mirrors \in BOOLEAN, NEW n \in Nat \ {0}, Catalog(R, mirrors, n)
    PROVE  R # {} /\ WellFormed(R, mirrors)
<1> DEFINE S == SegmentSets(mirrors)
           T == {<<r.content, r.set, r.i>> : r \in {s \in R : s.content # -1}}
           U == {<<i, set, i>> : i \in Segments(n), set \in S}
<1>1. T \subseteq U
  <2>1. ASSUME NEW r \in R, r.content # -1 PROVE <<r.content, r.set, r.i>> \in U
    <3>1. r.set \in S /\ r.content = r.i /\ r.i \in Segments(n)
      BY <2>1 DEF Catalog, Placed, RowType, Segments
    <3> QED BY <3>1
  <2> QED BY <2>1
<1>2. U \subseteq T
  <2>1. ASSUME NEW i \in Segments(n), NEW set \in S PROVE <<i, set, i>> \in T
    <3>1. PICK r \in R : r.set = set /\ r.i = i
      BY DEF Catalog, Complete
    <3>2. r.content = i /\ i # -1
      BY <3>1 DEF Catalog, Placed, SegmentSets, Segments
    <3> QED BY <3>1, <3>2
  <2> QED BY <2>1
<1>3. T = U
  BY <1>1, <1>2
<1>4. GetOldSegmentCount(R) = n
  BY CountIs
<1>5. WellFormed(R, mirrors)
  BY <1>3, <1>4 DEF WellFormed, Catalog, OwnNumber, SegmentSets
<1> QED BY <1>5 DEF Catalog, HasLast


\* The file for gpinitsystem numbers the master, the primaries and the mirrors.
LEMMA GenerateConfigIs ==
    ASSUME NEW mirrors \in BOOLEAN, NEW n \in Nat \ {0}
    PROVE  LET R == GenerateConfig(n, mirrors) IN
           /\ Catalog(R, mirrors, n)
           /\ \A r \in R : r.set = "master" => r.i = 0
<1> DEFINE R == GenerateConfig(n, mirrors)
           last == IF mirrors THEN Row(2 + n + (n - 1), n - 1, "segment-b", n - 1)
                   ELSE Row(2 + (n - 1), n - 1, "segment-a", n - 1)
<1>1. \A r : r \in R <=>
         \/ r = Row(1, -1, "master", 0)
         \/ \E i \in Segments(n) : r = Row(2 + i, i, "segment-a", i)
         \/ mirrors /\ \E i \in Segments(n) : r = Row(2 + n + i, i, "segment-b", i)
  BY DEF GenerateConfig
<1> HIDE DEF R
<1>2. R \subseteq RowType
  BY <1>1 DEF RowType, Row, Segments
<1>3. OwnNumber(R)
  BY <1>1 DEF OwnNumber, Row, Segments
<1>4. OwnPod(R)
  BY <1>1 DEF OwnPod, Row, Segments
<1>5. Placed(R, mirrors, n)
  BY <1>1 DEF Placed, Row, Segments, SegmentSets
<1>6. Complete(R, mirrors, n)
  <2>1. ASSUME NEW i \in Segments(n) PROVE \E r \in R : r.set = "segment-a" /\ r.i = i
    <3>1. Row(2 + i, i, "segment-a", i) \in R
      BY <1>1
    <3> QED BY <3>1 DEF Row
  <2>2. ASSUME NEW i \in Segments(n), mirrors
        PROVE  \E r \in R : r.set = "segment-b" /\ r.i = i
    <3>1. Row(2 + n + i, i, "segment-b", i) \in R
      BY <1>1, <2>2
    <3> QED BY <3>1 DEF Row
  <2> QED BY <2>1, <2>2 DEF Complete, SegmentSets
<1>7. HasLast(R)
  <2>1. last \in R
    BY <1>1 DEF Segments
  <2>2. \A s \in R : s.dbid <= last.dbid
    BY <1>1 DEF Segments, Row
  <2> QED BY <2>1, <2>2 DEF HasLast
<1>8. \A r \in R : r.set = "master" => r.i = 0
  BY <1>1 DEF Row
<1> QED BY <1>2, <1>3, <1>4, <1>5, <1>6, <1>7, <1>8 DEF Catalog, R

\* gpinitsystem gives the standby the number after the last one.
LEMMA GpinitsystemIs ==
    ASSUME NEW mirrors \in BOOLEAN, NEW standby \in BOOLEAN, NEW n \in Nat \ {0}
    PROVE  Catalog(Gpinitsystem(n, mirrors, standby), mirrors, n)
<1> DEFINE R == GenerateConfig(n, mirrors)
           new == Row(MaxDbID(R) + 1, -1, "master", 1)
<1>1. Catalog(R, mirrors, n) /\ \A r \in R : r.set = "master" => r.i = 0
  BY GenerateConfigIs
<1> HIDE DEF R
<1>2. PICK top \in R : \A s \in R : s.dbid <= top.dbid
  BY <1>1 DEF Catalog, HasLast
<1>3. MaxDbID(R) = top.dbid
  BY <1>1, <1>2, MaxDbIDIs DEF Catalog
<1>4. top.dbid \in Nat /\ \A s \in R : s \in RowType /\ s.dbid \in Nat
  BY <1>1 DEF Catalog, RowType
<1>5. new = Row(top.dbid + 1, -1, "master", 1)
  BY <1>3
<1> HIDE DEF new
<1>6. Catalog(R \cup {new}, mirrors, n)
  <2>1. /\ new.dbid = top.dbid + 1 /\ new.content = -1
        /\ new.set = "master" /\ new.i = 1 /\ new \in RowType
    BY <1>4, <1>5 DEF Row, RowType
  <2>2. R \cup {new} \subseteq RowType
    BY <1>4, <2>1
  <2>3. OwnNumber(R \cup {new})
    BY <1>1, <1>2, <1>4, <2>1 DEF Catalog, OwnNumber
  <2>4. OwnPod(R \cup {new})
    BY <1>1, <2>1 DEF Catalog, OwnPod
  <2>5. Placed(R \cup {new}, mirrors, n)
    BY <1>1, <2>1 DEF Catalog, Placed
  <2>6. Complete(R \cup {new}, mirrors, n)
    BY <1>1 DEF Catalog, Complete
  <2>7. HasLast(R \cup {new})
    BY <1>2, <1>4, <2>1 DEF HasLast
  <2> QED BY <2>2, <2>3, <2>4, <2>5, <2>6, <2>7 DEF Catalog
<1> QED BY <1>1, <1>6 DEF Gpinitsystem, R, new

\* A failover drops the master with the first number, which is not the last.
LEMMA ActivateStandbyIs ==
    ASSUME NEW R, NEW mirrors \in BOOLEAN, NEW n \in Nat \ {0}, Catalog(R, mirrors, n)
    PROVE  Catalog(ActivateStandby(R), mirrors, n)
<1> DEFINE Q == ActivateStandby(R)
<1>1. Q \subseteq R /\ \A r \in R : r \in Q <=> (r.set = "master" => r.i = 1)
  BY DEF ActivateStandby
<1> HIDE DEF Q
<1>2. Q \subseteq RowType /\ OwnNumber(Q) /\ OwnPod(Q) /\ Placed(Q, mirrors, n)
  BY <1>1 DEF Catalog, OwnNumber, OwnPod, Placed
<1>3. Complete(Q, mirrors, n)
  BY <1>1 DEF Catalog, Complete, SegmentSets
<1>4. HasLast(Q)
  <2>1. PICK top \in R : \A s \in R : s.dbid <= top.dbid
    BY DEF Catalog, HasLast
  <2>2. PICK seg \in R : seg.set = "segment-a" /\ seg.i = 0
    BY DEF Catalog, Complete, SegmentSets, Segments
  <2>3. top \in Q
    <3>1. SUFFICES ASSUME top.set = "master", top.i # 1 PROVE FALSE
      BY <1>1, <2>1
    <3>2. top.dbid = 1 /\ seg # top
      BY <2>1, <2>2, <3>1 DEF Catalog, Placed
    <3>3. seg.dbid \in Nat \ {0} /\ seg.dbid # 1 /\ seg.dbid <= 1
      BY <2>1, <2>2, <3>2 DEF Catalog, OwnNumber, RowType
    <3> QED BY <3>3
  <2> QED BY <1>1, <2>1, <2>3 DEF HasLast
<1> QED BY <1>2, <1>3, <1>4 DEF Catalog, Q


\* gpexpand adds the segments n .. m - 1, with the numbers after the last one.
LEMMA GpexpandIs ==
    ASSUME NEW R, NEW mirrors \in BOOLEAN, NEW n \in Nat \ {0}, Catalog(R, mirrors, n),
           NEW m \in Nat, m > n
    PROVE  Catalog(R \cup GenerateGpexpandConfig(R, m, mirrors), mirrors, m)
<1> DEFINE N == GenerateGpexpandConfig(R, m, mirrors)
           step == IF mirrors THEN 2 ELSE 1
<1>1. PICK top \in R : \A s \in R : s.dbid <= top.dbid
  BY DEF Catalog, HasLast
<1> DEFINE d == top.dbid
           id(i) == d + 1 + (i - n) * step
           last == IF mirrors THEN Row(id(m - 1) + 1, m - 1, "segment-b", m - 1)
                   ELSE Row(id(m - 1), m - 1, "segment-a", m - 1)
<1>2. MaxDbID(R) = d /\ GetOldSegmentCount(R) = n /\ MaxContentID(R) = n - 1
  BY <1>1, MaxDbIDIs, CountIs, MaxContentIDIs DEF Catalog
<1>3. d \in Nat \ {0} /\ \A s \in R : s \in RowType /\ s.dbid \in Nat \ {0} /\ s.dbid <= d
  BY <1>1 DEF Catalog, RowType
<1>4. \A r : r \in N <=>
         \/ \E i \in n .. m - 1 : r = Row(id(i), n - 1 + 1 + (i - n), "segment-a", i)
         \/ mirrors /\ \E i \in n .. m - 1 :
               r = Row(id(i) + 1, n - 1 + 1 + (i - n), "segment-b", i)
  BY <1>2 DEF GenerateGpexpandConfig
<1> HIDE DEF N
<1>5. \A i \in n .. m - 1 : n - 1 + 1 + (i - n) = i
  OBVIOUS
<1>6. \A r : r \in N <=>
         \/ \E i \in n .. m - 1 : r = Row(id(i), i, "segment-a", i)
         \/ mirrors /\ \E i \in n .. m - 1 : r = Row(id(i) + 1, i, "segment-b", i)
  BY <1>4, <1>5
<1>7. \A i \in n .. m - 1 :
         id(i) = IF mirrors THEN d + 1 + (i - n) + (i - n) ELSE d + 1 + (i - n)
  BY <1>3
<1> HIDE DEF id
<1>8. N \subseteq RowType /\ \A r \in N : r.dbid > d /\ r.i >= n /\ r.set # "master"
  BY <1>3, <1>6, <1>7 DEF RowType, Row
<1>9. OwnNumber(N) /\ OwnPod(N)
  BY <1>3, <1>6, <1>7 DEF OwnNumber, OwnPod, Row
<1>10. R \subseteq RowType /\ OwnNumber(R) /\ OwnPod(R) /\ Placed(R, mirrors, n)
  BY DEF Catalog
<1>11. R \cup N \subseteq RowType
  BY <1>8, <1>10
<1>12. OwnNumber(R \cup N)
  BY <1>3, <1>8, <1>9, <1>10 DEF OwnNumber, RowType
<1>13. OwnPod(R \cup N)
  <2>1. \A r \in R : r.set # "master" => r.i < n /\ r.i \in Nat
    BY <1>10 DEF Placed, RowType
  <2>2. \A r \in R, s \in N : r.set = s.set => r.i # s.i
    BY <1>8, <2>1 DEF RowType
  <2> QED BY <1>9, <1>10, <2>2 DEF OwnPod
<1>14. Placed(R \cup N, mirrors, m)
  <2>1. Placed(R, mirrors, m)
    BY <1>10 DEF Placed, RowType
  <2>2. Placed(N, mirrors, m)
    BY <1>6 DEF Placed, Row, SegmentSets
  <2> QED BY <2>1, <2>2 DEF Placed
<1>15. Complete(R \cup N, mirrors, m)
  <2>1. ASSUME NEW i \in n .. m - 1
        PROVE  \E r \in N : r.set = "segment-a" /\ r.i = i
    <3>1. Row(id(i), i, "segment-a", i) \in N
      BY <1>6
    <3> QED BY <3>1 DEF Row
  <2>2. ASSUME NEW i \in n .. m - 1, mirrors
        PROVE  \E r \in N : r.set = "segment-b" /\ r.i = i
    <3>1. Row(id(i) + 1, i, "segment-b", i) \in N
      BY <1>6, <2>2
    <3> QED BY <3>1 DEF Row
  <2>3. \A set \in SegmentSets(mirrors) : \A i \in n .. m - 1 :
           \E r \in N : r.set = set /\ r.i = i
    BY <2>1, <2>2 DEF SegmentSets
  <2>4. \A set \in SegmentSets(mirrors) : \A i \in Segments(n) :
           \E r \in R : r.set = set /\ r.i = i
    BY DEF Catalog, Complete
  <2>5. \A i \in Segments(m) : i \in Segments(n) \/ i \in n .. m - 1
    BY DEF Segments
  <2> QED BY <2>3, <2>4, <2>5 DEF Complete
<1>16. HasLast(R \cup N)
  <2>1. last \in N
    BY <1>6
  <2>2. \A s \in N : s.dbid <= last.dbid
    BY <1>3, <1>6, <1>7 DEF Row
  <2>3. \A s \in R : s.dbid <= last.dbid
    BY <1>3, <1>8, <2>1 DEF RowType
  <2> QED BY <2>1, <2>2, <2>3 DEF HasLast
<1> QED BY <1>11, <1>12, <1>13, <1>14, <1>15, <1>16 DEF Catalog, N

\* A segment that gpinitsystem completed is in a catalog, and only a database that
\* runs on it gets the database gpadmin.
CatalogInv ==
    /\ rows # {} => \E n \in Nat \ {0} : Catalog(rows, config.mirrors, n)
    /\ gpadmin \/ pg["segment-a"] = "on" \/ dir["segment-a"] = "complete" => rows # {}

\* A step that leaves the catalog and the databases alone: a Postgres that starts
\* on a segment finds a complete directory.
LEMMA CatalogKept ==
    ASSUME CatalogInv, UNCHANGED <<config, rows>>,
           gpadmin' => gpadmin \/ pg["segment-a"] = "on",
           pg'["segment-a"] = "on" => \/ pg["segment-a"] = "on"
                                      \/ dir["segment-a"] = "complete",
           dir'["segment-a"] = "complete" => dir["segment-a"] = "complete"
    PROVE  CatalogInv'
BY DEF CatalogInv

\* Three actions write the catalog; the others rely on it.
LEMMA CatalogStep ==
    ASSUME Types, CatalogInv, [Next]_vars
    PROVE  CatalogInv'
<1>1. config.mirrors \in BOOLEAN /\ config.standby \in BOOLEAN
  BY DEF Types, ConfigType
<1>2. /\ dir \in [AllPods -> {"none", "partial", "complete"}]
      /\ pg \in [AllPods -> {"off", "maintenance", "on"}]
  BY DEF Types
<1>3. CASE RunGpinitsystem
  <2>1. Min(Counts) \in Nat \ {0}
    <3>1. Counts \subseteq Nat /\ Counts # {}
      BY ConstantsAssumption
    <3> QED BY <3>1, SmallestExists, ConstantsAssumption
  <2> DEFINE R == Gpinitsystem(Min(Counts), config.mirrors, config.standby)
  <2>2. Catalog(R, config.mirrors, Min(Counts)) /\ R # {}
    BY <1>1, <2>1, GpinitsystemIs DEF Catalog, HasLast
  <2>3. config' = config
    BY <1>3 DEF RunGpinitsystem
  <2>4. CASE Reachable(Pods)
    <3>1. rows' = R
      BY <1>3, <2>4 DEF RunGpinitsystem
    <3> HIDE DEF R
    <3> QED BY <2>1, <2>2, <2>3, <3>1 DEF CatalogInv
  <2>5. CASE ~Reachable(Pods)
    <3>1. UNCHANGED <<config, rows, gpadmin, pg>>
      BY <1>3, <2>5 DEF RunGpinitsystem
    <3>2. PICK P \in SUBSET Pods :
             dir' = [p \in AllPods |-> IF p \in P /\ dir[p] = "none"
                                       THEN "partial" ELSE dir[p]]
      BY <1>3, <2>5 DEF RunGpinitsystem
    <3>3. dir'["segment-a"] = "complete" => dir["segment-a"] = "complete"
      BY <3>2, FixedPods
    <3> QED BY <3>1, <3>3, CatalogKept
  <2> QED BY <2>4, <2>5
<1>4. ASSUME NEW m \in Counts, RunGpexpand(m) PROVE CatalogInv'
  <2>1. gpadmin /\ config' = config
    BY <1>4 DEF RunGpexpand, Answers
  <2>2. PICK n \in Nat \ {0} : Catalog(rows, config.mirrors, n)
    BY <2>1 DEF CatalogInv
  <2>3. m \in Nat /\ m > n
    BY <1>1, <1>4, <2>2, CountIs, ConstantsAssumption DEF RunGpexpand
  <2>4. Catalog(rows', config.mirrors, m) /\ m \in Nat \ {0}
    BY <1>1, <1>4, <2>2, <2>3, GpexpandIs DEF RunGpexpand
  <2>5. rows' # {}
    BY <2>4 DEF Catalog, HasLast
  <2> QED BY <2>1, <2>4, <2>5 DEF CatalogInv
<1>5. CASE GpActivateStandby
  <2>1. rows' = ActivateStandby(rows) /\ UNCHANGED <<config, gpadmin, pg, dir>>
    BY <1>5 DEF GpActivateStandby
  <2>2. CASE rows = {}
    BY <2>1, <2>2 DEF ActivateStandby, CatalogInv
  <2>3. CASE rows # {}
    <3>1. PICK n \in Nat \ {0} : Catalog(rows, config.mirrors, n)
      BY <2>3 DEF CatalogInv
    <3>2. Catalog(rows', config.mirrors, n)
      BY <1>1, <2>1, <3>1, ActivateStandbyIs
    <3>3. rows' # {}
      BY <3>2 DEF Catalog, HasLast
    <3> QED BY <2>1, <3>2, <3>3 DEF CatalogInv
  <2> QED BY <2>2, <2>3
<1> USE DEF volumes, bounds
<1>6. CASE UNCHANGED vars
  BY <1>6, CatalogKept DEF vars
<1>7. CASE ResolveHosts \/ SetupPasswordlessSSH \/ MasterHba \/ StandbyHba
           \/ PostPsql \/ ReloadGpConfig \/ CreatePXFExtension
  BY <1>7, CatalogKept DEF ResolveHosts, SetupPasswordlessSSH, WaitForHosts, MasterHba,
     StandbyHba, AddHostBasedAuthentication, PostPsql, ReloadGpConfig, CreatePXFExtension
<1>8. CASE MasterInitializePostgres
  BY <1>2, <1>8, CatalogKept, FixedPods DEF MasterInitializePostgres
<1>9. CASE CreateDB
  BY <1>9, CatalogKept DEF CreateDB
<1>10. CASE GPStart \/ GPStopRestart
  BY <1>2, <1>10, CatalogKept, FixedPods DEF GPStart, GPStopRestart, Restarted
<1>11. ASSUME NEW P \in SUBSET AllPods, Stop(P), UNCHANGED <<config, volumes>>
       PROVE  CatalogInv'
  BY <1>2, <1>11, CatalogKept, FixedPods DEF Stop
<1>12. ASSUME NEW p \in AllPods,
              RunStarter(p) \/ Crash(p) \/ StepFails(p) \/ SegmentInitializePostgres(p)
       PROVE  CatalogInv'
  <2>1. CASE Crash(p)
    BY <1>11, <2>1 DEF Crash
  <2>2. CASE RunStarter(p) \/ StepFails(p)
    BY <2>2, CatalogKept DEF RunStarter, StepFails
  <2>3. CASE SegmentInitializePostgres(p)
    BY <1>2, <2>3, CatalogKept, FixedPods DEF SegmentInitializePostgres
  <2> QED BY <1>12, <2>1, <2>2, <2>3
<1>13. CASE Deploy \/ Undeploy
  BY <1>11, <1>13, CatalogKept, FixedPods DEF Deploy, Undeploy
<1>14. CASE UserGpStart
  BY <1>2, <1>14, CatalogKept, FixedPods DEF UserGpStart
<1> QED
  BY <1>3, <1>4, <1>5, <1>6, <1>7, <1>8, <1>9, <1>10, <1>12, <1>13, <1>14
  DEF Next, Master

\* The segments have the instances they should, each with a number of its own, for
\* any segment counts, whatever the order of expansions and failovers: the files of
\* GenerateConfig for gpinitsystem and for gpexpand fit each other.
THEOREM CatalogInOrder == Spec => []CatalogWellFormed
<1>1. Init => CatalogInv
  BY DEF Init, CatalogInv, AllPods
<1>2. Init => Types
  BY InitInv DEF FailoverInv
<1>3. Types /\ CatalogInv /\ [Next]_vars => CatalogInv'
  BY CatalogStep
<1>4. Types /\ CatalogInv => CatalogWellFormed
  <2>1. ASSUME Types, CatalogInv, rows # {} PROVE WellFormed(rows, config.mirrors)
    <3>1. PICK n \in Nat \ {0} : Catalog(rows, config.mirrors, n)
      BY <2>1 DEF CatalogInv
    <3>2. config.mirrors \in BOOLEAN
      BY <2>1 DEF Types, ConfigType
    <3> QED BY <3>1, <3>2, CatalogIsWellFormed
  <2> QED BY <2>1 DEF CatalogWellFormed
<1> QED BY <1>1, <1>2, <1>3, <1>4, TypesKept, PTL DEF Spec
=============================================================================
