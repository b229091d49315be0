----------------------------- MODULE KnownHosts -----------------------------
(***************************************************************************)
(* How the pods of a cluster come to trust each other's ssh host keys.     *)
(* Every container runs a KnownHostsController (greenplum-instance/        *)
(* controllers) that follows the Endpoints of the headless service "agent" *)
(* and appends the keys of new ready hosts to /home/gpadmin/.ssh/          *)
(* known_hosts.  On master-0 the ClusterInitDaemon appends to the same     *)
(* file, and a gpexpand job (cmd/runGpexpand) waits until every pod knows  *)
(* every other before it runs gpexpand.                                    *)
(*                                                                         *)
(* The file is in the container and lost with it; the host keys are on the *)
(* persistent volumes.                                                     *)
(***************************************************************************)
EXTENDS Naturals, Sequences

CONSTANTS
    Hosts,      \* the pods, after the expansion
    Master,     \* master-0
    HostLists,  \* the host lists of the configuration, before and after the
                \* expansion: StatefulSets and configuration change on their own
    MaxCrashes, \* bound: containers that stop
    MaxEvents   \* bound: undelivered events of the Endpoints, per pod

VARIABLES
    key,       \* per pod, the ssh host key on its volume; 0 if there is none
    up,        \* the pods whose container runs sshd and the daemons
    ready,     \* the ready addresses of the Endpoints
    known,     \* per pod, the entries <<host, key>> of its known_hosts
    events,    \* per pod, the Endpoints its controller has not handled yet
    task,      \* per writer of a known_hosts, what it is doing
    job,       \* the gpexpand job
    lost,      \* pods that stopped after the job had waited for them
    crashes

vars == <<key, up, ready, known, events, task, job, lost, crashes>>

\* The goroutines that append to a known_hosts, each named by its pod.
Writers == {<<h, "controller">> : h \in Hosts} \cup {<<Master, "init">>}

Idle == [pc |-> "idle", hosts |-> {}, entries |-> {}]

NoJob == [pc |-> "none", ok |-> {}]

ASSUME HostsAssumption ==
    /\ Master \in Hosts /\ HostLists \subseteq SUBSET Hosts /\ HostLists # {}
    /\ MaxCrashes \in Nat /\ MaxEvents \in Nat \ {0}

\* GetKnownHosts.
KnownTo(h) == {e[1] : e \in known[h]}

\* The entries of h are good for ssh to every host of H.
Trusts(h, H) == \A g \in H : <<g, key[g]>> \in known[h]
-----------------------------------------------------------------------------
(***************************************************************************)
(* Containers and Endpoints.                                               *)
(***************************************************************************)
\* Faulty variant of SetupSSHHostKeys: a key for every container.
FreshHostKey(h) == key[h] + 1

\* The root starter makes a key only if the volume has none.
SetupSSHHostKeys(h) == IF key[h] = 0 THEN 1 ELSE key[h]

\* The gpadmin starter writes an empty known_hosts; the informer of the new
\* controller begins with an event for the Endpoints as they are, and master-0
\* begins InitializePostgres, for the hosts of the configuration.
StartContainer(h, list) ==
    /\ h \notin up
    /\ key' = [key EXCEPT ![h] = SetupSSHHostKeys(h)]
    /\ up' = up \cup {h}
    /\ known' = [known EXCEPT ![h] = {}]
    /\ events' = [events EXCEPT ![h] = <<ready>>]
    /\ task' = [w \in Writers |->
                   IF w = <<h, "init">>
                   THEN [Idle EXCEPT !.pc = "resolve", !.hosts = list]
                   ELSE task[w]]
    /\ UNCHANGED <<ready, job, lost, crashes>>

\* The gpexpand job runs its command in master-0.
Crash(h) ==
    /\ h \in up
    /\ crashes < MaxCrashes
    /\ crashes' = crashes + 1
    /\ up' = up \ {h}
    /\ events' = [events EXCEPT ![h] = <<>>]
    /\ task' = [w \in Writers |-> IF w[1] = h THEN Idle ELSE task[w]]
    /\ job' = IF h = Master /\ job.pc \notin {"none", "done"}
              THEN [job EXCEPT !.pc = "failed"] ELSE job
    /\ lost' = IF h \in job.ok THEN lost \cup {h} ELSE lost
    /\ UNCHANGED <<key, ready, known>>

\* The Endpoints controller, and the event for each running pod.
SetReady(R) ==
    /\ \A h \in up : Len(events[h]) < MaxEvents
    /\ ready' = R
    /\ events' = [h \in Hosts |-> IF h \in up THEN Append(events[h], R)
                                  ELSE events[h]]
    /\ UNCHANGED <<key, up, known, task, job, lost, crashes>>

BecomeReady(h) == h \in up \ ready /\ SetReady(ready \cup {h})
BecomeUnready(h) == h \in ready \ up /\ SetReady(ready \ {h})

\* The informer's resync, every 2 hours.
Resync(h) ==
    /\ h \in up /\ events[h] = <<>> /\ task[<<h, "controller">>] = Idle
    /\ events' = [events EXCEPT ![h] = <<ready>>]
    /\ UNCHANGED <<key, up, ready, known, task, job, lost, crashes>>
-----------------------------------------------------------------------------
(***************************************************************************)
(* The writers of known_hosts: KnownHostsReconciler.Reconcile and          *)
(* ClusterInitDaemon.SetupPasswordlessSSH.                                 *)
(***************************************************************************)
\* Faulty variant of getNewReadyHosts: a file with entries is taken to be
\* complete.
IfNoneKnown(h, endpoints) == IF KnownTo(h) = {} THEN endpoints ELSE {}

getNewReadyHosts(h, endpoints) == endpoints \ KnownTo(h)

Reconcile(h) ==
    /\ task[<<h, "controller">>] = Idle /\ events[h] # <<>>
    /\ events' = [events EXCEPT ![h] = Tail(@)]
    /\ LET new == getNewReadyHosts(h, Head(events[h])) IN
       task' = [task EXCEPT ![<<h, "controller">>] =
                   IF new = {} THEN Idle
                   ELSE [Idle EXCEPT !.pc = "resolve", !.hosts = new]]
    /\ UNCHANGED <<key, up, ready, known, job, lost, crashes>>

\* ParallelForeach with the ConsistentDNSResolver: all hosts, or a timeout.
ResolveHosts(w) ==
    /\ task[w].pc = "resolve"
    /\ task' = [task EXCEPT ![w] = IF @.hosts \subseteq ready
                                   THEN [@ EXCEPT !.pc = "scan"] ELSE Idle]
    /\ UNCHANGED <<key, up, ready, known, events, job, lost, crashes>>

\* ScanHostKeys: entries for the hosts that are not known by now; nothing at
\* all if one host does not answer or has another key than the known one.
ScanHostKeys(w) ==
    /\ task[w].pc = "scan"
    /\ LET hosts == task[w].hosts
           agrees(g) == \A e \in known[w[1]] : e[1] = g => e[2] = key[g] IN
       task' = [task EXCEPT ![w] =
                   IF hosts \subseteq up /\ \A g \in hosts : agrees(g)
                   THEN [@ EXCEPT !.pc = "append",
                            !.entries = {<<g, key[g]>> :
                                            g \in hosts \ KnownTo(w[1])}]
                   ELSE Idle]
    /\ UNCHANGED <<key, up, ready, known, events, job, lost, crashes>>

AppendKnownHosts(w) ==
    /\ task[w].pc = "append"
    /\ known' = [known EXCEPT ![w[1]] = @ \cup task[w].entries]
    /\ task' = [task EXCEPT ![w] = Idle]
    /\ UNCHANGED <<key, up, ready, events, job, lost, crashes>>
-----------------------------------------------------------------------------
(***************************************************************************)
(* The gpexpand job: RunGpexpandConfig.Run.                                *)
(***************************************************************************)
JobStep(pc) == job' = [job EXCEPT !.pc = pc]

StartJob ==
    /\ job = NoJob /\ Master \in up
    /\ JobStep("resolve")
    /\ UNCHANGED <<key, up, ready, known, events, task, lost, crashes>>

JobResolves ==
    /\ job.pc = "resolve"
    /\ JobStep(IF Hosts \subseteq ready THEN "waitMaster" ELSE "failed")
    /\ UNCHANGED <<key, up, ready, known, events, task, lost, crashes>>

\* The KnownHostsWaiter gives up after 30 seconds.
WaitForMaster ==
    /\ job.pc = "waitMaster"
    /\ \/ Hosts \subseteq KnownTo(Master) /\ JobStep("waitAll")
       \/ ~(Hosts \subseteq KnownTo(Master)) /\ JobStep("failed")
    /\ UNCHANGED <<key, up, ready, known, events, task, lost, crashes>>

\* waitForKnownHosts in pod h, over ssh from master-0.
WaitForKnownHosts(h) ==
    /\ job.pc = "waitAll" /\ h \notin job.ok
    /\ \/ /\ h \in up /\ Trusts(Master, {h})
          /\ Hosts \subseteq KnownTo(h)
          /\ job' = [job EXCEPT !.ok = @ \cup {h}]
       \/ /\ ~(h \in up /\ Trusts(Master, {h}) /\ Hosts \subseteq KnownTo(h))
          /\ JobStep("failed")
    /\ UNCHANGED <<key, up, ready, known, events, task, lost, crashes>>

\* Faulty variant of AllWaited: the wait on master-0 is taken to be enough.
MasterWaited == Master \in job.ok

\* ParallelForeach returned no error.
AllWaited == job.ok = Hosts

RunGpexpand ==
    /\ job.pc = "waitAll" /\ AllWaited
    /\ JobStep("gpexpand")
    /\ UNCHANGED <<key, up, ready, known, events, task, lost, crashes>>

GpexpandEnds ==
    /\ job.pc = "gpexpand"
    /\ JobStep("done")
    /\ UNCHANGED <<key, up, ready, known, events, task, lost, crashes>>
-----------------------------------------------------------------------------
Init ==
    /\ key = [h \in Hosts |-> 0]
    /\ up = {} /\ ready = {}
    /\ known = [h \in Hosts |-> {}]
    /\ events = [h \in Hosts |-> <<>>]
    /\ task = [w \in Writers |-> Idle]
    /\ job = NoJob /\ lost = {}
    /\ crashes = 0

Write(w) == ResolveHosts(w) \/ ScanHostKeys(w) \/ AppendKnownHosts(w)

Job == \/ StartJob \/ JobResolves \/ WaitForMaster \/ RunGpexpand \/ GpexpandEnds
       \/ \E h \in Hosts : WaitForKnownHosts(h)

Next ==
    \/ \E h \in Hosts : \/ \E list \in HostLists : StartContainer(h, list)
                        \/ Crash(h)
                        \/ BecomeReady(h) \/ BecomeUnready(h)
                        \/ Resync(h) \/ Reconcile(h)
    \/ \E w \in Writers : Write(w)
    \/ Job

Spec == Init /\ [][Next]_vars

\* Containers are restarted, Endpoints kept up to date, goroutines run, and the
\* resync timer goes off.
Fairness ==
    /\ \A h \in Hosts : /\ WF_vars(\E list \in HostLists : StartContainer(h, list))
                        /\ WF_vars(BecomeReady(h))
                        /\ WF_vars(BecomeUnready(h)) /\ WF_vars(Resync(h))
                        /\ WF_vars(Reconcile(h))
    /\ \A w \in Writers : WF_vars(Write(w))

FairSpec == Spec /\ Fairness
-----------------------------------------------------------------------------
(***************************************************************************)
(* Properties.                                                             *)
(***************************************************************************)
\* No known_hosts holds a key that is not its host's, and none ever holds two
\* keys of one host, although two goroutines of master-0 check and then append,
\* and every container makes sure it has a host key when it starts: a wrong
\* entry would never be replaced (getNewReadyHosts skips known hosts).
KeysAreTrue ==
    \A h \in up : \A e \in known[h] : e[2] = key[e[1]]

\* In the end every pod trusts every pod: an event whose scan failed, because a
\* host of the same event was down, is made up for by a later event or resync.
AllTrustAll == <>[](\A h \in Hosts : Trusts(h, Hosts))

\* gpexpand is run only when every pod can ssh to every other, or has lost its
\* known_hosts in a restart since the job waited for it.
GpexpandCanSsh ==
    job.pc = "gpexpand" => \A h \in Hosts \ lost : Trusts(h, Hosts)
=============================================================================
