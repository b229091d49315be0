-------------------------- MODULE KnownHosts_proofs --------------------------
(***************************************************************************)
(* The entries of every known_hosts are true, and gpexpand runs only when  *)
(* the pods can reach each other: for any set of pods, any number of       *)
(* crashes, and controllers any number of events behind.                   *)
(***************************************************************************)
EXTENDS KnownHosts, TLAPS

Tasks == [pc : {"idle", "resolve", "scan", "append"}, hosts : SUBSET Hosts,
          entries : SUBSET (Hosts \X Nat)]

JobType == [pc : {"none", "resolve", "waitMaster", "waitAll", "gpexpand", "done",
                  "failed"},
            ok : SUBSET Hosts]

StateType ==
    /\ key \in [Hosts -> Nat]
    /\ up \subseteq Hosts /\ ready \subseteq Hosts
    /\ known \in [Hosts -> SUBSET (Hosts \X Nat)]
    /\ events \in [Hosts -> Seq(SUBSET Hosts)]
    /\ task \in [Writers -> Tasks]
    /\ job \in JobType
    /\ lost \subseteq Hosts

\* A container runs only after SetupSSHHostKeys.
HasKey == \A h \in up : key[h] # 0

\* An entry names a key that its host has and keeps: it was scanned while the
\* host ran, and a host with a key gets no other.
True(e) == e[2] = key[e[1]] /\ e[2] # 0

\* The entries of a file are true, and so are those that a goroutine has scanned
\* and not yet appended.
TrueEntries ==
    /\ \A h \in Hosts : \A e \in known[h] : True(e)
    /\ \A w \in Writers : \A e \in task[w].entries : True(e)

\* A pod that the job has waited for, and that has not been restarted, runs, and
\* its file has an entry for every host: entries are never removed.
Waited == \A h \in job.ok \ lost : h \in up /\ Hosts \subseteq KnownTo(h)

\* gpexpand starts only when the job has waited for everyone.
AllWaitedFor == job.pc = "gpexpand" => job.ok = Hosts

Inv == StateType /\ HasKey /\ TrueEntries /\ Waited /\ AllWaitedFor

\* The idle task and the absent job are of their types.
LEMMA IdleTyped == Idle \in Tasks /\ Idle.entries = {} /\ NoJob \in JobType
BY DEF Idle, Tasks, NoJob, JobType

\* Writers belong to pods.
LEMMA WritersOfHosts ==
    \A w \in Writers : w[1] \in Hosts
BY HostsAssumption DEF Writers

\* At the beginning there are no containers and no files.
LEMMA InitHolds == Init => Inv
<1> SUFFICES ASSUME Init PROVE Inv
  OBVIOUS
<1>1. StateType
  BY IdleTyped DEF Init, StateType
<1>2. TrueEntries
  BY IdleTyped DEF Init, TrueEntries
<1>3. HasKey /\ Waited /\ AllWaitedFor
  BY DEF Init, HasKey, Waited, AllWaitedFor, NoJob
<1> QED BY <1>1, <1>2, <1>3 DEF Inv

\* A container that starts makes a key if there is none and begins an empty file.
LEMMA StartKeepsInv ==
    ASSUME Inv, NEW h \in Hosts, NEW list \in HostLists, StartContainer(h, list)
    PROVE  Inv'
<1> USE DEF Inv
<1>1. /\ key' \in [Hosts -> Nat] /\ key'[h] # 0
      /\ \A g \in Hosts : key[g] # 0 => key'[g] = key[g]
  BY DEF StateType, StartContainer, SetupSSHHostKeys
<1>2. \A w \in Writers : task'[w] \in Tasks /\ task'[w].entries \subseteq task[w].entries
  <2>1. list \subseteq Hosts
    BY HostsAssumption
  <2> DEFINE t == [Idle EXCEPT !.pc = "resolve", !.hosts = list]
  <2>2. t \in Tasks /\ t.entries = {}
    BY <2>1, IdleTyped DEF Idle, Tasks
  <2>3. ASSUME NEW w \in Writers PROVE task'[w] = t \/ task'[w] = task[w]
    BY DEF StartContainer
  <2> HIDE DEF t
  <2> QED BY <2>2, <2>3 DEF StateType
<1>3. /\ up' = up \cup {h} /\ known' = [known EXCEPT ![h] = {}]
      /\ events' = [events EXCEPT ![h] = <<ready>>]
      /\ h \notin up /\ UNCHANGED <<ready, job, lost>>
      /\ task' = [w \in Writers |-> task'[w]]
  BY DEF StartContainer
<1>4. StateType'
  BY <1>1, <1>2, <1>3 DEF StateType
<1>5. HasKey'
  BY <1>1, <1>3 DEF HasKey, StateType
<1>6. \A e \in Hosts \X Nat : True(e) => True(e)'
  BY <1>1 DEF True
<1>7. TrueEntries'
  <2>1. \A g \in Hosts : known'[g] \subseteq known[g]
    BY <1>3 DEF StateType
  <2>2. \A g \in Hosts : known[g] \subseteq Hosts \X Nat
    BY DEF StateType
  <2>3. \A w \in Writers : task[w].entries \subseteq Hosts \X Nat
    BY DEF StateType, Tasks
  <2> QED BY <1>2, <1>6, <2>1, <2>2, <2>3 DEF TrueEntries
<1>8. Waited' /\ AllWaitedFor'
  BY <1>3 DEF Waited, AllWaitedFor, KnownTo, StateType
<1> QED BY <1>4, <1>5, <1>7, <1>8

\* A container that stops takes its goroutines with it, and is remembered if the
\* job has waited for it.
LEMMA CrashKeepsInv ==
    ASSUME Inv, NEW h \in Hosts, Crash(h)
    PROVE  Inv'
<1> USE DEF Inv
<1>1. /\ up' = up \ {h} /\ UNCHANGED <<key, ready, known>>
      /\ events' = [events EXCEPT ![h] = <<>>]
      /\ lost' = IF h \in job.ok THEN lost \cup {h} ELSE lost
  BY DEF Crash
<1>2. \A w \in Writers : task'[w] = Idle \/ task'[w] = task[w]
  BY DEF Crash
<1>3. job' \in JobType /\ job'.ok = job.ok /\ (job'.pc = "gpexpand" => job' = job)
  BY DEF Crash, StateType, JobType
<1>4. task' \in [Writers -> Tasks]
  BY <1>2, IdleTyped DEF Crash, StateType
<1>5. StateType'
  BY <1>1, <1>3, <1>4 DEF StateType
<1>6. HasKey' /\ Waited' /\ AllWaitedFor'
  BY <1>1, <1>3 DEF HasKey, Waited, AllWaitedFor, KnownTo
<1>7. TrueEntries'
  BY <1>1, <1>2, IdleTyped DEF TrueEntries, True
<1> QED BY <1>5, <1>6, <1>7

\* The Endpoints and their events concern neither keys nor files.
LEMMA EventsKeepInv ==
    ASSUME Inv, NEW h \in Hosts, BecomeReady(h) \/ BecomeUnready(h) \/ Resync(h)
    PROVE  Inv'
<1> USE DEF Inv
<1>1. UNCHANGED <<key, up, known, task, job, lost>>
  BY DEF BecomeReady, BecomeUnready, SetReady, Resync
<1>2. ready' \subseteq Hosts
  BY DEF BecomeReady, BecomeUnready, SetReady, Resync, StateType
<1>3. events' \in [Hosts -> Seq(SUBSET Hosts)]
  <2>1. ASSUME NEW R \in SUBSET Hosts, SetReady(R) PROVE events' \in [Hosts -> Seq(SUBSET Hosts)]
    BY <2>1 DEF SetReady, StateType
  <2>2. CASE Resync(h)
    BY <2>2 DEF Resync, StateType
  <2>3. CASE BecomeReady(h) \/ BecomeUnready(h)
    BY <2>1, <2>3 DEF BecomeReady, BecomeUnready, StateType
  <2> QED BY <2>2, <2>3
<1>4. StateType'
  BY <1>1, <1>2, <1>3 DEF StateType
<1> QED BY <1>1, <1>4 DEF HasKey, TrueEntries, True, Waited, AllWaitedFor, KnownTo

\* A goroutine that takes a step without touching its file, and holds only true
\* entries afterwards, keeps Inv.
LEMMA TaskMovesOn ==
    ASSUME Inv, NEW w \in Writers, NEW t \in Tasks,
           task' = [task EXCEPT ![w] = t],
           \A e \in t.entries : True(e),
           UNCHANGED <<key, up, ready, known, job, lost>>,
           events' \in [Hosts -> Seq(SUBSET Hosts)]
    PROVE  Inv'
<1> USE DEF Inv
<1>1. StateType'
  BY DEF StateType
<1>2. TrueEntries'
  BY DEF TrueEntries, True, StateType
<1> QED BY <1>1, <1>2 DEF HasKey, Waited, AllWaitedFor, KnownTo

\* The controller takes an event, a writer resolves and scans.
LEMMA ScanKeepsInv ==
    ASSUME Inv,
           \/ \E h \in Hosts : Reconcile(h)
           \/ \E w \in Writers : ResolveHosts(w) \/ ScanHostKeys(w)
    PROVE  Inv'
<1> USE DEF Inv
<1>1. ASSUME NEW h \in Hosts, Reconcile(h) PROVE Inv'
  <2> DEFINE new == getNewReadyHosts(h, Head(events[h]))
             t == IF new = {} THEN Idle ELSE [Idle EXCEPT !.pc = "resolve", !.hosts = new]
  <2>1. events[h] \in Seq(SUBSET Hosts) /\ events[h] # <<>>
    BY <1>1 DEF Reconcile, StateType
  <2>2. Head(events[h]) \in SUBSET Hosts /\ Tail(events[h]) \in Seq(SUBSET Hosts)
    BY <2>1
  <2>3. new \subseteq Hosts
    BY <2>2 DEF getNewReadyHosts
  <2>4. t \in Tasks /\ t.entries = {}
    BY <2>3, IdleTyped DEF Idle, Tasks
  <2>5. /\ <<h, "controller">> \in Writers
        /\ task' = [task EXCEPT ![<<h, "controller">>] = t]
        /\ UNCHANGED <<key, up, ready, known, job, lost>>
        /\ events' = [events EXCEPT ![h] = Tail(events[h])]
    BY <1>1 DEF Reconcile, Writers
  <2>6. events' \in [Hosts -> Seq(SUBSET Hosts)]
    BY <2>2, <2>5 DEF StateType
  <2> HIDE DEF t
  <2> QED BY <2>4, <2>5, <2>6, TaskMovesOn
<1>2. ASSUME NEW w \in Writers, ResolveHosts(w) PROVE Inv'
  <2> DEFINE t == IF task[w].hosts \subseteq ready THEN [task[w] EXCEPT !.pc = "scan"]
                  ELSE Idle
  <2>1. task[w] \in Tasks
    BY DEF StateType
  <2>2. t \in Tasks /\ t.entries \in {{}, task[w].entries}
    BY <2>1, IdleTyped DEF Tasks
  <2>3. /\ task' = [task EXCEPT ![w] = t]
        /\ UNCHANGED <<key, up, ready, known, events, job, lost>>
    BY <1>2 DEF ResolveHosts
  <2>4. \A e \in t.entries : True(e)
    BY <2>2 DEF TrueEntries
  <2> HIDE DEF t
  <2> QED BY <2>2, <2>3, <2>4, TaskMovesOn DEF StateType
<1>3. ASSUME NEW w \in Writers, ScanHostKeys(w) PROVE Inv'
  <2> DEFINE new == {<<g, key[g]>> : g \in task[w].hosts \ KnownTo(w[1])}
             t == [task[w] EXCEPT !.pc = "append", !.entries = new]
  <2>1. task[w] \in Tasks /\ task[w].hosts \subseteq Hosts
    BY DEF StateType, Tasks
  <2>2. new \subseteq Hosts \X Nat
    BY <2>1 DEF StateType
  <2>3. t \in Tasks /\ t.entries = new
    BY <2>1, <2>2 DEF Tasks
  <2>4. \/ task' = [task EXCEPT ![w] = Idle]
        \/ task[w].hosts \subseteq up /\ task' = [task EXCEPT ![w] = t]
    BY <1>3 DEF ScanHostKeys
  <2>5. UNCHANGED <<key, up, ready, known, events, job, lost>>
    BY <1>3 DEF ScanHostKeys
  <2>6. task[w].hosts \subseteq up => \A e \in new : True(e)
    BY DEF HasKey, True
  <2> HIDE DEF t, new
  <2>7. CASE task' = [task EXCEPT ![w] = Idle]
    BY <2>5, <2>7, IdleTyped, TaskMovesOn DEF StateType
  <2>8. CASE task[w].hosts \subseteq up /\ task' = [task EXCEPT ![w] = t]
    BY <2>3, <2>5, <2>6, <2>8, TaskMovesOn DEF StateType
  <2> QED BY <2>4, <2>7, <2>8
<1> QED BY <1>1, <1>2, <1>3

\* Appending true entries to a file leaves it true, and larger.
LEMMA AppendKeepsInv ==
    ASSUME Inv, NEW w \in Writers, AppendKnownHosts(w)
    PROVE  Inv'
<1> USE DEF Inv
<1>1. /\ known' = [known EXCEPT ![w[1]] = known[w[1]] \cup task[w].entries]
      /\ task' = [task EXCEPT ![w] = Idle]
      /\ UNCHANGED <<key, up, ready, events, job, lost>>
  BY DEF AppendKnownHosts
<1>2. w[1] \in Hosts /\ task[w].entries \subseteq Hosts \X Nat
  BY WritersOfHosts DEF StateType, Tasks
<1>3. StateType'
  BY <1>1, <1>2, IdleTyped DEF StateType
<1>4. TrueEntries'
  BY <1>1, <1>2, IdleTyped DEF TrueEntries, True, StateType
<1>5. \A h \in Hosts : KnownTo(h) \subseteq KnownTo(h)'
  BY <1>1, <1>2 DEF KnownTo, StateType
<1>6. Waited'
  BY <1>1, <1>5 DEF Waited, StateType, JobType
<1> QED BY <1>1, <1>3, <1>4, <1>6 DEF HasKey, AllWaitedFor

\* The job waits for every pod before it runs gpexpand.
LEMMA JobKeepsInv ==
    ASSUME Inv, Job
    PROVE  Inv'
<1> USE DEF Inv
<1>1. UNCHANGED <<key, up, ready, known, events, task, lost>>
  BY DEF Job, StartJob, JobResolves, WaitForMaster, WaitForKnownHosts, RunGpexpand,
         GpexpandEnds
<1>2. job' \in JobType
  <2>1. job \in JobType
    BY DEF StateType
  <2>2. ASSUME NEW pc \in {"resolve", "waitMaster", "waitAll", "gpexpand", "done",
                           "failed"},
               JobStep(pc)
        PROVE  job' \in JobType
    BY <2>1, <2>2 DEF JobStep, JobType
  <2>3. ASSUME NEW h \in Hosts, WaitForKnownHosts(h) PROVE job' \in JobType
    BY <2>1, <2>2, <2>3 DEF WaitForKnownHosts, JobType
  <2> QED BY <2>2, <2>3 DEF Job, StartJob, JobResolves, WaitForMaster, RunGpexpand,
             GpexpandEnds
<1>3. StateType' /\ HasKey' /\ TrueEntries'
  BY <1>1, <1>2 DEF StateType, HasKey, TrueEntries, True
<1>4. \/ job'.ok = job.ok
      \/ \E h \in Hosts : /\ job'.ok = job.ok \cup {h} /\ job'.pc = "waitAll"
                          /\ h \in up /\ Hosts \subseteq KnownTo(h)
  BY DEF Job, StartJob, JobResolves, WaitForMaster, WaitForKnownHosts, RunGpexpand,
         GpexpandEnds, JobStep, StateType, JobType
<1>5. Waited'
  BY <1>1, <1>4 DEF Waited, KnownTo
<1>6. AllWaitedFor'
  <2>1. CASE RunGpexpand
    BY <2>1 DEF RunGpexpand, AllWaited, JobStep, AllWaitedFor, StateType, JobType
  <2>2. CASE ~RunGpexpand
    <3>1. job'.pc # "gpexpand"
      BY <2>2 DEF Job, StartJob, JobResolves, WaitForMaster, WaitForKnownHosts,
                  GpexpandEnds, JobStep, StateType, JobType
    <3> QED BY <3>1 DEF AllWaitedFor
  <2> QED BY <2>1, <2>2
<1> QED BY <1>3, <1>5, <1>6

\* Inv is an invariant of the pods, their controllers and the job.
LEMMA Invariance == Spec => []Inv
<1>1. Inv /\ [Next]_vars => Inv'
  <2> SUFFICES ASSUME Inv, [Next]_vars PROVE Inv'
    OBVIOUS
  <2>1. CASE UNCHANGED vars
    BY <2>1 DEF vars, Inv, StateType, HasKey, TrueEntries, True, Waited, AllWaitedFor,
                KnownTo
  <2>2. CASE Next
    BY <2>2, StartKeepsInv, CrashKeepsInv, EventsKeepInv, ScanKeepsInv, AppendKeepsInv,
       JobKeepsInv DEF Next, Write
  <2> QED BY <2>1, <2>2
<1> QED BY <1>1, InitHolds, PTL DEF Spec

\* No known_hosts ever holds a wrong key, or two keys of one host, although
\* goroutines scan a key and append it later, and containers restart in between
\* (SetupSSHHostKeys keeps the key of the volume): for any number of pods, crashes
\* and undelivered events.
THEOREM TrueKeys == Spec => []KeysAreTrue
<1>1. Inv => KeysAreTrue
  BY DEF Inv, TrueEntries, True, KeysAreTrue, StateType
<1> QED BY <1>1, Invariance, PTL

\* gpexpand runs only when every pod that has not been restarted since the job
\* waited for it can ssh to every pod, with the key that pod has now: the job
\* compares host names only, and the entries stay true.
THEOREM CanSsh == Spec => []GpexpandCanSsh
<1>1. Inv => GpexpandCanSsh
  <2> SUFFICES ASSUME Inv, job.pc = "gpexpand", NEW h \in Hosts \ lost, NEW g \in Hosts
               PROVE  <<g, key[g]>> \in known[h]
    BY DEF GpexpandCanSsh, Trusts
  <2>1. g \in KnownTo(h)
    BY DEF Inv, Waited, AllWaitedFor
  <2>2. PICK e \in known[h] : e[1] = g
    BY <2>1 DEF KnownTo
  <2>3. e \in Hosts \X Nat /\ e[2] = key[g]
    BY <2>2 DEF Inv, StateType, TrueEntries, True
  <2>4. e = <<g, key[g]>>
    BY <2>2, <2>3
  <2> QED BY <2>4
<1> QED BY <1>1, Invariance, PTL
=============================================================================
