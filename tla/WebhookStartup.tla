--------------------------- MODULE WebhookStartup ---------------------------
(***************************************************************************)
(* How a greenplum-operator process brings up its validating webhook       *)
(* (NewWebhook and Webhook.Run of greenplum-operator/pkg/admission, run by *)
(* multidaemon beside the controller manager), and what a Deployment does  *)
(* to such processes: container restarts, rolling updates, evictions.      *)
(*                                                                         *)
(* A process asks for a certificate through a CertificateSigningRequest    *)
(* whose name is a constant, writes the one ValidatingWebhookConfiguration *)
(* and creates a Service named after its pod.  Every step is one call to   *)
(* the API server with the uncached client; the first error ends the       *)
(* process.                                                                *)
(***************************************************************************)
EXTENDS Naturals

CONSTANTS
    MaxPods,   \* bound: operator pods the Deployment creates, one after another
    Keys,      \* RSA keys; one that nobody holds any more is used again
    MaxFaults  \* bound: failed or lost calls, crashes, failures of the manager

VARIABLES
    pod,       \* per pod, its life
    pc,        \* per pod, where the operator process in its container is
    key,       \* per pod, the RSA key of the process (0: none)
    cert,      \* per pod, the key that the certificate it loaded certifies
    cancelled, \* per pod, the context of the process's daemons is cancelled
    seen,      \* per pod, the configuration it has read
    csr,       \* the CertificateSigningRequest
    config,    \* the ValidatingWebhookConfiguration: its Service and CABundle
    services,  \* the pods whose webhook Service exists
    faults

vars == <<pod, pc, key, cert, cancelled, seen, csr, config, services, faults>>

objects == <<csr, config, services>>
process == <<pc, key, cert, cancelled, seen>>

Pods == 1..MaxPods

Lives == {"absent", "running", "terminating", "gone"}

PCs == {"stopped", "newWebhook", "deleteCsr", "createCsr", "approve", "await",
        "getConfig", "writeConfig", "createService", "start", "serve"}

\* The steps of Webhook.Run that come before the Service is created.
Starting == PCs \ {"stopped", "start", "serve"}

NoCsr == [key |-> 0, approved |-> FALSE, signed |-> FALSE]

NoConfig == [svc |-> 0, ca |-> 0]

ConfigType == [svc : 0..MaxPods, ca : Keys \cup {0}]

ASSUME ConstantsAssumption ==
    /\ MaxPods \in Nat \ {0} /\ MaxFaults \in Nat
    /\ Keys \subseteq Nat \ {0}
-----------------------------------------------------------------------------
\* A call succeeds, fails without effect, or takes effect and its answer is lost.
Outcomes == {"ok", "failed", "lost"}

Call(o) ==
    \/ o = "ok" /\ UNCHANGED faults
    \/ o \in {"failed", "lost"} /\ faults < MaxFaults /\ faults' = faults + 1

\* InitializeDaemons: an error of the webhook cancels the context of the manager,
\* and the process ends when both have returned.
Exit(p) ==
    /\ pc' = [pc EXCEPT ![p] = "stopped"]
    /\ key' = [key EXCEPT ![p] = 0]
    /\ cert' = [cert EXCEPT ![p] = 0]
    /\ cancelled' = [cancelled EXCEPT ![p] = FALSE]
    /\ seen' = [seen EXCEPT ![p] = NoConfig]

Goto(p, step) ==
    /\ pc' = [pc EXCEPT ![p] = step]
    /\ UNCHANGED <<key, cert, cancelled, seen>>

\* A key that no process, request or configuration holds.
Unused(k) == /\ \A p \in Pods : k # key[p] /\ k # seen[p].ca
             /\ k # csr.key /\ k # config.ca

\* NewWebhook reads the pod and the CustomResourceDefinition;
\* GenerateX509CertificateSigningRequest makes the key.
NewWebhook(p, o) ==
    /\ pc[p] = "newWebhook"
    /\ o # "lost" /\ Call(o)
    /\ \/ o = "failed" /\ Exit(p)
       \/ /\ o = "ok"
          /\ \E k \in Keys :
                /\ Unused(k) /\ \A i \in Keys : Unused(i) => k <= i
                /\ key' = [key EXCEPT ![p] = k]
          /\ pc' = [pc EXCEPT ![p] = "deleteCsr"]
          /\ UNCHANGED <<cert, cancelled, seen>>
    /\ UNCHANGED <<pod, objects>>

\* Faulty variant of DeleteCertificateSigningRequest: the old one is kept.
KeepCertificateSigningRequest(p, o) ==
    /\ pc[p] = "deleteCsr" /\ o = "ok"
    /\ Goto(p, "createCsr")
    /\ UNCHANGED <<pod, objects, faults>>

\* CreateCertificateSigningRequest first deletes the request of that name, if
\* there is one, whoever made it.
DeleteCertificateSigningRequest(p, o) ==
    /\ pc[p] = "deleteCsr"
    /\ Call(o)
    /\ csr' = IF o = "failed" THEN csr ELSE NoCsr
    /\ IF o = "ok" THEN Goto(p, "createCsr") ELSE Exit(p)
    /\ UNCHANGED <<pod, config, services>>

CreateCertificateSigningRequest(p, o) ==
    /\ pc[p] = "createCsr"
    /\ Call(o)
    /\ csr' = IF csr.key = 0 /\ o # "failed" THEN [NoCsr EXCEPT !.key = key[p]]
              ELSE csr
    /\ IF csr.key = 0 /\ o = "ok" THEN Goto(p, "approve") ELSE Exit(p)
    /\ UNCHANGED <<pod, config, services>>

\* UpdateApproval carries the identity of the request it was given: it fails if
\* that one is gone or another has taken its name.
ApproveCertificateSigningRequest(p, o) ==
    /\ pc[p] = "approve"
    /\ Call(o)
    /\ csr' = IF csr.key = key[p] /\ o # "failed"
              THEN [csr EXCEPT !.approved = TRUE] ELSE csr
    /\ IF csr.key = key[p] /\ o = "ok" THEN Goto(p, "await") ELSE Exit(p)
    /\ UNCHANGED <<pod, config, services>>

\* WaitForCertificate refuses a request of another identity, and X509KeyPair a
\* certificate for another key.
IsMine(p) == csr.key = key[p]

\* WaitForSignedCertificate, with its 30 second timeout, and GetCertificate.
WaitForSignedCertificate(p, o) ==
    /\ pc[p] = "await"
    /\ o # "lost" /\ Call(o)
    /\ \/ /\ o = "ok" /\ IsMine(p) /\ csr.signed
          /\ cert' = [cert EXCEPT ![p] = csr.key]
          /\ pc' = [pc EXCEPT ![p] = "getConfig"]
          /\ UNCHANGED <<key, cancelled, seen>>
       \/ o = "ok" /\ ~IsMine(p) /\ Exit(p)
       \/ o = "failed" /\ Exit(p)
    /\ UNCHANGED <<pod, objects>>

\* ReconcileValidatingWebhookConfiguration is called with context.Background():
\* a cancelled process goes on.  CreateOrUpdate reads the configuration ...
GetConfiguration(p, o) ==
    /\ pc[p] = "getConfig"
    /\ o # "lost" /\ Call(o)
    /\ \/ o = "failed" /\ Exit(p)
       \/ /\ o = "ok"
          /\ seen' = [seen EXCEPT ![p] = config]
          /\ pc' = [pc EXCEPT ![p] = "writeConfig"]
          /\ UNCHANGED <<key, cert, cancelled>>
    /\ UNCHANGED <<pod, objects>>

\* Faulty variant of ModifyWebhookConfiguration: an existing CABundle is kept.
KeepCABundle(p) ==
    [svc |-> p, ca |-> IF config.ca = 0 THEN cert[p] ELSE config.ca]

ModifyWebhookConfiguration(p) == [svc |-> p, ca |-> cert[p]]

\* ... and creates or updates it, which fails if it has changed since.
WriteConfiguration(p, o) ==
    /\ pc[p] = "writeConfig"
    /\ Call(o)
    /\ config' = IF seen[p] = config /\ o # "failed"
                 THEN ModifyWebhookConfiguration(p) ELSE config
    /\ IF seen[p] = config /\ o = "ok" THEN Goto(p, "createService") ELSE Exit(p)
    /\ UNCHANGED <<pod, csr, services>>

\* The Service is created, never updated: it fails if the pod has one already.  It
\* is named after the pod and owned by it, but its selector matches every pod of the
\* operator: while two of them serve, calls may reach the other one.  services says
\* which Services exist, not whom they reach.
CreateSVCForValidatingWebhookConfiguration(p, o) ==
    /\ pc[p] = "createService"
    /\ Call(o)
    /\ services' = IF o = "failed" THEN services ELSE services \cup {p}
    /\ IF p \notin services /\ o = "ok" THEN Goto(p, "start") ELSE Exit(p)
    /\ UNCHANGED <<pod, csr, config>>

\* tlsServer.Start: the server listens, unless Shutdown came first.
StartServer(p) ==
    /\ pc[p] = "start"
    /\ \/ Goto(p, "serve")
       \/ cancelled[p] /\ Exit(p)
    /\ UNCHANGED <<pod, objects, faults>>

Shutdown(p) ==
    /\ pc[p] = "serve" /\ cancelled[p]
    /\ Exit(p)
    /\ UNCHANGED <<pod, objects, faults>>

Run(p) ==
    \/ StartServer(p) \/ Shutdown(p)
    \/ \E o \in Outcomes :
          \/ NewWebhook(p, o) \/ DeleteCertificateSigningRequest(p, o)
          \/ CreateCertificateSigningRequest(p, o)
          \/ ApproveCertificateSigningRequest(p, o)
          \/ WaitForSignedCertificate(p, o)
          \/ GetConfiguration(p, o) \/ WriteConfiguration(p, o)
          \/ CreateSVCForValidatingWebhookConfiguration(p, o)

\* mgr.Start returns an error: InitializeDaemons cancels the webhook's context.
ManagerFails(p) ==
    /\ pc[p] \notin {"stopped", "newWebhook"} /\ ~cancelled[p]
    /\ Call("failed")
    /\ cancelled' = [cancelled EXCEPT ![p] = TRUE]
    /\ UNCHANGED <<pod, pc, key, cert, seen, objects>>

Crash(p) ==
    /\ pc[p] # "stopped"
    /\ Call("failed")
    /\ Exit(p)
    /\ UNCHANGED <<pod, objects>>
-----------------------------------------------------------------------------
(***************************************************************************)
(* The surroundings.  The Deployment of the operator has one replica, the  *)
(* default rolling update and no readiness probe (it is commented out):    *)
(* the old pod is terminated as soon as the container of the new one runs. *)
(***************************************************************************)
SignCertificate ==
    /\ csr.approved /\ ~csr.signed
    /\ csr' = [csr EXCEPT !.signed = TRUE]
    /\ UNCHANGED <<pod, process, config, services, faults>>

StartContainer(p) ==
    /\ pod[p] = "running" /\ pc[p] = "stopped"
    /\ Goto(p, "newWebhook")
    /\ UNCHANGED <<pod, objects, faults>>

\* The first pod, the replacement of a lost one, or the next one of a rollout.
CreatePod(p) ==
    /\ pod[p] = "absent"
    /\ p > 1 => pod[p - 1] # "absent"
    /\ pod' = [pod EXCEPT ![p] = "running"]
    /\ UNCHANGED <<process, objects, faults>>

IsMissing(p) == \A q \in Pods : q < p => pod[q] \in {"terminating", "gone"}

\* A pod gets SIGTERM: in a rollout, or when it is deleted or evicted.
Replaced(p) == \E q \in Pods : q > p /\ pod[q] = "running" /\ pc[q] # "stopped"

Terminate(p) ==
    /\ pod[p] = "running" /\ p < MaxPods
    /\ pod' = [pod EXCEPT ![p] = "terminating"]
    /\ cancelled' = [cancelled EXCEPT ![p] = pc[p] # "stopped"]
    /\ UNCHANGED <<pc, key, cert, seen, objects, faults>>

\* The grace period is over.
Kill(p) ==
    /\ pod[p] = "terminating" /\ pc[p] # "stopped"
    /\ Exit(p)
    /\ UNCHANGED <<pod, objects, faults>>

PodGone(p) ==
    /\ pod[p] = "terminating" /\ pc[p] = "stopped"
    /\ pod' = [pod EXCEPT ![p] = "gone"]
    /\ UNCHANGED <<process, objects, faults>>

\* The pod owns its Service: the garbage collector deletes it.
CollectService(p) ==
    /\ pod[p] = "gone" /\ p \in services
    /\ services' = services \ {p}
    /\ UNCHANGED <<pod, process, csr, config, faults>>
-----------------------------------------------------------------------------
Init ==
    /\ pod = [p \in Pods |-> "absent"]
    /\ pc = [p \in Pods |-> "stopped"]
    /\ key = [p \in Pods |-> 0] /\ cert = [p \in Pods |-> 0]
    /\ cancelled = [p \in Pods |-> FALSE] /\ seen = [p \in Pods |-> NoConfig]
    /\ csr = NoCsr /\ config = NoConfig /\ services = {}
    /\ faults = 0

Next ==
    \/ \E p \in Pods : \/ Run(p) \/ ManagerFails(p) \/ Crash(p)
                       \/ StartContainer(p) \/ CreatePod(p) \/ Terminate(p)
                       \/ Kill(p) \/ PodGone(p) \/ CollectService(p)
    \/ SignCertificate

Spec == Init /\ [][Next]_vars

\* Processes, the kubelet, the signer and the garbage collector keep running.
\* The Deployment replaces a missing pod, and ends a rollout: its controller
\* sees, one time or another, the container of the new pod run, also when that
\* container is restarted again and again.
Fairness ==
    /\ WF_vars(SignCertificate)
    /\ \A p \in Pods :
          /\ WF_vars(Run(p)) /\ WF_vars(StartContainer(p))
          /\ WF_vars(IsMissing(p) /\ CreatePod(p))
          /\ SF_vars(Replaced(p) /\ Terminate(p))
          /\ WF_vars(PodGone(p)) /\ WF_vars(CollectService(p))

FairSpec == Spec /\ Fairness
-----------------------------------------------------------------------------
(***************************************************************************)
(* Properties.                                                             *)
(***************************************************************************)

\* Every variable has its type.
TypeOK ==
    /\ pod \in [Pods -> Lives] /\ pc \in [Pods -> PCs]
    /\ key \in [Pods -> Keys \cup {0}] /\ cert \in [Pods -> Keys \cup {0}]
    /\ cancelled \in [Pods -> BOOLEAN]
    /\ csr \in [key : Keys \cup {0}, approved : BOOLEAN, signed : BOOLEAN]
    /\ config \in ConfigType /\ seen \in [Pods -> ConfigType]
    /\ services \subseteq Pods
    /\ faults \in Nat

\* A process serves with a certificate for its own key, and as long as the
\* configuration names the Service of its pod the API server trusts exactly that
\* certificate, whichever processes use the same request and the same
\* configuration at the same time, and however often the container restarts.  (Of
\* two pods that serve at the same time, the other one is not trusted.)
ServedIsTrusted ==
    \A p \in Pods : pc[p] = "serve" =>
        /\ cert[p] = key[p]
        /\ config.svc = p => config.ca = cert[p]

\* The API server's calls are answered: the configuration names the Service of
\* the one operator pod, and the API server trusts its certificate.
Answered ==
    \E p \in Pods : /\ config = [svc |-> p, ca |-> cert[p]] /\ p \in services
                    /\ pod[p] = "running" /\ pc[p] = "serve" /\ ~cancelled[p]
                    /\ \A q \in Pods \ {p} : pod[q] \in {"absent", "gone"}

\* The two states the code does not come back from.  A process starts in a pod
\* that has its Service already: creating the Service will fail, every time.
\* A process that was told to end, or is being replaced, has written the
\* configuration after its successor, which serves and will not write it again.
Locked == \E p \in Pods : p \in services /\ pod[p] = "running" /\ pc[p] \in Starting
Overwritten == \E p \in Pods : pc[p] = "serve" /\ config.svc < p

\* With those two exceptions the webhook comes up and stays up, although two
\* processes may delete each other's request, see each other's configuration and
\* fail at any step: no process waits for ever, and each restart starts anew.
WebhookComesUp == <>(Locked \/ Overwritten) \/ <>[]Answered
=============================================================================
