------------------------ MODULE WebhookStartup_proofs ------------------------
(***************************************************************************)
(* Whatever overlapping operators do to the request and the configuration  *)
(* they share, the API server trusts the one that serves it.               *)
(***************************************************************************)
EXTENDS WebhookStartup, TLAPS

\* A process that has loaded its certificate holds the key of that certificate ...
Certified == {"getConfig", "writeConfig", "createService", "start", "serve"}

OwnCertificate == \A p \in Pods : pc[p] \in Certified => cert[p] = key[p]

\* ... and one that has written the configuration has not been exchanged for a
\* later process of its pod, so that a configuration naming its Service is its own.
Configured == {"createService", "start", "serve"}

OwnBundle ==
    \A p \in Pods : pc[p] \in Configured /\ config.svc = p => config.ca = cert[p]

Inv == TypeOK /\ OwnCertificate /\ OwnBundle

\* The steps of a process that only move it on leave Inv as it is.
LEMMA MovesOn ==
    ASSUME Inv, NEW p \in Pods, NEW step \in PCs, Goto(p, step),
           UNCHANGED config,
           step \in Certified => pc[p] \in Certified,
           step \in Configured => pc[p] \in Configured,
           pod' \in [Pods -> Lives], services' \subseteq Pods, faults' \in Nat,
           csr' \in [key : Keys \cup {0}, approved : BOOLEAN, signed : BOOLEAN]
    PROVE  Inv'
<1>1. TypeOK'
  BY DEF Inv, TypeOK, Goto
<1>2. OwnCertificate'
  BY DEF Inv, TypeOK, Goto, OwnCertificate
<1>3. OwnBundle'
  BY DEF Inv, TypeOK, Goto, OwnBundle
<1> QED BY <1>1, <1>2, <1>3 DEF Inv

\* A process that ends leaves Inv as it is, also if it has written the
\* configuration on its way out: that names a pod without a process.
LEMMA Ends ==
    ASSUME Inv, NEW p \in Pods, Exit(p),
           config' = config \/ config' = [svc |-> p, ca |-> cert[p]],
           pod' \in [Pods -> Lives], services' \subseteq Pods, faults' \in Nat,
           csr' \in [key : Keys \cup {0}, approved : BOOLEAN, signed : BOOLEAN]
    PROVE  Inv'
<1>1. TypeOK'
  <2>1. config' \in ConfigType
    BY DEF Inv, TypeOK, ConfigType, Pods
  <2>2. NoConfig \in ConfigType
    BY ConstantsAssumption DEF NoConfig, ConfigType
  <2>3. "stopped" \in PCs
    BY DEF PCs
  <2> QED BY <2>1, <2>2, <2>3 DEF Inv, TypeOK, Exit
<1>2. OwnCertificate'
  BY DEF Inv, TypeOK, Exit, OwnCertificate, Certified
<1>3. OwnBundle'
  BY DEF Inv, TypeOK, Exit, OwnBundle, Configured
<1> QED BY <1>1, <1>2, <1>3 DEF Inv

\* What a call does to the counter of faults.
LEMMA CallCounts ==
    ASSUME TypeOK, NEW o, Call(o)
    PROVE  faults' \in Nat
BY DEF TypeOK, Call

\* The certificate that a process waits for is for its own key.
LEMMA WaitKeepsInv ==
    ASSUME Inv, NEW p \in Pods, NEW o \in Outcomes, WaitForSignedCertificate(p, o)
    PROVE  Inv'
<1>0. faults' \in Nat
  BY CallCounts DEF Inv, WaitForSignedCertificate
<1>1. CASE Exit(p)
  BY <1>0, <1>1, Ends DEF Inv, TypeOK, WaitForSignedCertificate, objects
<1>2. CASE /\ IsMine(p)
           /\ cert' = [cert EXCEPT ![p] = csr.key]
           /\ pc' = [pc EXCEPT ![p] = "getConfig"]
           /\ UNCHANGED <<key, cancelled, seen, pod, objects>>
  <2>1. TypeOK'
    BY <1>0, <1>2 DEF Inv, TypeOK, PCs, objects
  <2>2. OwnCertificate'
    BY <1>2 DEF Inv, TypeOK, OwnCertificate, IsMine
  <2>3. OwnBundle'
    BY <1>2 DEF Inv, TypeOK, OwnBundle, Configured, objects
  <2> QED BY <2>1, <2>2, <2>3 DEF Inv
<1> QED BY <1>1, <1>2 DEF WaitForSignedCertificate

\* A written configuration names the pod and the certificate of its writer.
LEMMA WriteKeepsInv ==
    ASSUME Inv, NEW p \in Pods, NEW o \in Outcomes, WriteConfiguration(p, o)
    PROVE  Inv'
<1>0. faults' \in Nat
  BY CallCounts DEF Inv, WriteConfiguration
<1>1. CASE Exit(p)
  BY <1>0, <1>1, Ends
     DEF Inv, TypeOK, WriteConfiguration, ModifyWebhookConfiguration
<1>2. CASE /\ Goto(p, "createService")
           /\ config' = [svc |-> p, ca |-> cert[p]]
  <2>1. TypeOK'
    <3>1. config' \in ConfigType
      BY <1>2 DEF Inv, TypeOK, ConfigType, Pods
    <3> QED BY <1>0, <1>2, <3>1 DEF Inv, TypeOK, Goto, PCs, WriteConfiguration
  <2>2. OwnCertificate'
    BY <1>2 DEF Inv, TypeOK, OwnCertificate, Goto, Certified, WriteConfiguration
  <2>3. OwnBundle'
    BY <1>2 DEF Inv, TypeOK, OwnBundle, Goto
  <2> QED BY <2>1, <2>2, <2>3 DEF Inv
<1> QED BY <1>1, <1>2 DEF WriteConfiguration, ModifyWebhookConfiguration

\* Every step of a process keeps Inv: it moves on, ends, or is one of the above.
LEMMA RunKeepsInv ==
    ASSUME Inv, NEW p \in Pods, Run(p)
    PROVE  Inv'
<1> USE DEF Certified, Configured
<1>t. TypeOK
  BY DEF Inv
<1>1. CASE StartServer(p)
  <2>1. "serve" \in PCs
    BY DEF PCs
  <2> QED BY <1>1, <1>t, <2>1, MovesOn, Ends DEF StartServer, TypeOK, objects
<1>2. CASE Shutdown(p)
  BY <1>2, <1>t, Ends DEF Shutdown, TypeOK, objects
<1>3. ASSUME NEW o \in Outcomes, NewWebhook(p, o)
      PROVE  Inv'
  <2>0. faults' \in Nat
    BY <1>3, <1>t, CallCounts DEF NewWebhook
  <2>1. CASE Exit(p)
    BY <1>3, <1>t, <2>0, <2>1, Ends DEF NewWebhook, TypeOK, objects
  <2>2. CASE o = "ok"
    <3>1. PICK k \in Keys : key' = [key EXCEPT ![p] = k]
      BY <1>3, <2>2 DEF NewWebhook
    <3>2. pc' = [pc EXCEPT ![p] = "deleteCsr"] /\ UNCHANGED <<cert, cancelled, seen>>
      BY <1>3, <2>2 DEF NewWebhook
    <3>3. UNCHANGED <<pod, csr, config, services>>
      BY <1>3 DEF NewWebhook, objects
    <3>4. TypeOK'
      BY <1>t, <2>0, <3>1, <3>2, <3>3 DEF TypeOK, PCs
    <3>5. OwnCertificate'
      BY <1>t, <3>1, <3>2, <3>3 DEF Inv, OwnCertificate, TypeOK
    <3>6. OwnBundle'
      BY <1>t, <3>1, <3>2, <3>3 DEF Inv, OwnBundle, TypeOK
    <3> QED BY <3>4, <3>5, <3>6 DEF Inv
  <2> QED BY <1>3, <2>1, <2>2 DEF NewWebhook
<1>4. ASSUME NEW o \in Outcomes, DeleteCertificateSigningRequest(p, o)
      PROVE  Inv'
  <2>1. faults' \in Nat
    BY <1>4, <1>t, CallCounts DEF DeleteCertificateSigningRequest
  <2>2. csr' \in [key : Keys \cup {0}, approved : BOOLEAN, signed : BOOLEAN]
    BY <1>4, <1>t DEF DeleteCertificateSigningRequest, TypeOK, NoCsr
  <2>3. "createCsr" \in PCs
    BY DEF PCs
  <2> QED BY <1>4, <1>t, <2>1, <2>2, <2>3, MovesOn, Ends
          DEF DeleteCertificateSigningRequest, TypeOK
<1>5. ASSUME NEW o \in Outcomes, CreateCertificateSigningRequest(p, o)
      PROVE  Inv'
  <2>1. faults' \in Nat
    BY <1>5, <1>t, CallCounts DEF CreateCertificateSigningRequest
  <2>2. csr' \in [key : Keys \cup {0}, approved : BOOLEAN, signed : BOOLEAN]
    BY <1>5, <1>t DEF CreateCertificateSigningRequest, TypeOK, NoCsr
  <2>3. "approve" \in PCs
    BY DEF PCs
  <2> QED BY <1>5, <1>t, <2>1, <2>2, <2>3, MovesOn, Ends
          DEF CreateCertificateSigningRequest, TypeOK
<1>6. ASSUME NEW o \in Outcomes, ApproveCertificateSigningRequest(p, o)
      PROVE  Inv'
  <2>1. faults' \in Nat
    BY <1>6, <1>t, CallCounts DEF ApproveCertificateSigningRequest
  <2>2. csr' \in [key : Keys \cup {0}, approved : BOOLEAN, signed : BOOLEAN]
    BY <1>6, <1>t DEF ApproveCertificateSigningRequest, TypeOK
  <2>3. "await" \in PCs
    BY DEF PCs
  <2> QED BY <1>6, <1>t, <2>1, <2>2, <2>3, MovesOn, Ends
          DEF ApproveCertificateSigningRequest, TypeOK
<1>7. ASSUME NEW o \in Outcomes, GetConfiguration(p, o)
      PROVE  Inv'
  <2>0. faults' \in Nat
    BY <1>7, <1>t, CallCounts DEF GetConfiguration
  <2>1. CASE Exit(p)
    BY <1>7, <1>t, <2>0, <2>1, Ends DEF GetConfiguration, TypeOK, objects
  <2>2. CASE o = "ok"
    <3>1. /\ seen' = [seen EXCEPT ![p] = config]
          /\ pc' = [pc EXCEPT ![p] = "writeConfig"]
          /\ UNCHANGED <<key, cert, cancelled, pod, csr, config, services>>
      BY <1>7, <2>2 DEF GetConfiguration, objects
    <3>2. TypeOK'
      BY <1>t, <2>0, <3>1 DEF TypeOK, PCs
    <3>3. OwnCertificate'
      BY <1>7, <1>t, <3>1 DEF Inv, OwnCertificate, TypeOK, GetConfiguration
    <3>4. OwnBundle'
      BY <1>t, <3>1 DEF Inv, OwnBundle, TypeOK
    <3> QED BY <3>2, <3>3, <3>4 DEF Inv
  <2> QED BY <1>7, <2>1, <2>2 DEF GetConfiguration
<1>8. ASSUME NEW o \in Outcomes, CreateSVCForValidatingWebhookConfiguration(p, o)
      PROVE  Inv'
  <2>1. faults' \in Nat
    BY <1>8, <1>t, CallCounts DEF CreateSVCForValidatingWebhookConfiguration
  <2>2. services' \subseteq Pods
    BY <1>8, <1>t DEF CreateSVCForValidatingWebhookConfiguration, TypeOK
  <2>3. "start" \in PCs
    BY DEF PCs
  <2> QED BY <1>8, <1>t, <2>1, <2>2, <2>3, MovesOn, Ends
          DEF CreateSVCForValidatingWebhookConfiguration, TypeOK
<1> QED BY <1>1, <1>2, <1>3, <1>4, <1>5, <1>6, <1>7, <1>8, WaitKeepsInv, WriteKeepsInv
        DEF Run

\* So does everything that happens to the processes and to what they made.
LEMMA StepKeepsInv ==
    ASSUME Inv, [Next]_vars
    PROVE  Inv'
<1> USE DEF Certified, Configured
<1>t. TypeOK
  BY DEF Inv
<1>1. ASSUME NEW p \in Pods, ManagerFails(p)
      PROVE  Inv'
  BY <1>1, <1>t, CallCounts
     DEF ManagerFails, Inv, TypeOK, OwnCertificate, OwnBundle, objects
<1>2. ASSUME NEW p \in Pods, Crash(p)
      PROVE  Inv'
  <2>1. faults' \in Nat
    BY <1>2, <1>t, CallCounts DEF Crash
  <2> QED BY <1>2, <1>t, <2>1, Ends DEF Crash, TypeOK, objects
<1>3. ASSUME NEW p \in Pods, StartContainer(p)
      PROVE  Inv'
  <2>1. "newWebhook" \in PCs
    BY DEF PCs
  <2> QED BY <1>3, <1>t, <2>1, MovesOn DEF StartContainer, TypeOK, objects
<1>4. ASSUME NEW p \in Pods, Kill(p)
      PROVE  Inv'
  BY <1>4, <1>t, Ends DEF Kill, TypeOK, objects
<1>5. ASSUME NEW p \in Pods, CreatePod(p) \/ PodGone(p) \/ CollectService(p)
      PROVE  Inv'
  <2>1. /\ pod' \in [Pods -> Lives] /\ services' \subseteq Pods
        /\ UNCHANGED <<pc, key, cert, cancelled, seen, csr, config, faults>>
    BY <1>5, <1>t
       DEF CreatePod, PodGone, CollectService, TypeOK, Lives, process, objects
  <2> QED BY <2>1 DEF Inv, TypeOK, OwnCertificate, OwnBundle
<1>6. ASSUME NEW p \in Pods, Terminate(p)
      PROVE  Inv'
  <2>1. /\ pod' \in [Pods -> Lives] /\ cancelled' \in [Pods -> BOOLEAN]
        /\ UNCHANGED <<pc, key, cert, seen, csr, config, services, faults>>
    BY <1>6, <1>t DEF Terminate, TypeOK, Lives, objects
  <2> QED BY <2>1 DEF Inv, TypeOK, OwnCertificate, OwnBundle
<1>7. CASE SignCertificate
  <2>1. /\ csr' \in [key : Keys \cup {0}, approved : BOOLEAN, signed : BOOLEAN]
        /\ UNCHANGED <<pod, pc, key, cert, cancelled, seen, config, services, faults>>
    BY <1>7, <1>t DEF SignCertificate, TypeOK, process
  <2> QED BY <2>1 DEF Inv, TypeOK, OwnCertificate, OwnBundle
<1>8. CASE UNCHANGED vars
  BY <1>8 DEF vars, Inv, TypeOK, OwnCertificate, OwnBundle
<1> QED BY <1>1, <1>2, <1>3, <1>4, <1>5, <1>6, <1>7, <1>8, RunKeepsInv DEF Next

\* A process that serves is trusted: with any number of operator pods, of faults and
\* of keys, none of which need be fresh, a certificate is loaded only if it is for
\* the process's own key (WaitForCertificate and X509KeyPair), and the configuration
\* that names a pod holds the certificate of the process that wrote it, which no
\* later process of the pod can inherit.
THEOREM Trusted == Spec => []ServedIsTrusted
<1>1. Init => Inv
  BY ConstantsAssumption
     DEF Init, Inv, TypeOK, OwnCertificate, OwnBundle, Certified, Configured, Pods,
         Lives, PCs, NoCsr, NoConfig, ConfigType
<1>2. Inv /\ [Next]_vars => Inv'
  BY StepKeepsInv
<1>3. Inv => ServedIsTrusted
  BY DEF Inv, OwnCertificate, OwnBundle, Certified, Configured, ServedIsTrusted
<1> QED BY <1>1, <1>2, <1>3, PTL DEF Spec
=============================================================================
