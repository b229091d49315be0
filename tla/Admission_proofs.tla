--------------------------- MODULE Admission_proofs ---------------------------
(***************************************************************************)
(* What the webhook admits fits the data on the claims, for any names and  *)
(* specifications and any number of deployments.                           *)
(*                                                                         *)
(* The webhook sees claims, not data: their number stands for the shape of *)
(* the database, and one of them for the size of all.  That is right       *)
(* because a deployment that was admitted over some claims can only add    *)
(* claims that agree with them.                                            *)
(***************************************************************************)
EXTENDS Admission, FiniteSetTheorems, FunctionTheorems, TLAPS

\* The specification asks for a standby, in whatever spelling.
WantsStandby(spec) == ToLower(spec.standby) = "yes"

ClaimType == [name : Names, type : Types, index : Nat, storage : Storage,
              labelled : BOOLEAN]

ClusterRecords == [exists : BOOLEAN, spec : SpecType, finalizer : BOOLEAN,
                   phase : {"unset", "Pending", "Running"}]

DataType == [init : BOOLEAN, segs : Nat, standby : Switch, schema : BOOLEAN]

JobType == job \in [Names -> [status : {"none", "running", "succeeded", "failed"},
                             count : Nat, owned : BOOLEAN]]

StateType ==
    /\ cluster \in [Names -> [exists : BOOLEAN, spec : SpecType,
                              finalizer : BOOLEAN,
                              phase : {"unset", "Pending", "Running"}]]
    /\ request \in [Names -> [op : {"none", "create", "update"}, spec : SpecType]]
    /\ sset \in [name : Names \cup {"unset"}, spec : SpecType]
    /\ pvcs \subseteq ClaimType
    /\ data \in [Names -> DataType]

Has(n, t, i) == \E p \in pvcs : p.name = n /\ p.type = t /\ p.index = i

\* There is one claim per pod, and a second master's comes after the first's.
Ordinals ==
    /\ \A p, q \in pvcs : /\ p.name = q.name /\ p.type = q.type /\ p.index = q.index
                          => p = q
    /\ \A p \in pvcs : p.type = "master" => p.index \in {0, 1}
    /\ \A n \in Names : Has(n, "master", 1) => Has(n, "master", 0)

\* One claim tells the size of all of its type.
SameSize ==
    \A p, q \in pvcs : p.name = q.name /\ p.type = q.type /\ p.type # "segment-b"
                          => p.storage = q.storage

\* The database has its claims, and no standby's claim without a standby (unless it
\* was initialised with "Yes": then there may be one).
OnClaims ==
    \A n \in Names : data[n].init =>
        /\ Has(n, "master", 0)
        /\ data[n].standby = "yes" => Has(n, "master", 1)
        /\ Has(n, "master", 1) => data[n].standby \in {"yes", "Yes"}
        /\ \A i \in 0 .. data[n].segs - 1 : Has(n, "segment-a", i)

\* The database has a standby if and only if the specification asks for one.
StandbyFits(d, spec) == d.standby # "Yes" => (d.standby = "yes" <=> WantsStandby(spec))

\* A deployment of this specification adds claims that agree with those there are.
Fits(n, spec) ==
    /\ \A p \in pvcs : p.name = n /\ p.type # "segment-b" => p.storage = spec.storage
    /\ Has(n, "master", 1) => WantsStandby(spec)
    /\ data[n].init => StandbyFits(data[n], spec)

Enough(n, spec) == data[n].init => data[n].segs <= spec.count

\* What an update may change.
Follows(new, old) == /\ WantsStandby(new) <=> WantsStandby(old)
                     /\ new.storage = old.storage /\ new.count >= old.count

\* The StatefulSets may outlive their cluster, and go on making claims.
SetsFit == \A n \in Names : sset.name = n => Fits(n, sset.spec)

ClustersFit ==
    \A n \in Names :
        /\ cluster[n].finalizer \/ cluster[n].phase # "unset" => cluster[n].exists
        /\ cluster[n].exists =>
              /\ Fits(n, cluster[n].spec) /\ Enough(n, cluster[n].spec)
              /\ sset.name = n => Follows(cluster[n].spec, sset.spec)

\* An admitted request still fits when it is stored.
RequestsFit ==
    \A n \in Names :
        /\ request[n].op = "create" =>
              /\ ~cluster[n].exists /\ sset.name # n
              /\ Fits(n, request[n].spec) /\ Enough(n, request[n].spec)
        /\ request[n].op = "update" =>
              cluster[n].exists /\ Follows(request[n].spec, cluster[n].spec)

Inv == /\ StateType /\ IsFiniteSet(pvcs) /\ Ordinals /\ SameSize /\ OnClaims
       /\ SetsFit /\ ClustersFit /\ RequestsFit

\* The records a state is made of.
LEMMA RecordTypes ==
    /\ NoSpec \in SpecType
    /\ NoCluster \in [exists : BOOLEAN, spec : SpecType, finalizer : BOOLEAN,
                      phase : {"unset", "Pending", "Running"}]
    /\ NoRequest \in [op : {"none", "create", "update"}, spec : SpecType]
    /\ NoData \in DataType
    /\ ~NoCluster.exists /\ ~NoCluster.finalizer /\ NoCluster.phase = "unset"
    /\ NoRequest.op = "none"
    /\ ~NoData.init
<1>1. NoSpec \in SpecType
  BY DEF NoSpec, SpecType, Switch, Storage
<1> QED BY <1>1 DEF NoCluster, NoRequest, NoData, DataType, Switch

\* Defaulting leaves alone what Fits and Enough look at.
LEMMA DefaultsKeep ==
    ASSUME NEW spec \in SpecType
    PROVE  LET s == SetDefaultGreenplumClusterValues(spec) IN
           /\ s \in SpecType /\ (WantsStandby(s) <=> WantsStandby(spec))
           /\ WantsStandby(spec) <=> s.standby = "yes"
           /\ s.storage = spec.storage /\ s.count = spec.count
BY DEF SpecType, SetDefaultGreenplumClusterValues, ToLower, Switch, WantsStandby

\* An empty namespace.
LEMMA InitHolds == Init => Inv
<1> SUFFICES ASSUME Init PROVE Inv
  OBVIOUS
<1>1. StateType
  BY RecordTypes DEF Init, StateType
<1>2. IsFiniteSet(pvcs)
  BY FS_EmptySet DEF Init
<1>3. Ordinals /\ SameSize /\ OnClaims /\ SetsFit /\ ClustersFit /\ RequestsFit
  BY RecordTypes, ConstantsAssumption
     DEF Init, Ordinals, SameSize, OnClaims, SetsFit, ClustersFit, RequestsFit, Has
<1> QED BY <1>1, <1>2, <1>3 DEF Inv

\* Requests and status patches leave the claims and the data alone.
LEMMA OnlyObjects ==
    ASSUME Inv, UNCHANGED <<sset, pvcs, data>>
    PROVE  IsFiniteSet(pvcs)' /\ Ordinals' /\ SameSize' /\ OnClaims' /\ SetsFit'
BY DEF Inv, Ordinals, SameSize, OnClaims, SetsFit, Fits, Has

\* The masters' claims tell whether there is a standby.
LEMMA MastersCounted ==
    ASSUME Inv, NEW n \in Names
    PROVE  LET M == getGreenplumPVCs(n, "master") IN
           /\ Has(n, "master", 1) => Cardinality(M) = 2
           /\ Has(n, "master", 0) /\ ~Has(n, "master", 1) => Cardinality(M) = 1
<1> DEFINE M == getGreenplumPVCs(n, "master")
<1>1. \A p : p \in M <=> p \in pvcs /\ p.name = n /\ p.type = "master"
  BY DEF getGreenplumPVCs
<1> HIDE DEF M
<1>2. \A p \in M : p.index \in {0, 1}
  BY <1>1 DEF Inv, Ordinals
<1>3. \A p, q \in M : p.index = q.index => p = q
  BY <1>1 DEF Inv, Ordinals
<1>4. ASSUME Has(n, "master", 1) PROVE Cardinality(M) = 2
  <2>1. Has(n, "master", 0)
    BY <1>4 DEF Inv, Ordinals
  <2>2. PICK p \in M : p.index = 0
    BY <1>1, <2>1 DEF Has
  <2>3. PICK q \in M : q.index = 1
    BY <1>1, <1>4 DEF Has
  <2>4. M = {p, q} /\ p # q
    BY <1>2, <1>3, <2>2, <2>3
  <2>5. IsFiniteSet({p}) /\ Cardinality({p}) = 1
    BY FS_Singleton
  <2>6. Cardinality({p} \cup {q}) = 2
    BY <2>4, <2>5, FS_AddElement
  <2>7. M = {p} \cup {q}
    BY <2>4
  <2> QED BY <2>6, <2>7
<1>5. ASSUME Has(n, "master", 0), ~Has(n, "master", 1) PROVE Cardinality(M) = 1
  <2>1. PICK p \in M : p.index = 0
    BY <1>1, <1>5 DEF Has
  <2>2. \A q \in M : q.index # 1
    BY <1>1, <1>5 DEF Has
  <2>3. M = {p}
    BY <1>2, <1>3, <2>1, <2>2
  <2> QED BY <2>3, FS_Singleton
<1> QED BY <1>4, <1>5 DEF M

\* There are at least as many claims of primaries as segments in the database.
LEMMA PrimariesCounted ==
    ASSUME Inv, NEW n \in Names, data[n].init
    PROVE  /\ data[n].segs <= Cardinality(getGreenplumPVCs(n, "segment-a"))
           /\ Cardinality(getGreenplumPVCs(n, "segment-a")) \in Nat
<1> DEFINE A == getGreenplumPVCs(n, "segment-a")
           D == 0 .. data[n].segs - 1
           f == [p \in A |-> IF p.index \in D THEN p.index ELSE 0]
<1>1. data[n].segs \in Nat
  BY DEF Inv, StateType, DataType
<1>2. \A p : p \in A <=> p \in pvcs /\ p.name = n /\ p.type = "segment-a"
  BY DEF getGreenplumPVCs
<1> HIDE DEF A
<1>3. IsFiniteSet(A) /\ Cardinality(A) \in Nat
  <2>1. A \in SUBSET pvcs
    BY <1>2
  <2>2. IsFiniteSet(A)
    BY <2>1, FS_Subset DEF Inv
  <2> QED BY <2>2, FS_CardinalityType
<1>4. CASE data[n].segs = 0
  BY <1>3, <1>4 DEF A
<1>5. CASE data[n].segs > 0
  <2>1. f \in [A -> D]
    BY <1>1, <1>5
  <2>2. ASSUME NEW i \in D PROVE \E p \in A : f[p] = i
    <3>1. PICK p \in pvcs : p.name = n /\ p.type = "segment-a" /\ p.index = i
      BY DEF Inv, OnClaims, Has
    <3>2. p \in A /\ f[p] = i
      BY <1>2, <3>1
    <3> QED BY <3>2
  <2> HIDE DEF f
  <2>3. f \in Surjection(A, D)
    BY <2>1, <2>2 DEF Surjection
  <2> HIDE DEF D
  <2>4. Cardinality(D) <= Cardinality(A)
    BY <1>3, <2>3, FS_Surjection
  <2>5. Cardinality(D) = data[n].segs
    <3>1. 0 \in Int /\ data[n].segs - 1 \in Int
      BY <1>1
    <3>2. Cardinality(0 .. data[n].segs - 1)
             = IF 0 > data[n].segs - 1 THEN 0 ELSE (data[n].segs - 1) - 0 + 1
      BY <3>1, FS_Interval
    <3> QED BY <1>1, <1>5, <3>2 DEF D
  <2> QED BY <1>3, <2>4, <2>5 DEF A
<1> QED BY <1>1, <1>4, <1>5

\* The webhook admits only what fits.
LEMMA AdmittedFits ==
    ASSUME Inv, NEW n \in Names, NEW spec \in SpecType,
           validateCreateGreenplumCluster(n, spec)
    PROVE  Fits(n, spec) /\ Enough(n, spec)
<1> DEFINE s == SetDefaultGreenplumClusterValues(spec)
<1>1. /\ validateGreenplumStorageFromPVCs(n, s) /\ validateStandby(n, s)
      /\ validatePrimarySegmentCount(n, s)
  BY DEF validateCreateGreenplumCluster
<1>2. /\ s \in SpecType /\ (WantsStandby(spec) <=> s.standby = "yes")
      /\ s.storage = spec.storage /\ s.count = spec.count
  BY DefaultsKeep
<1> HIDE DEF s
<1>3. ASSUME NEW p \in pvcs, p.name = n, p.type # "segment-b"
      PROVE  p.storage = spec.storage
  <2>1. p.type \in {"master", "segment-a"}
    BY <1>3 DEF Inv, StateType, ClaimType, Types
  <2>2. p \in getGreenplumPVCs(n, p.type)
    BY <1>3 DEF getGreenplumPVCs
  <2>3. PICK q \in getGreenplumPVCs(n, p.type) : q.storage = spec.storage
    BY <1>1, <1>2, <2>1, <2>2 DEF validateGreenplumStorageFromPVCs
  <2>4. q \in pvcs /\ q.name = p.name /\ q.type = p.type
    BY <1>3 DEF getGreenplumPVCs
  <2> QED BY <1>3, <2>3, <2>4 DEF Inv, SameSize
<1>4. (Has(n, "master", 1) => WantsStandby(spec))
      /\ (Has(n, "master", 0) /\ ~Has(n, "master", 1) => ~WantsStandby(spec))
  BY <1>1, <1>2, MastersCounted DEF validateStandby
<1>5. data[n].init => StandbyFits(data[n], spec)
  BY <1>4 DEF Inv, OnClaims, StandbyFits
<1>6. Enough(n, spec)
  <2>1. SUFFICES ASSUME data[n].init PROVE data[n].segs <= spec.count
    BY DEF Enough
  <2>2. data[n].segs \in Nat /\ spec.count \in Nat
    BY DEF Inv, StateType, SpecType, DataType
  <2> QED BY <1>1, <1>2, <2>1, <2>2, PrimariesCounted DEF validatePrimarySegmentCount
<1> QED BY <1>3, <1>4, <1>5, <1>6 DEF Fits

\* A request or a status patch for n: what is to be shown of n alone.
LEMMA ObjectsStep ==
    ASSUME Inv, StateType', UNCHANGED <<sset, pvcs, data>>, NEW n \in Names,
           \A m \in Names \ {n} : cluster'[m] = cluster[m] /\ request'[m] = request[m],
           cluster'[n].finalizer \/ cluster'[n].phase # "unset" => cluster'[n].exists,
           cluster'[n].exists =>
               /\ Fits(n, cluster'[n].spec) /\ Enough(n, cluster'[n].spec)
               /\ sset.name = n => Follows(cluster'[n].spec, sset.spec),
           request'[n].op = "create" =>
               /\ ~cluster'[n].exists /\ sset.name # n
               /\ Fits(n, request'[n].spec) /\ Enough(n, request'[n].spec),
           request'[n].op = "update" =>
               cluster'[n].exists /\ Follows(request'[n].spec, cluster'[n].spec)
    PROVE  Inv'
<1>1. ClustersFit'
  <2> SUFFICES ASSUME NEW m \in Names
               PROVE  /\ cluster'[m].finalizer \/ cluster'[m].phase # "unset"
                            => cluster'[m].exists
                      /\ cluster'[m].exists =>
                            /\ Fits(m, cluster[m].spec)' /\ Enough(m, cluster[m].spec)'
                            /\ sset'.name = m => Follows(cluster'[m].spec, sset'.spec)
    BY DEF ClustersFit, Follows
  <2>1. CASE m = n
    BY <2>1 DEF Fits, Enough, Has
  <2>2. CASE m # n
    BY <2>2 DEF Inv, ClustersFit, Fits, Enough, Has
  <2> QED BY <2>1, <2>2
<1>2. RequestsFit'
  <2> SUFFICES ASSUME NEW m \in Names
               PROVE  /\ request'[m].op = "create" =>
                            /\ ~cluster'[m].exists /\ sset'.name # m
                            /\ Fits(m, request[m].spec)' /\ Enough(m, request[m].spec)'
                      /\ request'[m].op = "update" =>
                            /\ cluster'[m].exists
                            /\ Follows(request'[m].spec, cluster'[m].spec)
    BY DEF RequestsFit, Follows
  <2>1. CASE m = n
    BY <2>1 DEF Fits, Enough, Has
  <2>2. CASE m # n
    BY <2>2 DEF Inv, RequestsFit, Fits, Enough, Has
  <2> QED BY <2>1, <2>2
<1> QED BY <1>1, <1>2, OnlyObjects DEF Inv

\* The specifications, clusters and requests of a state.
LEMMA ObjectTypes ==
    ASSUME StateType, NEW n \in Names
    PROVE  /\ cluster[n] \in [exists : BOOLEAN, spec : SpecType, finalizer : BOOLEAN,
                              phase : {"unset", "Pending", "Running"}]
           /\ request[n] \in [op : {"none", "create", "update"}, spec : SpecType]
           /\ cluster[n].spec \in SpecType /\ request[n].spec \in SpecType
           /\ sset.spec \in SpecType
BY DEF StateType

LEMMA FollowsTransitive ==
    ASSUME NEW a \in SpecType, NEW b \in SpecType, NEW c \in SpecType,
           Follows(a, b), Follows(b, c)
    PROVE  Follows(a, c)
BY DEF Follows, SpecType

\* A specification that follows one that fits, fits.
LEMMA FollowsFits ==
    ASSUME StateType, NEW n \in Names, NEW a \in SpecType, NEW b \in SpecType,
           Follows(a, b), Fits(n, b), Enough(n, b)
    PROVE  Fits(n, a) /\ Enough(n, a)
<1>1. Fits(n, a)
  BY DEF Follows, Fits, StandbyFits
<1>2. data[n].segs \in Nat /\ a.count \in Nat /\ b.count \in Nat
  BY DEF StateType, SpecType, DataType
<1>3. Enough(n, a)
  BY <1>2 DEF Follows, Enough
<1> QED BY <1>1, <1>3

\* Creations.
LEMMA CreateKeeps ==
    ASSUME PatientUser, Inv, NEW n \in Names,
           (\E spec \in Specs : AdmitCreate(n, spec)) \/ StoreCreate(n)
    PROVE  Inv'
<1>1. ASSUME NEW spec \in Specs, AdmitCreate(n, spec) PROVE Inv'
  <2>1. spec \in SpecType
    BY ConstantsAssumption
  <2>2. Fits(n, spec) /\ Enough(n, spec)
    BY <1>1, <2>1, AdmittedFits DEF AdmitCreate
  <2>3. /\ request' = [request EXCEPT ![n] = [op |-> "create", spec |-> spec]]
        /\ ~cluster[n].exists /\ sset.name # n
        /\ UNCHANGED <<cluster, sset, pvcs, data>>
    BY <1>1 DEF AdmitCreate
  <2>4. request'[n] = [op |-> "create", spec |-> spec]
        /\ \A m \in Names \ {n} : request'[m] = request[m]
    BY <2>3 DEF Inv, StateType
  <2>5. StateType'
    BY <2>1, <2>3 DEF Inv, StateType
  <2>6. cluster'[n].finalizer \/ cluster'[n].phase # "unset" => cluster'[n].exists
    BY <2>3 DEF Inv, ClustersFit
  <2> QED BY <2>2, <2>3, <2>4, <2>5, <2>6, ObjectsStep
<1>2. ASSUME StoreCreate(n) PROVE Inv'
  <2> DEFINE new == [NoCluster EXCEPT !.exists = TRUE, !.spec = request[n].spec]
  <2>1. /\ new.exists /\ ~new.finalizer /\ new.spec = request[n].spec
        /\ new \in [exists : BOOLEAN, spec : SpecType, finalizer : BOOLEAN,
                    phase : {"unset", "Pending", "Running"}]
    BY ObjectTypes DEF NoCluster, Inv
  <2>2. /\ cluster' = [cluster EXCEPT ![n] = new]
        /\ request' = [request EXCEPT ![n] = NoRequest]
        /\ request[n].op = "create" /\ UNCHANGED <<sset, pvcs, data>>
    BY <1>2 DEF StoreCreate
  <2> HIDE DEF new
  <2>3. cluster'[n] = new /\ request'[n] = NoRequest
        /\ \A m \in Names \ {n} : cluster'[m] = cluster[m] /\ request'[m] = request[m]
    BY <2>2 DEF Inv, StateType
  <2>4. StateType'
    BY <2>1, <2>2, RecordTypes DEF Inv, StateType
  <2>5. sset.name # n /\ Fits(n, new.spec) /\ Enough(n, new.spec)
    BY <2>1, <2>2 DEF Inv, RequestsFit
  <2> QED BY <2>1, <2>2, <2>3, <2>4, <2>5, ObjectsStep, RecordTypes
<1> QED BY <1>1, <1>2

\* An update that was admitted for n is void when its cluster changes.
LEMMA VoidIs ==
    ASSUME StateType, NEW n \in Names, Void(n)
    PROVE  /\ request'[n] = IF request[n].op = "update" THEN NoRequest ELSE request[n]
           /\ \A m \in Names \ {n} : request'[m] = request[m]
           /\ request' \in [Names -> [op : {"none", "create", "update"},
                                      spec : SpecType]]
BY RecordTypes DEF StateType, Void

\* Another record in the place of a cluster's, and its request answered.
LEMMA ClusterPut ==
    ASSUME StateType, NEW n \in Names, NEW new \in ClusterRecords,
           cluster' = [cluster EXCEPT ![n] = new], Void(n), UNCHANGED <<sset, pvcs, data>>
    PROVE  /\ cluster'[n] = new /\ \A m \in Names \ {n} : cluster'[m] = cluster[m]
           /\ StateType'
<1>1. cluster \in [Names -> ClusterRecords]
  BY DEF StateType, ClusterRecords
<1>2. /\ cluster'[n] = new /\ \A m \in Names \ {n} : cluster'[m] = cluster[m]
      /\ cluster' \in [Names -> ClusterRecords]
  BY <1>1
<1> QED BY <1>2, VoidIs DEF StateType, ClusterRecords

\* Updates and deletions.
LEMMA UpdateKeeps ==
    ASSUME Inv, NEW n \in Names,
           (\E spec \in Specs : AdmitUpdate(n, spec)) \/ StoreUpdate(n) \/ Delete(n)
    PROVE  Inv'
<1>1. ASSUME NEW spec \in Specs, AdmitUpdate(n, spec) PROVE Inv'
  <2>1. spec \in SpecType
    BY ConstantsAssumption
  <2>2. /\ request' = [request EXCEPT ![n] = [op |-> "update", spec |-> spec]]
        /\ cluster[n].exists /\ UNCHANGED <<cluster, sset, pvcs, data>>
    BY <1>1 DEF AdmitUpdate
  <2>3. Follows(spec, cluster[n].spec)
    BY <1>1 DEF AdmitUpdate, validateUpdateGreenplumCluster, SameStruct, Follows,
       WantsStandby
  <2>4. request'[n] = [op |-> "update", spec |-> spec]
        /\ \A m \in Names \ {n} : request'[m] = request[m]
    BY <2>2 DEF Inv, StateType
  <2>5. StateType'
    BY <2>1, <2>2 DEF Inv, StateType
  <2>6. /\ cluster'[n] = cluster[n]
        /\ Fits(n, cluster[n].spec) /\ Enough(n, cluster[n].spec)
        /\ sset.name = n => Follows(cluster[n].spec, sset.spec)
    BY <2>2 DEF Inv, ClustersFit
  <2> QED BY <2>2, <2>3, <2>4, <2>5, <2>6, ObjectsStep
<1>2. ASSUME StoreUpdate(n) PROVE Inv'
  <2>1. /\ cluster' = [cluster EXCEPT ![n].spec = request[n].spec]
        /\ request[n].op = "update" /\ Void(n) /\ UNCHANGED <<sset, pvcs, data>>
    BY <1>2 DEF StoreUpdate
  <2>2. cluster[n].exists /\ Follows(request[n].spec, cluster[n].spec)
    BY <2>1 DEF Inv, RequestsFit
  <2> DEFINE new == [cluster[n] EXCEPT !.spec = request[n].spec]
  <2>3. /\ new \in ClusterRecords
        /\ new.spec = request[n].spec /\ new.exists
    BY <2>2, ObjectTypes DEF Inv, ClusterRecords
  <2>4. cluster' = [cluster EXCEPT ![n] = new]
    BY <2>1
  <2> HIDE DEF new
  <2>5. /\ cluster'[n] = new /\ \A m \in Names \ {n} : cluster'[m] = cluster[m]
        /\ StateType'
    BY <2>1, <2>3, <2>4, ClusterPut DEF Inv
  <2>6. request'[n].op = "none" /\ \A m \in Names \ {n} : request'[m] = request[m]
    BY <2>1, VoidIs, RecordTypes DEF Inv
  <2>7. /\ Fits(n, cluster[n].spec) /\ Enough(n, cluster[n].spec)
        /\ sset.name = n => Follows(cluster[n].spec, sset.spec)
    BY <2>2 DEF Inv, ClustersFit
  <2>8. /\ Fits(n, request[n].spec) /\ Enough(n, request[n].spec)
        /\ sset.name = n => Follows(request[n].spec, sset.spec)
    BY <2>2, <2>7, FollowsFits, FollowsTransitive, ObjectTypes DEF Inv
  <2> QED BY <2>1, <2>3, <2>5, <2>6, <2>8, ObjectsStep
<1>3. ASSUME Delete(n) PROVE Inv'
  <2>1. /\ cluster' = [cluster EXCEPT ![n] = NoCluster]
        /\ cluster[n].exists /\ Void(n) /\ UNCHANGED <<sset, pvcs, data>>
    BY <1>3 DEF Delete
  <2>2. cluster'[n] = NoCluster /\ \A m \in Names \ {n} : cluster'[m] = cluster[m]
    BY <2>1 DEF Inv, StateType
  <2>3. StateType'
    BY <2>1, VoidIs, RecordTypes DEF Inv, StateType
  <2>4. request'[n].op = "none" /\ \A m \in Names \ {n} : request'[m] = request[m]
    <3>1. request[n].op # "create" /\ request[n].op \in {"none", "create", "update"}
      BY <2>1, ObjectTypes DEF Inv, RequestsFit
    <3> QED BY <2>1, <3>1, VoidIs, RecordTypes DEF Inv
  <2> QED BY <2>1, <2>2, <2>3, <2>4, RecordTypes, ObjectsStep
<1> QED BY <1>1, <1>2, <1>3

\* The operator's patches of the finalizer and of the phase.
LEMMA PatchKeeps ==
    ASSUME Inv, NEW n \in Names, AddFinalizer(n) \/ ReconcileStatus(n) \/ SetRunning(n)
    PROVE  Inv'
<1>1. PICK new : /\ Patch(n, new) /\ cluster[n].exists
                 /\ \/ new = [cluster[n] EXCEPT !.finalizer = TRUE]
                    \/ new = [cluster[n] EXCEPT !.phase = "Pending"]
                    \/ new = [cluster[n] EXCEPT !.phase = "Running"]
  BY DEF AddFinalizer, ReconcileStatus, SetRunning, Inv, ClustersFit
<1>2. /\ new \in ClusterRecords /\ new.spec = cluster[n].spec /\ new.exists
      /\ cluster' = [cluster EXCEPT ![n] = new]
      /\ Void(n) /\ UNCHANGED <<sset, pvcs, data>>
  BY <1>1, ObjectTypes DEF Inv, ClusterRecords, Patch
<1>3. /\ cluster'[n] = new /\ \A m \in Names \ {n} : cluster'[m] = cluster[m]
      /\ StateType'
  BY <1>1, <1>2, ClusterPut DEF Inv
<1>4. request'[n].op = "none" /\ \A m \in Names \ {n} : request'[m] = request[m]
  <2>1. request[n].op # "create" /\ request[n].op \in {"none", "create", "update"}
    BY <1>1, ObjectTypes DEF Inv, RequestsFit
  <2> QED BY <1>2, <2>1, VoidIs, RecordTypes DEF Inv
<1>5. /\ Fits(n, cluster[n].spec) /\ Enough(n, cluster[n].spec)
      /\ sset.name = n => Follows(cluster[n].spec, sset.spec)
  BY <1>1 DEF Inv, ClustersFit
<1> QED BY <1>1, <1>2, <1>3, <1>4, <1>5, ObjectsStep

\* StatefulSets are made for a cluster that fits, or go.
LEMMA SetsKeep ==
    ASSUME Inv,
           \/ \E n \in Names : \E spec \in LocalSpecs(n) : CreateStatefulSets(n, spec)
           \/ CollectStatefulSets
    PROVE  Inv'
<1>1. ASSUME NEW n \in Names, NEW spec \in LocalSpecs(n), CreateStatefulSets(n, spec)
      PROVE  Inv'
  <2>1. /\ sset' = [name |-> n, spec |-> spec] /\ sset.name \in {"unset", n}
        /\ cluster[n].finalizer /\ UNCHANGED <<cluster, request, pvcs, data>>
    BY <1>1 DEF CreateStatefulSets
  <2>2. /\ cluster[n].exists /\ Fits(n, cluster[n].spec)
        /\ cluster[n].spec \in SpecType
    BY <2>1, ObjectTypes DEF Inv, ClustersFit
  <2>3. /\ spec \in SpecType /\ (WantsStandby(spec) <=> WantsStandby(cluster[n].spec))
        /\ spec.storage = cluster[n].spec.storage /\ spec.count = cluster[n].spec.count
    BY <2>2, DefaultsKeep DEF LocalSpecs
  <2>4. StateType'
    BY <2>1, <2>3 DEF Inv, StateType
  <2>5. IsFiniteSet(pvcs)' /\ Ordinals' /\ SameSize' /\ OnClaims'
    BY <2>1 DEF Inv, Ordinals, SameSize, OnClaims, Has
  <2>6. Fits(n, spec) /\ Follows(cluster[n].spec, spec)
    BY <2>2, <2>3 DEF Fits, Follows, SpecType, StandbyFits
  <2>7. SetsFit'
    BY <2>1, <2>6 DEF SetsFit, Fits, Has
  <2>8. ClustersFit'
    BY <2>1, <2>6 DEF Inv, ClustersFit, Fits, Enough, Has, Follows
  <2>9. RequestsFit'
    BY <2>1, <2>2 DEF Inv, RequestsFit, Fits, Enough, Has, Follows
  <2> QED BY <2>4, <2>5, <2>7, <2>8, <2>9 DEF Inv
<1>2. ASSUME CollectStatefulSets PROVE Inv'
  <2>1. /\ sset' = [name |-> "unset", spec |-> NoSpec]
        /\ UNCHANGED <<cluster, request, pvcs, data>> /\ "unset" \notin Names
    BY <1>2, ConstantsAssumption DEF CollectStatefulSets
  <2>2. StateType'
    BY <2>1, RecordTypes DEF Inv, StateType
  <2>3. IsFiniteSet(pvcs)' /\ Ordinals' /\ SameSize' /\ OnClaims'
    BY <2>1 DEF Inv, Ordinals, SameSize, OnClaims, Has
  <2>4. SetsFit'
    BY <2>1 DEF SetsFit
  <2>5. ClustersFit' /\ RequestsFit'
    BY <2>1 DEF Inv, ClustersFit, RequestsFit, Fits, Enough, Has, Follows
  <2> QED BY <2>2, <2>3, <2>4, <2>5 DEF Inv
<1> QED BY <1>1, <1>2

\* How many pods the StatefulSets have.
LEMMA ReplicasAre ==
    ASSUME StateType
    PROVE  /\ Replicas("master") = IF sset.spec.standby = "yes" THEN 2 ELSE 1
           /\ Replicas("segment-a") = sset.spec.count
           /\ sset.spec.count \in Nat /\ sset.spec.storage \in Storage
           /\ \A t \in Types : Replicas(t) \in Nat
<1>1. sset.spec.count \in Nat /\ sset.spec.storage \in Storage
  BY DEF StateType, SpecType
<1>2. Replicas("master") = IF sset.spec.standby = "yes" THEN 2 ELSE 1
  BY DEF Replicas
<1>3. Replicas("segment-a") = sset.spec.count
  BY DEF Replicas
<1>4. Replicas("segment-b") = IF sset.spec.mirrors = "yes" THEN sset.spec.count ELSE 0
  BY DEF Replicas
<1> QED BY <1>1, <1>2, <1>3, <1>4 DEF Types

\* A claim that is added is the next of its StatefulSet and agrees with the others.
LEMMA CreatePVCKeeps ==
    ASSUME Inv, NEW t \in Types, NEW i \in 0 .. Replicas(t) - 1, CreatePVC(t, i)
    PROVE  Inv'
<1> DEFINE n == sset.name
           c == [name |-> n, type |-> t, index |-> i, storage |-> sset.spec.storage,
                 labelled |-> FALSE]
<1>1. n \in Names /\ i \in Nat /\ i < Replicas(t) /\ sset.spec.storage \in Storage
  BY ReplicasAre DEF CreatePVC, Inv, StateType
<1>2. /\ c.name = n /\ c.type = t /\ c.index = i /\ c.storage = sset.spec.storage
      /\ c \in ClaimType
  BY <1>1 DEF ClaimType
<1>3. pvcs' = pvcs \cup {c} /\ UNCHANGED <<cluster, request, sset, data>>
  BY DEF CreatePVC
<1> HIDE DEF c
<1>4. ~Has(n, t, i)
  BY DEF CreatePVC, Claim, getGreenplumPVCs, Has
<1>5. \A m, u, j : Has(m, u, j)' <=> Has(m, u, j) \/ (m = n /\ u = t /\ j = i)
  BY <1>2, <1>3 DEF Has
<1>6. ASSUME t = "master"
      PROVE  /\ i \in {0, 1}
             /\ i = 1 => WantsStandby(sset.spec) /\ Has(n, "master", 0)
  <2>1. i \in {0, 1} /\ (i = 1 => WantsStandby(sset.spec))
    BY <1>1, <1>6, ReplicasAre DEF Inv, WantsStandby, ToLower
  <2>2. ASSUME i = 1 PROVE Has(n, "master", 0)
    <3>1. Claim(t, 0) # {}
      BY <2>2 DEF CreatePVC
    <3> QED BY <1>6, <3>1 DEF Claim, getGreenplumPVCs, Has
  <2> QED BY <2>1, <2>2
<1>7. Fits(n, sset.spec)
  BY <1>1 DEF Inv, SetsFit
<1>8. StateType'
  BY <1>2, <1>3 DEF Inv, StateType
<1>9. IsFiniteSet(pvcs)'
  BY <1>3, FS_AddElement DEF Inv
<1>10. Ordinals'
  <2>1. ASSUME NEW p \in pvcs', NEW q \in pvcs',
               p.name = q.name, p.type = q.type, p.index = q.index
        PROVE  p = q
    BY <1>2, <1>3, <1>4, <2>1 DEF Inv, Ordinals, Has
  <2>2. \A p \in pvcs' : p.type = "master" => p.index \in {0, 1}
    BY <1>2, <1>3, <1>6 DEF Inv, Ordinals
  <2>3. \A m \in Names : Has(m, "master", 1)' => Has(m, "master", 0)'
    BY <1>5, <1>6 DEF Inv, Ordinals
  <2> QED BY <2>1, <2>2, <2>3 DEF Ordinals
<1>11. SameSize'
  BY <1>2, <1>3, <1>7 DEF Inv, SameSize, Fits
<1>12. OnClaims'
  <2>1. ASSUME NEW m \in Names, data[m].init
        PROVE  /\ Has(m, "master", 0)'
               /\ data[m].standby = "yes" => Has(m, "master", 1)'
               /\ Has(m, "master", 1)' => data[m].standby \in {"yes", "Yes"}
               /\ \A j \in 0 .. data[m].segs - 1 : Has(m, "segment-a", j)'
    <3>1. /\ Has(m, "master", 0) /\ (data[m].standby = "yes" => Has(m, "master", 1))
          /\ Has(m, "master", 1) => data[m].standby \in {"yes", "Yes"}
          /\ \A j \in 0 .. data[m].segs - 1 : Has(m, "segment-a", j)
      BY <2>1 DEF Inv, OnClaims
    <3>2. m = n /\ t = "master" /\ i = 1 => data[m].standby \in {"yes", "Yes"}
      BY <1>6, <1>7, <2>1 DEF Fits, StandbyFits
    <3> QED BY <1>5, <3>1, <3>2
  <2> QED BY <1>3, <2>1 DEF OnClaims
<1>13. ASSUME NEW m \in Names, NEW spec, Fits(m, spec),
              m = n => (WantsStandby(spec) <=> WantsStandby(sset.spec))
                       /\ spec.storage = sset.spec.storage
       PROVE  /\ \A p \in pvcs' : p.name = m /\ p.type # "segment-b"
                                    => p.storage = spec.storage
              /\ Has(m, "master", 1)' => WantsStandby(spec)
              /\ data[m].init => StandbyFits(data[m], spec)
  BY <1>2, <1>3, <1>5, <1>6, <1>13 DEF Fits
<1>14. SetsFit'
  BY <1>3, <1>7, <1>13 DEF Inv, SetsFit, Fits
<1>15. ClustersFit'
  <2>1. ASSUME NEW m \in Names, cluster[m].exists PROVE Fits(m, cluster[m].spec)'
    BY <1>3, <1>13, <2>1 DEF Inv, ClustersFit, Follows, Fits
  <2> QED BY <1>3, <2>1 DEF Inv, ClustersFit, Enough, Follows
<1>16. RequestsFit'
  <2>1. ASSUME NEW m \in Names, request[m].op = "create" PROVE Fits(m, request[m].spec)'
    BY <1>3, <1>13, <2>1 DEF Inv, RequestsFit, Fits
  <2> QED BY <1>3, <2>1 DEF Inv, RequestsFit, Enough, Follows
<1> QED BY <1>8, <1>9, <1>10, <1>11, <1>12, <1>14, <1>15, <1>16 DEF Inv

\* A label changes nothing that Inv looks at.
LEMMA LabelPVCKeeps ==
    ASSUME Inv, NEW p \in pvcs, LabelPVC(p)
    PROVE  Inv'
<1> DEFINE c == [p EXCEPT !.labelled = TRUE]
<1>1. /\ c.name = p.name /\ c.type = p.type /\ c.index = p.index
      /\ c.storage = p.storage /\ c \in ClaimType
  BY DEF Inv, StateType, ClaimType
<1>2. pvcs' = (pvcs \ {p}) \cup {c} /\ UNCHANGED <<cluster, request, sset, data>>
  BY DEF LabelPVC
<1> HIDE DEF c
<1>3. \A q \in pvcs' : \E r \in pvcs : /\ r.name = q.name /\ r.type = q.type
                                       /\ r.index = q.index /\ r.storage = q.storage
                                       /\ (q = r \/ (q = c /\ r = p))
  BY <1>1, <1>2
<1>4. \A m, u, j : Has(m, u, j)' <=> Has(m, u, j)
  BY <1>1, <1>2 DEF Has
<1>5. StateType'
  BY <1>1, <1>2 DEF Inv, StateType
<1>6. IsFiniteSet(pvcs)'
  <2>1. IsFiniteSet(pvcs \ {p})
    BY FS_RemoveElement DEF Inv
  <2> QED BY <1>2, <2>1, FS_AddElement
<1>7. Ordinals'
  <2>1. ASSUME NEW q \in pvcs', NEW r \in pvcs',
               q.name = r.name, q.type = r.type, q.index = r.index
        PROVE  q = r
    BY <1>1, <1>2, <2>1 DEF Inv, Ordinals
  <2>2. \A q \in pvcs' : q.type = "master" => q.index \in {0, 1}
    BY <1>1, <1>2 DEF Inv, Ordinals
  <2> QED BY <1>4, <2>1, <2>2 DEF Inv, Ordinals
<1>8. SameSize'
  BY <1>3 DEF Inv, SameSize
<1>9. OnClaims'
  BY <1>2, <1>4 DEF Inv, OnClaims
<1>10. ASSUME NEW m \in Names, NEW spec, Fits(m, spec)
       PROVE  /\ \A q \in pvcs' : q.name = m /\ q.type # "segment-b"
                                    => q.storage = spec.storage
              /\ Has(m, "master", 1)' => WantsStandby(spec)
              /\ data[m].init => StandbyFits(data[m], spec)
  BY <1>3, <1>4, <1>10 DEF Fits
<1>11. SetsFit'
  BY <1>2, <1>10 DEF Inv, SetsFit, Fits
<1>12. ClustersFit'
  <2>1. ASSUME NEW m \in Names, cluster[m].exists PROVE Fits(m, cluster[m].spec)'
    BY <1>2, <1>10, <2>1 DEF Inv, ClustersFit, Fits
  <2> QED BY <1>2, <2>1 DEF Inv, ClustersFit, Enough, Follows
<1>13. RequestsFit'
  <2>1. ASSUME NEW m \in Names, request[m].op = "create" PROVE Fits(m, request[m].spec)'
    BY <1>2, <1>10, <2>1 DEF Inv, RequestsFit, Fits
  <2> QED BY <1>2, <2>1 DEF Inv, RequestsFit, Enough, Follows
<1> QED BY <1>5, <1>6, <1>7, <1>8, <1>9, <1>11, <1>12, <1>13 DEF Inv

\* With the pods of count segments up, there are their claims.
LEMMA UpHas ==
    ASSUME Inv, NEW count \in Nat, Up(count)
    PROVE  /\ sset.name \in Names /\ count <= sset.spec.count
           /\ Has(sset.name, "master", 0)
           /\ sset.spec.standby = "yes" => Has(sset.name, "master", 1)
           /\ Has(sset.name, "master", 1) => sset.spec.standby \in {"yes", "Yes"}
           /\ \A i \in 0 .. count - 1 : Has(sset.name, "segment-a", i)
<1>1. sset.name \in Names /\ count <= sset.spec.count /\ sset.spec.count \in Nat
  BY ReplicasAre DEF Inv, StateType, Up
<1>2. ASSUME NEW t \in Types, NEW i \in 0 .. Replicas(t) - 1, t = "master" \/ i < count
      PROVE  Has(sset.name, t, i)
  <2>1. \E p \in Claim(t, i) : p.labelled
    BY <1>2 DEF Up
  <2> QED BY <2>1 DEF Claim, getGreenplumPVCs, Has
<1>3. Has(sset.name, "master", 0)
  <2>1. "master" \in Types /\ 0 \in 0 .. Replicas("master") - 1
    BY ReplicasAre DEF Inv, Types
  <2> QED BY <1>2, <2>1
<1>4. sset.spec.standby = "yes" => Has(sset.name, "master", 1)
  <2>1. "master" \in Types
        /\ (sset.spec.standby = "yes" => 1 \in 0 .. Replicas("master") - 1)
    BY ReplicasAre DEF Inv, Types
  <2> QED BY <1>2, <2>1
<1>5. Has(sset.name, "master", 1) => sset.spec.standby \in {"yes", "Yes"}
  BY <1>1 DEF Inv, SetsFit, Fits, WantsStandby, ToLower
<1>6. \A i \in 0 .. count - 1 : Has(sset.name, "segment-a", i)
  <2>1. "segment-a" \in Types /\ Replicas("segment-a") = sset.spec.count
    BY ReplicasAre DEF Inv, Types
  <2>2. \A i \in 0 .. count - 1 : i \in 0 .. sset.spec.count - 1 /\ i < count
    BY <1>1
  <2> QED BY <1>2, <2>1, <2>2
<1> QED BY <1>1, <1>3, <1>4, <1>5, <1>6

\* A database of n is replaced by one that the StatefulSets fit.
LEMMA DataPut ==
    ASSUME Inv, NEW n \in Names, NEW d \in DataType, data' = [data EXCEPT ![n] = d],
           UNCHANGED <<cluster, request, sset, pvcs>>, sset.name = n,
           Has(n, "master", 0), d.standby = "yes" => Has(n, "master", 1),
           Has(n, "master", 1) => d.standby \in {"yes", "Yes"},
           \A i \in 0 .. d.segs - 1 : Has(n, "segment-a", i),
           StandbyFits(d, sset.spec), d.segs <= sset.spec.count
    PROVE  Inv'
<1>1. data'[n] = d /\ \A m \in Names \ {n} : data'[m] = data[m]
  BY DEF Inv, StateType
<1>2. StateType'
  BY DEF Inv, StateType
<1>3. IsFiniteSet(pvcs)' /\ Ordinals' /\ SameSize'
  BY DEF Inv, Ordinals, SameSize, Has
<1>4. OnClaims'
  <2>1. ASSUME NEW m \in Names, data'[m].init
        PROVE  /\ Has(m, "master", 0)
               /\ data'[m].standby = "yes" => Has(m, "master", 1)
               /\ Has(m, "master", 1) => data'[m].standby \in {"yes", "Yes"}
               /\ \A i \in 0 .. data'[m].segs - 1 : Has(m, "segment-a", i)
    <3>1. CASE m = n
      BY <1>1, <3>1
    <3>2. CASE m # n
      BY <1>1, <2>1, <3>2 DEF Inv, OnClaims
    <3> QED BY <3>1, <3>2
  <2> QED BY <2>1 DEF OnClaims, Has
<1>5. ASSUME NEW m \in Names, NEW spec, Fits(m, spec),
             m = n => (WantsStandby(spec) <=> WantsStandby(sset.spec))
      PROVE  /\ \A p \in pvcs : p.name = m /\ p.type # "segment-b"
                                  => p.storage = spec.storage
             /\ Has(m, "master", 1) => WantsStandby(spec)
             /\ data'[m].init => StandbyFits(data'[m], spec)
  <2>1. CASE m = n
    BY <1>1, <1>5, <2>1 DEF Fits, StandbyFits
  <2>2. CASE m # n
    BY <1>1, <1>5, <2>2 DEF Fits
  <2> QED BY <2>1, <2>2
<1>6. SetsFit'
  BY <1>5 DEF Inv, SetsFit, Fits, Has
<1>7. ClustersFit'
  <2>1. ASSUME NEW m \in Names, cluster[m].exists PROVE Fits(m, cluster[m].spec)'
    <3>1. Fits(m, cluster[m].spec)
          /\ (m = n => (WantsStandby(cluster[m].spec) <=> WantsStandby(sset.spec)))
      BY <2>1 DEF Inv, ClustersFit, Follows
    <3> QED BY <1>5, <3>1 DEF Fits, Has
  <2>2. ASSUME NEW m \in Names, cluster[m].exists PROVE Enough(m, cluster[m].spec)'
    <3>1. /\ Enough(m, cluster[m].spec)
          /\ m = n => sset.spec.count <= cluster[m].spec.count
          /\ sset.spec.count \in Nat /\ cluster[m].spec.count \in Nat /\ d.segs \in Nat
      BY <2>2, ReplicasAre, ObjectTypes
         DEF Inv, ClustersFit, Follows, SpecType, DataType
    <3>2. CASE m = n
      BY <1>1, <3>1, <3>2 DEF Enough
    <3>3. CASE m # n
      BY <1>1, <3>1, <3>3 DEF Enough
    <3> QED BY <3>2, <3>3
  <2> QED BY <2>1, <2>2 DEF Inv, ClustersFit, Follows
<1>8. RequestsFit'
  <2>1. ASSUME NEW m \in Names, request[m].op = "create"
        PROVE  Fits(m, request[m].spec)' /\ Enough(m, request[m].spec)'
    <3>1. m # n /\ Fits(m, request[m].spec) /\ Enough(m, request[m].spec)
      BY <2>1 DEF Inv, RequestsFit
    <3> QED BY <1>1, <3>1 DEF Fits, Enough, Has
  <2> QED BY <2>1 DEF Inv, RequestsFit, Follows
<1> QED BY <1>2, <1>3, <1>4, <1>6, <1>7, <1>8 DEF Inv

\* The database is made, or expanded, within what the StatefulSets say.
LEMMA DataKeeps ==
    ASSUME Inv, JobType, Initialise \/ (\E n \in Names : RunJob(n) \/ CleanUpSchema(n))
    PROVE  Inv'
<1>1. ASSUME Initialise PROVE Inv'
  <2> DEFINE d == [init |-> TRUE, segs |-> sset.spec.count,
                   standby |-> sset.spec.standby, schema |-> FALSE]
  <2>1. data' = [data EXCEPT ![sset.name] = d] /\ UNCHANGED <<cluster, request, sset, pvcs>>
        /\ Up(sset.spec.count)
    BY <1>1 DEF Initialise
  <2>2. sset.spec.count \in Nat /\ sset.spec.standby \in Switch
    BY ObjectTypes, ReplicasAre DEF Inv, StateType, SpecType
  <2>3. /\ d \in DataType /\ d.segs = sset.spec.count
        /\ d.standby = sset.spec.standby
    BY <2>2 DEF DataType
  <2>4. StandbyFits(d, sset.spec)
    BY <2>3 DEF StandbyFits, WantsStandby, ToLower
  <2> HIDE DEF d
  <2> QED BY <2>1, <2>2, <2>3, <2>4, UpHas, DataPut
<1>2. ASSUME NEW n \in Names, RunJob(n) PROVE Inv'
  <2> DEFINE d == [data[n] EXCEPT !.segs = job[n].count, !.schema = TRUE]
  <2>1. data' = [data EXCEPT ![n] = d] /\ UNCHANGED <<cluster, request, sset, pvcs>>
        /\ Up(job[n].count) /\ sset.name = n /\ data[n].init
    BY <1>2 DEF RunJob, MasterAnswers
  <2>2. job[n].count \in Nat /\ data[n] \in DataType
    BY DEF JobType, Inv, StateType
  <2>3. /\ d \in DataType /\ d.segs = job[n].count /\ d.standby = data[n].standby
    BY <2>2 DEF DataType
  <2>4. StandbyFits(d, sset.spec)
    BY <2>1, <2>3 DEF Inv, SetsFit, Fits, StandbyFits
  <2>5. /\ d.standby = "yes" => Has(n, "master", 1)
        /\ Has(n, "master", 1) => d.standby \in {"yes", "Yes"}
    BY <2>1, <2>3 DEF Inv, OnClaims
  <2> HIDE DEF d
  <2> QED BY <2>1, <2>2, <2>3, <2>4, <2>5, UpHas, DataPut
<1>3. ASSUME NEW n \in Names, CleanUpSchema(n) PROVE Inv'
  <2>1. /\ data' = [data EXCEPT ![n].schema = FALSE]
        /\ UNCHANGED <<cluster, request, sset, pvcs>>
    BY <1>3 DEF CleanUpSchema
  <2>2. /\ data' \in [Names -> DataType]
        /\ \A m \in Names : /\ data'[m].init = data[m].init
                             /\ data'[m].segs = data[m].segs
                             /\ data'[m].standby = data[m].standby
    BY <2>1 DEF Inv, StateType, DataType
  <2>3. \A m, u, j : Has(m, u, j)' <=> Has(m, u, j)
    BY <2>1 DEF Has
  <2>4. StateType'
    BY <2>1, <2>2 DEF Inv, StateType
  <2>5. IsFiniteSet(pvcs)' /\ Ordinals' /\ SameSize' /\ OnClaims'
    BY <2>1, <2>2, <2>3 DEF Inv, Ordinals, SameSize, OnClaims
  <2>6. SetsFit' /\ ClustersFit' /\ RequestsFit'
    BY <2>1, <2>2, <2>3 DEF Inv, SetsFit, ClustersFit, RequestsFit, Fits, StandbyFits,
       Enough, Follows
  <2> QED BY <2>4, <2>5, <2>6 DEF Inv
<1> QED BY <1>1, <1>2, <1>3

\* The job's record keeps its type.
LEMMA JobTypeKept == Inv /\ JobType /\ [Next]_vars => JobType'
<1> SUFFICES ASSUME Inv, JobType, [Next]_vars PROVE JobType'
  OBVIOUS
<1>1. ASSUME NEW n \in Names, CreateJob(n) PROVE JobType'
  <2>1. sset.spec.count \in Nat /\ cluster[n].spec.count \in Nat
    BY ObjectTypes DEF Inv, SpecType
  <2> QED BY <1>1, <2>1 DEF CreateJob, JobType
<1>2. ASSUME NEW n \in Names, RunJob(n) \/ FailJob(n) \/ RemoveJob(n) \/ Delete(n)
      PROVE  JobType'
  <2>1. \/ \E status \in {"succeeded", "failed"} : job' = [job EXCEPT ![n].status = status]
        \/ job' = [job EXCEPT ![n] = NoJob]
        \/ job' = [job EXCEPT ![n].owned = FALSE]
    BY <1>2 DEF RunJob, FailJob, RemoveJob, Delete
  <2>2. NoJob \in [status : {"none", "running", "succeeded", "failed"},
                  count : Nat, owned : BOOLEAN]
    BY DEF NoJob
  <2>3. CASE \E status \in {"succeeded", "failed"} : job' = [job EXCEPT ![n].status = status]
    BY <2>3 DEF JobType
  <2>4. CASE job' = [job EXCEPT ![n] = NoJob]
    BY <2>2, <2>4 DEF JobType
  <2>5. CASE job' = [job EXCEPT ![n].owned = FALSE]
    BY <2>5 DEF JobType
  <2> QED BY <2>1, <2>3, <2>4, <2>5
<1>3. CASE job' = job
  BY <1>3 DEF JobType
<1> QED
  BY <1>1, <1>2, <1>3 DEF Next, vars, AdmitCreate, AdmitUpdate, StoreCreate, StoreUpdate,
     AddFinalizer, ReconcileStatus, SetRunning, Patch, CreateStatefulSets, CleanUpSchema,
     DeletePVCs, CollectStatefulSets, CreatePVC, LabelPVC, Initialise

\* A user who gives the data up does so when nothing is deployed or asked for.
LEMMA DeletePVCsKeeps ==
    ASSUME Inv, NEW n \in Names, DeletePVCs(n)
    PROVE  Inv'
<1>1. /\ pvcs' = {p \in pvcs : p.name # n} /\ data' = [data EXCEPT ![n] = NoData]
      /\ UNCHANGED <<cluster, request, sset>>
      /\ ~cluster[n].exists /\ sset.name # n /\ request[n].op = "none"
  BY DEF DeletePVCs
<1>2. ~data'[n].init /\ \A m \in Names \ {n} : data'[m] = data[m]
  BY <1>1, RecordTypes DEF Inv, StateType
<1>3. \A m, u, j : Has(m, u, j)' <=> m # n /\ Has(m, u, j)
  BY <1>1 DEF Has
<1>4. StateType'
  BY <1>1, RecordTypes DEF Inv, StateType
<1>5. IsFiniteSet(pvcs)'
  <2>1. pvcs' \in SUBSET pvcs
    BY <1>1
  <2> QED BY <2>1, FS_Subset DEF Inv
<1>6. Ordinals' /\ SameSize'
  BY <1>1, <1>3 DEF Inv, Ordinals, SameSize
<1>7. OnClaims'
  BY <1>2, <1>3 DEF Inv, OnClaims
<1>8. ASSUME NEW m \in Names \ {n}, NEW spec, Fits(m, spec)
      PROVE  /\ \A p \in pvcs' : p.name = m /\ p.type # "segment-b"
                                   => p.storage = spec.storage
             /\ Has(m, "master", 1)' => WantsStandby(spec)
             /\ data'[m].init => StandbyFits(data'[m], spec)
  BY <1>1, <1>2, <1>3, <1>8 DEF Fits
<1>9. SetsFit'
  BY <1>1, <1>8 DEF Inv, SetsFit, Fits
<1>10. ClustersFit'
  <2>1. ASSUME NEW m \in Names, cluster[m].exists PROVE Fits(m, cluster[m].spec)'
    BY <1>1, <1>8, <2>1 DEF Inv, ClustersFit, Fits
  <2> QED BY <1>1, <1>2, <2>1 DEF Inv, ClustersFit, Enough, Follows
<1>11. RequestsFit'
  <2>1. ASSUME NEW m \in Names, request[m].op = "create" PROVE Fits(m, request[m].spec)'
    BY <1>1, <1>8, <2>1 DEF Inv, RequestsFit, Fits
  <2> QED BY <1>1, <1>2, <2>1 DEF Inv, RequestsFit, Enough, Follows
<1> QED BY <1>4, <1>5, <1>6, <1>7, <1>9, <1>10, <1>11 DEF Inv

\* What is stored fits the data: the rules of validateCreateGreenplumCluster and
\* validateUpdateGreenplumCluster, which see claims only and answer before the object
\* is stored, protect the databases of earlier deployments.
THEOREM StoredFitsData == PatientUser => (Spec => []DataFitsSpec)
<1> SUFFICES ASSUME PatientUser PROVE Spec => []DataFitsSpec
  OBVIOUS
<1>1. Init => Inv /\ JobType
  BY InitHolds DEF Init, JobType, NoJob
<1>2. Inv /\ JobType /\ [Next]_vars => Inv'
  <2> SUFFICES ASSUME Inv, JobType, [Next]_vars PROVE Inv'
    OBVIOUS
  <2>1. ASSUME UNCHANGED <<cluster, request, sset, pvcs, data>> PROVE Inv'
    BY <2>1 DEF Inv, StateType, Ordinals, SameSize, OnClaims, SetsFit,
       ClustersFit, RequestsFit, Fits, Enough, Follows, Has
  <2>2. CASE UNCHANGED vars
    BY <2>1, <2>2 DEF vars
  <2>3. ASSUME NEW n \in Names, CreateJob(n) \/ FailJob(n) \/ RemoveJob(n) PROVE Inv'
    BY <2>1, <2>3 DEF CreateJob, FailJob, RemoveJob
  <2> QED BY <2>2, <2>3, CreateKeeps, UpdateKeeps, PatchKeeps, SetsKeep, CreatePVCKeeps,
       LabelPVCKeeps, DataKeeps, DeletePVCsKeeps DEF Next
<1>3. Inv => DataFitsSpec
  <2> SUFFICES ASSUME Inv, NEW n \in Names, cluster[n].exists, data[n].init
               PROVE  LET spec == SetDefaultGreenplumClusterValues(cluster[n].spec) IN
                      /\ data[n].standby # "Yes" =>
                            (data[n].standby = "yes" <=> spec.standby = "yes")
                      /\ data[n].segs <= spec.count
                      /\ \A t \in {"master", "segment-a"} :
                            \A p \in getGreenplumPVCs(n, t) : p.storage = spec.storage
    BY DEF DataFitsSpec
  <2> DEFINE spec == SetDefaultGreenplumClusterValues(cluster[n].spec)
  <2>1. /\ Fits(n, cluster[n].spec) /\ Enough(n, cluster[n].spec)
    BY DEF Inv, ClustersFit
  <2>2. /\ WantsStandby(cluster[n].spec) <=> spec.standby = "yes"
        /\ spec.storage = cluster[n].spec.storage /\ spec.count = cluster[n].spec.count
    BY DefaultsKeep, ObjectTypes DEF Inv
  <2> HIDE DEF spec
  <2>3. data[n].standby # "Yes" => (data[n].standby = "yes" <=> spec.standby = "yes")
    BY <2>1, <2>2 DEF Fits, StandbyFits
  <2>4. data[n].segs <= spec.count
    BY <2>1, <2>2 DEF Enough
  <2>5. \A t \in {"master", "segment-a"} :
           \A p \in getGreenplumPVCs(n, t) : p.storage = spec.storage
    BY <2>1, <2>2 DEF Fits, getGreenplumPVCs
  <2> QED BY <2>3, <2>4, <2>5 DEF spec
<1> QED BY <1>1, <1>2, <1>3, JobTypeKept, PTL DEF Spec
===============================================================================
