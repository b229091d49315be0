--------------------------- MODULE Informer_proofs ---------------------------
(***************************************************************************)
(* Facts about the operators of Informer.                                  *)
(***************************************************************************)
EXTENDS Informer, TLAPS

\* The operators of Informer keep the log of an object a non-empty sequence of
\* versions, and read versions from it: the caching client of controller-runtime
\* never returns something that was not written.
LEMMA LogTypes ==
    ASSUME NEW S, NEW log \in Seq(S), log # <<>>
    PROVE  /\ Len(log) \in Nat /\ Len(log) > 0
           /\ Stored(log) \in S /\ Cached(log) \in S
           /\ Relist(log) \in Seq(S) /\ Relist(log) # <<>>
           /\ ~InSync(log) => Deliver(log) \in Seq(S) /\ Deliver(log) # <<>>
<1>1. Len(log) \in Nat /\ Len(log) > 0
  OBVIOUS
<1>2. Stored(log) \in S /\ Cached(log) \in S
  BY <1>1 DEF Stored, Cached
<1>3. Relist(log) \in Seq(S) /\ Relist(log) # <<>>
  BY <1>2 DEF Relist
<1>4. ASSUME ~InSync(log) PROVE Deliver(log) \in Seq(S) /\ Deliver(log) # <<>>
  <2>1. Len(log) # 1
    BY <1>4 DEF InSync
  <2>2. Tail(log) \in Seq(S) /\ Len(Tail(log)) = Len(log) - 1
    OBVIOUS
  <2>3. Len(Tail(log)) # 0
    BY <1>1, <2>1, <2>2
  <2>4. Tail(log) # <<>>
    <3>1. SUFFICES ASSUME Tail(log) = <<>> PROVE FALSE
      OBVIOUS
    <3>2. Len(<<>>) = 0
      OBVIOUS
    <3> QED BY <2>3, <3>1, <3>2
  <2> QED BY <2>2, <2>4 DEF Deliver
<1> QED BY <1>1, <1>2, <1>3, <1>4

\* A write keeps the log a non-empty sequence of versions.
LEMMA RecordTypes ==
    ASSUME NEW S, NEW log \in Seq(S), log # <<>>, NEW v \in S
    PROVE  /\ Append(log, v) \in Seq(S) /\ Append(log, v) # <<>>
           /\ Record(log, v) \in Seq(S) /\ Record(log, v) # <<>>
<1>1. Append(log, v) \in Seq(S) /\ Append(log, v) # <<>>
  <2>1. Append(log, v) \in Seq(S) /\ Len(Append(log, v)) = Len(log) + 1
    OBVIOUS
  <2>2. Len(Append(log, v)) # 0
    BY <2>1
  <2> QED BY <2>1, <2>2
<1> QED BY <1>1 DEF Record

\* After a write the API server holds what was written.
LEMMA StoredRecord ==
    ASSUME NEW S, NEW log \in Seq(S), log # <<>>, NEW v \in S
    PROVE  Stored(Record(log, v)) = v /\ Stored(Append(log, v)) = v
<1>1. /\ Len(Append(log, v)) = Len(log) + 1
      /\ Append(log, v)[Len(log) + 1] = v
  OBVIOUS
<1> QED BY <1>1 DEF Stored, Record

\* Every version in the log after a write is the new one or was there before.
LEMMA RecordVersions ==
    ASSUME NEW S, NEW log \in Seq(S), log # <<>>, NEW v \in S,
           NEW i \in 1..Len(Record(log, v))
    PROVE  \/ Record(log, v)[i] = v
           \/ i \in 1..Len(log) /\ Record(log, v)[i] = log[i]
<1>1. CASE v = Stored(log)
  BY <1>1 DEF Record
<1>2. CASE v # Stored(log)
  <2>1. Record(log, v) = Append(log, v) /\ Len(Append(log, v)) = Len(log) + 1
    BY <1>2 DEF Record
  <2> QED BY <2>1
<1> QED BY <1>1, <1>2

\* Delivering watch events, or listing again, drops the oldest versions and
\* leaves what the API server holds alone.
LEMMA DeliverVersions ==
    ASSUME NEW S, NEW log \in Seq(S), log # <<>>
    PROVE  /\ ~InSync(log) => Stored(Deliver(log)) = Stored(log)
           /\ ~InSync(log) => \A i \in 1..Len(Deliver(log)) :
                  i + 1 \in 1..Len(log) /\ Deliver(log)[i] = log[i + 1]
           /\ Stored(Relist(log)) = Stored(log)
           /\ Len(Relist(log)) = 1 /\ Relist(log)[1] = log[Len(log)]
<1>1. Len(log) \in Nat /\ Len(log) > 0
  OBVIOUS
<1>2. ASSUME ~InSync(log)
      PROVE  /\ Len(Tail(log)) = Len(log) - 1 /\ Len(log) > 1
             /\ \A i \in 1..Len(Tail(log)) :
                    i + 1 \in 1..Len(log) /\ Tail(log)[i] = log[i + 1]
  <2>1. Len(log) > 1
    BY <1>1, <1>2 DEF InSync
  <2>2. Len(Tail(log)) = Len(log) - 1
    OBVIOUS
  <2> QED BY <2>1, <2>2
<1>3. ~InSync(log) => Stored(Deliver(log)) = Stored(log)
  BY <1>1, <1>2 DEF Stored, Deliver
<1>4. Len(Relist(log)) = 1 /\ Relist(log)[1] = log[Len(log)]
  BY DEF Relist, Stored
<1> QED BY <1>2, <1>3, <1>4 DEF Deliver, Stored

\* The versions the cache holds or is going to hold.
Versions(log) == {log[i] : i \in 1..Len(log)}

\* The cached and the stored version are among them.
LEMMA VersionsEnds ==
    ASSUME NEW S, NEW log \in Seq(S), log # <<>>
    PROVE  /\ Cached(log) \in Versions(log) /\ Stored(log) \in Versions(log)
           /\ Versions(log) \subseteq S
<1>1. Len(log) \in Nat /\ Len(log) > 0
  OBVIOUS
<1>2. 1 \in 1..Len(log) /\ Len(log) \in 1..Len(log)
  BY <1>1
<1> QED BY <1>2 DEF Versions, Cached, Stored

\* A write adds at most the version written.
LEMMA VersionsWritten ==
    ASSUME NEW S, NEW log \in Seq(S), log # <<>>, NEW v \in S
    PROVE  Versions(Record(log, v)) \subseteq Versions(log) \cup {v}
BY RecordVersions DEF Versions

\* A version written again, a delivery or a relist add none.
LEMMA VersionsKept ==
    ASSUME NEW S, NEW log \in Seq(S), log # <<>>
    PROVE  /\ Versions(Append(log, Stored(log))) = Versions(log)
           /\ ~InSync(log) => Versions(Deliver(log)) \subseteq Versions(log)
           /\ Versions(Relist(log)) = {Stored(log)}
<1>1. Versions(Append(log, Stored(log))) = Versions(log)
  <2>1. /\ Len(Append(log, Stored(log))) = Len(log) + 1
        /\ Append(log, Stored(log))[Len(log) + 1] = Stored(log)
        /\ \A i \in 1..Len(log) : Append(log, Stored(log))[i] = log[i]
    OBVIOUS
  <2>2. Stored(log) \in Versions(log) /\ Len(log) \in Nat
    BY VersionsEnds
  <2>3. \A i \in 1..(Len(log) + 1) : i \in 1..Len(log) \/ i = Len(log) + 1
    BY <2>2
  <2>4. \A i \in 1..Len(log) : i \in 1..(Len(log) + 1)
    BY <2>2
  <2> QED BY <2>1, <2>2, <2>3, <2>4 DEF Versions
<1>2. ~InSync(log) => Versions(Deliver(log)) \subseteq Versions(log)
  BY DeliverVersions DEF Versions
<1>3. Versions(Relist(log)) = {Stored(log)}
  <2>1. Len(Relist(log)) = 1 /\ Relist(log)[1] = Stored(log)
    BY DEF Relist
  <2>2. 1..Len(Relist(log)) = {1}
    BY <2>1
  <2> QED BY <2>1, <2>2 DEF Versions
<1> QED BY <1>1, <1>2, <1>3
=============================================================================
