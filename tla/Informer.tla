------------------------------ MODULE Informer ------------------------------
(***************************************************************************)
(* One API object as the operator sees it.  mgr.GetClient() of             *)
(* controller-runtime writes to the API server and reads from a watch      *)
(* cache, so every object exists twice.  An object is kept here as the     *)
(* sequence of its versions from the one in the operator's cache (first)   *)
(* to the one stored by the API server (last): the versions in between are *)
(* watch events that have not been delivered yet.                          *)
(*                                                                         *)
(* The module models external code (client-go and controller-runtime) from *)
(* the way src/greenplum-operator/controllers uses it.                     *)
(***************************************************************************)
EXTENDS Naturals, Sequences

\* What a read through the operator's client returns.
Cached(log) == log[1]

\* What the API server holds.
Stored(log) == log[Len(log)]

\* The cached copy carries the current resourceVersion.
InSync(log) == Len(log) = 1

\* A write.  The API server does not create a version for a write that changes
\* nothing, so such a write sends no watch event.
Record(log, v) == IF v = Stored(log) THEN log ELSE Append(log, v)

\* The next watch event reaches the cache.
Deliver(log) == Tail(log)

\* A new process lists the objects before its controllers start.
Relist(log) == <<Stored(log)>>
=============================================================================
