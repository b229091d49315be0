------------------------ MODULE SegmentConfiguration ------------------------
(***************************************************************************)
(* gp_segment_configuration, the catalog in which Greenplum keeps its      *)
(* instances, as the code of this repository fills it: gpinitsystem with   *)
(* the file of gpInitSystem.GenerateConfig, gpexpand with the file of      *)
(* GenerateGpexpandConfigParams.GenerateConfig.  What Greenplum's own      *)
(* tools do with the catalog is external.                                  *)
(***************************************************************************)
EXTENDS Integers, FiniteSetsExt

\* The instance in pod <set>-<i>; the masters have content -1.
Row(dbid, content, set, i) ==
    [dbid |-> dbid, content |-> content, set |-> set, i |-> i]

Segments(n) == 0 .. n - 1

\* The master, the n primaries, and the n mirrors, numbered in this order.
GenerateConfig(n, mirrors) ==
    {Row(1, -1, "master", 0)}
      \cup {Row(2 + i, i, "segment-a", i) : i \in Segments(n)}
      \cup IF mirrors THEN {Row(2 + n + i, i, "segment-b", i) : i \in Segments(n)}
           ELSE {}

\* Faulty variant of MaxDbID: SELECT COUNT(*).
CountDbID(rows) == Cardinality(rows)

MaxDbID(rows) == Max({r.dbid : r \in rows})

MaxContentID(rows) == Max({r.content : r \in rows})

\* runGpexpand counts the hosts named segment-a%.
GetOldSegmentCount(rows) == Cardinality({r \in rows : r.set = "segment-a"})

\* What gpexpand is asked to add for n segments in all: pairs, one after the other.
GenerateGpexpandConfig(rows, n, mirrors) ==
    LET old == GetOldSegmentCount(rows)
        dbid(i) == MaxDbID(rows) + 1 + (i - old) * (IF mirrors THEN 2 ELSE 1)
        content(i) == MaxContentID(rows) + 1 + (i - old)
        new == old .. n - 1 IN
    {Row(dbid(i), content(i), "segment-a", i) : i \in new}
      \cup IF mirrors
           THEN {Row(dbid(i) + 1, content(i), "segment-b", i) : i \in new} ELSE {}

\* gpinitsystem -I <config> [-s master-1]: the standby is added last.
Gpinitsystem(n, mirrors, standby) ==
    LET rows == GenerateConfig(n, mirrors) IN
    IF standby THEN rows \cup {Row(MaxDbID(rows) + 1, -1, "master", 1)} ELSE rows

\* gpactivatestandby drops the master that is replaced.
ActivateStandby(rows) == {r \in rows : r.set = "master" => r.i = 1}

\* Every instance has an identifier of its own, and content i is served by
\* segment-a-i and, with mirrors, by segment-b-i.
WellFormed(rows, mirrors) ==
    /\ \A r, s \in rows : r.dbid = s.dbid => r = s
    /\ {<<r.content, r.set, r.i>> : r \in {s \in rows : s.content # -1}}
         = {<<i, set, i>> : i \in Segments(GetOldSegmentCount(rows)),
              set \in IF mirrors THEN {"segment-a", "segment-b"} ELSE {"segment-a"}}
=============================================================================
