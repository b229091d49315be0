---------------------------- MODULE MCKnownHosts ----------------------------
(* Small instances of KnownHosts. *)
EXTENDS KnownHosts

\* The new segments are not in the configuration at first.
MCHostLists == {Hosts \ {"segment-a-1"}, Hosts}
=============================================================================
