---------------------------- MODULE MCClusterInit ----------------------------
(* Small instances of ClusterInit. *)
EXTENDS ClusterInit

Alone == [standby |-> FALSE, mirrors |-> FALSE, hba |-> TRUE, pxf |-> TRUE]

MCConfigs == {Alone, [Alone EXCEPT !.mirrors = TRUE, !.hba = FALSE],
              [Alone EXCEPT !.standby = TRUE, !.mirrors = TRUE]}

MCAlone == {Alone}
=============================================================================
