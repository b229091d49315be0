---------------------------- MODULE MCReconciler ----------------------------
(***************************************************************************)
(* Small instances of GreenplumClusterReconciler.                          *)
(***************************************************************************)
EXTENDS GreenplumClusterReconciler

MCTracked == {"greenplum-config", "ssh-secrets", "segment-a"}

Plain == [count |-> 1, mirrors |-> "no", standby |-> "no", antiAffinity |-> "no"]

Spread == [Plain EXCEPT !.mirrors = "yes", !.standby = "yes",
                        !.antiAffinity = "yes"]

Capital == [Plain EXCEPT !.mirrors = "Yes", !.standby = "Yes",
                         !.antiAffinity = "Yes"]

MCPlain == {Plain}
MCSpread == {Spread}
MCCapital == {Capital}
=============================================================================
