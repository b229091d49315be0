--------------------------- MODULE ClusterLifecycle ---------------------------
(***************************************************************************)
(* The life of a GreenplumCluster as its user sees it: the abstract        *)
(* specification that GreenplumClusterReconciler implements.  There is one *)
(* name; a cluster is created, provided with resources, bound to an image, *)
(* reported Running, deleted, and gone.  No caches, retries, workers or    *)
(* operators appear here.                                                  *)
(***************************************************************************)
CONSTANT Images  \* the instance images

VARIABLES
    phase,     \* status.phase, or "absent"
    deleting,  \* it has a deletion timestamp
    image,     \* status.instanceImage
    resources  \* how many of the objects it asks for exist and are its own

vars == <<phase, deleting, image, resources>>

Init == phase = "absent" /\ ~deleting /\ image = "unset" /\ resources = "none"

Create ==
    /\ phase = "absent"
    /\ phase' = "unset"
    /\ UNCHANGED <<deleting, image, resources>>

\* Resources are never taken away from a cluster that exists.
Provide ==
    /\ phase # "absent"
    /\ \/ resources = "none" /\ resources' \in {"some", "all"}
       \/ resources = "some" /\ resources' = "all"
    /\ UNCHANGED <<phase, deleting, image>>

\* Only a cluster with all its resources has a phase, and the first one binds it
\* to an image.  An operator whose cache is behind may report Pending again.
ReportPending ==
    /\ resources = "all" /\ phase \in {"unset", "Pending", "Running"}
    /\ phase' = "Pending"
    /\ IF image = "unset" THEN image' \in Images ELSE UNCHANGED image
    /\ UNCHANGED <<deleting, resources>>

ReportRunning ==
    /\ phase = "Pending"
    /\ phase' = "Running"
    /\ UNCHANGED <<deleting, image, resources>>

ReportDeleting ==
    /\ deleting
    /\ phase' = "Deleting"
    /\ UNCHANGED <<deleting, image, resources>>

Gone == phase' = "absent" /\ deleting' = FALSE /\ image' = "unset" /\ resources' = "none"

\* A cluster with resources is not gone before the operator has stopped it.
Delete ==
    /\ phase # "absent" /\ ~deleting
    /\ \/ deleting' = TRUE /\ UNCHANGED <<phase, image, resources>>
       \/ resources = "none" /\ Gone

Finalize == deleting /\ Gone

Next == \/ Create \/ Provide \/ ReportPending \/ ReportRunning \/ ReportDeleting
        \/ Delete \/ Finalize

Spec == Init /\ [][Next]_vars
===============================================================================
