---------------------------- MODULE MCPXFService ----------------------------
(* Small instances of PXFService. *)
EXTENDS PXFService

Single == [replicas |-> 1, conf |-> NoConf]

\* Its pods fail to start, each time.
EmptyFolder == [replicas |-> 2, conf |-> [s3 |-> TRUE, objects |-> {"directory"}]]

MCSpecs == {Single, EmptyFolder}
=============================================================================
