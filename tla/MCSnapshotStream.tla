-------------------------- MODULE MCSnapshotStream --------------------------
(***************************************************************************)
(* Model-checking instances of SnapshotStream: no alerts, for the stream   *)
(* does not read them.                                                     *)
(***************************************************************************)
EXTENDS SnapshotStream

NoFires == [n \in {} |-> {}]
=============================================================================
