-------------------------- MODULE MCUploadPipeline --------------------------
(* Small instances of UploadPipeline for TLC.                              *)
EXTENDS UploadRefinement, FiniteSets, TLC

(* Uploads are interchangeable.  Only for configurations without liveness. *)
UploadSymmetry == Permutations(Uploads)

(* The overwrite flag changes nothing for a shard: one of its two values   *)
(* is enough in a configuration without whole files.                       *)
OneFlag == \A u \in Uploads : req[u] = None \/ req[u].overwrite

(* At most one write fails unnoticed in a behaviour.                       *)
OneFailedWrite ==
    Cardinality({<<u, part>> \in Uploads \X Part : part \in unwritten[u]}) <= 1
=============================================================================
