-------------------------- MODULE UploadRefinement --------------------------
(* UploadPipeline implements UploadLifecycle.                              *)
EXTENDS UploadPipeline

(* Verify records the activity before the switch on its result runs, and   *)
(* that record survives a restart: it is what makes an upload verified.    *)
Stage(u) ==
    CASE u \in activity -> "verified"
      [] u \notin activity /\ outcome[u] \in {"failed", "expired"} -> "rejected"
      [] u \notin activity /\ outcome[u] \in {"superseded", "lost"} -> outcome[u]
      [] u \notin activity /\ outcome[u] = "none" ->
            CASE handler[u] = "none" -> "absent"
              [] handler[u] \in Running -> "receiving"
              [] handler[u] = "registered" -> "awaiting"
              [] handler[u] = "failed" -> "aborted"

file == [u \in Uploads |-> IF req[u] = None THEN None ELSE PathOf(u)]
genuine == {u \in Uploads : req[u] # None /\ req[u].valid}
stage == [u \in Uploads |-> Stage(u)]

Lifecycle == INSTANCE UploadLifecycle WITH
    Files <- Path,
    file <- file,
    genuine <- genuine,
    paid <- txAccepted,
    stage <- stage,
    published <- announced

(* Whatever the handlers, the verifier, the blockchain and crashes do, an  *)
(* upload only moves through the stages of UploadLifecycle: results are    *)
(* final, nothing is verified after it was superseded, rejected or lost,   *)
(* and nothing is announced that was not verified.                         *)
ImplementsLifecycle == Lifecycle!Spec
=============================================================================
