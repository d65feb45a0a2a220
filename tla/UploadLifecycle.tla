--------------------------- MODULE UploadLifecycle ---------------------------
(***************************************************************************)
(* What a storage provider promises about an upload, without queues,       *)
(* goroutines or files: every upload goes through its stages in one        *)
(* direction, is verified only if it is genuine and paid for, gives way    *)
(* only to another upload for the same file, and is published only after   *)
(* it was verified.  UploadRefinement shows that UploadPipeline does this. *)
(***************************************************************************)

CONSTANTS Uploads, Files, None

VARIABLES
    file,      \* the file each upload is for, None before it arrives
    genuine,   \* uploads that name this SP and carry a matching signature
    paid,      \* uploads whose transaction the blockchain has accepted
    stage,
    published  \* uploads other nodes have been told about

vars == <<file, genuine, paid, stage, published>>

Init ==
    /\ file = [u \in Uploads |-> None]
    /\ genuine = {}
    /\ paid = {}
    /\ stage = [u \in Uploads |-> "absent"]
    /\ published = {}

Move(u, from, to) == stage[u] = from /\ stage' = [stage EXCEPT ![u] = to]

Arrive(u) ==
    /\ Move(u, "absent", "receiving")
    /\ \E f \in Files : file' = [file EXCEPT ![u] = f]
    /\ genuine' \in {genuine, genuine \cup {u}}
    /\ UNCHANGED <<paid, published>>

Pay(u) ==
    /\ stage[u] # "absent"
    /\ paid' = paid \cup {u}
    /\ UNCHANGED <<file, genuine, stage, published>>

(* The handler gives up, or has stored the file and hands it over.         *)
Abort(u) == Move(u, "receiving", "aborted") /\ UNCHANGED <<file, genuine, paid, published>>
Accept(u) == Move(u, "receiving", "awaiting") /\ UNCHANGED <<file, genuine, paid, published>>

(* Another upload for the same file takes the place of u.                  *)
Supersede(u) ==
    /\ \E v \in Uploads \ {u} : stage[v] = "awaiting" /\ file[v] = file[u]
    /\ Move(u, "awaiting", "superseded")
    /\ UNCHANGED <<file, genuine, paid, published>>

Verify(u) ==
    /\ u \in genuine \cap paid
    /\ Move(u, "awaiting", "verified")
    /\ UNCHANGED <<file, genuine, paid, published>>

Reject(u) == Move(u, "awaiting", "rejected") /\ UNCHANGED <<file, genuine, paid, published>>

Publish(u) ==
    /\ stage[u] = "verified"
    /\ published' = published \cup {u}
    /\ UNCHANGED <<file, genuine, paid, stage>>

(* Only uploads that are under way are affected by a crash.                *)
Crash ==
    /\ stage' = [u \in Uploads |->
            CASE stage[u] = "receiving" -> "aborted"
              [] stage[u] = "awaiting" -> "lost"
              [] stage[u] \notin {"receiving", "awaiting"} -> stage[u]]
    /\ UNCHANGED <<file, genuine, paid, published>>

Next ==
    \/ \E u \in Uploads :
         \/ Arrive(u) \/ Pay(u) \/ Abort(u) \/ Accept(u)
         \/ Supersede(u) \/ Verify(u) \/ Reject(u) \/ Publish(u)
    \/ Crash

Spec == Init /\ [][Next]_vars
=============================================================================
