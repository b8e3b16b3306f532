--------------------------- MODULE MCWorkerClient ---------------------------
(* Three requests: one running, one queued behind it and one made late, so   *)
(* up to three workers, of which two are stopped and may still post.         *)
EXTENDS WorkerClient
=============================================================================
