----------------------------- MODULE MCEventLoop -----------------------------
(* Instances of EventLoop for TLC: two threads with a loop, one without.    *)
EXTENDS EventLoop, TLC

CONSTANTS main, worker, poster, app, r1

OneOnMain == (r1 :> main)

OneOnWorker == (r1 :> worker)
=============================================================================
