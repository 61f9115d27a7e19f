------------------------------- MODULE MCWorker -------------------------------
(***************************************************************************)
(* Small instances of the worker.  Descriptors 0..3 stand for the ones     *)
(* worker_init leaves free; 8 and 9 are the signalfd and the timerfd.      *)
(***************************************************************************)
EXTENDS WorkerProperties, TLC

CONSTANTS c1, c2, c3, p1, p2, e1, e2, e3, sigev, timev

MCFd4 == {0, 1, 2, 3, 8, 9}
MCFd3 == {0, 1, 2, 8, 9}
MCEvent3 == {e1, e2, e3, sigev, timev}
MCEvent2 == {e1, e2, sigev, timev}

\* c3 lies in another subnet than c1 and collides with it.
MCPortOf == (c1 :> p1) @@ (c2 :> p2) @@ (c3 :> p1)
\* two cameras on two ports.
MCPortOf2 == (c1 :> p1) @@ (c2 :> p2)

NoConfig == <<>>
\* the config file gives a camera a port of its own.
OneConfigured == <<[port |-> p1, camera |-> c1]>>

\* discovery finds what is configured, a colliding camera, and a new one; or
\* too much; or nothing.
MCOutputs == {<<c3, c2>>, <<c2, c1, c2>>, <<>>}
ShortOutputs == {<<c2, c1>>, <<c1>>}
OneOutput == {<<c1>>}
PairOutput == {<<c1, c2>>}

MCSymmetry == Permutations({e1, e2, e3})

==============================================================================
