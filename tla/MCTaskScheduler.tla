--------------------------- MODULE MCTaskScheduler ---------------------------
(* TaskScheduler with one thread that posts three callbacks, enough to find *)
(* a buffer of two places full, or with two threads that post twice.        *)
EXTENDS TaskScheduler, TLC

CONSTANTS p1, p2, loop

PosterAndLoop == p1 :> 3 @@ loop :> 1
TwoPosters == p1 :> 2 @@ p2 :> 2
=============================================================================
