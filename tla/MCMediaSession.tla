--------------------------- MODULE MCMediaSession ----------------------------
(* MediaSession with a key frame in one packet and a frame in two; the    *)
(* first client may read too slowly.                                      *)
EXTENDS MediaSession, TLC

CONSTANTS c1, c2, p1, p2

TwoSchedulers == c1 :> 1 @@ c2 :> 2
TwoFrames == << [key |-> TRUE, packets |-> 1], [key |-> FALSE, packets |-> 2] >>

TwoLoops ==
    [conns |-> {c1, c2}, playing |-> {c1, c2}, slow |-> {c1}, pushers |-> {p1}, frames |-> 1]
TwoPushers ==
    [conns |-> {c1}, playing |-> {}, slow |-> {c1}, pushers |-> {p1, p2}, frames |-> 2]
OneOfEach ==
    [conns |-> {c1}, playing |-> {}, slow |-> {c1}, pushers |-> {p1}, frames |-> 2]
Sharing == {TwoLoops, TwoPushers}
Single == {OneOfEach}
=============================================================================
