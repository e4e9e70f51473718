---------------------------- MODULE MCCallManager ----------------------------
EXTENDS CallManager

CONSTANTS w1, w2, m1, m2, p1, p2, c1, c2

Line == <<m1, m2>>

Scene(froms, tos, may, whom) ==
    [from |-> froms, to |-> tos, may |-> may, whom |-> whom]
Pair(x, y) == [c \in {c1, c2} |-> IF c = c1 THEN x ELSE y]

(* Two phones call the centre, and one of them or a manager leaves, or the *)
(* server has no address; one phone calls it, and repeats its INVITE, has  *)
(* the address book edited, or is calling while another dials a manager;   *)
(* or a manager calls a phone, the centre, another manager.                *)
AllScenes ==
    {Scene(Pair(p1, p2), Pair(Centre, Centre), {"leave"}, {d}) : d \in {m1, p1}}
    \cup {Scene(Pair(p1, p2), Pair(Centre, Centre), {"no_address"}, {}),
          Scene(Pair(p1, p2), Pair(Centre, p1), {"repeat"}, {c1}),
          Scene(Pair(p1, p2), Pair(Centre, p1), {"edit"}, {m1}),
          Scene(Pair(p1, p2), Pair(Centre, m1), {}, {})}
    \cup {Scene(Pair(p1, m1), Pair(Centre, to), {}, {}) : to \in {p2, Centre, m2}}
=============================================================================
