--------------------------- MODULE MCHttpServer ---------------------------
(* Three connections over three handles, at most two tasks at a time: the  *)
(* third is refused, or comes when a handle can be used again.             *)
(* Two of them come from one origin, the third from another.               *)
EXTENDS HttpServer, TLC

CONSTANTS c1, c2, c3, s1, s2, s3

MCConns == {c1, c2, c3}
MCTwoConns == {c1, c2}
MCSockets == {s1, s2, s3}
MCTwoSockets == {s1, s2}
MCOrigins == {"editor", "page"}
MCOrigin == [c \in MCConns |-> IF c = c3 THEN "page" ELSE "editor"]
MCTwoOrigin == [c \in MCTwoConns |-> "editor"]

\* Handles are alike, and so are the connections of one origin.
MCSymmetry == Permutations({c1, c2}) \cup Permutations(MCSockets)
=============================================================================
