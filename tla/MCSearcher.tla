------------------------------ MODULE MCSearcher ------------------------------
(* Two pools and the two paths through them, whose first and second steps share
   inputs, and a small table of outputs: some versions yield a profit, and at
   version 3 the second pool is dry. *)
EXTENDS Searcher

CONSTANTS p1, p2

MCFeedBlocks == 2..4

Hop(p, d) == [pool |-> p, dir |-> d]
MCPaths == {<<Hop(p1, "out"), Hop(p2, "back")>>,
            <<Hop(p2, "out"), Hop(p1, "back")>>}

MCOutput ==
    [x \in Pools \X Dirs \X Versions \X Amounts |->
        IF x[4] = 0 \/ (x[1] = p2 /\ x[3] = 3) THEN 0
        ELSE IF x[2] = "out" THEN 1 + (x[3] % 2) ELSE 2]

=============================================================================
