--------------------------- MODULE MCSystemUpdate ---------------------------
EXTENDS SystemUpdate, TLC

\* "a" changes, and is not copied for the last update; "b" goes and comes
\* back; "c" comes and goes; the link "l" dangles, goes in vain, and comes.
MCPaths == {"a", "b", "c", "l"}
MCRelease ==
  0 :> [a |-> 1, b |-> 1, c |-> 0, l |-> 4]
  @@ 1 :> [a |-> 2, b |-> 0, c |-> 0, l |-> 0]
  @@ 2 :> [a |-> 3, b |-> 2, c |-> 1, l |-> 0]
  @@ 3 :> [a |-> 1, b |-> 2, c |-> 0, l |-> 5]
MCUncopied == 1 :> {} @@ 2 :> {} @@ 3 :> {"a"}
MCRank == 1 :> 1 @@ 2 :> 2 @@ 3 :> 3
=============================================================================
