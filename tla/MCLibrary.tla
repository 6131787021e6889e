----------------------------- MODULE MCLibrary -----------------------------
(* An instance of Library for TLC: two films in directories of which the   *)
(* name of one begins with the name of the other, one plan, two requests.  *)
EXTENDS Library

MCPaths == {"movies/a", "movies2/b"}
MCScopes == {{"movies/a"}, MCPaths}
MCLike(S) == IF S = {} THEN {} ELSE MCPaths  \* LIKE 'movies%'
MCRequests == {[id |-> 1, plan |-> "p", kind |-> "approve"],
               [id |-> 2, plan |-> "p", kind |-> "reject"]}
=============================================================================
