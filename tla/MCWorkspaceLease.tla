-------------------------- MODULE MCWorkspaceLease --------------------------
(* Three launches in a repository, two of them in the same directory and    *)
(* one in a directory inside it.                                            *)
EXTENDS WorkspaceLease, TLC

CONSTANTS l1, l2, l3

MCPaths == {"repo", "repo/site"}
MCPathOf == l1 :> "repo" @@ l2 :> "repo" @@ l3 :> "repo/site"
MCOverlaps == MCPaths \X MCPaths
MCSymmetry == Permutations({l1, l2})
=============================================================================
