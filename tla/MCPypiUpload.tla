---------------------------- MODULE MCPypiUpload ----------------------------
(* One project and two distributions of one size, of which the project has
   room for two. *)
EXTENDS PypiUpload

CONSTANTS index, project, release1, a, b

Distribution(d) ==
    [repository |-> index, resource |-> project, group |-> release1, digest |-> d, bytes |-> 1,
     max_resource_artifact_bytes |-> 2]
Rivals == {Distribution(a), Distribution(b)}
PolicyLimits ==
    (index :> [max_artifact_bytes |-> None, max_accounted_bytes |-> None, max_resources |-> None,
               max_groups_per_resource |-> None, audit |-> FALSE])

Symmetry ==
    {p @@ q @@ r : p \in Permutations(Uploads), q \in Permutations({a, b}), r \in Permutations(Ids)}
=============================================================================
