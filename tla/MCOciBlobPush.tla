--------------------------- MODULE MCOciBlobPush ---------------------------
(* One repository whose authority retains one intent, and two blobs, the
   second too large to be retained at all. *)
EXTENDS OciBlobPush

CONSTANTS index, repo, d1, d2

Blob(d, n) ==
    [repository |-> index, resource |-> repo, group |-> None, digest |-> d, bytes |-> n,
     max_resource_artifact_bytes |-> None]
TwoBlobs == {Blob(d1, 1), Blob(d2, 4)}
PolicyLimits ==
    (index :> [max_artifact_bytes |-> None, max_accounted_bytes |-> 4, max_resources |-> None,
               max_groups_per_resource |-> None, audit |-> FALSE])

PassSymmetry == Permutations(Finalizers)
=============================================================================
