-------------------------- MODULE MCMetadataWriter --------------------------
(* Two pods, the second reading from the first, in one workflow or in two,  *)
(* with caches for one pod or for both; the first may be a v2 pod.          *)
EXTENDS MetadataWriter

CONSTANTS p1, p2, w1, w2

MCPods == {p1, p2}

MCUpstream == [p \in MCPods |-> IF p = p2 THEN p1 ELSE NoPod]

Setup(w, own, size) ==
    [workflow |-> [p \in MCPods |-> IF p = p1 THEN w1 ELSE w], own |-> own,
     podSize |-> size, contextSize |-> size, writtenSize |-> size]

MCSetups == {Setup(w1, {}, 2), Setup(w2, {}, 1), Setup(w1, {p1}, 1)}

=============================================================================
