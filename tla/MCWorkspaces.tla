---------------------------- MODULE MCWorkspaces ----------------------------
(* Two instances.  Retention: two runs of one host, its retention pass and its durable      *)
(* cleanup, and a peer.  Contention: one run with a process, and every terminal removal of   *)
(* two hosts.                                                                              *)
EXTENDS Workspaces

CONSTANTS H1, H2

MCPeers == {<<H1, H2>>, <<H2, H1>>}

MCOwnerOf == [k \in {1, 2} |-> H1]

Retention == [removers |-> {Prune(H1), Displaced(H1), Captured(H1)}, runs |-> {1, 2}, spawning |-> {}]

Contention == [removers |-> {H1, H2} \X {"terminal", "captured"}, runs |-> {1}, spawning |-> {1}]

MCInstances == {Retention, Contention}
=============================================================================
