------------------------ MODULE MCRefreshScheduling ------------------------
(***************************************************************************)
(* RefreshScheduling for TLC.  Two callers are enough for one to wait on    *)
(* the running pass while the other joins the next; a third can then arrive *)
(* between finishPoll and promoteRefreshWaiters.                            *)
(***************************************************************************)
EXTENDS RefreshScheduling
CONSTANTS c1, c2, c3, watcher
MCCallers == {c1, c2, c3}
=============================================================================
