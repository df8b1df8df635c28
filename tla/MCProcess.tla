----------------------------- MODULE MCProcess -----------------------------
(* A shell and three more process numbers for the daemon, its two parents    *)
(* and the job they belong to, so that numbers come back; messages around    *)
(* the end of the buffer; three failing calls, so that /dev/null and the     *)
(* socketpair can both be missing when a later call fails.                   *)
EXTENDS GtProcess

MCPids == 1..4
MCMsgLens == {0} \cup 993..998
=============================================================================
