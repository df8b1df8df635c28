----------------------------- MODULE MCStartup -----------------------------
(***************************************************************************)
(* One business thread, gt_network_m and two datanet threads.              *)
(***************************************************************************)
EXTENDS GtStartup

CONSTANTS business, network, datanet0, datanet1

MCBusinessTable == <<business, network>>
MCDatanetTable == <<datanet0, datanet1>>
=============================================================================
