----------------------------- MODULE MCRpcBudget -----------------------------
(***************************************************************************)
(* A cheap worker and a dear one, and two people with room for one call.   *)
(***************************************************************************)
EXTENDS RpcBudget, TLC
CONSTANTS cheap, dear
MCCredits == cheap :> 1 @@ dear :> 2
==============================================================================
