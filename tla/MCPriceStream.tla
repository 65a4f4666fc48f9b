--------------------------- MODULE MCPriceStream ---------------------------
(***************************************************************************)
(* One mint, which may graduate, and two passes of reconcile.              *)
(***************************************************************************)
EXTENDS PriceStream
==============================================================================
