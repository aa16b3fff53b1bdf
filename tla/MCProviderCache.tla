--------------------------- MODULE MCProviderCache ---------------------------
(***************************************************************************)
(* ProviderCache for TLC: two calls of a cached method, one of another     *)
(* cached method and one of a method that is not cached.                   *)
(***************************************************************************)
EXTENDS ProviderCache, TLC

CONSTANTS c1, c2, c3, c4
MCMethod == c1 :> "eth_chainId" @@ c2 :> "eth_chainId"
            @@ c3 :> "eth_blockNumber" @@ c4 :> "eth_getLogs"
MCCached == {"eth_chainId", "eth_blockNumber"}
=============================================================================
