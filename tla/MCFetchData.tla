----------------------------- MODULE MCFetchData -----------------------------
(***************************************************************************)
(* Instances of FetchData for TLC.                                         *)
(***************************************************************************)
EXTENDS FetchData

(* The connection EthereumApi makes: POST, no callback, no pass-through.   *)
NodeConnection ==
  {[get |-> FALSE, allow304 |-> FALSE, pass |-> FALSE, callback |-> FALSE]}
=============================================================================
