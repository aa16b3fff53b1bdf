---------------------------- MODULE MCEthereumApi ----------------------------
(***************************************************************************)
(* EthereumApi for TLC.                                                    *)
(***************************************************************************)
EXTENDS EthereumApi

BothProtocols == {"http", "ws"}
OnlyHttp == {"http"}
AllChains == {"celo", "cronos", "other"}
OnlyOther == {"other"}
Celo == {"celo"}
Deep == 2..3
Young == 0..1
=============================================================================
