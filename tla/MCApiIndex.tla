------------------------------- MODULE MCApiIndex -------------------------------
(***************************************************************************)
(* ApiIndex for TLC: two bundles provide the same api, one also requires   *)
(* another one, and one has no image.                                      *)
(***************************************************************************)
EXTENDS ApiIndex

CONSTANTS b1, b2, b3, etcd, vault

MCProvided ==
    [n \in Names |-> IF n = b2 THEN {etcd, vault} ELSE {etcd}]

MCRequired == [n \in Names |-> IF n = b1 THEN {} ELSE {vault}]
=============================================================================
