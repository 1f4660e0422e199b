------------------------------ MODULE MCTopology ------------------------------
(***************************************************************************)
(* An instance of Topology for TLC: the API, and a worker on one of two    *)
(* lanes.                                                                  *)
(***************************************************************************)
EXTENDS Topology, TLC

CONSTANTS api, w1, lane, other

DeclareOrder == <<lane, other, Dead>>

Consumes == (api :> None) @@ (w1 :> lane)

=============================================================================
