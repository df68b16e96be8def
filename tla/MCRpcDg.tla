------------------------------ MODULE MCRpcDg ------------------------------
(* Instances of RpcDg for TLC. *)
EXTENDS RpcDg, FiniteSets

\* Bound: a client gives up one call that it has no answer of.
OneGivenUp == Cardinality({p.seq : p \in {q \in sent : q.type = "quit"}}) <= 1
=============================================================================
