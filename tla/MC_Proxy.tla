----------------------------- MODULE MC_Proxy -----------------------------
(***************************************************************************)
(* Proxy for TLC: a pool of two upstreams, one whose only upstream         *)
(* url.Parse refuses, and one without upstreams.                           *)
(***************************************************************************)
EXTENDS Proxy, TLC

MCPool == {"general", "high-compute", "fast-path"}

MCUpstreams ==
  [p \in MCPool |-> CASE p = "general" -> <<"a", "b">>
                      [] p = "high-compute" -> <<"%">>
                      [] p = "fast-path" -> << >>]

MCOnePool == [p \in {"general"} |-> <<"a">>]

Symmetry == Permutations(Req)
=============================================================================
