---------------------------- MODULE MC_Balancer ----------------------------
(***************************************************************************)
(* Balancer for TLC, with the pools that Config loads from an environment: *)
(* three upstreams and two, with blanks among them, and a variable left    *)
(* unset.                                                                  *)
(***************************************************************************)
EXTENDS Balancer, Config

MCPool == {"general", "high-compute", "fast-path"}

MCLabel == MCPool \cup {"unknown"}

MCDefault ==
  [p \in MCPool |-> CASE p = "general" -> <<"localhost:9001">>
                      [] p = "high-compute" -> <<"localhost:9002">>
                      [] p = "fast-path" -> <<"localhost:9003">>]

MCEnv ==
  [p \in MCPool |-> CASE p = "general" -> <<"a", Blank, "b", "c">>
                      [] p = "high-compute" -> <<"d", "e", Blank>>
                      [] p = "fast-path" -> << >>]

MCUpstreams == Load(MCEnv, MCDefault)
=============================================================================
