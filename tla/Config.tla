------------------------------- MODULE Config -------------------------------
(***************************************************************************)
(* The proxy's upstream lists, from the environment                        *)
(* (proxy/config/config.go).  A variable's value is the sequence of its    *)
(* comma-separated parts, each the name of an upstream or Blank, a part of *)
(* nothing but white space; a variable that is unset or "" is << >>.       *)
(***************************************************************************)
EXTENDS Sequences

CONSTANT Blank

getenv(value, def) == IF value = << >> THEN def ELSE value

\* A list of blanks is a list of no upstreams: "," does not fall back on def.
splitURLs(parts) ==
  LET Kept(part) == part # Blank
  IN SelectSeq(parts, Kept)

Load(env, def) == [p \in DOMAIN env |-> splitURLs(getenv(env[p], def[p]))]
=============================================================================
