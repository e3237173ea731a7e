------------------------------ MODULE Balancer ------------------------------
(***************************************************************************)
(* The proxy's router and its round-robin pools (proxy/balancer).  Each    *)
(* pool has one atomic uint64 counter and nothing else that changes; the   *)
(* counter's atomic Add is the only shared operation of a choice, so a     *)
(* choice is one step.                                                     *)
(***************************************************************************)
EXTENDS Integers, Sequences

CONSTANTS
  Label,       \* what a classification may name, known to the router or not
  Pool,        \* the labels that have a pool
  General,     \* the pool of every other label, "general"
  Upstreams,   \* Upstreams[p]: the upstreams of pool p, in order; may be empty
  CounterMod,  \* the counter wraps here (2^64)
  MaxWraps     \* bound of the model: how often a counter wraps

ASSUME BalancerAssumption ==
  /\ General \in Pool /\ Pool \subseteq Label
  /\ DOMAIN Upstreams = Pool
  /\ \A p \in Pool : Len(Upstreams[p]) \in Nat
  /\ CounterMod \in Nat \ {0}
  /\ MaxWraps \in Nat

VARIABLES
  counter  \* counter[p]: the atomic counter of pool p

\* History variables.
VARIABLES
  served,  \* served[p][i]: how often pool p has chosen its upstream i
  wraps    \* wraps[p]: how often the counter of pool p has wrapped

bvars == <<counter, served, wraps>>

Size(p) == Len(Upstreams[p])

Index(p) == 0 .. Size(p) - 1

Init ==
  /\ counter = [p \in Pool |-> 0]
  /\ served = [p \in Pool |-> [i \in Index(p) |-> 0]]
  /\ wraps = [p \in Pool |-> 0]

Route(label) == IF label \in Pool THEN label ELSE General

\* Fault: the counter's value after the Add.
FaultSlotAfterAdd(p) == (counter[p] + 1) % Size(p)

\* The counter's value before the Add, reduced to an index.
Slot(p) == counter[p] % Size(p)

\* Fault: the counter does not wrap.
FaultBumpNoWrap(p) ==
  /\ counter' = [counter EXCEPT ![p] = @ + 1]
  /\ UNCHANGED wraps

Bump(p) ==
  /\ counter' = [counter EXCEPT ![p] = (@ + 1) % CounterMod]
  /\ wraps' = [wraps EXCEPT ![p] = IF counter[p] = CounterMod - 1 THEN @ + 1 ELSE @]

\* Pool.Next.  With no upstreams the counter moves too, and then the division
\* by zero panics in the goroutine of the request, which net/http recovers.
NextUpstream(p) ==
  /\ counter[p] = CounterMod - 1 => wraps[p] < MaxWraps
  /\ Bump(p)
  /\ IF Size(p) = 0
     THEN UNCHANGED served
     ELSE served' = [served EXCEPT ![p][Slot(p)] = @ + 1]

Next == \E label \in Label : NextUpstream(Route(label))

Spec == Init /\ [][Next]_bvars

-----------------------------------------------------------------------------
(***************************************************************************)
(* The types; the counter stays a uint64.                                  *)
(***************************************************************************)
TypeOK ==
  /\ counter \in [Pool -> 0 .. CounterMod - 1]
  /\ DOMAIN served = Pool
  /\ \A p \in Pool : served[p] \in [Index(p) -> Nat]
  /\ wraps \in [Pool -> Nat]

\* What wrapping adds to the imbalance: nothing if the pool's size divides 2^64.
Skew(p) == IF CounterMod % Size(p) = 0 THEN 0 ELSE wraps[p]

(***************************************************************************)
(* Pool.Next is fair whatever the interleaving of requests: of two         *)
(* upstreams of a pool the one listed first has been chosen as often as    *)
(* the other or once more.  The counter's wrap costs at most one more      *)
(* choice each time it happens (pool.go:14-17).                            *)
(***************************************************************************)
Balanced ==
  \A p \in Pool : \A i, j \in Index(p) :
    i < j => served[p][i] - served[p][j] \in 0 .. 1 + Skew(p)
=============================================================================
