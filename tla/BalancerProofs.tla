--------------------------- MODULE BalancerProofs ---------------------------
(***************************************************************************)
(* Proofs about Balancer, for pools of any size and any modulus of the     *)
(* counter.  Balanced is not inductive: the invariant (Exact) states the   *)
(* difference between two upstreams exactly, from where the counter stands *)
(* in its turn and how often it has wrapped in the middle of one.          *)
(***************************************************************************)
EXTENDS Balancer, TLAPS

\* Quotient and remainder.
LEMMA DivMod ==
  ASSUME NEW c \in Nat, NEW n \in Nat \ {0}
  PROVE  /\ c \div n \in Nat
         /\ c % n \in 0 .. n - 1
         /\ c = n * (c \div n) + (c % n)
BY SMT

\* Multiples of n are at least n apart.
LEMMA TimesMono ==
  ASSUME NEW n \in Nat, NEW p \in Nat, NEW q \in Nat, p < q
  PROVE  n * p + n <= n * q
<1>1. n * q = n * p + n * (q - p)
  BY SMT
<1>2. n * (q - p) = n + n * (q - p - 1) 
  BY SMT
<1>3. n * (q - p - 1) >= 0
  BY SMT
<1> QED BY <1>1, <1>2, <1>3, SMT

\* A remainder is determined by its range.
LEMMA ModUnique ==
  ASSUME NEW a \in Nat, NEW n \in Nat \ {0}, NEW q \in Nat, NEW r \in 0 .. n - 1,
         a = n * q + r
  PROVE  a % n = r
<1> DEFINE q2 == a \div n
           r2 == a % n
<1>1. q2 \in Nat /\ r2 \in 0 .. n - 1 /\ a = n * q2 + r2
  BY DivMod
<1> HIDE DEF q2, r2
<1>0. n * q2 \in Nat /\ n * q \in Nat
  BY <1>1, SMT
<1>2. CASE q < q2
  <2>1. n * q + n <= n * q2
    BY <1>1, <1>2, TimesMono
  <2> QED BY <1>1, <1>0, <2>1, SMT
<1>3. CASE q2 < q
  <2>1. n * q2 + n <= n * q
    BY <1>1, <1>3, TimesMono
  <2> QED BY <1>1, <1>0, <2>1, SMT
<1>4. CASE q2 = q
  <2>1. r2 = r
    BY <1>1, <1>0, <1>4, SMT
  <2> QED BY <2>1 DEF r2
<1> QED BY <1>1, <1>2, <1>3, <1>4

\* How a remainder moves when the dividend grows by one.
LEMMA ModSucc ==
  ASSUME NEW c \in Nat, NEW n \in Nat \ {0}
  PROVE  (c + 1) % n = IF (c % n) = n - 1 THEN 0 ELSE (c % n) + 1
<1> DEFINE q == c \div n
           r == c % n
<1>1. q \in Nat /\ r \in 0 .. n - 1 /\ c = n * q + r
  BY DivMod
<1> HIDE DEF q, r
<1>2. CASE r = n - 1
  <2>1. c + 1 = n * (q + 1) + 0
    BY <1>1, <1>2, SMT
  <2>2. (c + 1) % n = 0
    BY <1>1, <2>1, ModUnique
  <2> QED BY <1>2, <2>2 DEF r
<1>3. CASE r # n - 1
  <2>0. n * q \in Nat
    BY <1>1, SMT
  <2>1. c + 1 = n * q + (r + 1)
    BY <1>1, <2>0, SMT
  <2>2. (c + 1) % n = r + 1
    BY <1>1, <1>3, <2>1, ModUnique
  <2> QED BY <1>3, <2>2 DEF r
<1> QED BY <1>2, <1>3

-----------------------------------------------------------------------------
\* Where in a turn the counter wraps.
Remainder(p) == CounterMod % Size(p)

\* 1 if the boundary b lies between the indices i and j.
Between(i, b, j) == IF i < b /\ b <= j THEN 1 ELSE 0

\* The wraps count for the indices on both sides of Remainder, the running turn
\* for those on both sides of the next slot.
Exact ==
  \A p \in Pool : Size(p) # 0 =>
    \A i, j \in Index(p) : i < j =>
      served[p][i] - served[p][j]
        = (IF Between(i, Remainder(p), j) = 1 THEN wraps[p] ELSE 0)
          + Between(i, Slot(p), j)

\* The inductive invariant.
Inv == TypeOK /\ served = [p \in Pool |-> served[p]] /\ Exact

\* Pools have a size.
LEMMA SizeNat == \A p \in Pool : Size(p) \in Nat
BY BalancerAssumption DEF Size

\* No upstream has been chosen, and every slot is the first.
LEMMA InitInv == Init => Inv
<1> SUFFICES ASSUME Init PROVE Inv
  OBVIOUS
<1> USE DEF Init
<1>1. TypeOK
  BY BalancerAssumption DEF TypeOK
<1>2. served = [p \in Pool |-> served[p]]
  OBVIOUS
<1>3. ASSUME NEW p \in Pool, Size(p) # 0, NEW i \in Index(p), NEW j \in Index(p), i < j
      PROVE  served[p][i] - served[p][j]
               = (IF Between(i, Remainder(p), j) = 1 THEN wraps[p] ELSE 0)
                 + Between(i, Slot(p), j)
  <2>1. Size(p) \in Nat \ {0}
    BY SizeNat, <1>3
  <2>2. Slot(p) = 0
    <3>1. 0 = Size(p) * 0 + 0 /\ 0 \in 0 .. Size(p) - 1
      BY <2>1, SMT
    <3>2. 0 % Size(p) = 0
      BY <2>1, <3>1, ModUnique
    <3> QED BY <3>2 DEF Slot
  <2>3. i >= 0 /\ i \in Int
    BY <2>1 DEF Index
  <2>4. Between(i, Slot(p), j) = 0
    BY <2>2, <2>3, SMT DEF Between
  <2>5. served[p][i] = 0 /\ served[p][j] = 0 /\ wraps[p] = 0
    BY <1>3
  <2> QED BY <2>4, <2>5, SMT
<1> QED BY <1>1, <1>2, <1>3 DEF Inv, Exact

\* One choice moves the boundary of the turn past the index it served.
LEMMA TurnAdvances ==
  ASSUME NEW n \in Nat \ {0}, NEW i \in 0 .. n - 1, NEW j \in 0 .. n - 1, i < j,
         NEW s \in 0 .. n - 1, NEW t, t = IF s = n - 1 THEN 0 ELSE s + 1
  PROVE  Between(i, t, j)
           = Between(i, s, j) + (IF i = s THEN 1 ELSE 0) - (IF j = s THEN 1 ELSE 0)
BY SMT DEF Between

\* Between is a bit.
LEMMA BetweenBit == \A i, b, j : Between(i, b, j) \in {0, 1}
BY DEF Between

\* A request always has a pool (router.go:15-20).
LEMMA RouteInPool == \A label \in Label : Route(label) \in Pool
BY BalancerAssumption DEF Route

\* The counter stays a uint64.
LEMMA BumpType ==
  ASSUME TypeOK, NEW q \in Pool, Bump(q)
  PROVE  /\ counter' \in [Pool -> 0 .. CounterMod - 1]
         /\ wraps' \in [Pool -> Nat]
<1>1. (counter[q] + 1) % CounterMod \in 0 .. CounterMod - 1
  <2>1. counter[q] + 1 \in Nat
    BY BalancerAssumption DEF TypeOK
  <2> QED BY <2>1, DivMod, BalancerAssumption
<1> QED BY <1>1 DEF TypeOK, Bump

\* One choice of pool q keeps the invariant (pool.go:14-17).
LEMMA NextUpstreamInv ==
  ASSUME Inv, NEW q \in Pool, NextUpstream(q)
  PROVE  Inv'
<1>0. Size(q) \in Nat /\ Bump(q)
  BY SizeNat DEF NextUpstream
<1>1. counter' \in [Pool -> 0 .. CounterMod - 1] /\ wraps' \in [Pool -> Nat]
  BY <1>0, BumpType DEF Inv
<1>2. \A p \in Pool \ {q} :
        counter'[p] = counter[p] /\ served'[p] = served[p] /\ wraps'[p] = wraps[p]
  BY DEF Inv, TypeOK, NextUpstream, Bump
<1>3. CASE Size(q) = 0
  <2>1. served' = served
    BY <1>3 DEF NextUpstream
  <2>2. TypeOK'
    BY <1>1, <2>1 DEF Inv, TypeOK, Index, Size
  <2>3. Exact'
    BY <1>2, <1>3, <2>1 DEF Inv, Exact, Slot, Size, Remainder, Index
  <2> QED BY <2>1, <2>2, <2>3 DEF Inv
<1>4. CASE Size(q) # 0
  <2> DEFINE n == Size(q)
             s == Slot(q)
  <2>0. n \in Nat \ {0}
    BY <1>0, <1>4
  <2>1. counter[q] \in Nat /\ counter[q] + 1 \in Nat /\ CounterMod \in Nat \ {0}
    BY BalancerAssumption DEF Inv, TypeOK
  <2>2. s \in 0 .. n - 1
    BY <2>0, <2>1, DivMod DEF Slot
  <2>3. served' = [served EXCEPT ![q] = [served[q] EXCEPT ![s] = served[q][s] + 1]]
    BY <1>4 DEF NextUpstream
  <2>4. served[q] \in [0 .. n - 1 -> Nat] /\ DOMAIN served = Pool
    BY DEF Inv, TypeOK, Index
  <2>5. /\ served'[q] \in [0 .. n - 1 -> Nat]
        /\ \A i \in 0 .. n - 1 : served'[q][i] = served[q][i] + (IF i = s THEN 1 ELSE 0)
    <3>1. served'[q] = [served[q] EXCEPT ![s] = served[q][s] + 1]
      BY <2>3, <2>4
    <3> HIDE DEF n, s
    <3> QED BY <3>1, <2>2, <2>4, SMT
  <2>6. TypeOK'
    BY <1>1, <1>2, <2>3, <2>4, <2>5 DEF Inv, TypeOK, Index, Size
  <2>7. (served = [p \in Pool |-> served[p]])'
    BY <2>3, <2>4
  <2>8. Exact'
    <3> SUFFICES ASSUME NEW p \in Pool, Size(p) # 0,
                        NEW i \in Index(p), NEW j \in Index(p), i < j
                 PROVE  served'[p][i] - served'[p][j]
                          = (IF Between(i, Remainder(p), j) = 1 THEN wraps'[p] ELSE 0)
                            + Between(i, Slot(p)', j)
      BY DEF Exact, Index, Size, Remainder
    <3>1. CASE p # q
      BY <3>1, <1>2 DEF Inv, Exact, Slot, Size
    <3>2. CASE p = q
      <4> DEFINE d == served[q][i] - served[q][j]
                 w == wraps[q]
                 R == Remainder(q)
                 t == IF s = n - 1 THEN 0 ELSE s + 1
      <4>1. i \in 0 .. n - 1 /\ j \in 0 .. n - 1 /\ i < j
        BY <3>2 DEF Index
      <4>2. d = (IF Between(i, R, j) = 1 THEN w ELSE 0) + Between(i, s, j)
        BY <3>2, <1>4, <4>1 DEF Inv, Exact
      <4>3. served'[q][i] - served'[q][j]
              = d + (IF i = s THEN 1 ELSE 0) - (IF j = s THEN 1 ELSE 0)
        BY <2>4, <2>5, <4>1, SMT
      <4>4. Between(i, t, j)
              = Between(i, s, j) + (IF i = s THEN 1 ELSE 0) - (IF j = s THEN 1 ELSE 0)
        <5>1. t = IF s = n - 1 THEN 0 ELSE s + 1
          OBVIOUS
        <5> HIDE DEF n, s, t
        <5> QED BY <2>0, <2>2, <4>1, <5>1, TurnAdvances
      <4>5. t = (counter[q] + 1) % n
        BY <2>0, <2>1, ModSucc DEF Slot
      <4>6. w \in Nat
        BY DEF Inv, TypeOK
      <4>7. CASE counter[q] # CounterMod - 1
        <5>1. counter[q] + 1 = CounterMod * 0 + (counter[q] + 1)
          BY <2>1, SMT
        <5>2. counter[q] + 1 \in 0 .. CounterMod - 1
          <6>1. counter[q] \in 0 .. CounterMod - 1
            BY DEF Inv, TypeOK
          <6> QED BY <2>1, <4>7, <6>1, SMT
        <5>3. (counter[q] + 1) % CounterMod = counter[q] + 1
          BY <2>1, <5>1, <5>2, ModUnique
        <5>4. Slot(q)' = t /\ wraps'[q] = w
          BY <1>0, <4>5, <4>7, <5>3 DEF Bump, Inv, TypeOK, Slot, Size
        <5>5. Between(i, R, j) \in {0, 1} /\ Between(i, s, j) \in {0, 1}
          BY BetweenBit
        <5> HIDE DEF d, w, R, t, s, n
        <5>6. served'[q][i] - served'[q][j]
                = (IF Between(i, R, j) = 1 THEN w ELSE 0) + Between(i, t, j)
          BY <4>2, <4>3, <4>4, <4>6, <5>5, SMT
        <5> QED BY <3>2, <5>4, <5>6 DEF R
      <4>8. CASE counter[q] = CounterMod - 1
        <5>1. (counter[q] + 1) % CounterMod = 0
          BY <2>1, <4>8, ModSucc
        <5>2. t = R
          BY <4>5, <4>8, <2>1 DEF Remainder
        <5>3. Slot(q)' = 0 /\ wraps'[q] = w + 1
          <6>1. 0 % n = 0
            BY <2>0, ModUnique, 0 = n * 0 + 0 /\ 0 \in 0 .. n - 1
          <6> QED BY <1>0, <4>8, <5>1, <6>1 DEF Bump, Inv, TypeOK, Slot, Size
        <5>4. Between(i, 0, j) = 0
          BY <4>1, SMT DEF Between
        <5>5. Between(i, R, j) \in {0, 1} /\ Between(i, s, j) \in {0, 1}
          BY BetweenBit
        <5> HIDE DEF d, w, R, t, s, n
        <5>6. served'[q][i] - served'[q][j]
                = (IF Between(i, R, j) = 1 THEN w + 1 ELSE 0) + 0
          BY <4>2, <4>3, <4>4, <4>6, <5>2, <5>5, SMT
        <5> QED BY <3>2, <5>3, <5>4, <5>6 DEF R
      <4> QED BY <4>7, <4>8
    <3> QED BY <3>1, <3>2
  <2> QED BY <2>6, <2>7, <2>8 DEF Inv
<1> QED BY <1>3, <1>4

\* The exact imbalance is within the bounds that Balanced states.
LEMMA ExactIsBalanced == Inv => Balanced
<1> SUFFICES ASSUME Inv, NEW p \in Pool, NEW i \in Index(p), NEW j \in Index(p), i < j
             PROVE  served[p][i] - served[p][j] \in 0 .. 1 + Skew(p)
  BY DEF Balanced
<1>1. Size(p) \in Nat \ {0}
  BY SizeNat, SMT DEF Index
<1>2. served[p][i] - served[p][j]
        = (IF Between(i, Remainder(p), j) = 1 THEN wraps[p] ELSE 0)
          + Between(i, Slot(p), j)
  BY <1>1 DEF Inv, Exact
<1>3. wraps[p] \in Nat /\ Between(i, Slot(p), j) \in {0, 1} /\ i >= 0 /\ i \in Int
  BY <1>1 DEF Inv, TypeOK, Between, Index
<1>4. CASE Remainder(p) = 0
  <2>1. Between(i, Remainder(p), j) = 0 /\ Skew(p) = 0
    BY <1>3, <1>4 DEF Between, Remainder, Skew
  <2> QED BY <1>2, <1>3, <2>1, SMT
<1>5. CASE Remainder(p) # 0
  <2>1. Skew(p) = wraps[p]
    BY <1>5 DEF Remainder, Skew
  <2> QED BY <1>2, <1>3, <2>1, SMT
<1> QED BY <1>4, <1>5

\* Every step keeps the invariant.
LEMMA NextInv == Inv /\ [Next]_bvars => Inv'
<1> SUFFICES ASSUME Inv, [Next]_bvars PROVE Inv'
  OBVIOUS
<1>1. ASSUME NEW label \in Label, NextUpstream(Route(label)) PROVE Inv'
  BY <1>1, RouteInPool, NextUpstreamInv
<1>2. CASE UNCHANGED bvars
  BY <1>2 DEF Inv, TypeOK, Exact, bvars, Index, Size, Slot, Remainder
<1> QED BY <1>1, <1>2 DEF Next

\* The state of the pools keeps its types, and each counter its 64 bits.
THEOREM Types == Spec => []TypeOK
<1>1. Inv => TypeOK
  BY DEF Inv
<1> QED BY <1>1, InitInv, NextInv, PTL DEF Spec

\* Round robin is fair for pools of any size and whatever the counter wraps at:
\* the difference between two upstreams of a pool stays within one choice, and
\* one more per wrap if the pool's size does not divide 2^64 (pool.go:14-17).
THEOREM FairShare == Spec => []Balanced
BY InitInv, NextInv, ExactIsBalanced, PTL DEF Spec
=============================================================================
