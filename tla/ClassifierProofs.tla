-------------------------- MODULE ClassifierProofs --------------------------
(***************************************************************************)
(* Proofs about Classifier, for any number of calls, payloads, threads and *)
(* places of the cache.  The inductive invariant Inv adds to the type      *)
(* invariant where each job is (Jobs) and where each verdict that is on    *)
(* its way or cached comes from (Sourced).                                 *)
(***************************************************************************)
EXTENDS Classifier, FiniteSetTheorems, SequenceTheorems, TLAPS

\* A job waits only for a call that asks, runs only for one that has arrived,
\* never does both, and has an outcome only when it is done.
Jobs ==
  /\ \A c \in Call : pc[c] = "idle" <=> payload[c] = None
  /\ \A c \in Range(queue) : pc[c] = "asking" /\ c \notin running /\ outcome[c] = None
  /\ \A c \in running : pc[c] # "idle"
  /\ \A c \in Call : outcome[c] # None => pc[c] = "asking"
  /\ IsFiniteSet(running)

\* An outcome and a cached verdict are the fallback or what the model said
\* about the payload.
Sourced ==
  /\ \A c \in Call : outcome[c] # None => <<payload[c], outcome[c]>> \in said
  /\ \A k \in Keys : value[k] = Default \/ <<k, value[k]>> \in said

\* The cache's order of age repeats no key either.
Aged == age \in Seq(Payload) /\ IsInjective(age)

\* The inductive invariant.
Inv == TypeOK /\ Aged /\ Jobs /\ Sourced /\ Honest /\ CachedWasReplied

-----------------------------------------------------------------------------
(* Sequences without repetition.                                           *)

\* What RemoveFirst yields.
LEMMA RemoveFacts ==
  ASSUME NEW S, NEW s \in Seq(S), IsInjective(s), NEW e
  PROVE  /\ RemoveFirst(s, e) \in Seq(S)
         /\ IsInjective(RemoveFirst(s, e))
         /\ Range(RemoveFirst(s, e)) = Range(s) \ {e}
         /\ Len(RemoveFirst(s, e)) = IF e \in Range(s) THEN Len(s) - 1 ELSE Len(s)
<1>0. /\ Len(s) \in Nat /\ DOMAIN s = 1 .. Len(s) /\ \A i \in 1 .. Len(s) : s[i] \in S
      /\ \A i, j \in 1 .. Len(s) : s[i] = s[j] => i = j
  BY DEF IsInjective
<1>1. CASE e \notin Range(s)
  <2>1. RemoveFirst(s, e) = s
    BY <1>0, <1>1 DEF RemoveFirst, Range
  <2> QED BY <1>1, <2>1
<1>2. CASE e \in Range(s)
  <2>1. PICK k \in 1 .. Len(s) : s[k] = e
    BY <1>0, <1>2 DEF Range
  <2>2. SelectInSeq(s, LAMBDA v : v = e) = k
    <3>1. {i \in 1 .. Len(s) : s[i] = e} = {k}
      BY <1>0, <2>1
    <3>2. Min({k}) = k
      BY <2>1 DEF Min
    <3> QED BY <3>1, <3>2 DEF SelectInSeq
  <2>3. RemoveFirst(s, e) = SubSeq(s, 1, k - 1) \o SubSeq(s, k + 1, Len(s))
    BY <2>1, <2>2 DEF RemoveFirst, RemoveAt
  <2> DEFINE a == SubSeq(s, 1, k - 1)
             b == SubSeq(s, k + 1, Len(s))
             t == a \o b
  <2>4. /\ a \in Seq(S) /\ Len(a) = k - 1 /\ \A i \in 1 .. k - 1 : a[i] = s[i]
    BY <1>0, <2>1, SubSeqProperties
  <2>5. /\ b \in Seq(S) /\ Len(b) = Len(s) - k /\ \A i \in 1 .. Len(s) - k : b[i] = s[i + k]
    <3>1. k + 1 \in 1 .. Len(s) + 1 /\ Len(s) \in k + 1 - 1 .. Len(s)
      BY <1>0, <2>1
    <3>2. /\ b \in Seq(S) /\ Len(b) = IF k + 1 <= Len(s) THEN Len(s) - (k + 1) + 1 ELSE 0
          /\ \A i \in 1 .. Len(s) - (k + 1) + 1 : b[i] = s[k + 1 + i - 1]
      BY <3>1, SubSeqProperties
    <3> HIDE DEF b
    <3>3. Len(s) - (k + 1) + 1 = Len(s) - k
      BY <1>0, <2>1
    <3>4. Len(b) = Len(s) - k
      <4>1. CASE k + 1 <= Len(s)
        BY <3>2, <3>3, <4>1, Zenon
      <4>2. CASE ~(k + 1 <= Len(s))
        <5>1. \A n \in Nat : \A m \in 1 .. n : ~(m + 1 <= n) => n - m = 0
          OBVIOUS
        <5>2. Len(s) - k = 0
          BY <1>0, <4>2, <5>1, Zenon
        <5> QED BY <3>2, <4>2, <5>2, Zenon
      <4> QED BY <4>1, <4>2
    <3>6. \A i \in 1 .. Len(s) - k : k + 1 + i - 1 = i + k
      BY <1>0, <2>1
    <3>5. ASSUME NEW i \in 1 .. Len(s) - k PROVE b[i] = s[i + k]
      BY <3>2, <3>3, <3>6, Zenon
    <3> QED BY <3>2, <3>4, <3>5
  <2>9. RemoveFirst(s, e) = t
    BY <2>3
  <2> HIDE DEF a, b
  <2>6. /\ t \in Seq(S) /\ Len(t) = Len(s) - 1 /\ DOMAIN t = 1 .. Len(s) - 1
        /\ \A i \in 1 .. Len(s) - 1 : t[i] = IF i < k THEN s[i] ELSE s[i + 1]
    <3>1. t \in Seq(S) /\ Len(t) = Len(a) + Len(b)
          /\ \A i \in 1 .. Len(a) + Len(b) : t[i] = IF i <= Len(a) THEN a[i] ELSE b[i - Len(a)]
      BY <2>4, <2>5, ConcatProperties
    <3> HIDE DEF t
    <3>2. Len(t) = Len(s) - 1 /\ DOMAIN t = 1 .. Len(s) - 1
      BY <1>0, <2>1, <2>4, <2>5, <3>1
    <3>3. ASSUME NEW i \in 1 .. Len(s) - 1 PROVE t[i] = IF i < k THEN s[i] ELSE s[i + 1]
      <4>1. CASE i < k
        BY <1>0, <2>1, <2>4, <2>5, <3>1, <4>1
      <4>2. CASE ~(i < k)
        <5>1. Len(a) = k - 1 /\ Len(b) = Len(s) - k
          BY <2>4, <2>5
        <5>2. /\ i \in 1 .. Len(a) + Len(b) /\ ~(i <= Len(a))
              /\ i - Len(a) \in 1 .. Len(s) - k /\ i - Len(a) + k = i + 1
          BY <1>0, <2>1, <4>2, <5>1
        <5>3. t[i] = b[i - Len(a)]
          BY <3>1, <5>2
        <5>4. b[i - Len(a)] = s[i - Len(a) + k]
          BY <2>5, <5>2
        <5> QED BY <4>2, <5>2, <5>3, <5>4
      <4> QED BY <4>1, <4>2
    <3> QED BY <3>1, <3>2, <3>3
  <2> HIDE DEF t
  <2>7. IsInjective(t)
    <3> SUFFICES ASSUME NEW i \in 1 .. Len(s) - 1, NEW j \in 1 .. Len(s) - 1, t[i] = t[j]
                 PROVE  i = j
      BY <2>6 DEF IsInjective
    <3> QED BY <1>0, <2>1, <2>6
  <2>8. Range(t) = Range(s) \ {e}
    <3>1. ASSUME NEW x \in Range(t) PROVE x \in Range(s) \ {e}
      <4>1. PICK i \in 1 .. Len(s) - 1 : x = t[i]
        BY <2>6 DEF Range
      <4>2. CASE i < k
        BY <1>0, <2>1, <2>6, <4>1, <4>2 DEF Range
      <4>3. CASE ~(i < k)
        <5>1. x = s[i + 1] /\ i + 1 \in 1 .. Len(s) /\ i + 1 # k
          BY <1>0, <2>1, <2>6, <4>1, <4>3
        <5> QED BY <1>0, <2>1, <5>1 DEF Range
      <4> QED BY <4>2, <4>3
    <3>2. ASSUME NEW x \in Range(s) \ {e} PROVE x \in Range(t)
      <4>1. PICK i \in 1 .. Len(s) : x = s[i]
        BY <1>0 DEF Range
      <4>2. CASE i < k
        <5>1. i \in 1 .. Len(s) - 1 /\ t[i] = x
          BY <1>0, <2>1, <2>6, <4>1, <4>2
        <5> QED BY <2>6, <5>1 DEF Range
      <4>3. CASE ~(i < k)
        <5>1. i - 1 \in 1 .. Len(s) - 1 /\ t[i - 1] = x
          BY <1>0, <2>1, <2>6, <4>1, <4>3
        <5> QED BY <2>6, <5>1 DEF Range
      <4> QED BY <4>2, <4>3
    <3> QED BY <3>1, <3>2
  <2> QED BY <1>2, <2>9, <2>6, <2>7, <2>8
<1> QED BY <1>1, <1>2

\* What appending a new element yields.
LEMMA AppendNew ==
  ASSUME NEW S, NEW s \in Seq(S), IsInjective(s), NEW e \in S, e \notin Range(s)
  PROVE  /\ Append(s, e) \in Seq(S)
         /\ IsInjective(Append(s, e))
         /\ Range(Append(s, e)) = Range(s) \cup {e}
         /\ Len(Append(s, e)) = Len(s) + 1
<1>0. /\ Len(s) \in Nat /\ DOMAIN s = 1 .. Len(s)
      /\ \A i, j \in 1 .. Len(s) : s[i] = s[j] => i = j
      /\ \A i \in 1 .. Len(s) : s[i] # e
  BY DEF IsInjective, Range
<1> DEFINE t == Append(s, e)
<1>1. /\ t \in Seq(S) /\ Len(t) = Len(s) + 1 /\ DOMAIN t = 1 .. Len(s) + 1
      /\ \A i \in 1 .. Len(s) : t[i] = s[i]
      /\ t[Len(s) + 1] = e
  OBVIOUS
<1> HIDE DEF t
<1>2. IsInjective(t)
  <2> SUFFICES ASSUME NEW i \in 1 .. Len(s) + 1, NEW j \in 1 .. Len(s) + 1, t[i] = t[j]
               PROVE  i = j
    BY <1>1 DEF IsInjective
  <2> QED BY <1>0, <1>1
<1>3. Range(t) = Range(s) \cup {e}
  <2>1. ASSUME NEW x \in Range(t) PROVE x \in Range(s) \cup {e}
    BY <1>0, <1>1 DEF Range
  <2>2. \A x \in Range(s) : x \in Range(t)
    <3> SUFFICES ASSUME NEW i \in 1 .. Len(s) PROVE s[i] \in Range(t)
      BY <1>0 DEF Range
    <3> QED BY <1>0, <1>1 DEF Range
  <2>3. e \in Range(t)
    <3>1. Len(s) + 1 \in DOMAIN t
      BY <1>0, <1>1
    <3> QED BY <1>1, <3>1 DEF Range
  <2> QED BY <2>1, <2>2, <2>3
<1> QED BY <1>1, <1>2, <1>3 DEF t

\* What taking the head off yields.
LEMMA TailFacts ==
  ASSUME NEW S, NEW s \in Seq(S), IsInjective(s), s # << >>
  PROVE  /\ Head(s) \in Range(s) /\ Head(s) \in S
         /\ Tail(s) \in Seq(S)
         /\ IsInjective(Tail(s))
         /\ Range(Tail(s)) = Range(s) \ {Head(s)}
         /\ Len(Tail(s)) = Len(s) - 1
<1>0. /\ Len(s) \in Nat \ {0} /\ DOMAIN s = 1 .. Len(s) /\ 1 \in 1 .. Len(s)
      /\ \A i, j \in 1 .. Len(s) : s[i] = s[j] => i = j
  BY DEF IsInjective
<1> DEFINE t == Tail(s)
<1>1. /\ t \in Seq(S) /\ Len(t) = Len(s) - 1 /\ DOMAIN t = 1 .. Len(s) - 1
      /\ \A i \in 1 .. Len(s) - 1 : t[i] = s[i + 1]
      /\ Head(s) = s[1] /\ Head(s) \in S
  BY <1>0, HeadTailProperties
<1> HIDE DEF t
<1>2. IsInjective(t)
  <2> SUFFICES ASSUME NEW i \in 1 .. Len(s) - 1, NEW j \in 1 .. Len(s) - 1, t[i] = t[j]
               PROVE  i = j
    BY <1>1 DEF IsInjective
  <2> QED BY <1>0, <1>1
<1>3. Range(t) = Range(s) \ {Head(s)}
  <2>1. ASSUME NEW i \in 1 .. Len(s) - 1 PROVE t[i] \in Range(s) \ {Head(s)}
    <3>1. t[i] = s[i + 1] /\ i + 1 \in 1 .. Len(s) /\ i + 1 # 1
      BY <1>0, <1>1
    <3> QED BY <1>0, <1>1, <3>1 DEF Range
  <2>2. ASSUME NEW i \in 1 .. Len(s), s[i] # Head(s) PROVE s[i] \in Range(t)
    <3>1. i - 1 \in 1 .. Len(s) - 1 /\ t[i - 1] = s[i]
      BY <1>0, <1>1, <2>2
    <3> QED BY <1>1, <3>1 DEF Range
  <2> QED BY <1>0, <1>1, <2>1, <2>2 DEF Range
<1>4. Head(s) \in Range(s)
  BY <1>0, <1>1 DEF Range
<1> QED BY <1>1, <1>2, <1>3, <1>4 DEF t

\* What MoveToEnd yields.
LEMMA MoveFacts ==
  ASSUME NEW S, NEW s \in Seq(S), IsInjective(s), NEW e \in S
  PROVE  /\ MoveToEnd(s, e) \in Seq(S)
         /\ IsInjective(MoveToEnd(s, e))
         /\ Range(MoveToEnd(s, e)) = Range(s) \cup {e}
         /\ Len(MoveToEnd(s, e)) = IF e \in Range(s) THEN Len(s) ELSE Len(s) + 1
<1> DEFINE r == RemoveFirst(s, e)
<1>1. /\ r \in Seq(S) /\ IsInjective(r) /\ Range(r) = Range(s) \ {e}
      /\ Len(r) = IF e \in Range(s) THEN Len(s) - 1 ELSE Len(s)
  BY RemoveFacts
<1>2. Len(s) \in Nat
  OBVIOUS
<1> HIDE DEF r
<1>3. /\ Append(r, e) \in Seq(S) /\ IsInjective(Append(r, e))
      /\ Range(Append(r, e)) = Range(r) \cup {e} /\ Len(Append(r, e)) = Len(r) + 1
  BY <1>1, AppendNew
<1> QED BY <1>1, <1>2, <1>3 DEF MoveToEnd, r

-----------------------------------------------------------------------------
(* The cache.                                                              *)

\* What the cache is.
Cached ==
  /\ lru \in Seq(Payload) /\ IsInjective(lru) /\ Len(lru) <= MaxSize
  /\ age \in Seq(Payload) /\ IsInjective(age)
  /\ Len(age) = Len(lru) /\ Range(age) = Keys
  /\ value \in [Payload -> Outcome \cup {None}]
  /\ \A p \in Payload : p \in Keys <=> value[p] # None

\* None is neither a verdict nor a payload.
LEMMA NoneApart == None \notin Outcome /\ None \notin Payload /\ Default \in Outcome
BY ClassifierAssumption DEF Outcome

\* The entries of a sequence of payloads are payloads.
LEMMA RangeType == ASSUME NEW S, NEW s \in Seq(S) PROVE Range(s) \subseteq S
BY DEF Range

\* An insertion drops at most the victim, and nothing else changes its value
\* (cachetools' TTLCache with main.py:47-48).
LEMMA StoreFacts ==
  ASSUME Cached, NEW k \in Payload, NEW v \in Outcome, Store(k, v)
  PROVE  /\ Cached'
         /\ Keys' \subseteq Keys \cup {k}
         /\ value'[k] = v
         /\ \A j \in Keys' \ {k} : value'[j] = value[j]
<1> USE DEF Cached, Keys
<1>0. /\ lru \in Seq(Payload) /\ IsInjective(lru) /\ Len(lru) \in 0 .. MaxSize
      /\ age \in Seq(Payload) /\ IsInjective(age) /\ Len(age) = Len(lru)
      /\ Range(age) = Range(lru) /\ MaxSize \in Nat \ {0}
  BY ClassifierAssumption
<1> DEFINE w == Victim(k)
           l == RemoveFirst(lru, w)
           a == RemoveFirst(age, w)
<1>1. /\ w # k
      /\ w \in Range(lru) \/ (w = None /\ (k \in Range(lru) \/ Len(lru) < MaxSize))
  <2>1. CASE k \notin Range(lru) /\ Len(lru) = MaxSize
    <3>1. w = Head(lru) /\ lru # << >>
      BY <1>0, <2>1 DEF Victim
    <3> QED BY <1>0, <2>1, <3>1, TailFacts
  <2>2. CASE ~(k \notin Range(lru) /\ Len(lru) = MaxSize)
    <3>1. w = None
      BY <2>2 DEF Victim
    <3>2. k \in Range(lru) \/ Len(lru) < MaxSize
      BY <1>0, <2>2
    <3> QED BY <3>1, <3>2, NoneApart
  <2> QED BY <2>1, <2>2
<1>2. /\ lru' = MoveToEnd(l, k) /\ age' = MoveToEnd(a, k)
      /\ value' = [j \in Payload |-> IF j = k THEN v ELSE IF j = w THEN None ELSE value[j]]
  BY DEF Store
<1> HIDE DEF w
<1>3. /\ l \in Seq(Payload) /\ IsInjective(l) /\ Range(l) = Range(lru) \ {w}
      /\ Len(l) = IF w \in Range(lru) THEN Len(lru) - 1 ELSE Len(lru)
  BY <1>0, RemoveFacts
<1>4. /\ a \in Seq(Payload) /\ IsInjective(a) /\ Range(a) = Range(lru) \ {w}
      /\ Len(a) = IF w \in Range(lru) THEN Len(lru) - 1 ELSE Len(lru)
  BY <1>0, RemoveFacts
<1> HIDE DEF l, a
<1>5. /\ lru' \in Seq(Payload) /\ IsInjective(lru') /\ Range(lru') = (Range(lru) \ {w}) \cup {k}
      /\ Len(lru') = IF k \in Range(l) THEN Len(l) ELSE Len(l) + 1
  <2>1. /\ MoveToEnd(l, k) \in Seq(Payload) /\ IsInjective(MoveToEnd(l, k))
        /\ Range(MoveToEnd(l, k)) = Range(l) \cup {k}
        /\ Len(MoveToEnd(l, k)) = IF k \in Range(l) THEN Len(l) ELSE Len(l) + 1
    BY <1>3, MoveFacts
  <2> QED BY <1>2, <1>3, <2>1
<1>6. /\ age' \in Seq(Payload) /\ IsInjective(age') /\ Range(age') = (Range(lru) \ {w}) \cup {k}
      /\ Len(age') = IF k \in Range(a) THEN Len(a) ELSE Len(a) + 1
  <2>1. /\ MoveToEnd(a, k) \in Seq(Payload) /\ IsInjective(MoveToEnd(a, k))
        /\ Range(MoveToEnd(a, k)) = Range(a) \cup {k}
        /\ Len(MoveToEnd(a, k)) = IF k \in Range(a) THEN Len(a) ELSE Len(a) + 1
    BY <1>4, MoveFacts
  <2> QED BY <1>2, <1>4, <2>1
<1>7. Len(lru') <= MaxSize
  <2>1. CASE w \in Range(lru)
    <3>1. Len(l) = Len(lru) - 1
      BY <1>3, <2>1
    <3> QED BY <1>0, <1>5, <3>1
  <2>2. CASE w = None /\ w \notin Range(lru) /\ k \in Range(lru)
    <3>1. Len(l) = Len(lru) /\ k \in Range(l)
      BY <1>1, <1>3, <2>2
    <3> QED BY <1>0, <1>5, <3>1
  <2>3. CASE w = None /\ w \notin Range(lru) /\ Len(lru) < MaxSize
    <3>1. Len(l) = Len(lru)
      BY <1>3, <2>3
    <3>2. Len(lru') = Len(lru) \/ Len(lru') = Len(lru) + 1
      BY <1>5, <3>1
    <3> QED BY <1>0, <2>3, <3>2
  <2> QED BY <1>1, <2>1, <2>2, <2>3
<1>8. Len(age') = Len(lru')
  <2>1. Len(a) = Len(l) /\ Range(a) = Range(l)
    BY <1>3, <1>4
  <2> QED BY <1>5, <1>6, <2>1
<1>9. value' \in [Payload -> Outcome \cup {None}]
  BY <1>2
<1>10. \A p \in Payload : p \in Range(lru') <=> value'[p] # None
  BY <1>2, <1>5, NoneApart
<1>11. Cached'
  BY <1>5, <1>6, <1>7, <1>8, <1>9, <1>10
<1>12. Range(lru') \subseteq Range(lru) \cup {k} /\ value'[k] = v
  BY <1>2, <1>5
<1>13. \A j \in Range(lru') \ {k} : j \in Payload /\ value'[j] = value[j]
  <2>1. Range(lru) \subseteq Payload
    BY <1>0, RangeType
  <2> QED BY <1>2, <1>5, <2>1
<1> QED BY <1>11, <1>12, <1>13

\* A hit changes the order of use only.
LEMMA TouchFacts ==
  ASSUME Cached, NEW k \in Keys, Touch(k)
  PROVE  Cached' /\ Keys' = Keys /\ value' = value
<1>1. lru' = MoveToEnd(lru, k) /\ age' = age /\ value' = value /\ k \in Payload
  BY RangeType DEF Touch, Cached, Keys
<1>3. lru \in Seq(Payload) /\ IsInjective(lru) /\ k \in Payload
  BY <1>1 DEF Cached
<1>2. /\ lru' \in Seq(Payload) /\ IsInjective(lru')
      /\ Range(lru') = Range(lru) /\ Len(lru') = Len(lru)
  <2>1. /\ MoveToEnd(lru, k) \in Seq(Payload) /\ IsInjective(MoveToEnd(lru, k))
        /\ Range(MoveToEnd(lru, k)) = Range(lru) \cup {k}
        /\ Len(MoveToEnd(lru, k)) = IF k \in Range(lru) THEN Len(lru) ELSE Len(lru) + 1
    BY <1>3, MoveFacts
  <2> QED BY <1>1, <2>1 DEF Keys
<1> QED BY <1>1, <1>2 DEF Cached, Keys

\* An entry that expires leaves the others.
LEMMA ExpireFacts ==
  ASSUME Cached, Expire
  PROVE  /\ Cached'
         /\ Keys' \subseteq Keys
         /\ \A j \in Keys' : value'[j] = value[j]
<1> USE DEF Cached, Keys
<1> DEFINE h == Head(age)
<1>1. /\ age # << >> /\ lru' = RemoveFirst(lru, h) /\ age' = Tail(age)
      /\ value' = [value EXCEPT ![h] = None]
  BY DEF Expire
<1>2. /\ h \in Range(age) /\ h \in Payload /\ age' \in Seq(Payload) /\ IsInjective(age')
      /\ Range(age') = Range(age) \ {h} /\ Len(age') = Len(age) - 1
  BY <1>1, TailFacts
<1> HIDE DEF h
<1>3. /\ lru' \in Seq(Payload) /\ IsInjective(lru') /\ Range(lru') = Range(lru) \ {h}
      /\ Len(lru') = Len(lru) - 1
  BY <1>1, <1>2, RemoveFacts
<1>4. Len(lru') <= MaxSize
  BY <1>3, ClassifierAssumption
<1>5. Range(lru) \subseteq Payload
  BY RangeType
<1>6. \A p \in Payload : p \in Range(lru') <=> value'[p] # None
  BY <1>1, <1>2, <1>3
<1>7. value' \in [Payload -> Outcome \cup {None}]
  BY <1>1
<1>8. \A j \in Range(lru') : value'[j] = value[j]
  BY <1>1, <1>3, <1>5
<1> QED BY <1>2, <1>3, <1>4, <1>6, <1>7, <1>8
-----------------------------------------------------------------------------
(* Each part of Inv is kept by every step.                                 *)

\* The type invariant says of the cache what Cached says.
LEMMA CachedIsTyped == TypeOK /\ Aged => Cached
BY DEF TypeOK, Aged, Cached

\* A call has a job's place in the executor's queue only while it asks.
LEMMA OneJob == ASSUME Jobs, NEW c \in Call, pc[c] = "idle" PROVE c \notin Range(queue)
BY DEF Jobs

\* Every step keeps the cache in order, and what it does to it.
LEMMA CacheNext ==
  ASSUME Inv, [Next]_vars
  PROVE  Cached'
<1>1. Cached
  BY CachedIsTyped DEF Inv
<1>2. TypeOK /\ Jobs /\ Sourced
  BY DEF Inv
<1>3. ASSUME cache' = cache PROVE Cached'
  BY <1>1, <1>3 DEF Cached, Keys, cache
<1>4. ASSUME NEW c \in Call, NEW p \in Payload, Arrive(c, p) PROVE Cached'
  <2>1. CASE Key(p) \in Keys /\ Touch(Key(p))
    BY <1>1, <2>1, TouchFacts
  <2>2. CASE cache' = cache
    BY <1>3, <2>2
  <2> QED BY <1>4, <2>1, <2>2 DEF Arrive, cache
<1>5. ASSUME NEW c \in Call, Finish(c) PROVE Cached'
  <2>1. Key(payload[c]) \in Payload /\ outcome[c] \in Outcome
    BY <1>2, <1>5, NoneApart DEF Finish, TypeOK, Jobs, Key
  <2>2. Store(Key(payload[c]), outcome[c])
    BY <1>5 DEF Finish
  <2> QED BY <1>1, <2>1, <2>2, StoreFacts
<1>6. ASSUME NEW c \in Call, Timeout(c) PROVE Cached'
  <2>1. Key(payload[c]) \in Payload /\ Default \in Outcome
    BY <1>2, <1>6, NoneApart DEF Timeout, TypeOK, Jobs, Key
  <2>2. Store(Key(payload[c]), Default)
    BY <1>6 DEF Timeout
  <2> QED BY <1>1, <2>1, <2>2, StoreFacts
<1>7. CASE Expire
  BY <1>1, <1>7, ExpireFacts
<1>8. CASE StartJob
  BY <1>3, <1>8 DEF StartJob
<1>9. ASSUME NEW c \in Call, NEW v \in Outcome, EndJob(c, v) PROVE Cached'
  BY <1>3, <1>9 DEF EndJob
<1>10. CASE UNCHANGED vars
  BY <1>3, <1>10 DEF vars, cache
<1> QED BY <1>4, <1>5, <1>6, <1>7, <1>8, <1>9, <1>10 DEF Next
\* The types outside the cache.
LEMMA TypesNext ==
  ASSUME Inv, [Next]_vars
  PROVE  (TypeOK /\ Aged)'
<1>1. Cached'
  BY CacheNext
<1>2. TypeOK /\ Jobs
  BY DEF Inv
<1> DEFINE Frame == /\ pc \in [Call -> {"idle", "asking", "replied"}]
                    /\ payload \in [Call -> Payload \cup {None}]
                    /\ reply \in [Call -> Outcome \cup {None}]
                    /\ outcome \in [Call -> Outcome \cup {None}]
                    /\ said \subseteq Payload \X Outcome
           Waits == queue \in Seq(Call) /\ IsInjective(queue)
           Runs == running \subseteq Call /\ Cardinality(running) <= Threads
<1>3. Frame /\ Waits /\ Runs
  BY <1>2 DEF TypeOK
<1> SUFFICES (Frame /\ Waits /\ Runs)'
  BY <1>1 DEF TypeOK, Aged, Cached
<1>4. ASSUME NEW c \in Call, NEW p \in Payload, Arrive(c, p) PROVE (Frame /\ Waits /\ Runs)'
  <2>1. /\ running' = running /\ outcome' = outcome /\ said' = said /\ pc[c] = "idle"
        /\ payload' = [payload EXCEPT ![c] = p]
    BY <1>4 DEF Arrive
  <2>2. CASE /\ Key(p) \in Keys /\ Reply(c, value[Key(p)]) /\ queue' = queue
    <3>1. value[p] \in Outcome \cup {None}
      BY <1>2 DEF TypeOK
    <3> QED BY <1>3, <2>1, <2>2, <3>1 DEF Reply, Key
  <2>3. CASE /\ pc' = [pc EXCEPT ![c] = "asking"]
             /\ queue' = Append(queue, c) /\ reply' = reply
    <3>1. c \notin Range(queue)
      BY <1>2, <2>1, OneJob
    <3>2. Append(queue, c) \in Seq(Call) /\ IsInjective(Append(queue, c))
      BY <1>3, <3>1, AppendNew
    <3> QED BY <1>3, <2>1, <2>3, <3>2
  <2> QED BY <1>4, <2>2, <2>3 DEF Arrive
<1>5. CASE StartJob
  <2>1. /\ queue # << >> /\ Cardinality(running) < Threads
        /\ running' = running \cup {Head(queue)} /\ queue' = Tail(queue)
        /\ UNCHANGED <<pc, payload, reply, outcome, said>>
    BY <1>5 DEF StartJob
  <2>2. Head(queue) \in Call /\ Tail(queue) \in Seq(Call) /\ IsInjective(Tail(queue))
    BY <1>3, <2>1, TailFacts
  <2>3. IsFiniteSet(running) /\ Cardinality(running) \in Nat
    BY <1>2, FS_CardinalityType DEF Jobs
  <2>4. Cardinality(running \cup {Head(queue)})
          = IF Head(queue) \in running THEN Cardinality(running) ELSE Cardinality(running) + 1
    BY <2>3, FS_AddElement
  <2>5. Cardinality(running') <= Threads
    BY <2>1, <2>3, <2>4, ClassifierAssumption
  <2> QED BY <1>3, <2>1, <2>2, <2>5
<1>6. ASSUME NEW c \in Call, NEW v \in Outcome, EndJob(c, v) PROVE (Frame /\ Waits /\ Runs)'
  <2>1. /\ c \in running /\ running' = running \ {c}
        /\ said' = said \cup {<<payload[c], v>>}
        /\ outcome' = [outcome EXCEPT ![c] = IF pc[c] = "asking" THEN v ELSE @]
        /\ UNCHANGED <<pc, payload, reply, queue>>
    BY <1>6 DEF EndJob
  <2>2. payload[c] \in Payload
    BY <1>2, <2>1 DEF TypeOK, Jobs
  <2>3. IsFiniteSet(running) /\ Cardinality(running) \in Nat
    BY <1>2, FS_CardinalityType DEF Jobs
  <2>4. Cardinality(running \ {c}) <= Cardinality(running) /\ Cardinality(running \ {c}) \in Nat
    BY <2>3, FS_Subset, FS_CardinalityType
  <2>5. Cardinality(running') <= Threads
    BY <1>3, <2>1, <2>3, <2>4, ClassifierAssumption
  <2> QED BY <1>3, <2>1, <2>2, <2>5
<1>7. ASSUME NEW c \in Call, Finish(c) PROVE (Frame /\ Waits /\ Runs)'
  BY <1>3, <1>7 DEF Finish, Reply
<1>8. ASSUME NEW c \in Call, Timeout(c) PROVE (Frame /\ Waits /\ Runs)'
  <2>1. /\ queue' = RemoveFirst(queue, c) /\ Reply(c, Default)
        /\ outcome' = [outcome EXCEPT ![c] = None] /\ UNCHANGED <<payload, running, said>>
    BY <1>8 DEF Timeout
  <2>2. RemoveFirst(queue, c) \in Seq(Call) /\ IsInjective(RemoveFirst(queue, c))
    BY <1>3, RemoveFacts
  <2> QED BY <1>3, <2>1, <2>2, NoneApart DEF Reply
<1>9. CASE Expire
  BY <1>3, <1>9 DEF Expire
<1>10. CASE UNCHANGED vars
  BY <1>3, <1>10 DEF vars
<1> QED BY <1>4, <1>5, <1>6, <1>7, <1>8, <1>9, <1>10 DEF Next

\* Jobs come from calls that have arrived.
LEMMA JobsNext ==
  ASSUME Inv, [Next]_vars
  PROVE  Jobs'
<1>1. TypeOK /\ Jobs
  BY DEF Inv
<1>2. /\ pc \in [Call -> {"idle", "asking", "replied"}] /\ payload \in [Call -> Payload \cup {None}]
      /\ outcome \in [Call -> Outcome \cup {None}]
      /\ queue \in Seq(Call) /\ IsInjective(queue) /\ running \subseteq Call
  BY <1>1 DEF TypeOK
<1>3. Range(queue) \subseteq Call
  BY <1>2, RangeType
<1> USE <1>1, <1>2, <1>3 DEF Jobs
<1>4. ASSUME NEW c \in Call, NEW p \in Payload, Arrive(c, p) PROVE Jobs'
  <2>1. /\ running' = running /\ outcome' = outcome /\ pc[c] = "idle"
        /\ payload' = [payload EXCEPT ![c] = p] /\ p # None
    BY <1>4, NoneApart DEF Arrive
  <2>2. c \notin Range(queue)
    BY <2>1
  <2>3. CASE Reply(c, value[Key(p)]) /\ queue' = queue
    BY <2>1, <2>2, <2>3 DEF Reply
  <2>4. CASE pc' = [pc EXCEPT ![c] = "asking"] /\ queue' = Append(queue, c)
    <3>1. Range(Append(queue, c)) = Range(queue) \cup {c}
      BY <2>2, AppendNew
    <3> QED BY <2>1, <2>4, <3>1
  <2> QED BY <1>4, <2>3, <2>4 DEF Arrive
<1>5. CASE StartJob
  <2>1. /\ queue # << >> /\ running' = running \cup {Head(queue)} /\ queue' = Tail(queue)
        /\ UNCHANGED <<pc, payload, outcome>>
    BY <1>5 DEF StartJob
  <2>2. Head(queue) \in Range(queue) /\ Range(Tail(queue)) = Range(queue) \ {Head(queue)}
    BY <2>1, TailFacts
  <2>3. IsFiniteSet(running')
    BY <2>1, FS_AddElement
  <2> QED BY <2>1, <2>2, <2>3
<1>6. ASSUME NEW c \in Call, NEW v \in Outcome, EndJob(c, v) PROVE Jobs'
  <2>1. IsFiniteSet(running \ {c})
    BY FS_Subset
  <2> QED BY <1>6, <2>1 DEF EndJob
<1>7. ASSUME NEW c \in Call, Finish(c) PROVE Jobs'
  BY <1>7 DEF Finish, Reply
<1>8. ASSUME NEW c \in Call, Timeout(c) PROVE Jobs'
  <2>1. Range(RemoveFirst(queue, c)) = Range(queue) \ {c}
    BY RemoveFacts
  <2> QED BY <1>8, <2>1 DEF Timeout, Reply
<1>9. CASE Expire
  BY <1>9 DEF Expire
<1>10. CASE UNCHANGED vars
  BY <1>10 DEF vars
<1> QED BY <1>4, <1>5, <1>6, <1>7, <1>8, <1>9, <1>10 DEF Next
\* What the model has said stays said, and a step that stores a sourced verdict
\* leaves the cache sourced.
LEMMA StoreSourced ==
  ASSUME Cached, Sourced, NEW k \in Payload, NEW v \in Outcome, Store(k, v),
         said' = said, v = Default \/ <<k, v>> \in said
  PROVE  \A j \in Keys' : value'[j] = Default \/ <<j, value'[j]>> \in said'
<1>1. /\ Keys' \subseteq Keys \cup {k} /\ value'[k] = v
      /\ \A j \in Keys' \ {k} : value'[j] = value[j]
  BY StoreFacts
<1> QED BY <1>1 DEF Sourced

\* Where verdicts come from.
LEMMA SourcedNext ==
  ASSUME Inv, [Next]_vars
  PROVE  Sourced'
<1>1. TypeOK /\ Jobs /\ Sourced /\ Cached
  BY CachedIsTyped DEF Inv
<1>2. /\ payload \in [Call -> Payload \cup {None}] /\ outcome \in [Call -> Outcome \cup {None}]
      /\ running \subseteq Call /\ None \notin Payload
  BY <1>1, NoneApart DEF TypeOK
<1> DEFINE Jobbed == \A c \in Call : outcome[c] # None => <<payload[c], outcome[c]>> \in said
           Held == \A k \in Keys : value[k] = Default \/ <<k, value[k]>> \in said
<1>3. Jobbed /\ Held
  BY <1>1 DEF Sourced
<1> SUFFICES Jobbed' /\ Held'
  BY DEF Sourced
<1>4. ASSUME NEW c \in Call, NEW p \in Payload, Arrive(c, p) PROVE Jobbed' /\ Held'
  <2>1. /\ pc[c] = "idle" /\ outcome' = outcome /\ said' = said
        /\ payload' = [payload EXCEPT ![c] = p]
    BY <1>4 DEF Arrive
  <2>2. outcome[c] = None
    BY <1>1, <2>1 DEF Jobs
  <2>3. Keys' = Keys /\ value' = value
    <3>1. CASE Key(p) \in Keys /\ Touch(Key(p))
      BY <1>1, <3>1, TouchFacts
    <3>2. CASE cache' = cache
      BY <3>2 DEF cache, Keys
    <3> QED BY <1>4, <3>1, <3>2 DEF Arrive, cache
  <2> QED BY <1>2, <1>3, <2>1, <2>2, <2>3
<1>5. CASE StartJob
  BY <1>3, <1>5 DEF StartJob, cache, Keys
<1>6. ASSUME NEW c \in Call, NEW v \in Outcome, EndJob(c, v) PROVE Jobbed' /\ Held'
  <2>1. /\ said' = said \cup {<<payload[c], v>>}
        /\ outcome' = [outcome EXCEPT ![c] = IF pc[c] = "asking" THEN v ELSE @]
        /\ payload' = payload /\ lru' = lru /\ value' = value
    BY <1>6 DEF EndJob, cache
  <2> QED BY <1>2, <1>3, <2>1 DEF Keys
<1>7. ASSUME NEW c \in Call, Finish(c) PROVE Jobbed' /\ Held'
  <2>1. /\ pc[c] = "asking" /\ outcome[c] # None /\ Store(Key(payload[c]), outcome[c])
        /\ outcome' = [outcome EXCEPT ![c] = None] /\ UNCHANGED <<payload, said>>
    BY <1>7 DEF Finish
  <2>2. /\ Key(payload[c]) \in Payload /\ outcome[c] \in Outcome
        /\ <<Key(payload[c]), outcome[c]>> \in said
    BY <1>1, <1>2, <1>3, <2>1 DEF Jobs, Key
  <2>3. Cached /\ Sourced /\ Store(Key(payload[c]), outcome[c]) /\ said' = said
    BY <1>1, <2>1
  <2>4. \A j \in Keys' : value'[j] = Default \/ <<j, value'[j]>> \in said'
    BY <2>2, <2>3, StoreSourced, Zenon
  <2>5. Held'
    BY <2>4, Zenon
  <2> QED BY <1>2, <1>3, <2>1, <2>5
<1>8. ASSUME NEW c \in Call, Timeout(c) PROVE Jobbed' /\ Held'
  <2>1. /\ pc[c] = "asking" /\ Store(Key(payload[c]), Default)
        /\ outcome' = [outcome EXCEPT ![c] = None] /\ UNCHANGED <<payload, said>>
    BY <1>8 DEF Timeout
  <2>2. Key(payload[c]) \in Payload /\ Default \in Outcome
    BY <1>1, <1>2, <2>1, NoneApart DEF Jobs, Key
  <2>3. Cached /\ Sourced /\ Store(Key(payload[c]), Default) /\ said' = said
    BY <1>1, <2>1
  <2>4. \A j \in Keys' : value'[j] = Default \/ <<j, value'[j]>> \in said'
    BY <2>2, <2>3, StoreSourced, Zenon
  <2>5. Held'
    BY <2>4, Zenon
  <2> QED BY <1>2, <1>3, <2>1, <2>5
<1>9. CASE Expire
  <2>1. Keys' \subseteq Keys /\ \A j \in Keys' : value'[j] = value[j]
    BY <1>1, <1>9, ExpireFacts
  <2>2. UNCHANGED <<payload, outcome, said>>
    BY <1>9 DEF Expire
  <2> QED BY <1>3, <2>1, <2>2
<1>10. CASE UNCHANGED vars
  BY <1>3, <1>10 DEF vars, cache, Keys
<1> QED BY <1>4, <1>5, <1>6, <1>7, <1>8, <1>9, <1>10 DEF Next

\* Honest: a hit hands out a sourced verdict, and so does a job's outcome.
LEMMA HonestNext ==
  ASSUME Inv, [Next]_vars
  PROVE  Honest'
<1>1. TypeOK /\ Jobs /\ Sourced /\ Honest
  BY DEF Inv
<1>2. /\ pc \in [Call -> {"idle", "asking", "replied"}] /\ payload \in [Call -> Payload \cup {None}]
      /\ reply \in [Call -> Outcome \cup {None}]
  BY <1>1 DEF TypeOK
<1>3. \A c \in Call : pc[c] = "replied" => reply[c] = Default \/ <<payload[c], reply[c]>> \in said
  BY <1>1 DEF Honest
<1> USE DEF Honest
<1>4. ASSUME NEW c \in Call, NEW p \in Payload, Arrive(c, p) PROVE Honest'
  <2>1. said' = said /\ payload' = [payload EXCEPT ![c] = p]
    BY <1>4 DEF Arrive
  <2>2. CASE p \in Keys /\ Reply(c, value[p])
    <3>1. value[p] = Default \/ <<p, value[p]>> \in said
      BY <1>1, <2>2 DEF Sourced
    <3> QED BY <1>2, <1>3, <2>1, <2>2, <3>1 DEF Reply
  <2>3. CASE pc' = [pc EXCEPT ![c] = "asking"] /\ reply' = reply
    BY <1>2, <1>3, <2>1, <2>3
  <2> QED BY <1>4, <2>2, <2>3 DEF Arrive, Key
<1>5. CASE StartJob
  BY <1>3, <1>5 DEF StartJob
<1>6. ASSUME NEW c \in Call, NEW v \in Outcome, EndJob(c, v) PROVE Honest'
  BY <1>3, <1>6 DEF EndJob
<1>7. ASSUME NEW c \in Call, Finish(c) PROVE Honest'
  <2>1. <<payload[c], outcome[c]>> \in said
    BY <1>1, <1>7 DEF Finish, Sourced
  <2> QED BY <1>2, <1>3, <1>7, <2>1 DEF Finish, Reply
<1>8. ASSUME NEW c \in Call, Timeout(c) PROVE Honest'
  BY <1>2, <1>3, <1>8 DEF Timeout, Reply
<1>9. CASE Expire
  BY <1>3, <1>9 DEF Expire
<1>10. CASE UNCHANGED vars
  BY <1>3, <1>10 DEF vars
<1> QED BY <1>4, <1>5, <1>6, <1>7, <1>8, <1>9, <1>10 DEF Next

\* A call that stores a verdict gives it as its answer in the same step, and no
\* call that has been answered changes.
LEMMA StoreReplied ==
  ASSUME Inv, NEW c \in Call, pc[c] = "asking", NEW v \in Outcome,
         Store(Key(payload[c]), v), Reply(c, v), payload' = payload
  PROVE  CachedWasReplied'
<1>1. TypeOK /\ Jobs /\ Cached /\ CachedWasReplied
  BY CachedIsTyped DEF Inv
<1>2. pc \in [Call -> {"idle", "asking", "replied"}] /\ reply \in [Call -> Outcome \cup {None}]
  BY <1>1 DEF TypeOK
<1>3. Key(payload[c]) \in Payload
  BY <1>1, NoneApart DEF TypeOK, Jobs, Key
<1>4. /\ Keys' \subseteq Keys \cup {Key(payload[c])} /\ value'[Key(payload[c])] = v
      /\ \A j \in Keys' \ {Key(payload[c])} : value'[j] = value[j]
  BY <1>1, <1>3, StoreFacts
<1> SUFFICES ASSUME NEW k \in Keys'
             PROVE  \E d \in Call : pc'[d] = "replied" /\ Key(payload[d]) = k
                                    /\ reply'[d] = value'[k]
  BY DEF CachedWasReplied, Key
<1>5. CASE k = Key(payload[c])
  BY <1>2, <1>4, <1>5 DEF Reply
<1>6. CASE k # Key(payload[c])
  <2>1. PICK d \in Call : pc[d] = "replied" /\ Key(payload[d]) = k /\ reply[d] = value[k]
    BY <1>1, <1>4, <1>6 DEF CachedWasReplied
  <2>2. d # c
    BY <2>1
  <2>3. pc'[d] = "replied" /\ reply'[d] = value'[k]
    BY <1>2, <1>4, <1>6, <2>1, <2>2 DEF Reply
  <2> QED BY <2>1, <2>3
<1> QED BY <1>5, <1>6

\* CachedWasReplied.
LEMMA CachedWasRepliedNext ==
  ASSUME Inv, [Next]_vars
  PROVE  CachedWasReplied'
<1>1. TypeOK /\ Jobs /\ Cached /\ CachedWasReplied
  BY CachedIsTyped DEF Inv
<1>2. /\ pc \in [Call -> {"idle", "asking", "replied"}] /\ payload \in [Call -> Payload \cup {None}]
      /\ reply \in [Call -> Outcome \cup {None}] /\ outcome \in [Call -> Outcome \cup {None}]
  BY <1>1 DEF TypeOK
<1>3. ASSUME Keys' \subseteq Keys, \A k \in Keys' : value'[k] = value[k],
             \A c \in Call : pc[c] = "replied" =>
               pc'[c] = "replied" /\ payload'[c] = payload[c] /\ reply'[c] = reply[c]
      PROVE  CachedWasReplied'
  <2> SUFFICES ASSUME NEW k \in Keys'
               PROVE  \E d \in Call : pc'[d] = "replied" /\ payload'[d] = k /\ reply'[d] = value'[k]
    BY DEF CachedWasReplied, Key
  <2>1. PICK d \in Call : pc[d] = "replied" /\ Key(payload[d]) = k /\ reply[d] = value[k]
    BY <1>1, <1>3 DEF CachedWasReplied
  <2> QED BY <1>3, <2>1 DEF Key
<1>4. ASSUME NEW c \in Call, NEW p \in Payload, Arrive(c, p) PROVE CachedWasReplied'
  <2>1. pc[c] = "idle" /\ payload' = [payload EXCEPT ![c] = p]
    BY <1>4 DEF Arrive
  <2>2. Keys' = Keys /\ value' = value
    <3>1. CASE Key(p) \in Keys /\ Touch(Key(p))
      BY <1>1, <3>1, TouchFacts
    <3>2. CASE cache' = cache
      BY <3>2 DEF cache, Keys
    <3> QED BY <1>4, <3>1, <3>2 DEF Arrive, cache
  <2>3. \A d \in Call : pc[d] = "replied" =>
          pc'[d] = "replied" /\ payload'[d] = payload[d] /\ reply'[d] = reply[d]
    BY <1>2, <1>4, <2>1 DEF Arrive, Reply
  <2> QED BY <1>3, <2>2, <2>3
<1>5. CASE StartJob
  BY <1>3, <1>5 DEF StartJob, cache, Keys
<1>6. ASSUME NEW c \in Call, NEW v \in Outcome, EndJob(c, v) PROVE CachedWasReplied'
  BY <1>3, <1>6 DEF EndJob, cache, Keys
<1>7. ASSUME NEW c \in Call, Finish(c) PROVE CachedWasReplied'
  <2>1. /\ pc[c] = "asking" /\ outcome[c] \in Outcome
        /\ Store(Key(payload[c]), outcome[c]) /\ Reply(c, outcome[c]) /\ payload' = payload
    BY <1>2, <1>7 DEF Finish
  <2> QED BY <2>1, StoreReplied
<1>8. ASSUME NEW c \in Call, Timeout(c) PROVE CachedWasReplied'
  <2>1. /\ pc[c] = "asking" /\ Store(Key(payload[c]), Default) /\ Reply(c, Default)
        /\ payload' = payload
    BY <1>8 DEF Timeout
  <2> QED BY <2>1, StoreReplied, NoneApart
<1>9. CASE Expire
  <2>1. Keys' \subseteq Keys /\ \A j \in Keys' : value'[j] = value[j]
    BY <1>1, <1>9, ExpireFacts
  <2>2. UNCHANGED <<pc, payload, reply>>
    BY <1>9 DEF Expire
  <2> QED BY <1>3, <2>1, <2>2
<1>10. CASE UNCHANGED vars
  BY <1>3, <1>10 DEF vars, cache, Keys
<1> QED BY <1>4, <1>5, <1>6, <1>7, <1>8, <1>9, <1>10 DEF Next

\* Nothing is cached and nobody has called when the service starts.
LEMMA InitInv == Init => Inv
<1> SUFFICES ASSUME Init PROVE Inv
  OBVIOUS
<1>1. Range(<< >>) = {} /\ IsInjective(<< >>) /\ Len(<< >>) = 0
  BY DEF Range, IsInjective
<1>2. IsFiniteSet({}) /\ Cardinality({}) = 0
  BY FS_EmptySet
<1>3. TypeOK
  BY <1>1, <1>2, ClassifierAssumption DEF Init, TypeOK, Keys
<1>4. Aged /\ Jobs /\ Sourced /\ Honest /\ CachedWasReplied
  BY <1>1, <1>2 DEF Init, Aged, Jobs, Sourced, Honest, CachedWasReplied, Keys
<1> QED BY <1>3, <1>4 DEF Inv

\* Every step keeps the inductive invariant.
LEMMA NextInv == Inv /\ [Next]_vars => Inv'
BY TypesNext, JobsNext, SourcedNext, HonestNext, CachedWasRepliedNext DEF Inv

-----------------------------------------------------------------------------
(***************************************************************************)
(* The inductive invariant holds in every reachable state.                 *)
(***************************************************************************)
THEOREM Invariance == Spec => []Inv
BY InitInv, NextInv, PTL DEF Spec

(***************************************************************************)
(* The types; and the cache never holds more than its capacity, its two    *)
(* orders are of the same keys, and no more jobs run than there are        *)
(* threads (cache.py:6-31, llm.py:44-57).                                   *)
(***************************************************************************)
THEOREM Types == Spec => []TypeOK
<1>1. Inv => TypeOK
  BY DEF Inv
<1> QED BY <1>1, Invariance, PTL

(***************************************************************************)
(* However hits, evictions, expiries, timeouts and late answers            *)
(* interleave, an answer is the fallback or something the model has said   *)
(* about that very payload (main.py:39-52).                                *)
(***************************************************************************)
THEOREM Honesty == Spec => []Honest
<1>1. Inv => Honest
  BY DEF Inv
<1> QED BY <1>1, Invariance, PTL

(***************************************************************************)
(* What is cached was some call's answer: the late answer of a job whose   *)
(* call has timed out goes nowhere (llm.py:44-57, main.py:47-48).          *)
(***************************************************************************)
THEOREM Replied == Spec => []CachedWasReplied
<1>1. Inv => CachedWasReplied
  BY DEF Inv
<1> QED BY <1>1, Invariance, PTL
=============================================================================
