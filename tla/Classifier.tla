----------------------------- MODULE Classifier -----------------------------
(***************************************************************************)
(* The classifier service (classifier/app): the /classify endpoint, its    *)
(* cache and its calls of the language model.                              *)
(*                                                                         *)
(* The endpoint is a coroutine on one event loop.  It gives the loop away  *)
(* only while it waits for the model: nothing is awaited under the cache's *)
(* lock, so the lock is never contended and a lookup with what follows it  *)
(* is one step.  The model is called in a thread of a bounded executor and *)
(* given up after a timeout; its thread is not.                            *)
(***************************************************************************)
EXTENDS Naturals, Sequences, FiniteSets, SequencesExt

CONSTANTS
  Call,      \* the requests to /classify
  Payload,   \* what they carry
  Verdict,   \* what the model can say that makes a response
  Poison,    \* what it can say that ClassifyResponse then refuses: a 500
  Default,   \* the fallback, "general" with confidence 0
  MaxSize,   \* cache_maxsize
  Threads,   \* threads of the executor
  None

ASSUME ClassifierAssumption ==
  /\ MaxSize \in Nat \ {0}
  /\ Threads \in Nat \ {0}
  /\ {Default, Poison, None} \cap Verdict = {}
  /\ Default # Poison /\ None \notin {Default, Poison} \cup Payload

VARIABLES
  pc,       \* where each call is: "idle", "asking" or "replied"
  payload,  \* payload[c]: what c asks about
  reply,    \* reply[c]: what c was answered
  queue,    \* calls whose job waits for a thread
  running,  \* calls whose job has a thread, given up or not
  outcome,  \* outcome[c]: what c's job has brought to the event loop
  lru,      \* the cache's keys, the least recently used first
  age,      \* the cache's keys, the one set first first
  value     \* value[k]: what is cached under k

\* History variable.
VARIABLE said  \* <<p, v>> such that the model has answered v to p

cache == <<lru, age, value>>
vars == <<pc, payload, reply, queue, running, outcome, cache, said>>

Outcome == Verdict \cup {Poison, Default}

\* Fault: the key is taken from a part that payloads share.
FaultKey(p) == CHOOSE q \in Payload : TRUE

\* SHA-256 of the payload's bytes.
Key(p) == p

Keys == Range(lru)

Init ==
  /\ pc = [c \in Call |-> "idle"]
  /\ payload = [c \in Call |-> None]
  /\ reply = [c \in Call |-> None]
  /\ queue = << >>
  /\ running = {}
  /\ outcome = [c \in Call |-> None]
  /\ lru = << >>
  /\ age = << >>
  /\ value = [p \in Payload |-> None]
  /\ said = {}

-----------------------------------------------------------------------------
(* The cache, a cachetools.TTLCache.  An entry that has expired is seen by *)
(* no operation of it, so it is dropped here when it expires.              *)

MoveToEnd(s, k) == Append(RemoveFirst(s, k), k)

Touch(k) == lru' = MoveToEnd(lru, k) /\ UNCHANGED <<age, value>>

\* Fault: an insertion does not make room.
FaultVictim(k) == None

\* The least recently used entry goes when a new key finds the cache full.
Victim(k) == IF k \notin Keys /\ Len(lru) = MaxSize THEN Head(lru) ELSE None

Store(k, v) ==
  /\ lru' = MoveToEnd(RemoveFirst(lru, Victim(k)), k)
  /\ age' = MoveToEnd(RemoveFirst(age, Victim(k)), k)
  /\ value' = [j \in Payload |-> IF j = k THEN v
                                 ELSE IF j = Victim(k) THEN None ELSE value[j]]

\* cache_ttl_seconds have passed since the oldest entry was set.
Expire ==
  /\ age # << >>
  /\ lru' = RemoveFirst(lru, Head(age))
  /\ age' = Tail(age)
  /\ value' = [value EXCEPT ![Head(age)] = None]
  /\ UNCHANGED <<pc, payload, reply, queue, running, outcome, said>>

-----------------------------------------------------------------------------
(* The endpoint and llm.classify.                                          *)

Reply(c, v) ==
  /\ pc' = [pc EXCEPT ![c] = "replied"]
  /\ reply' = [reply EXCEPT ![c] = v]

\* A hit is answered at once; a miss hands its job to the executor.
Arrive(c, p) ==
  /\ pc[c] = "idle"
  /\ payload' = [payload EXCEPT ![c] = p]
  /\ \/ /\ Key(p) \in Keys
        /\ Touch(Key(p))
        /\ Reply(c, value[Key(p)])
        /\ UNCHANGED queue
     \/ /\ Key(p) \notin Keys
        /\ pc' = [pc EXCEPT ![c] = "asking"]
        /\ queue' = Append(queue, c)
        /\ UNCHANGED <<reply, cache>>
  /\ UNCHANGED <<running, outcome, said>>

StartJob ==
  /\ queue # << >>
  /\ Cardinality(running) < Threads
  /\ running' = running \cup {Head(queue)}
  /\ queue' = Tail(queue)
  /\ UNCHANGED <<pc, payload, reply, outcome, cache, said>>

\* Fault: the job itself caches what the model says, whoever still waits.
FaultEndJobCaches(c, v) ==
  /\ c \in running
  /\ running' = running \ {c}
  /\ said' = said \cup {<<payload[c], v>>}
  /\ outcome' = [outcome EXCEPT ![c] = IF pc[c] = "asking" THEN v ELSE @]
  /\ Store(Key(payload[c]), v)
  /\ UNCHANGED <<pc, payload, reply, queue>>

\* The model answers, or the call of it raises (Default); what comes after
\* the timeout finds nobody waiting.
EndJob(c, v) ==
  /\ c \in running
  /\ running' = running \ {c}
  /\ said' = said \cup {<<payload[c], v>>}
  /\ outcome' = [outcome EXCEPT ![c] = IF pc[c] = "asking" THEN v ELSE @]
  /\ UNCHANGED <<pc, payload, reply, queue, cache>>

\* The coroutine resumes with its job's outcome.  The cache is set before
\* the response is built, so that a Poison is cached and then raises.
Finish(c) ==
  /\ pc[c] = "asking"
  /\ outcome[c] # None
  /\ Store(Key(payload[c]), outcome[c])
  /\ Reply(c, outcome[c])
  /\ outcome' = [outcome EXCEPT ![c] = None]
  /\ UNCHANGED <<payload, queue, running, said>>

\* Fault: the time in the executor's queue does not count.
FaultTimeoutOfThread(c) ==
  /\ pc[c] = "asking"
  /\ c \notin Range(queue)
  /\ Store(Key(payload[c]), Default)
  /\ Reply(c, Default)
  /\ outcome' = [outcome EXCEPT ![c] = None]
  /\ UNCHANGED <<payload, queue, running, said>>

\* wait_for gives up: a waiting job is cancelled, a running one is not.  The
\* fallback is cached like an answer.
Timeout(c) ==
  /\ pc[c] = "asking"
  /\ Store(Key(payload[c]), Default)
  /\ Reply(c, Default)
  /\ queue' = RemoveFirst(queue, c)
  /\ outcome' = [outcome EXCEPT ![c] = None]
  /\ UNCHANGED <<payload, running, said>>

Next ==
  \/ \E c \in Call, p \in Payload : Arrive(c, p)
  \/ StartJob
  \/ \E c \in Call, v \in Outcome : EndJob(c, v)
  \/ \E c \in Call : Finish(c) \/ Timeout(c)
  \/ Expire

\* The event loop's timers fire.  Nothing is assumed of the model.
Spec == Init /\ [][Next]_vars /\ \A c \in Call : WF_vars(Timeout(c))

-----------------------------------------------------------------------------
(***************************************************************************)
(* The types; the cache's two orders are of the same keys, each once, and  *)
(* never more than its capacity; no more jobs run than there are threads.  *)
(***************************************************************************)
TypeOK ==
  /\ pc \in [Call -> {"idle", "asking", "replied"}]
  /\ payload \in [Call -> Payload \cup {None}]
  /\ reply \in [Call -> Outcome \cup {None}]
  /\ outcome \in [Call -> Outcome \cup {None}]
  /\ queue \in Seq(Call) /\ IsInjective(queue)
  /\ running \subseteq Call /\ Cardinality(running) <= Threads
  /\ lru \in Seq(Payload) /\ IsInjective(lru) /\ Len(lru) <= MaxSize
  /\ Len(age) = Len(lru) /\ Range(age) = Keys
  /\ value \in [Payload -> Outcome \cup {None}]
  /\ \A p \in Payload : p \in Keys <=> value[p] # None
  /\ said \subseteq Payload \X Outcome

(***************************************************************************)
(* No call is answered with a verdict on another payload: through cache    *)
(* hits, evictions and overwriting, an answer is the fallback or something *)
(* the model has said about that very payload (main.py:39-52).             *)
(***************************************************************************)
Honest ==
  \A c \in Call : pc[c] = "replied" =>
    reply[c] = Default \/ <<payload[c], reply[c]>> \in said

(***************************************************************************)
(* What is cached was some call's answer: the late answer of a job whose   *)
(* call has timed out goes nowhere, so that a hit repeats what a proxy has *)
(* seen (llm.py:44-57, main.py:47-48).                                     *)
(***************************************************************************)
CachedWasReplied ==
  \A k \in Keys : \E c \in Call :
    pc[c] = "replied" /\ Key(payload[c]) = k /\ reply[c] = value[k]

(***************************************************************************)
(* Every call is answered, even if the model never answers and every       *)
(* thread of the executor is stuck with a job given up long ago            *)
(* (llm.py:44-57).                                                         *)
(***************************************************************************)
EveryCallAnswered == \A c \in Call : pc[c] = "asking" ~> pc[c] = "replied"
=============================================================================
