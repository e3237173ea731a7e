--------------------------- MODULE LossyMulticast ---------------------------
(***************************************************************************)
(* What the proxy's event hub promises its dashboards, without channels,   *)
(* registry or goroutines: events are accepted one after the other, and    *)
(* each client gets some of them, in the order of acceptance and at most   *)
(* once each.  EventHub implements this specification.                     *)
(***************************************************************************)
EXTENDS Naturals, Sequences

CONSTANTS Event, Client

VARIABLES
  accepted,  \* how many events have been accepted
  stamp,     \* stamp[e]: place of e in the order of acceptance, or 0
  got        \* got[c]: the events client c has got, oldest first

mvars == <<accepted, stamp, got>>

Init ==
  /\ accepted = 0
  /\ stamp = [e \in Event |-> 0]
  /\ got = [c \in Client |-> << >>]

Accept(e) ==
  /\ stamp[e] = 0
  /\ accepted' = accepted + 1
  /\ stamp' = [stamp EXCEPT ![e] = accepted + 1]
  /\ UNCHANGED got

Deliver(c, e) ==
  /\ stamp[e] # 0
  /\ \A i \in DOMAIN got[c] : stamp[got[c][i]] < stamp[e]
  /\ got' = [got EXCEPT ![c] = Append(@, e)]
  /\ UNCHANGED <<accepted, stamp>>

Next ==
  \/ \E e \in Event : Accept(e)
  \/ \E c \in Client, e \in Event : Deliver(c, e)

Spec == Init /\ [][Next]_mvars
=============================================================================
