\* Three events against two places in h.events and one in each of two clients'
\* channels, so that both kinds of drop happen; if broadcast could be held up,
\* one event would fill a channel, one wait to be sent and one wait in h.events.
\* No symmetry, for the liveness property.
SPECIFICATION Spec
CONSTANTS
  Event = {e1, e2, e3}
  Client = {c1, c2}
  EventsCap = 2
  ChanCap = 1
  None = None
INVARIANTS
  TypeOK
  StreamOrder
  NoUndueLoss
  RegisteredIsOpen
PROPERTIES
  HubDrains
  ImplementsMulticast
\* Each event and each connection is used once: a run ends when all are used up.
CHECK_DEADLOCK FALSE
