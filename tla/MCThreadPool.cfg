\* Two workers, one of which a signal may end; at most three events at once.
CONSTANTS
  Workers = {w1, w2}
  Events = {e1, e2, e3}
  NoEvent = NoEvent
  MaxInterrupts = 1
SPECIFICATION Spec
INVARIANTS TypeOK TokensMatchQueue PopFindsEvent QueueExclusive OneOwner
PROPERTIES ImplementsWorkQueue EventsFreed
