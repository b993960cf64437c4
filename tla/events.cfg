CONSTANTS
  e1 = e1
  e2 = e2
  e3 = e3
  w1 = w1
  w2 = w2
  NoEvent = NoEvent
  NoWriter = NoWriter
  Writers <- MCWriters
  Events <- MCEvents
  Types = {"threshold", "collection"}
  Upserts <- MCUpserts
  Ackable <- MCAckable
SPECIFICATION MCSpec
CHECK_DEADLOCK FALSE
SYMMETRY Symmetry
INVARIANTS OneActiveEvent OneLifecycle MeasuresHold
