\* Two subscribers, two publishers, buffers of one event; two attempts of two pieces.
SPECIFICATION Spec
CONSTANTS
  s1 = s1  s2 = s2  p1 = p1  p2 = p2
  Subs = {s1, s2}
  Pubs = {p1, p2}
  BufferSize = 1
  MaxEvents <- MCMaxEvents
  MaxRetries = 2
  MaxChunks = 2
  MaxSends = 4
INVARIANTS RegisteredAreOpen KeepsUpGetsAll AnswerWhole EndsTold
PROPERTIES ImplementsEventStream BrokerEnds CancelEnds
CHECK_DEADLOCK FALSE
