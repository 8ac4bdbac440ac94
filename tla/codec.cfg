\* Handshakes with keys of several lengths, then messages around every limit in one recv or a part of them.
CONSTANTS
  Keys <- SomeKeys
  KnownAnswer <- Answers
  Messages <- SomeMessages
  MaskingKeys <- SomeMasks
  Segments <- SomeSegments
  IdLength = 5
SPECIFICATION Spec
INVARIANTS TypeOK AnswerIsKnown TextArrives ShortMessagesAreSeen
\* One message on one connection.
CHECK_DEADLOCK FALSE
