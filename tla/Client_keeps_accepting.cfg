CONSTANTS
  Texts <- ShortTexts
  Numbers = {0, 2}
  Contents <- ShortContents
  Times <- MCTimes
  Messages <- MCMessages
  InvalidRequest <- MCInvalidRequest
  ServerBuffer = 24
  ClientBuffer = 12
  MaxDatagram = 15
  MaxCalls = 2
  MaxEarly = 0
  MaxInbox = 2

SPECIFICATION Spec

INVARIANT KeepsAccepting
