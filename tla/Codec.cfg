SPECIFICATION FairSpec
CONSTANTS
  Options <- Opts
  Messages <- Msgs
  Junk <- Junks
  LenMod = 7
  MaxMsgs = 2
INVARIANTS DeliveredExact RawExact FailsForCause
PROPERTIES LegalArrives
