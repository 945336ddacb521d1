CONSTANTS
  Modes = {"per_stream", "per_batch", "per_row", "none"}
  MaxSends = 3
  InCap = 1
  MaxNoise = 1
SPECIFICATION FairSpec
INVARIANTS TypeOK SequenceAgreement OneChunkInDoubt OutcomeIsTrue EndIsNoticed
PROPERTIES AtomicLoadSpec CallsReturn AbandonedIsReleased
CHECK_DEADLOCK FALSE
