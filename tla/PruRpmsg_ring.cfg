SPECIFICATION FairSpec
CONSTANTS
  NUM = 2
  IDX_MOD = 4
  TornUsed = FALSE
  MaxSends = 5
INVARIANTS
  TypeOK
  OneOwner
  DroppedOnlyWhenFull
  UsedHeadsAreUsed
PROPERTIES
  EveryMessageConsumed
  EveryEchoArrives
  SleeperWakes
  InboundSpec
  OutboundSpec
CHECK_DEADLOCK FALSE
