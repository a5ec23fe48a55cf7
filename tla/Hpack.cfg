SPECIFICATION MCSpec
CONSTANTS
  KeySize <- MCKeySize
  ValueSize <- MCValueSize
  BinaryKeys <- MCBinaryKeys
  StaticTable <- MCStaticTable
  Slots = {0, 1}
  FirstSlot <- MCFirstSlot
  SecondSlot <- MCSecondSlot
  InitialTableSize = 18
  Overhead = 2
  MinCapacity = 2
  Representations <- MCRepresentations
  HeaderLists <- MCHeaderLists
  TableSizes = {4, 12, 30}
  MaxInFlight = 1
  MaxInsertions = 6
INVARIANTS
  DecodesWhatWasSent
  TracksRemoteTable
  RingIsExact
  OneSlotPerField
  TableFits
PROPERTY EvictsOnlyWhatMust
