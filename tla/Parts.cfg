SPECIFICATION Spec
CONSTANTS
\* MessageServer
  BufferSizes = {3, 4}
  ParameterSizes <- MCParameterSizes
  DatagramSizes = {1, 3}
  OutLengths = {0, 2}
  MaxDatagrams = 3
\* SendMessage
  Callers = {"t", "u"}
  Addresses = {"x", "y"}
  Encoded = {0, 2, 3}
  Word = 16
  MaxDatagram = 5
  MaxMessages = 1
\* Alarms
  Blocks = {1, 2}
  Variables = {"a", "b"}
  OwnCells = {"a"}
  FlowTicks = {0, 2}
  MaxAlarms = 3
\* Heap
  Users = {"t", "u"}
  Pages = {1, 2, 3}
  Damages = TRUE
\* SmartPointer
  Holders = {"t", "u"}
  Counted = {1, 2, 3}
  Refers = {1, 2}
  MaxRefs = 3
\* Dictionary
  Entries = {1, 2, 3}
  Keys = {"x", "y", "z"}
  Values = {"a", "b"}
\* Chains, Tree
  Elements = {1, 2, 3}
  Nodes = {1, 2, 3, 4}
\* Transcode
  CodePoints = {65, 2047, 2048, 5460, 44032, 50689, 65533, 66376}
  MaxText = 2
INVARIANTS
  BufferHoldsNewest CastsFollowMarks
  ResultTells
  WalksAllocatedBlocks AlarmsStay
  ListIsLive EndsForAReason
  ReferencedIsLive LeakedIfShared
  EntriesAreAllocated ContentUnlessStale TreeIsSound
  ConversionsKeepText
PROPERTIES
  LeftOverNeverShrinks
  DictionaryIsMap
\* Datagrams, messages and alarms are bounded, a process may have crashed.
CHECK_DEADLOCK FALSE
