CONSTANTS
  NULL = NULL
  W = 4
  Overflow = Overflow
  Resource <- ResourceDef
  Number <- NumberDef
  String <- StringDef
  Bytes <- BytesDef
  Text <- TextDef
  ka = ka
  kb = kb
  kc = kc
  kd = kd
  Key <- KeyDef
  Value = {1, 2}
  Hash <- HashDef
  Trap = Trap
  Integer <- IntegerDef
  Real <- RealDef
  Printed <- PrintedDef
  Paper <- PaperDef
  MaxRewrites = 3
  Id = {"d1", "d2"}
  Device <- DeviceDef
  Profile <- ProfileDef
  Request <- RequestDef
  Update <- UpdateDef
  Asserted = {"d2"}
  MaxCalls = 2
  service <- ServiceDef
  Owner <- OwnerDef
  InOrder <- InOrderDef
  Under <- UnderDef
  File <- FileDef
  Catalog <- CatalogDef
  Driver = {"Driver/Baud", "Driver/Channel"}
  UINT16_MAX = 7
  UINT32_MAX = 15
  Garbled = Garbled
  Overrun = Overrun
  Node <- NodeDef
  FirstNames <- FirstNamesDef
  HardwareMAC <- HardwareMACDef
  Command <- CommandDef
  Kind <- KindDef
  Settable <- SettableDef
  Sensed <- SensedDef
  Listed = {"lamp", "goodvalue", "MasterDevice"}
  Asked = {"lamp", "goodvalue", "4689"}
  Master <- MasterDef
  Long <- LongDef
  MisleadingNames = {"goodvalue"}
  MaxTexts = 2
  MaxLines = 1
  Conn = {c1, c2}
  PoolThread = {w}
  Main = main
  Registered <- HandlersDef
  ClientRequest <- ClientRequestDef
  JobCalls <- JobCallsDef
  StartCalls <- StartCallsDef
  AppCalls <- AppCallsDef
  SpareCalls <- SpareCallsDef
  BufferSize = 2
  MaxTasks = 2
SYMMETRY SwapConnections
SPECIFICATION HelpersSpec
INVARIANTS WrittenReadsBack  MapShowsMetadata ConfigSurvives    RequestsServed DocumentsReadBack
PROPERTY ImplementsMap
CHECK_DEADLOCK FALSE
