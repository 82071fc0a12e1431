SPECIFICATION Spec
CONSTANTS
  Requests = {"receipt1", "receipt2", "ledger", "text"}
  Endpoint <- OneOfEach
  Words <- SaidInEach
  Paths <- EachPath
  MaxSize = 1
  AllowedTypes = {"pdf"}
  QueueCap = 1
  MinGap = 2
  MaxGap = 3
  NoJob = NoJob
  MaxTries <- TwicePosted
  Chats = {"contact", "group"}
  Groups = {"group"}
  Texts = {"byMe", "undated", "inGroup"}
  ChatOf <- InChat
  Date <- Dated
  Own = {"byMe"}
  Empty = {}
  NoChat = NoChat
  MaxBatch = 2
  Settings = {"port", "types"}
  Numeric = {"port"}
INVARIANT
  InvalidConfigurationExits
CHECK_DEADLOCK FALSE
