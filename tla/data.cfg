SPECIFICATION Spec
CONSTANTS
  Characters = {"a", "/", "+", "#", "$"}
  SubLength = 4
  TopicLength = 3
  CodePoints <- MCCodePoints
  StringLength = 2
  Base = 43
  Numbers <- MCNumbers
  Texts <- MCTexts
  Tails <- MCTails
  MaxProperties = 2
  Followers = {1, 11, 31, 38}
  LengthWidth = 50
  Ids <- MCIds
  Usernames <- MCUsernames
  Passwords <- MCPasswords
  WillTopics <- MCWillTopics
  WillPayloads <- MCWillPayloads
  WillLists <- MCWillLists
  ConnectLists <- MCConnectLists
  ConnackLists <- MCConnackLists
  OptionValues <- MCOptionValues
  Keepalives <- MCKeepalives
  Ports <- MCPorts
  MaxCalls = 4
  Filters <- MCFilters
  SubscribeOptions <- MCSubscribeOptions
  RequestLists <- MCRequestLists
  AnswerLists <- MCAnswerLists
  Codes <- MCCodes
  PacketSizes <- MCPacketSizes
  Mids <- MCMids
  Wanted = {1, 2}
  MaxMessages = 4
INVARIANTS MatchesByLevel Utf8IsExact ReadIsWritten ReadStaysInside ConnectReadsBack RequestReadsBack GrantedArePassed SimpleCollects
CHECK_DEADLOCK FALSE
