SPECIFICATION FairStream
CONSTANTS
  Routes <- MCRoutes
  Conversations <- MCConversations
  Chats <- MCChats
  Calls <- MCCalls
  MaxFrames = 5
  MaxTokens = 2
CHECK_DEADLOCK FALSE
INVARIANTS
  StreamSaysItAll
  ChatStreamShape
  ResultsFollowCalls
PROPERTIES
  FollowsProtocol
  RequestEnds
