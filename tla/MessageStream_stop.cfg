SPECIFICATION StreamSpec
CONSTANTS
  Routes <- MCRoutes
  Conversations <- MCConversations
  Chats <- MCChats
  Calls <- MCCalls
  MaxFrames = 5
  MaxTokens = 2
CHECK_DEADLOCK FALSE
INVARIANT StopReasonsAgree
