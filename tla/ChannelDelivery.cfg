SPECIFICATION FairSpec
CONSTANTS
  None = None
  user = user
  other = other
  sub = sub
  here = here
  there = there
  Turns = {user, other, sub}
  Chats = {here, there}
  ChatOf <- MCChatOf
  OriginOf <- MCOriginOf
  Streaming = {other}
  Known = {here, there}
  Texts = {x, y}
  MaxAttempts = 2
  MaxEvents = 4
INVARIANTS
  SuppressedRepeats
PROPERTIES
  InPublishedOrder
  EverythingDispatched
CHECK_DEADLOCK FALSE
