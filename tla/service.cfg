CONSTANTS
  Handlers = {h1}
  MaxBoots = 2
  MaxRequests = 2
SPECIFICATION PageSpec
INVARIANTS
  TypeOK
  PublishersLive
  StartUpInv
  Wired
  OnePoller
PROPERTIES
  Answered
  PollRecovers
  ReconnectRecovers
