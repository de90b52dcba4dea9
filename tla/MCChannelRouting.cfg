SPECIFICATION FairSpec
CONSTANTS
  Requests = {r1, s1}
  Streams = {s1}
  Channels = {c1, c2}
  Base = Base
  KeyLess = {c1, c2}
  Threshold = 2
  BreakerCooldown = 2
  ChannelCooldown = 1
  FallbackMax = 1
  StreamTries = 3
INVARIANTS
  OpenIffThreshold
  OncePerChannel
PROPERTIES
  RequestsEnd
  BreakerRecovers
