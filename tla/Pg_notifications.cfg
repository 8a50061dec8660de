SPECIFICATION ListenSpec
CONSTANTS
  c1 = c1
  c2 = c2
  s1 = s1
  s2 = s2
  s3 = s3
  r1 = r1
  r2 = r2
  Channels = {c1, c2}
  Subscriptions = {s1, s2, s3}
  NoSubscription = NoSubscription
  Receivers = {r1, r2}
  NoReceiver = NoReceiver
  MaxQueue = 3
  MaxOnWay = 3
  OldReceivers = FALSE
  ListensOverlap = FALSE
  EndsInCallback = FALSE
SYMMETRY Symmetry
INVARIANTS
  SubscriptionListens
  SubscriptionKept
