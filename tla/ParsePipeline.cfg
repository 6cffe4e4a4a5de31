SPECIFICATION FairSpec
CONSTANTS
  NULL = NULL
  h1 = h1
  h2 = h2
  w1 = w1
  w2 = w2
  ann = ann
  bob = bob
  mail = mail
  phone = phone
  USD = USD
  EUR = EUR
  GBP = GBP
  USDT = USDT
  plan = plan
  e1 = e1
  e2 = e2
  Users <- MCUsers
  Scopes <- MCScopes
  Currencies = {USD, EUR, GBP}
  EventIds = {e1, e2}
  Products = {plan}
  Identities = {ann, bob}
  Emails = {mail}
  DefaultBase = USD
  DeviceOwner <- MCDeviceOwner
  Handlers = {h1, h2}
  Workers = {w1, w2}
  LongCodes = {USDT}
  Payloads <- MCPayloads
  TicksPerSecond = 2
  SecondsPerMinute = 1
  SecondsPerDay = 2
  DaysPerMonth = 2
  Horizon = 8
  MinuteLimit = 2
  DayLimit = 4
  Quota = 2
  OkThreshold = 80
  LowThreshold = 50
  MaxMoney = 150
  INF = INF
  One = 2
  Scale = 4
  MaxRate = 120
  MaxRetries = 2
  Scenarios <- MCScenarios
INVARIANTS
  ParseTypeOK
  OneUserPerIdentity
  AtMostTwiceTheLimit
  RetryAfterLifts
  GateIsHonest
  LoserFindsWinner
  NormalizedIsCrossRate
  ConversionUsesKnownDay
PROPERTIES
  OnlyRedisHangs
  EveryTaskEnds
