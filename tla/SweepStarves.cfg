SPECIFICATION FairSystemSpec
CONSTANTS
  h1 = h1  h2 = h2  w1 = w1  r1 = r1
  alice = alice  phone = phone  tablet = tablet
  i1 = i1  i2 = i2  cash = cash  card = card  usd = usd  eur = eur
  NULL = NULL
  Users = {alice}
  Devices = {phone, tablet}
  DeviceOwner <- MCDeviceOwner
  Ids = {i1, i2}
  Inputs = {cash, card}
  Currencies = {usd}
  Sessions = {h1, w1}
  Handlers = {h1}
  Sweepers = {w1}
  Rearmers = {}
  Clients = {}
  ClientUser <- MCClientUser
  Batches <- SingleBatches
  Periods = {1}
  MaxPushes = 2
  MaxChanges = 0
  MaxCutOffs = 0
  Failing = {}
  SweepLimit = 1
  PullLimit = 2
PROPERTIES
  EventuallyEnriched
