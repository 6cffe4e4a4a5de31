SPECIFICATION FairSystemSpec
CONSTANTS
  h1 = h1  h2 = h2  w1 = w1  r1 = r1
  alice = alice  phone = phone  tablet = tablet
  i1 = i1  i2 = i2  cash = cash  card = card  usd = usd  eur = eur
  NULL = NULL
  Users = {alice}
  Devices = {phone, tablet}
  DeviceOwner <- MCDeviceOwner
  Ids = {i1}
  Inputs = {cash, card}
  Currencies = {usd, eur}
  Sessions = {h1, w1, r1}
  Handlers = {h1}
  Sweepers = {w1}
  Rearmers = {r1}
  Clients = {}
  ClientUser <- MCClientUser
  Batches <- WriterBatches
  Periods = {1}
  MaxPushes = 2
  MaxChanges = 1
  MaxCutOffs = 1
  Failing = {cash}
  SweepLimit = 2
  PullLimit = 1
INVARIANTS
  UpsertSerializable
PROPERTIES
  ImplementsLwwStore EveryWriteRestamps EventuallyEnriched
