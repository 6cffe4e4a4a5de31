SPECIFICATION Spec
CONSTANTS
  h1 = h1  h2 = h2
  alice = alice  bob = bob
  phone = phone  tablet = tablet  bobPhone = bobPhone  stray = stray
  i1 = i1  i2 = i2
  cash = cash  card = card
  NULL = NULL
  Sessions = {h1, h2}
  Handlers = {h1, h2}
  Users = {alice, bob}
  Devices = {phone, tablet, bobPhone, stray}
  DeviceOwner <- MCDeviceOwner
  Ids = {i1, i2}
  Inputs = {cash, card}
  Currencies = {}
  Batches <- PoisonBatches
  Periods = {1}
  MaxPushes = 2
INVARIANTS
  BadRecordIsolated
