SPECIFICATION Spec
CONSTANTS
  NULL = NULL
  h1 = h1
  h2 = h2
  alice = alice
  e1 = e1
  e2 = e2
  e3 = e3
  e4 = e4
  monthly = monthly
  yearly = yearly
  usd = usd
  Users = {alice}
  Currencies = {usd}
  EventIds = {e1, e2, e3, e4}
  Products = {monthly, yearly}
  Handlers = {h1, h2}
  Events <- RacingEvents
  MaxCutOffs = 1
PROPERTIES
  WatermarkNeverRetreats
