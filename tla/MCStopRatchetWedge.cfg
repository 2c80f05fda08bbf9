SPECIFICATION Spec
CONSTANTS
  MaxRatchets = 1
  MaxLevel = 2
  Arms = 2
  Budget = 1
  NoPosition = NoPosition
  Hashes = {h}
  IntentKeys = {k}
  OrderIds <- MCOrderIds
  NoRow = NoRow
  NoIntent = NoIntent
  NoOrder = NoOrder
PROPERTIES ProtectedEventually
