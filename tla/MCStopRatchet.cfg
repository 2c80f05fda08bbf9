SPECIFICATION Spec
CONSTANTS
  MaxRatchets = 2
  MaxLevel = 3
  Arms = 4
  Budget = 2
  NoPosition = NoPosition
  Hashes = {h}
  IntentKeys = {k}
  OrderIds <- MCOrderIds
  NoRow = NoRow
  NoIntent = NoIntent
  NoOrder = NoOrder
INVARIANTS TypeOK AtMostOneSell ResolvedOutcomeIsTrue
PROPERTIES ProtectedAgain
