SPECIFICATION Spec
CONSTANTS
  BTC = BTC
  Orders = {o1}
  Symbols = {BTC}
  SymbolOf <- OneSymbol
  Entries = {o1}
  Cancellable = {o1}
  Moves = {"PARTIALLY_FILLED", "FILLED", "CANCELLED", "EXPIRED"}
  MaxReconnect = 2
  MaxFaults = 2
INVARIANTS TypeOK PostedOnceAfterIntent FactsAreTrue NoOrphanIntent
  ExecutionInv
PROPERTIES ImplementsOrderFacts
