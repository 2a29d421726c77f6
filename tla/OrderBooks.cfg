SPECIFICATION Spec
CONSTANTS
  Pair = {"p1", "p2"}
  PairId <- MCPairId
  BuyPair = "p1"
  SellPair = "p2"
  Exchanges = {"binance", "exmo", "kraken", "idcm"}
  Books <- MCBooks
  RECORDS_LIMIT = 2
  MaxReplies = 2
  MaxChanges = 1
  MaxRestarts = 1
INVARIANT ShownWasReal
PROPERTY BooksArrive
CHECK_DEADLOCK FALSE
