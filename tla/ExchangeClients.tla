------------------------------ MODULE ExchangeClients ------------------------------
(***************************************************************************)
(* What each of the fifteen exchange clients does with a request that      *)
(* processAsyncQueue hands to it.  A method of a client                    *)
(*   - sends an HTTP request whose reply carries the uuid, when the caller *)
(*     gave the parameters it insists on (`Asks`);                         *)
(*   - or registers a result at once, without asking the exchange (`Here`);*)
(*   - or does both (`AsksAndHere`);                                       *)
(*   - or sends a request under a property that onNetworkReply does not    *)
(*     read, so that the reply belongs to no uuid (`Unmarked`);            *)
(*   - or has an empty body: every method a client does not list.          *)
(* URLs, signatures and nonces are left out.                               *)
(***************************************************************************)
EXTENDS TLC

PublicMethods == {"GetCurrencies", "GetMarkets", "GetOrderbooks"}
OrderMethods == {"OrderPlace", "OrderCancel", "OrderGet", "OrderReplace"}
ListMethods == {"TradeHistory", "TradeOpenOrders"}
FundsMethods == {"WithdrawGetLimits", "WithdrawList", "WithdrawHistory", "WithdrawCancel",
                 "WithdrawCreate", "WithdrawInner", "WithdrawGetFee", "GetBalances",
                 "GetDeposits", "GetDepositAddress"}
FeeMethods == {"TradeGetFee", "TradeGetLimits"}
Methods == PublicMethods \cup OrderMethods \cup ListMethods \cup FundsMethods \cup FeeMethods

AsksFor(methods, needs) ==
  [m \in methods |-> [request |-> TRUE, marked |-> TRUE, needs |-> needs, result |-> {}]]
Asks(methods) == AsksFor(methods, {})
Unmarked(methods) ==
  [m \in methods |-> [request |-> TRUE, marked |-> FALSE, needs |-> {}, result |-> {}]]
Here(methods, success) ==
  [m \in methods |-> [request |-> FALSE, marked |-> FALSE, needs |-> {}, result |-> {success}]]
AsksAndHere(methods, success) ==
  [m \in methods |-> [request |-> TRUE, marked |-> TRUE, needs |-> {}, result |-> {success}]]
Silent == [request |-> FALSE, marked |-> FALSE, needs |-> {}, result |-> {}]
unrealizedMethod(methods) == Here(methods, FALSE)

(* the keys that OrderParams::toJson writes, which is what place is called with *)
PlaceKeys == {"remote_id", "local_id", "market_id", "exchange_id", "rate", "amount", "amount_left",
              "price", "fee", "type", "status", "arb_window"}

-----------------------------------------------------------------------------
BinanceOrders == Asks({"OrderPlace", "OrderCancel", "OrderGet"})
BinanceFunds == Asks({"WithdrawList", "WithdrawHistory", "WithdrawCreate", "WithdrawGetFee",
                      "GetBalances", "GetDeposits"})
BinanceTrade == Asks({"TradeHistory", "TradeOpenOrders", "TradeGetFee"})

BitfinexOrders == Here({"GetCurrencies", "GetMarkets", "OrderReplace"}, FALSE)
                  @@ Asks({"GetOrderbooks", "OrderCancel", "OrderGet"})
                  @@ AsksFor({"OrderPlace"}, {"type", "market_id", "rate", "amount"})
BitfinexFunds == Here({"WithdrawGetLimits", "WithdrawCancel"}, FALSE) @@ Here({"WithdrawGetFee"}, TRUE)
                 @@ Asks({"WithdrawList", "WithdrawHistory", "WithdrawCreate", "WithdrawInner",
                          "GetBalances", "GetDeposits"})
BitfinexTrade == AsksFor({"GetDepositAddress"}, {"wallet", "method"}) @@ Here({"TradeGetFee"}, TRUE)
                 @@ Asks({"TradeHistory", "TradeOpenOrders"})

BittrexOrders == Asks({"GetCurrencies", "GetMarkets", "GetOrderbooks", "OrderCancel", "OrderGet"})
                 @@ AsksFor({"OrderPlace"}, {"type"}) @@ Here({"OrderReplace"}, FALSE)
BittrexFunds == Asks({"WithdrawList", "WithdrawHistory", "WithdrawCreate", "GetBalances", "GetDeposits"})
                @@ Here({"WithdrawGetLimits", "WithdrawCancel", "WithdrawInner"}, FALSE)
                @@ Here({"WithdrawGetFee"}, TRUE)
BittrexTrade == Asks({"TradeHistory", "TradeOpenOrders"}) @@ Here({"TradeGetFee"}, TRUE)
                @@ AsksAndHere({"GetDepositAddress"}, TRUE)

CexioOrders == Asks({"GetCurrencies", "GetMarkets", "GetOrderbooks", "OrderPlace", "OrderCancel",
                     "OrderGet"}) @@ Here({"OrderReplace"}, FALSE)
CexioFunds == Here({"WithdrawGetLimits", "WithdrawCancel", "WithdrawCreate", "WithdrawInner",
                    "WithdrawGetFee"}, FALSE)
              @@ Here({"WithdrawList", "WithdrawHistory", "GetDeposits"}, TRUE) @@ Asks({"GetBalances"})
CexioTrade == Asks({"GetDepositAddress", "TradeHistory", "TradeOpenOrders"})
              @@ Here({"TradeGetFee"}, TRUE) @@ Here({"TradeGetLimits"}, FALSE)

ExmoOrders == Asks({"OrderPlace", "OrderCancel", "OrderGet"})
ExmoFunds == Asks({"WithdrawList", "WithdrawHistory", "WithdrawCreate", "GetBalances", "GetDeposits",
                   "GetDepositAddress"}) @@ Here({"WithdrawGetFee"}, TRUE)
ExmoTrade == Asks({"TradeHistory", "TradeOpenOrders"}) @@ Here({"TradeGetFee"}, TRUE)

HitbtcOrders == Asks({"OrderPlace", "OrderCancel", "OrderGet"})
HitbtcFunds == Asks({"WithdrawList", "WithdrawHistory", "WithdrawCreate", "WithdrawInner",
                     "WithdrawGetFee", "GetBalances", "GetDeposits", "GetDepositAddress"})
HitbtcTrade == Asks({"TradeHistory", "TradeOpenOrders", "TradeGetFee"})

HuobiOrders == Asks({"GetCurrencies", "GetMarkets", "OrderPlace"}) @@ unrealizedMethod({"OrderReplace"})
               @@ AsksFor({"GetOrderbooks"}, {"market_id", "precision"})
               @@ AsksFor({"OrderCancel", "OrderGet"}, {"remote_id"})
HuobiFunds == unrealizedMethod({"WithdrawGetLimits", "WithdrawInner", "WithdrawGetFee"})
              @@ Asks({"WithdrawList", "WithdrawHistory", "WithdrawCreate", "GetBalances", "GetDeposits"})
              @@ AsksFor({"WithdrawCancel"}, {"remote_id"})
              @@ AsksFor({"GetDepositAddress"}, {"currency_id"})
HuobiTrade == Asks({"TradeHistory"}) @@ AsksFor({"TradeOpenOrders", "TradeGetFee"}, {"market_id"})
              @@ unrealizedMethod({"TradeGetLimits"})

IDCMOrders == unrealizedMethod({"GetCurrencies", "GetMarkets", "OrderReplace"})
              @@ AsksFor({"GetOrderbooks"}, {"market_id"})
              @@ AsksFor({"OrderPlace"}, {"market_id", "type", "amount", "rate"})
              @@ AsksFor({"OrderCancel"}, {"market_id", "remote_id", "type"})
              @@ AsksFor({"OrderGet"}, {"market_id", "remote_id"})
IDCMFunds == unrealizedMethod({"WithdrawGetLimits", "WithdrawInner", "WithdrawGetFee", "GetDeposits",
                               "GetDepositAddress"})
             @@ Asks({"WithdrawList", "WithdrawHistory", "GetBalances"})
             @@ AsksFor({"WithdrawCancel"}, {"currency_id", "remote_id"})
             @@ AsksFor({"WithdrawCreate"}, {"address", "currency_id", "amount"})
IDCMTrade == AsksFor({"TradeHistory", "TradeOpenOrders"}, {"market_id"})
             @@ unrealizedMethod({"TradeGetFee", "TradeGetLimits"})

KrakenOrders == Asks({"GetCurrencies", "GetMarkets", "OrderPlace", "OrderCancel", "OrderGet"})
                @@ AsksFor({"GetOrderbooks"}, {"type", "market_id", "rate", "amount"})
KrakenFunds == Asks({"WithdrawList", "WithdrawHistory", "WithdrawCancel", "WithdrawCreate",
                     "WithdrawInner", "GetBalances", "GetDeposits", "GetDepositAddress"})
KrakenTrade == Asks({"TradeHistory", "TradeOpenOrders", "TradeGetFee", "TradeGetLimits"})

KuCoinOrders == Here({"GetMarkets", "OrderReplace"}, FALSE)
                @@ Asks({"GetCurrencies", "GetOrderbooks", "OrderPlace", "OrderCancel", "OrderGet"})
KuCoinFunds == Here({"WithdrawGetLimits", "WithdrawCancel"}, FALSE) @@ Here({"WithdrawGetFee"}, TRUE)
               @@ Asks({"WithdrawList", "WithdrawHistory", "WithdrawCreate", "WithdrawInner"})
KuCoinTrade == Asks({"GetBalances", "GetDeposits", "TradeHistory", "TradeOpenOrders"})
               @@ Here({"TradeGetFee"}, TRUE) @@ Here({"GetDepositAddress", "TradeGetLimits"}, FALSE)

LakeBTCOrders == unrealizedMethod({"GetCurrencies", "GetMarkets", "OrderReplace"})
                 @@ AsksFor({"GetOrderbooks"}, {"type", "market_id", "rate", "amount"})
                 @@ AsksFor({"OrderPlace"}, {"type", "market_id", "rate", "amount", "price"})
                 @@ AsksFor({"OrderCancel", "OrderGet"}, {"orders_id"})
LakeBTCFunds == unrealizedMethod({"WithdrawGetLimits", "WithdrawList", "WithdrawHistory",
                                  "WithdrawCancel", "WithdrawInner", "WithdrawGetFee", "GetDeposits",
                                  "TradeGetFee", "TradeGetLimits"})
                @@ AsksFor({"WithdrawCreate"}, {"amount", "currency", "address"})
                @@ Asks({"GetBalances", "GetDepositAddress", "TradeHistory", "TradeOpenOrders"})

LbankMethods == Unmarked({"WithdrawCreate", "GetBalances"})

LivecoinOrders == Asks({"OrderPlace", "OrderCancel", "OrderGet"})
LivecoinFunds == Asks({"WithdrawList", "WithdrawHistory", "WithdrawCreate", "GetBalances",
                       "GetDeposits", "GetDepositAddress"})
LivecoinTrade == Asks({"TradeHistory", "TradeOpenOrders", "TradeGetFee"})

OkcoinOrders == AsksFor({"GetOrderbooks"}, {"market_id"})
                @@ AsksFor({"OrderPlace"}, {"type", "market_id", "rate", "amount"})
                @@ AsksFor({"OrderCancel", "OrderGet"}, {"market_id", "remote_id"})
OkcoinFunds == Asks({"WithdrawList", "WithdrawHistory", "WithdrawGetFee", "GetBalances", "GetDeposits"})
               @@ AsksFor({"WithdrawCreate"}, {"currency_id", "amount", "destination", "to_address",
                                               "trade_pwd", "fee"})
               @@ AsksFor({"WithdrawInner"}, {"currency_id", "amount", "from", "to"})
               @@ AsksFor({"GetDepositAddress"}, {"currency_id"})
OkcoinTrade == AsksFor({"TradeHistory"}, {"market_id", "limit"})
               @@ AsksFor({"TradeOpenOrders"}, {"market_id"}) @@ Asks({"TradeGetFee"})

ZBOrders == unrealizedMethod({"GetCurrencies", "GetMarkets", "OrderReplace"})
            @@ AsksFor({"GetOrderbooks"}, {"market_id"}) @@ Asks({"OrderPlace"})
            @@ AsksFor({"OrderCancel", "OrderGet"}, {"market_id", "remote_id"})
ZBFunds == Asks({"WithdrawGetLimits", "WithdrawList", "WithdrawHistory", "WithdrawCreate",
                 "GetBalances"})
           @@ unrealizedMethod({"WithdrawCancel", "WithdrawInner", "WithdrawGetFee"})
           @@ AsksFor({"GetDeposits", "GetDepositAddress"}, {"currency_id"})
ZBTrade == Asks({"TradeHistory", "TradeOpenOrders"}) @@ unrealizedMethod({"TradeGetFee", "TradeGetLimits"})

-----------------------------------------------------------------------------
Exchanges == {"binance", "bitfinex", "bittrex", "cexio", "exmo", "hitbtc", "huobi", "idcm", "kraken",
              "kucoin", "lakebtc", "lbank", "livecoin", "okcoin", "zb"}

Clients ==
  [binance  |-> BinanceOrders @@ BinanceFunds @@ BinanceTrade,
   bitfinex |-> BitfinexOrders @@ BitfinexFunds @@ BitfinexTrade,
   bittrex  |-> BittrexOrders @@ BittrexFunds @@ BittrexTrade,
   cexio    |-> CexioOrders @@ CexioFunds @@ CexioTrade,
   exmo     |-> ExmoOrders @@ ExmoFunds @@ ExmoTrade,
   hitbtc   |-> HitbtcOrders @@ HitbtcFunds @@ HitbtcTrade,
   huobi    |-> HuobiOrders @@ HuobiFunds @@ HuobiTrade,
   idcm     |-> IDCMOrders @@ IDCMFunds @@ IDCMTrade,
   kraken   |-> KrakenOrders @@ KrakenFunds @@ KrakenTrade,
   kucoin   |-> KuCoinOrders @@ KuCoinFunds @@ KuCoinTrade,
   lakebtc  |-> LakeBTCOrders @@ LakeBTCFunds,
   lbank    |-> LbankMethods,
   livecoin |-> LivecoinOrders @@ LivecoinFunds @@ LivecoinTrade,
   okcoin   |-> OkcoinOrders @@ OkcoinFunds @@ OkcoinTrade,
   zb       |-> ZBOrders @@ ZBFunds @@ ZBTrade]

Method(exchange, m) ==
  IF m \in DOMAIN Clients[exchange] THEN Clients[exchange][m] ELSE Silent

(* processAsyncQueue with this method: what follows, given the keys of the call *)
SendsRequest(exchange, m, keys) ==
  /\ Method(exchange, m).request
  /\ Method(exchange, m).needs \subseteq keys
===================================================================================
