----------------------------- MODULE Endpoints -----------------------------
(***************************************************************************)
(* The services of the SDK: what each one's constructor takes, what its    *)
(* setters write, and the request its Do makes of it.                      *)
(***************************************************************************)

\* An argument and the parameter it is written to: a text, which may be empty (a string, an
\* enum, a list joined with commas); a number, flag, time or list; a constant.
T(key) == [key |-> key, kind |-> "text"]
V(key) == [key |-> key, kind |-> "value"]
F(key) == [key |-> key, kind |-> "fixed"]

\* setters is a function from the setter's name.
Endpoint(area, name, method, signed, style, given, setters) ==
  [area |-> area, name |-> name, method |-> method, signed |-> signed, style |-> style,
   given |-> given, setters |-> setters, extra |-> "none"]

\* POST /0/private, signed; GET /0/public; GET /affiliate/v1, signed and answered bare.
Private(name, given, setters) ==
  Endpoint("private", name, "POST", TRUE, "envelope", given, setters)
Public(name, given, setters) ==
  Endpoint("public", name, "GET", FALSE, "envelope", given, setters)
Affiliate(name, given, setters) ==
  Endpoint("affiliate", name, "GET", TRUE, "bare", given, setters)

\* A WebSocket channel; a private one's subscription carries the token.
Channel(name, private, given, setters) ==
  Endpoint("channel", name, "subscribe", private, "push", given, setters)

\* What a service does beyond setting parameters.
WithExtra(extra, endpoint) == [endpoint EXCEPT !.extra = extra]

---------------------------------------------------------------------------
\* Account data (account.go).
GetAccountBalance == Private("Balance", {}, [SetAccountID |-> T("account_id")])
GetExtendedBalance == Private("BalanceEx", {}, [SetAccountID |-> T("account_id")])
GetTradeBalance == Private("TradeBalance", {},
  [SetAsset |-> T("asset"), SetAccountID |-> T("account_id")])
GetOpenOrders == Private("OpenOrders", {},
  [SetTrades |-> V("trades"), SetUserRef |-> V("userref"), SetClientOrderID |-> T("cl_ord_id"),
   SetConsolidateTaker |-> V("consolidate_taker"), SetWithCursor |-> V("with_cursor"),
   SetCursor |-> T("cursor"), SetLimit |-> V("limit"), SetAccountID |-> T("account_id")])
GetClosedOrders == Private("ClosedOrders", {},
  [SetTrades |-> V("trades"), SetUserRef |-> V("userref"), SetClientOrderID |-> T("cl_ord_id"),
   SetStart |-> T("start"), SetEnd |-> T("end"), SetOffset |-> V("ofs"),
   SetCloseTime |-> T("closetime"), SetWithoutCount |-> V("without_count"),
   SetWithCursor |-> V("with_cursor"), SetCursor |-> T("cursor"),
   SetAccountID |-> T("account_id")])
QueryOrders == Private("QueryOrders", {T("txid")},
  [SetTrades |-> V("trades"), SetUserRef |-> V("userref"), SetClientOrderID |-> T("cl_ord_id"),
   SetConsolidateTaker |-> V("consolidate_taker"), SetAccountID |-> T("account_id")])
GetOrderAmends == Private("OrderAmends", {T("order_id")}, [SetAccountID |-> T("account_id")])
GetTradesHistory == Private("TradesHistory", {},
  [SetType |-> T("type"), SetTrades |-> V("trades"), SetStart |-> T("start"),
   SetEnd |-> T("end"), SetOffset |-> V("ofs"), SetWithoutCount |-> V("without_count"),
   SetConsolidateTaker |-> V("consolidate_taker"), SetLedgers |-> V("ledgers"),
   SetAssetClass |-> T("aclass"), SetPair |-> T("pair"), SetLimit |-> V("limit"),
   SetWithCursor |-> V("with_cursor"), SetCursor |-> T("cursor"),
   SetAccountID |-> T("account_id")])
QueryTrades == Private("QueryTrades", {T("txid")},
  [SetTrades |-> V("trades"), SetLedgers |-> V("ledgers"), SetAccountID |-> T("account_id")])
GetOpenPositions == WithExtra("consolidated", Private("OpenPositions", {},
  [SetTxID |-> T("txid"), SetDoCalcs |-> V("docalcs"), SetConsolidation |-> T("consolidation"),
   SetAccountID |-> T("account_id")]))
GetLedgers == Private("Ledgers", {},
  [SetAccountID |-> T("account_id"), SetAsset |-> T("asset"), SetAssetClass |-> T("aclass"),
   SetType |-> T("type"), SetStart |-> T("start"), SetEnd |-> T("end"), SetOffset |-> V("ofs"),
   SetWithoutCount |-> V("without_count"), SetWithCursor |-> V("with_cursor"),
   SetCursor |-> T("cursor")])
QueryLedgers == Private("QueryLedgers", {T("id")},
  [SetTrades |-> V("trades"), SetAccountID |-> T("account_id")])
GetTradeVolume == Private("TradeVolume", {},
  [SetPair |-> T("pair"), SetFeeSchedule |-> V("fee_schedule")])

RequestExportReport == Private("AddExport", {T("report"), T("description")},
  [SetFormat |-> T("format"), SetFields |-> T("fields"), SetStartTime |-> V("starttm"),
   SetEndTime |-> V("endtm")])
GetExportReportStatus == Private("ExportStatus", {T("report")}, <<>>)
RetrieveDataExport ==
  [Private("RetrieveExport", {T("id")}, <<>>) EXCEPT !.style = "file"]
DeleteExportReport == Private("RemoveExport", {T("id"), T("type")}, <<>>)
GetCreditLines == Private("CreditLines", {}, [SetAccountID |-> T("account_id")])
GetApiKeyInfo == Private("GetApiKeyInfo", {}, <<>>)
ListWalletAccounts == Private("ListWalletAccounts", {}, <<>>)

---------------------------------------------------------------------------
\* Market data (market.go).
GetServerTime == Public("Time", {}, <<>>)
GetSystemStatus == Public("SystemStatus", {}, <<>>)
GetAssetInfo == Public("Assets", {}, [SetAsset |-> T("asset"), SetAssetClass |-> T("aclass")])
GetTradableAssetPairs == Public("AssetPairs", {},
  [SetPair |-> T("pair"), SetInfo |-> T("info"), SetCountryCode |-> T("country_code")])
GetTicker == Public("Ticker", {}, [SetPair |-> T("pair")])
GetOHLCData == Public("OHLC", {T("pair")},
  [SetInterval |-> V("interval"), SetSince |-> V("since")])
GetOrderBook == Public("Depth", {T("pair")}, [SetCount |-> V("count")])
GetRecentTrades == Public("Trades", {T("pair")},
  [SetSince |-> T("since"), SetCount |-> V("count")])
GetRecentSpreads == Public("Spread", {T("pair")}, [SetSince |-> V("since")])
GetGroupedOrderBook == Public("GroupedBook", {T("pair")},
  [SetDepth |-> V("depth"), SetGrouping |-> V("grouping")])
QueryL3OrderBook == Private("Level3", {T("pair")}, [SetCount |-> V("count")])
GetMaintenanceSchedule == Public("MaintenanceSchedule", {}, <<>>)

---------------------------------------------------------------------------
\* Trading (trade.go).

\* The last three, its arguments, are set by SetCloseOrder.
AddOrder == WithExtra("close",
 Private("AddOrder", {T("pair"), T("type"), T("ordertype"), V("volume")},
  [SetPrice |-> V("price"), SetPrice2 |-> V("price2"), SetLeverage |-> T("leverage"),
   SetOrderFlags |-> T("oflags"), SetTimeInForce |-> T("timeinforce"),
   SetTrigger |-> T("trigger"), SetSTPType |-> T("stptype"), SetReduceOnly |-> V("reduce_only"),
   SetDisplayVolume |-> V("displayvol"), SetUserRef |-> V("userref"),
   SetClientOrderID |-> T("cl_ord_id"), SetStartTime |-> T("starttm"),
   SetExpireTime |-> T("expiretm"), CloseType |-> T("close[ordertype]"),
   ClosePrice |-> V("close[price]"), ClosePrice2 |-> V("close[price2]"),
   SetDeadline |-> T("deadline"), SetValidate |-> V("validate")]))
\* A validate that is false is left out.
AddOrderBatch == WithExtra("orders", Private("AddOrderBatch", {T("pair")},
  [SetDeadline |-> T("deadline"), SetValidate |-> T("validate")]))
AmendOrder == Private("AmendOrder", {T("txid")},
  [SetClientOrderID |-> T("cl_ord_id"), SetOrderQty |-> V("order_qty"),
   SetDisplayQty |-> V("display_qty"), SetLimitPrice |-> V("limit_price"),
   SetTriggerPrice |-> V("trigger_price"), SetPostOnly |-> V("post_only"),
   SetDeadline |-> T("deadline")])
EditOrder == Private("EditOrder", {T("pair"), T("txid")},
  [SetVolume |-> V("volume"), SetPrice |-> V("price"), SetPrice2 |-> V("price2"),
   SetOrderFlags |-> T("oflags"), SetUserRef |-> V("userref"),
   SetDisplayVolume |-> V("displayvol"), SetCancelResponse |-> V("cancel_response"),
   SetDeadline |-> T("deadline"), SetValidate |-> V("validate")])
CancelOrder == Private("CancelOrder", {T("txid")}, [SetClientOrderID |-> T("cl_ord_id")])
CancelAllOrders == Private("CancelAll", {}, <<>>)
CancelAllOrdersAfter == Private("CancelAllOrdersAfter", {V("timeout")}, <<>>)
CancelOrderBatch == WithExtra("ids", Private("CancelOrderBatch", {}, <<>>))

---------------------------------------------------------------------------
\* Funding (funding.go).
GetDepositMethods == Private("DepositMethods", {T("asset")}, [SetAssetClass |-> T("aclass")])
GetDepositAddresses == Private("DepositAddresses", {T("asset"), T("method")},
  [SetNew |-> V("new"), SetAmount |-> V("amount")])
GetDepositStatus == Private("DepositStatus", {},
  [SetAsset |-> T("asset"), SetAssetClass |-> T("aclass"), SetMethod |-> T("method")])
GetWithdrawMethods == Private("WithdrawMethods", {},
  [SetAsset |-> T("asset"), SetAssetClass |-> T("aclass"), SetNetwork |-> T("network")])
GetWithdrawAddresses == Private("WithdrawAddresses", {},
  [SetAsset |-> T("asset"), SetAssetClass |-> T("aclass"), SetMethod |-> T("method"),
   SetKey |-> T("key"), SetVerified |-> V("verified")])
GetWithdrawInfo == Private("WithdrawInfo", {T("asset"), T("key"), V("amount")}, <<>>)
Withdraw == Private("Withdraw", {T("asset"), T("key"), V("amount")},
  [SetAssetClass |-> T("aclass"), SetAddress |-> T("address"), SetMaxFee |-> V("max_fee")])
GetWithdrawStatus == Private("WithdrawStatus", {},
  [SetAsset |-> T("asset"), SetAssetClass |-> T("aclass"), SetMethod |-> T("method")])
WithdrawCancel == Private("WithdrawCancel", {T("asset"), T("refid")}, <<>>)
WalletTransfer == Private("WalletTransfer", {T("asset"), V("amount"), F("from"), F("to")},
  [SetFrom |-> T("from"), SetTo |-> T("to")])

---------------------------------------------------------------------------
\* Earn (earn.go).
AllocateEarnFunds == Private("Earn/Allocate", {T("strategy_id"), V("amount")}, <<>>)
DeallocateEarnFunds == Private("Earn/Deallocate", {T("strategy_id"), V("amount")}, <<>>)
GetAllocationStatus == Private("Earn/AllocateStatus", {T("strategy_id")}, <<>>)
GetDeallocationStatus == Private("Earn/DeallocateStatus", {T("strategy_id")}, <<>>)
ListEarnStrategies == Private("Earn/Strategies", {},
  [SetAsset |-> T("asset"), SetAscending |-> V("ascending"), SetLimit |-> V("limit"),
   SetCursor |-> T("cursor"), SetLockType |-> T("lock_type")])
ListEarnAllocations == Private("Earn/Allocations", {},
  [SetAscending |-> V("ascending"), SetConvertedAsset |-> T("converted_asset"),
   SetHideZeroAllocations |-> V("hide_zero_allocations")])

---------------------------------------------------------------------------
\* Affiliate (affiliate.go).
GetDailyActivity == Affiliate("daily-activity", {},
  [SetActivityDate |-> T("activity_date"), SetAllUsers |-> V("all_users"),
   SetIIBAN |-> T("iiban"), SetStartDate |-> T("start_date"), SetEndDate |-> T("end_date"),
   SetCursor |-> T("cursor"), SetLimit |-> V("limit")])
GetAffiliateCPAProgress == Affiliate("cpa-progress", {T("iiban")}, <<>>)
GetAffiliatePayoutHistory == Affiliate("payout-history", {},
  [SetCursor |-> T("cursor"), SetLimit |-> V("limit")])

---------------------------------------------------------------------------
\* Algo strategies (algo.go).
AddStrategy == Private("AddStrategy",
  {T("strategy_type"), T("symbol"), F("asset_class"), T("side"), V("volume"), T("ordertype"),
   T("expiretm")},
  [SetPrice |-> V("price"), SetStartTime |-> T("starttm"), SetValidate |-> V("validate")])
CancelStrategy == Private("CancelStrategy", {T("strategy_id")}, <<>>)
GetOpenStrategies == Private("GetOpenStrategies", {}, [SetStrategyType |-> T("strategy_type")])
QueryStrategies == Private("QueryStrategies", {T("strategy_ids")}, <<>>)
GetClosedStrategies == Private("GetClosedStrategies", {},
  [SetAssetClass |-> T("asset_class"), SetStrategyType |-> T("strategy_type"),
   SetStatus |-> T("status"), SetStart |-> V("start"), SetEnd |-> V("end"),
   SetQueryTimeMode |-> T("query_time_mode"), SetLimit |-> V("limit"),
   SetCursor |-> T("cursor")])

---------------------------------------------------------------------------
\* Subaccounts (subaccount.go).
CreateSubaccount == Private("CreateSubaccount", {T("username"), T("email")}, <<>>)
AccountTransfer == Private("AccountTransfer", {T("asset"), V("amount"), T("from"), T("to")},
  [SetAssetClass |-> T("asset_class")])

---------------------------------------------------------------------------
\* Transparency (transparency.go).
GetPreTradeData == Public("PreTrade", {T("symbol")}, <<>>)
GetPostTradeData == Public("PostTrade", {},
  [SetSymbol |-> T("symbol"), SetFromTime |-> V("from_ts"), SetToTime |-> V("to_ts"),
   SetCount |-> V("count")])

---------------------------------------------------------------------------
\* WebSocket token (websocket.go).
GetWebSocketsToken == Private("GetWebSocketsToken", {}, <<>>)

---------------------------------------------------------------------------
\* Public channels (ws_public.go).
SubscribeTicker == Channel("ticker", FALSE, {V("symbol")},
  [SetEventTrigger |-> T("event_trigger"), SetSnapshot |-> V("snapshot")])
SubscribeBook == Channel("book", FALSE, {V("symbol")},
  [SetDepth |-> V("depth"), SetSnapshot |-> V("snapshot")])
SubscribeOHLC == Channel("ohlc", FALSE, {V("symbol"), V("interval")},
  [SetSnapshot |-> V("snapshot")])
SubscribeTrade == Channel("trade", FALSE, {V("symbol")}, [SetSnapshot |-> V("snapshot")])
SubscribeInstrument == Channel("instrument", FALSE, {}, [SetSnapshot |-> V("snapshot")])

---------------------------------------------------------------------------
\* Private channels (ws_private.go).
SubscribeExecutions == Channel("executions", TRUE, {},
  [SetSnapTrades |-> V("snap_trades"), SetSnapOrders |-> V("snap_orders"),
   SetOrderStatus |-> V("order_status"), SetRateCounter |-> V("ratecounter")])
SubscribeBalances == Channel("balances", TRUE, {}, [SetSnapshot |-> V("snapshot")])
SubscribeLevel3 == Channel("level3", TRUE, {V("symbol")},
  [SetDepth |-> V("depth"), SetSnapshot |-> V("snapshot")])

---------------------------------------------------------------------------
AllEndpoints ==
  {GetAccountBalance, GetExtendedBalance, GetTradeBalance, GetOpenOrders, GetClosedOrders,
   QueryOrders, GetOrderAmends, GetTradesHistory, QueryTrades, GetOpenPositions, GetLedgers,
   QueryLedgers, GetTradeVolume, RequestExportReport, GetExportReportStatus,
   RetrieveDataExport, DeleteExportReport, GetCreditLines, GetApiKeyInfo, ListWalletAccounts,
   GetServerTime, GetSystemStatus, GetAssetInfo, GetTradableAssetPairs, GetTicker,
   GetOHLCData, GetOrderBook, GetRecentTrades, GetRecentSpreads, GetGroupedOrderBook,
   QueryL3OrderBook, GetMaintenanceSchedule, AddOrder, AddOrderBatch, AmendOrder, EditOrder,
   CancelOrder, CancelAllOrders, CancelAllOrdersAfter, CancelOrderBatch, GetDepositMethods,
   GetDepositAddresses, GetDepositStatus, GetWithdrawMethods, GetWithdrawAddresses,
   GetWithdrawInfo, Withdraw, GetWithdrawStatus, WithdrawCancel, WalletTransfer,
   AllocateEarnFunds, DeallocateEarnFunds, GetAllocationStatus, GetDeallocationStatus,
   ListEarnStrategies, ListEarnAllocations, GetDailyActivity, GetAffiliateCPAProgress,
   GetAffiliatePayoutHistory, AddStrategy, CancelStrategy, GetOpenStrategies, QueryStrategies,
   GetClosedStrategies, CreateSubaccount, AccountTransfer, GetPreTradeData, GetPostTradeData,
   GetWebSocketsToken, SubscribeTicker, SubscribeBook, SubscribeOHLC, SubscribeTrade,
   SubscribeInstrument, SubscribeExecutions, SubscribeBalances, SubscribeLevel3}

\* The endpoints over HTTP.
RestEndpoints == {e \in AllEndpoints : e.area # "channel"}
=============================================================================
