------------------------------ MODULE MCMatching ------------------------------
(***************************************************************************)
(* The intents and events the runs of OrderMatching choose from.  Prices   *)
(* are 10 or 20, quantities 1 to 3, so that an event can be smaller than,  *)
(* equal to or larger than what the orders ask, and a price can miss,      *)
(* reach or gap through a level.                                           *)
(***************************************************************************)
EXTENDS OrderMatching, SequencesExt

CONSTANT None  \* Python's None

Order(id, side, type, tif, qty, created) ==
    [order_id |-> id, side |-> side, order_type |-> type, time_in_force |-> tif,
     quantity |-> qty, limit_price |-> None, stop_price |-> None, expiry_ts |-> None,
     created_ts |-> created]

Limit(i, p) == [i EXCEPT !.limit_price = p]
Stop(i, p) == [i EXCEPT !.stop_price = p]
Expires(i, t) == [i EXCEPT !.expiry_ts = t]

Trade(price, size, ts) ==
    [kind |-> "trade", price |-> price, size |-> size, exchange_ts |-> ts]
Bar(open, high, low, volume, open_ts, close_ts) ==
    [kind |-> "bar", open |-> open, high |-> high, low |-> low, volume |-> volume,
     bar_open_ts |-> open_ts, bar_close_ts |-> close_ts]

\* Every time in force, on a trade tape.
TifIntents ==
    { Order("day", "BUY", "MARKET", "DAY", 3, 0),
      Limit(Order("gtc", "BUY", "LIMIT", "GTC", 2, 1), 10),
      Limit(Order("ioc", "BUY", "LIMIT", "IOC", 2, 0), 10),
      Order("late", "SELL", "MARKET", "IOC", 1, 2),
      Order("fok", "SELL", "MARKET", "FOK", 2, 0),
      Expires(Order("gtd", "BUY", "MARKET", "GTD", 3, 1), 2) }

TifEvents == { Trade(10, 1, 1), Trade(10, 2, 2), Trade(20, 3, 2), Trade(10, 4, 3) }

\* Stops and stop-limits, over bars (one without volume) and trades, and a
\* sell limit below any price, which fills at a price the schema refuses.
StopIntents ==
    { Stop(Order("sb", "BUY", "STOP", "GTC", 1, 0), 15),
      Stop(Order("ss", "SELL", "STOP", "DAY", 2, 0), 15),
      Limit(Stop(Order("slb", "BUY", "STOP_LIMIT", "GTC", 2, 0), 15), 12),
      Limit(Stop(Order("sls", "SELL", "STOP_LIMIT", "IOC", 1, 0), 15), 10),
      Order("mkt", "BUY", "MARKET", "GTC", 1, 0),
      Limit(Order("neg", "SELL", "LIMIT", "GTC", 1, 0), -1) }

StopEvents ==
    { Bar(10, 20, 10, 2, 0, 1), Bar(20, 20, 10, 1, 1, 2),
      Bar(10, 20, 10, 0, 0, 1),
      Trade(20, 1, 1), Trade(10, 2, 2) }

AllIntents == TifIntents \cup StopIntents
AllEvents == TifEvents \cup StopEvents

\* Every replay is of one family: the time-in-force orders over the trade
\* tape, or the stop orders over bars and trades.
OneFamily ==
    \/ ToSet(intents) \subseteq TifIntents /\ ToSet(events) \subseteq TifEvents
    \/ ToSet(intents) \subseteq StopIntents /\ ToSet(events) \subseteq StopEvents

FamilyStep == Next /\ OneFamily'

FamilySpec == Init /\ [][FamilyStep]_vars
==============================================================================
