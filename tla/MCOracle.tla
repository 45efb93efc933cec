------------------------------- MODULE MCOracle -------------------------------
(***************************************************************************)
(* A whole replay: orders on both sides, so that the position is opened,   *)
(* added to, reduced and flipped, with prices that average inexactly.  The *)
(* configurations are those of a run that liquidates and of one that does  *)
(* not, and what no validator stops: a negative liquidation timestamp, a   *)
(* negative fee, a negative margin rate, and less cash than nothing.       *)
(***************************************************************************)
EXTENDS GoldenOracle

Order(id, side, type, tif, qty, created, limit) ==
    [order_id |-> id, side |-> side, order_type |-> type, time_in_force |-> tif,
     quantity |-> qty, limit_price |-> limit, stop_price |-> None, expiry_ts |-> None,
     created_ts |-> created]

Trade(price, size, ts) ==
    [kind |-> "trade", price |-> price, size |-> size, exchange_ts |-> ts]

ReplayIntents ==
    { Order("long", "BUY", "MARKET", "GTC", 3, 0, None),
      Order("add", "BUY", "MARKET", "IOC", 2, 1, None),
      Order("exit", "SELL", "LIMIT", "GTC", 2, 0, 2),
      Order("short", "SELL", "MARKET", "DAY", 4, 1, None),
      Order("neg", "SELL", "LIMIT", "IOC", 1, 1, -1) }

ReplayEvents == { Trade(1, 2, 1), Trade(2, 3, 2), Trade(5, 1, 2), Trade(1, 4, 3) }

PowersOfTen == {1, 10, 100, 1000, 10000}

Config(cash_, fee, margin, ts) ==
    [starting_cash |-> cash_, fee_rate |-> fee, margin_rate |-> margin,
     final_liquidation_ts |-> ts]

Liquidating == Config(20000, 100, 500, 3)

LiquidatingRun == {Liquidating}

RunConfigs == { Liquidating, Config(20000, 100, 500, None), Config(20000, 100, 500, -1),
                Config(20000, -1, 500, 3), Config(20000, 100, -1, 3),
                Config(-3000, 0, 500, None) }
==============================================================================
