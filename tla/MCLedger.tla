------------------------------- MODULE MCLedger -------------------------------
(***************************************************************************)
(* The ledger with four significant digits, three of them decimals: an     *)
(* average price, a fee or a cash balance can need more digits than that.  *)
(* The configurations are an ordinary one and ones no validator stops: a   *)
(* negative fee, a negative margin rate, and less cash than nothing.       *)
(***************************************************************************)
EXTENDS OracleLedger

PowersOfTen == {1, 10, 100, 1000, 10000}
FillPrices == {-1, 1, 2, 5}
FillQuantities == {1, 2, 3}

Config(starting_cash, fee_rate, margin_rate) ==
    [starting_cash |-> starting_cash, fee_rate |-> fee_rate, margin_rate |-> margin_rate]

RunConfigs == { Config(20000, 100, 500), Config(20000, -1, 500),
                Config(20000, 100, -1), Config(-3000, 0, 500) }
==============================================================================
