------------------------------ MODULE MCScreening ------------------------------
(***************************************************************************)
(* Families of up to three trials over five events whose price falls,      *)
(* rises to more than the cash can buy at, and falls twice; the last exit  *)
(* of a trial that trades twice costs more than it brings, and leaves it   *)
(* with less than nothing.                                                 *)
(***************************************************************************)
EXTENDS Screening

Event(ts, price) == [event_ts |-> ts, price |-> price]

Events == <<Event(10, 3), Event(20, 2), Event(30, 14), Event(40, 6), Event(50, 1)>>

Signal(computed, available, execution, action) ==
    [computed_at_ts |-> computed, available_at_ts |-> available,
     execution_ts |-> execution, action |-> action]

Buy(computed, execution) == Signal(computed, computed, execution, "enter_long")
Sell(computed, execution) == Signal(computed, computed, execution, "exit_long")

Trial(id, signals) == [trial_id |-> id, signals |-> signals]

Family ==
    { Trial(1, {Buy(10, 20), Sell(20, 30)}),   \* a gain
      Trial(2, {Buy(10, 20), Sell(20, 30)}),   \* the same gain
      Trial(3, {Buy(10, 20)}),                 \* still open at the end
      Trial(4, {}),                            \* no trade
      Trial(5, {Buy(20, 30)}),                 \* too expensive
      Trial(6, {Buy(10, 20), Sell(20, 40)}),   \* an exit later than the next event
      Trial(7, {Sell(10, 20), Buy(20, 30)}),   \* an exit while flat
      Trial(8, {Signal(10, 25, 30, "exit_long"), Buy(10, 20),
                Signal(30, 35, 40, "enter_long"), Sell(40, 50)}),
      Trial(9, {Buy(10, 20), Buy(20, 40)}),    \* a second entry, past the next event
      Trial(10, {Signal(10, 15, 20, "enter_long"), Buy(30, 40)}) }  \* entry while long
==============================================================================
