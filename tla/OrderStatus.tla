----------------------------- MODULE OrderStatus -----------------------------
(***************************************************************************)
(* The order-state machine of schema/orders.py: the single source of truth *)
(* for "impossible order transitions", used by the schema and the oracle.  *)
(***************************************************************************)

Statuses == {"NEW", "ACCEPTED", "PARTIALLY_FILLED",
             "FILLED", "CANCELED", "REJECTED", "EXPIRED"}

TerminalStatuses == {"FILLED", "CANCELED", "REJECTED", "EXPIRED"}

ActiveStatuses == {"ACCEPTED", "PARTIALLY_FILLED"}

\* The from_status of the very first transition of an order (Python's None).
NoStatus == "none"

\* Where an order may go from each status.
AllowedTransitions ==
    [from \in Statuses \cup {NoStatus} |->
        CASE from = NoStatus        -> {"NEW"}
          [] from = "NEW"           -> {"ACCEPTED", "REJECTED", "CANCELED"}
          [] from \in ActiveStatuses ->
                {"PARTIALLY_FILLED", "FILLED", "CANCELED", "EXPIRED"}
          [] OTHER                  -> {}]

ValidTransition(from, to) == to \in AllowedTransitions[from]

==============================================================================
