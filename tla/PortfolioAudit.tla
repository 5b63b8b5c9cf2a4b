---------------------------- MODULE PortfolioAudit ----------------------------
(***************************************************************************)
(* reconcile_portfolio of observability.py: the orders a ledger records,   *)
(* replayed from the starting cash, against a portfolio as it was saved.   *)
(* Average cost and realized profit are not replayed.                      *)
(***************************************************************************)
EXTENDS Integers, SequencesExt

OrderIds(orders) == {order.id : order \in ToSet(orders)}

\* One order on the amounts expected so far; a sale of more than was bought
\* is reported and skipped.
Booked(expected, order) ==
  CASE order.side = "BUY" ->
         [expected EXCEPT !.cash = @ - order.notional, !.position = @ + order.quantity]
    [] order.side # "BUY" /\ order.quantity > expected.position ->
         [expected EXCEPT !.oversold = TRUE]
    [] OTHER ->
         [expected EXCEPT !.cash = @ + order.notional, !.position = @ - order.quantity]

\* Orders the portfolio has not applied are passed over.
Expected(book, orders, startingCash) ==
  FoldLeft(LAMBDA before, order :
             IF order.id \in book.applied THEN Booked(before, order) ELSE before,
           [cash |-> startingCash, position |-> 0, oversold |-> FALSE],
           orders)

\* The keys a state must have, of those modelled, and no other.
Required == {"cash", "position", "applied"}

Reported(error, condition) == IF condition THEN {error} ELSE {}

Reconcile(book, orders, startingCash) ==
  LET expected == Expected(book, orders, startingCash)
  IN IF DOMAIN book # Required THEN {"INVALID_PORTFOLIO_STATE"} ELSE UNION {
       Reported("LEDGER_ORDER_ID_DUPLICATE",
                Cardinality(OrderIds(orders)) # Len(orders)),
       Reported("PORTFOLIO_ORDER_MISSING_FROM_LEDGER",
                ~(book.applied \subseteq OrderIds(orders))),
       Reported("LEDGER_SELL_EXCEEDS_RECONCILED_POSITION", expected.oversold),
       Reported("PORTFOLIO_CASH_MISMATCH", book.cash # expected.cash),
       Reported("PORTFOLIO_POSITION_QUANTITY_MISMATCH",
                book.position # expected.position)}

=============================================================================
