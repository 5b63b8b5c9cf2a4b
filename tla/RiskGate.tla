------------------------------ MODULE RiskGate ------------------------------
(***************************************************************************)
(* The deterministic risk engine of risk.py as it decides on one order:    *)
(* approved exactly when no check refuses.  Which check refuses first only *)
(* shows in the reason, so the checks are a conjunction.                   *)
(***************************************************************************)
EXTENDS Integers

\* max_position_notional, max_order_notional, max_daily_loss, max_drawdown and
\* max_leverage (a whole number here) of RiskLimits.
Limits == [position : Nat, order : Nat, loss : Nat, drawdown : Nat, leverage : Nat]

Equity(book, price) == book.cash + book.position * price

\* RiskSessionState, or its first value when there is none.
NewSession(equity) == [start |-> equity, peak |-> equity, current |-> equity]

\* A defect: the peak follows the equity down.
UpdateSession_LastEquity(session, equity) ==
  [start |-> session.start, peak |-> equity, current |-> equity]

\* A defect: the profit in place of the equity.
UpdateSession_Profit(session, equity) ==
  [start |-> session.start,
   peak |-> IF session.peak < equity THEN equity ELSE session.peak,
   current |-> equity - session.start]

UpdateSession(session, equity) ==
  [start |-> session.start,
   peak |-> IF session.peak < equity THEN equity ELSE session.peak,
   current |-> equity]

\* The losses that stop all trading: from the session's start, from its peak.
WithinLosses(session, equity, limits) ==
  /\ equity >= 0
  /\ session.start >= 0 /\ session.start - equity <= limits.loss
  /\ session.peak >= 0 /\ session.peak - equity <= limits.drawdown

\* What the book can carry: the notional against cash and position, and the
\* position it would lead to against leverage and the position limit.
Affordable(book, side, quantity, price, limits) ==
  LET notional == quantity * price
      held == book.position * price
      equity == Equity(book, price)
      projected == IF side = "SELL" THEN held - notional ELSE held + notional
  IN /\ notional <= limits.order
     /\ IF side = "SELL" THEN notional <= held ELSE notional <= book.cash
     /\ equity # 0
     /\ projected <= equity * limits.leverage
     /\ projected <= limits.position

\* evaluate(): side is None for a HOLD, which is never approved.
Approves(book, session, side, quantity, price, limits) ==
  /\ price > 0 /\ quantity > 0
  /\ book.position >= 0
  /\ book.cash >= 0
  /\ WithinLosses(session, Equity(book, price), limits)
  /\ side \in {"BUY", "SELL"}
  /\ Affordable(book, side, quantity, price, limits)

\* The book after a fill at that price.
\* A defect: a sale is not paid.
Filled_SellKeepsCash(book, side, quantity, price) ==
  IF side = "SELL"
  THEN [book EXCEPT !.position = @ - quantity]
  ELSE [book EXCEPT !.cash = @ - quantity * price, !.position = @ + quantity]

Filled(book, side, quantity, price) ==
  IF side = "SELL"
  THEN [book EXCEPT !.cash = @ + quantity * price, !.position = @ - quantity]
  ELSE [book EXCEPT !.cash = @ - quantity * price, !.position = @ + quantity]

=============================================================================
