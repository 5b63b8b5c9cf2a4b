---------------------------- MODULE PaperRuntime ----------------------------
(***************************************************************************)
(* The paper trading engine of runtime.py with its portfolio, its session  *)
(* state and its ledger.  One engine works on a directory; it may die      *)
(* between any two writes and be started again on the same files.  Reads   *)
(* of the ledger are part of the step that uses them: nobody else writes.  *)
(*                                                                         *)
(* A decision is its bar, its action and who made it, which is what its id *)
(* is computed from; an event's id is its type and decision (for a JEV     *)
(* evaluation: its bar).  Average cost and realized profit are left out:   *)
(* no control depends on them.                                             *)
(***************************************************************************)
EXTENDS RiskGate, PromotionGate, Sequences

CONSTANTS
  Paths,         \* price sequences the data file may hold
  Threshold,     \* entry_return of the strategy, in percent
  Quantity, StartingCash, RiskLimits,
  JevChoices,    \* is a JEV connected
  JevActions,    \* what it may answer
  Armings,       \* may the kill switch be armed
  Environments,  \* what promote finds besides the files
  CrashAt,       \* labels at which the process may die
  MaxCrashes,    \* bound on the number of deaths
  None

ASSUME PaperAssumption ==
  /\ Paths \subseteq Seq(Nat \ {0})
  /\ Threshold \in Nat
  /\ Quantity \in Nat \ {0}
  /\ StartingCash \in Nat
  /\ RiskLimits \in Limits
  /\ JevChoices \subseteq BOOLEAN
  /\ JevActions \subseteq {"ENTER", "EXIT", "HOLD"}
  /\ Armings \subseteq BOOLEAN
  /\ Environments \subseteq Environment
  /\ MaxCrashes \in Nat
  /\ None \notin [start : Int, peak : Int, current : Int]
  /\ None \notin [cash : Int, position : Int, applied : SUBSET
                   [bar : Nat, action : {"ENTER", "EXIT", "HOLD"}, jev : BOOLEAN]]

VARIABLES
  price, jev,    \* the market data and the setup, fixed
  ledger,        \* the set of events in the ledger
  bookFile,      \* portfolio.json, or None
  sessionFile,   \* risk_session.json, or None
  runRecord,     \* paper_run.json says that a run completed
  promoted,      \* promotion targets found eligible so far
  pc, bar, armed, decision, book, session, logged, approved, owed,
  crashes

\* The engine's memory: where it is, the bar, its kill switch, the decision,
\* portfolio and session, whether the DECISION event was there at the lookup,
\* the risk outcome, and whether an ORDER event is still to be appended.
memory == <<pc, bar, armed, decision, book, session, logged, approved, owed>>
disk == <<ledger, bookFile, sessionFile, runRecord, promoted>>
setup == <<price, jev>>
vars == <<price, jev, ledger, bookFile, sessionFile, runRecord, promoted,
          pc, bar, armed, decision, book, session, logged, approved, owed,
          crashes>>

Actions == {"ENTER", "EXIT", "HOLD"}

Bars == 2..Len(price)

\* make_decision on the latest return, price[b] / price[b-1] - 1.
Return(b) == 100 * (price[b] - price[b - 1])

Proposal(b) ==
  [bar |-> b, jev |-> FALSE,
   action |-> IF Return(b) > Threshold * price[b - 1] THEN "ENTER"
              ELSE IF Return(b) < -(Threshold * price[b - 1]) /\ Threshold > 0
              THEN "EXIT" ELSE "HOLD"]

Side(d) == CASE d.action = "ENTER" -> "BUY"
             [] d.action = "EXIT" -> "SELL"
             [] OTHER -> "NONE"

\* The order of a decision: PaperExecution.submit and, after a crash,
\* _reconstruct_applied_order compute the same one.
PaperOrder(d) ==
  [id |-> d, side |-> Side(d), quantity |-> Quantity,
   notional |-> Quantity * price[d.bar]]

Event(type, d) == [type |-> type, decision |-> d, approved |-> FALSE]

Has(type, d) == \E e \in ledger : e.type = type /\ e.decision = d

Evaluations(b) == {e \in ledger : e.type = "JEV_EVALUATION" /\ e.decision.bar = b}

\* events_for_decision: a JEV evaluation does not carry the id at its top.
EventsFor(d) == {e \in ledger : e.decision = d /\ e.type # "JEV_EVALUATION"}

Recorded(d) == {e \in ledger : e.type = "RISK_EVALUATION" /\ e.decision = d}

Decided(d) == Has("ORDER", d) \/ Has("RISK_BLOCK", d)

\* Appending an event whose id exists is ignored (RISK_EVALUATION, ORDER); of
\* the other types the engine looked for the event before.
AppendEvent(e) ==
  ledger' = IF Has(e.type, e.decision) THEN ledger ELSE ledger \cup {e}

Init ==
  /\ price \in Paths
  /\ jev \in JevChoices
  /\ ledger = {}
  /\ bookFile = None
  /\ sessionFile = None
  /\ runRecord = FALSE
  /\ promoted = {}
  /\ pc = "down"
  /\ bar = 0
  /\ armed = FALSE
  /\ decision = None
  /\ book = None
  /\ session = None
  /\ logged = FALSE
  /\ approved = FALSE
  /\ owed = FALSE
  /\ crashes = 0

\* The process ends, by an exception, a crash or because the run is over.
Down ==
  /\ pc' = "down"
  /\ bar' = 0
  /\ armed' = FALSE
  /\ decision' = None
  /\ book' = None
  /\ session' = None
  /\ logged' = FALSE
  /\ approved' = FALSE
  /\ owed' = FALSE

NextBar ==
  /\ pc' = "bar"
  /\ bar' = bar + 1
  /\ decision' = None
  /\ logged' = FALSE
  /\ approved' = FALSE
  /\ owed' = FALSE
  /\ UNCHANGED <<armed, book, session>>

----------------------------------------------------------------------------
\* __init__: the session and the portfolio files, where they exist and can be
\* loaded, and a new portfolio, which is saved at once.  A file that load
\* rejects keeps the engine from starting.  The ledger's identity is the one
\* the portfolio was saved with: the ledger file stays.
BookLoads ==
  bookFile # None => bookFile.cash >= 0 /\ bookFile.position >= 0

LoadedBook ==
  IF bookFile # None THEN bookFile
  ELSE [cash |-> StartingCash, position |-> 0, applied |-> {}]

SessionLoads ==
  sessionFile # None =>
     /\ \A field \in DOMAIN sessionFile : sessionFile[field] >= 0
     /\ sessionFile.peak >= sessionFile.current

\* A defect: the session file is written but never read.
Start_NewSession ==
  /\ pc = "down"
  /\ BookLoads /\ SessionLoads
  /\ armed' \in Armings
  /\ book' = LoadedBook
  /\ bookFile' = book'
  /\ bar' = 2
  /\ pc' = "bar"
  /\ UNCHANGED <<setup, ledger, sessionFile, runRecord, promoted, decision,
                 session, logged, approved, owed, crashes>>

Start ==
  /\ pc = "down"
  /\ BookLoads /\ SessionLoads
  /\ armed' \in Armings
  /\ session' = sessionFile
  /\ book' = LoadedBook
  /\ bookFile' = book'
  /\ bar' = 2
  /\ pc' = "bar"
  /\ UNCHANGED <<setup, ledger, sessionFile, runRecord, promoted, decision,
                 logged, approved, owed, crashes>>

\* run(): the cycle boundary, where any KILL_SWITCH event stops the loop.
\* A defect: the command line records a halted run as completed.
Halt_Completes ==
  /\ pc = "bar"
  /\ bar \in Bars
  /\ \E e \in ledger : e.type = "KILL_SWITCH"
  /\ runRecord' = TRUE
  /\ Down
  /\ UNCHANGED <<setup, ledger, bookFile, sessionFile, promoted, crashes>>

Halt ==
  /\ pc = "bar"
  /\ bar \in Bars
  /\ \E e \in ledger : e.type = "KILL_SWITCH"
  /\ Down
  /\ UNCHANGED <<setup, disk, crashes>>

\* The run returns, and the command line records that it completed.
Finish ==
  /\ pc = "bar"
  /\ bar \notin Bars
  /\ runRecord' = TRUE
  /\ Down
  /\ UNCHANGED <<setup, ledger, bookFile, sessionFile, promoted, crashes>>

\* The decision: a recorded evaluation, a new one, or the strategy's own.
Choose ==
  \/ /\ \E e \in Evaluations(bar) : decision' = e.decision
     /\ pc' = "lookup"
  \/ /\ Evaluations(bar) = {} /\ jev
     /\ pc' = "evaluate"
     /\ UNCHANGED decision
  \/ /\ Evaluations(bar) = {} /\ ~jev
     /\ decision' = Proposal(bar)
     /\ pc' = "lookup"

\* A defect: the ledger is not asked for a KILL_SWITCH event.
Propose_IgnoresKill ==
  /\ pc = "bar"
  /\ bar \in Bars
  /\ Choose
  /\ UNCHANGED <<setup, disk, bar, armed, book, session, logged, approved, owed, crashes>>

Propose ==
  /\ pc = "bar"
  /\ bar \in Bars
  /\ \A e \in ledger : e.type # "KILL_SWITCH"
  /\ Choose
  /\ UNCHANGED <<setup, disk, bar, armed, book, session, logged, approved, owed, crashes>>

Evaluate ==
  /\ pc = "evaluate"
  /\ \E a \in JevActions : decision' = [bar |-> bar, jev |-> TRUE, action |-> a]
  /\ AppendEvent(Event("JEV_EVALUATION", decision'))
  /\ pc' = "lookup"
  /\ UNCHANGED <<setup, bookFile, sessionFile, runRecord, promoted, bar, armed,
                 book, session, logged, approved, owed, crashes>>

\* A defect: the check is made of the strategy's own decisions too.
Collision_OfAny(d) == EventsFor(d) # {} /\ ~Has("DECISION", d)

\* JEV_DECISION_ID_COLLISION: events of the decision, but no DECISION.
Collision(d) == d.jev /\ EventsFor(d) # {} /\ ~Has("DECISION", d)

\* A defect: a collision skips the bar.
Collide_Skips ==
  /\ pc = "lookup"
  /\ Collision(decision)
  /\ NextBar
  /\ UNCHANGED <<setup, disk, crashes>>

Collide ==
  /\ pc = "lookup"
  /\ Collision(decision)
  /\ Down
  /\ UNCHANGED <<setup, disk, crashes>>

Skip ==
  /\ pc = "lookup"
  /\ ~Collision(decision)
  /\ Decided(decision)
  /\ NextBar
  /\ UNCHANGED <<setup, disk, crashes>>

\* The session sees the bar's equity; a recorded risk outcome is taken over.
Lookup ==
  LET equity == Equity(book, price[bar])
  IN /\ pc = "lookup"
     /\ ~Collision(decision)
     /\ ~Decided(decision)
     /\ session' = IF session = None THEN NewSession(equity)
                   ELSE UpdateSession(session, equity)
     /\ logged' = Has("DECISION", decision)
     /\ IF Recorded(decision) = {}
        THEN pc' = "risk" /\ UNCHANGED approved
        ELSE /\ \E e \in Recorded(decision) : approved' = e.approved
             /\ pc' = IF logged' THEN "act" ELSE "decide"
     /\ UNCHANGED <<setup, disk, bar, armed, decision, book, owed, crashes>>

EvaluateRisk ==
  /\ pc = "risk"
  /\ approved' = Approves(book, session, Side(decision), Quantity,
                          price[bar], RiskLimits)
  /\ AppendEvent([Event("RISK_EVALUATION", decision) EXCEPT !.approved = approved'])
  /\ pc' = IF logged THEN "act" ELSE "decide"
  /\ UNCHANGED <<setup, bookFile, sessionFile, runRecord, promoted, bar, armed,
                 decision, book, session, logged, owed, crashes>>

AppendDecision ==
  /\ pc = "decide"
  /\ AppendEvent(Event("DECISION", decision))
  /\ pc' = "act"
  /\ UNCHANGED <<setup, bookFile, sessionFile, runRecord, promoted, bar, armed,
                 decision, book, session, logged, approved, owed, crashes>>

\* The fill was saved before the last crash: only its ORDER event is missing.
Backfill ==
  /\ pc = "act" /\ approved
  /\ decision \in book.applied
  /\ AppendEvent(Event("ORDER", decision))
  /\ pc' = "save_book"
  /\ UNCHANGED <<setup, bookFile, sessionFile, runRecord, promoted, bar, armed,
                 decision, book, session, logged, approved, owed, crashes>>

\* PaperExecution refuses under an armed kill switch; the engine records it.
Kill ==
  /\ pc = "act" /\ approved
  /\ decision \notin book.applied
  /\ Refuses(armed)
  /\ AppendEvent(Event("KILL_SWITCH", decision))
  /\ Down
  /\ UNCHANGED <<setup, bookFile, sessionFile, runRecord, promoted, crashes>>

\* A defect: the fill is not looked for among the applied ones.
Fill_Again ==
  LET after == Filled(book, Side(decision), Quantity, price[bar])
  IN /\ pc = "act" /\ approved
     /\ ~Refuses(armed)
     /\ IF after.cash >= 0 /\ after.position >= 0
        THEN /\ book' = [after EXCEPT !.applied = @ \cup {decision}]
             /\ session' = UpdateSession(session, Equity(after, price[bar]))
             /\ owed' = TRUE
             /\ pc' = "save_book"
             /\ UNCHANGED <<bar, armed, decision, logged, approved>>
        ELSE Down
     /\ UNCHANGED <<setup, disk, crashes>>

\* A defect: the ORDER event goes first, the files follow.
Fill_OrderFirst ==
  LET after == Filled(book, Side(decision), Quantity, price[bar])
  IN /\ pc = "act" /\ approved
     /\ decision \notin book.applied
     /\ ~Refuses(armed)
     /\ book' = [after EXCEPT !.applied = @ \cup {decision}]
     /\ session' = UpdateSession(session, Equity(after, price[bar]))
     /\ AppendEvent(Event("ORDER", decision))
     /\ pc' = "save_book"
     /\ UNCHANGED <<setup, bookFile, sessionFile, runRecord, promoted, bar,
                    armed, decision, logged, approved, owed, crashes>>

\* The fill, in memory.  PaperPortfolio raises on one it cannot carry.
Fill ==
  LET after == Filled(book, Side(decision), Quantity, price[bar])
  IN /\ pc = "act" /\ approved
     /\ decision \notin book.applied
     /\ ~Refuses(armed)
     /\ IF after.cash >= 0 /\ after.position >= 0
        THEN /\ book' = [after EXCEPT !.applied = @ \cup {decision}]
             /\ session' = UpdateSession(session, Equity(after, price[bar]))
             /\ owed' = TRUE
             /\ pc' = "save_book"
             /\ UNCHANGED <<bar, armed, decision, logged, approved>>
        ELSE Down
     /\ UNCHANGED <<setup, disk, crashes>>

Block ==
  /\ pc = "act" /\ ~approved
  /\ AppendEvent(Event("RISK_BLOCK", decision))
  /\ pc' = "save_book"
  /\ UNCHANGED <<setup, bookFile, sessionFile, runRecord, promoted, bar, armed,
                 decision, book, session, logged, approved, owed, crashes>>

\* _persist_state: two files, each replaced in one step.
SaveBook ==
  /\ pc = "save_book"
  /\ bookFile' = book
  /\ pc' = "save_session"
  /\ UNCHANGED <<setup, ledger, sessionFile, runRecord, promoted, bar, armed,
                 decision, book, session, logged, approved, owed, crashes>>

SaveSession ==
  /\ pc = "save_session"
  /\ sessionFile' = session
  /\ IF owed
     THEN pc' = "order" /\ UNCHANGED <<bar, armed, decision, book, session, logged, approved, owed>>
     ELSE NextBar
  /\ UNCHANGED <<setup, ledger, bookFile, runRecord, promoted, crashes>>

AppendOrder ==
  /\ pc = "order"
  /\ AppendEvent(Event("ORDER", decision))
  /\ NextBar
  /\ UNCHANGED <<setup, bookFile, sessionFile, runRecord, promoted, crashes>>

\* promote: another command, at any time, on the files as they stand.
Promote ==
  /\ \E env \in Environments, target \in Targets :
       /\ Eligible(Evidence(runRecord, Len(price) - 1, RiskLimits, env), target)
       /\ promoted' = promoted \cup {target}
  /\ UNCHANGED <<setup, ledger, bookFile, sessionFile, runRecord, memory, crashes>>

----------------------------------------------------------------------------
\* Memory is lost.  An evaluation also ends so when the JEV cannot be reached
\* or its answer does not fit the proposal.
Crash ==
  /\ pc \in CrashAt
  /\ crashes < MaxCrashes
  /\ crashes' = crashes + 1
  /\ Down
  /\ UNCHANGED <<setup, disk>>

Step ==
  \/ Halt \/ Finish \/ Propose \/ Evaluate \/ Collide \/ Skip \/ Lookup
  \/ EvaluateRisk \/ AppendDecision \/ Backfill \/ Kill \/ Fill \/ Block
  \/ SaveBook \/ SaveSession \/ AppendOrder

Next == Start \/ Step \/ Promote \/ Crash

Spec == Init /\ [][Next]_vars

\* The operating system runs the process and whoever uses the engine starts it
\* again.
FairSpec == Spec /\ WF_vars(Step) /\ WF_vars(Start)

=============================================================================
