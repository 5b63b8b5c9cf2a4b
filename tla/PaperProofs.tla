----------------------------- MODULE PaperProofs -----------------------------
(***************************************************************************)
(* Proofs about the paper trading engine, for all data files, strategies,  *)
(* limits and numbers of crashes.                                          *)
(*                                                                         *)
(* A restart knows no more than the files, so the inductive invariant IInv *)
(* says what the files owe each other between any two writes (Origin,      *)
(* Progress, Outcomes, SessionOrigin) and what the memory of a running     *)
(* engine adds to them (Memory, Remembered, Sessions).  It is proved part  *)
(* by part, each part with one step per action.                            *)
(***************************************************************************)
EXTENDS PaperProperties, SumProofs

-----------------------------------------------------------------------------
(* The inductive invariant *)

\* Labels of a bar in progress, and of those the ones after its decision.
Deciding == {"lookup", "risk", "decide", "act", "save_book", "save_session", "order"}
Working == Deciding \cup {"evaluate"}

\* What the memory has of the files, and where it is ahead of them: after a
\* fill until the portfolio is saved, and after a lookup until the session is.
Memory ==
  /\ pc # "down" => bookFile # None /\ book \in BookState /\ bar >= 2
  /\ pc \in Working => bar \in Bars /\ ~Killed
  /\ pc \in Deciding => decision \in Decision /\ decision.bar = bar
  /\ pc \in {"save_session", "order"} => book = bookFile
  /\ pc \notin {"down", "save_book"} => book = bookFile
  /\ pc \in {"bar", "evaluate", "lookup", "order"} => session = sessionFile
  /\ pc \in Deciding \ {"lookup"} => session # None
  /\ pc \notin {"save_book", "save_session", "order"} => ~owed
  /\ pc = "order" => owed
  /\ pc = "save_book" =>
       book = IF owed
              THEN [Filled(bookFile, Side(decision), Quantity, price[bar])
                      EXCEPT !.applied = @ \cup {decision}]
              ELSE bookFile
  /\ bookFile = None => ledger = {} /\ sessionFile = None

\* A bar has one decision, over any crash: the recorded evaluation, or the
\* proposal.  Nothing in the ledger is about another.
Made(d) == IF jev THEN Has("JEV_EVALUATION", d) ELSE d = Proposal(d.bar)

Origin ==
  /\ \A e \in ledger : Made(e.decision)
  /\ \A e, f \in ledger :
       e.type = "JEV_EVALUATION" /\ f.type = "JEV_EVALUATION"
         /\ e.decision.bar = f.decision.bar => e.decision = f.decision
  /\ ~jev => \A e \in ledger : e.type # "JEV_EVALUATION"
  /\ pc = "evaluate" => jev /\ Evaluations(bar) = {}
  /\ pc \in Deciding => Made(decision)

\* The ledger has settled a bar.
Done(b) == \E e \in ledger : e.type \in {"ORDER", "RISK_BLOCK"} /\ e.decision.bar = b

\* The bars are settled in order: nothing is recorded of a bar before all the
\* earlier ones are settled.
Progress ==
  /\ \A e \in ledger : \A b \in Bars : b < e.decision.bar => Done(b)
  /\ pc # "down" => \A b \in Bars : b < bar => Done(b)
  /\ pc \in {"risk", "decide", "act", "order"} => ~Done(bar)
  /\ pc \in {"save_book", "save_session"} => (Done(bar) <=> ~owed)

\* A decision has one risk record, and what is in the portfolio file or in the
\* ledger about it agrees with that record.
Outcomes ==
  /\ \A e, f \in ledger :
       e.type = "RISK_EVALUATION" /\ f.type = "RISK_EVALUATION"
         /\ e.decision = f.decision => e = f
  /\ \A e \in ledger :
       e.type = "RISK_EVALUATION" /\ e.approved => Side(e.decision) \in {"BUY", "SELL"}
  /\ \A d \in Applied : Has("DECISION", d) /\ \E e \in Recorded(d) : e.approved
  /\ \A d \in Refused : Has("DECISION", d) /\ \E e \in Recorded(d) : ~e.approved
  /\ Executed \subseteq Applied

\* What the engine remembers of its decision agrees with the record too.
Remembered ==
  /\ pc = "risk" => Recorded(decision) = {} /\ (logged => Has("DECISION", decision))
  /\ pc \in {"decide", "act"} => \E e \in Recorded(decision) : e.approved = approved
  /\ pc = "act" => Has("DECISION", decision)
  /\ pc = "save_book" /\ owed =>
       /\ decision \notin Applied
       /\ Has("DECISION", decision)
       /\ \E e \in Recorded(decision) : e.approved
  /\ pc \in {"save_session", "order"} /\ owed => decision \in Applied

\* A session's peak is its highest equity, and the one in memory continues the
\* saved one.
Sessions ==
  /\ sessionFile # None => sessionFile.peak >= sessionFile.current
  /\ session # None => session.peak >= session.current
  /\ pc # "down" /\ sessionFile # None =>
       /\ session # None
       /\ session.start = sessionFile.start
       /\ session.peak >= sessionFile.peak

\* Before the session is first saved, the portfolio is as it was opened, or
\* its only fill is at the bar in progress, at whose price it is valued; a
\* first crash is then the last one that the start of the session survives.
Untouched == bookFile.cash = StartingCash /\ bookFile.position = 0

FirstFill ==
  \E d \in Applied : ~Done(d.bar) /\ Equity(bookFile, price[d.bar]) = StartingCash

Unsaved ==
  \/ Untouched
  \/ FirstFill /\ (crashes = 1 \/ pc = "save_session")
  \/ crashes = 1 /\ pc \in {"save_book", "save_session"}

SessionOrigin ==
  crashes <= 1 =>
    /\ sessionFile # None => sessionFile.start = StartingCash
    /\ pc # "down" /\ session # None => session.start = StartingCash
    /\ sessionFile = None /\ bookFile # None => Unsaved

\* What a completed run and a promotion have behind them.
Completion ==
  /\ runRecord => \A b \in Bars : Done(b)
  /\ "PAPER" \in promoted => runRecord /\ Bars # {}
  /\ "LIVE" \notin promoted

\* The inductive invariant.
IInv ==
  /\ TypeOK /\ Memory /\ Origin /\ Progress
  /\ Outcomes /\ Remembered /\ ApprovalStillFits
  /\ Sessions /\ SessionOrigin /\ Completion

-----------------------------------------------------------------------------
(* Amounts *)

(* The product of two natural numbers is one: a value at a price. *)
LEMMA Product == ASSUME NEW m \in Nat, NEW n \in Nat PROVE m * n \in Nat
OBVIOUS

(* A portfolio is worth a natural number at any price. *)
LEMMA EquityTyped ==
  ASSUME NEW b \in BookState, NEW p \in Nat
  PROVE  Equity(b, p) \in Nat
<1>1. b.cash \in Nat /\ b.position \in Nat BY DEF BookState
<1>2. b.position * p \in Nat BY <1>1, Product
<1> QED BY <1>1, <1>2 DEF Equity

(* Every bar of the data has a price, and it is positive. *)
LEMMA PriceTyped ==
  ASSUME TypeOK
  PROVE  /\ Len(price) \in Nat
         /\ \A b \in 1..Len(price) : price[b] \in Nat \ {0}
         /\ Bars \subseteq Nat
         /\ \A b \in Bars : price[b] \in Nat \ {0}
BY PaperAssumption DEF TypeOK, Bars, PaperAssumption

(* A session opened or updated at an equity is a session. *)
LEMMA SessionTyped ==
  ASSUME NEW e \in Nat
  PROVE  /\ NewSession(e) \in SessionState
         /\ \A s \in SessionState : UpdateSession(s, e) \in SessionState
BY DEF NewSession, UpdateSession, SessionState

(* An update keeps the session's start and never lowers its peak. *)
LEMMA UpdateKeeps ==
  ASSUME NEW s \in SessionState, NEW e \in Int
  PROVE  /\ UpdateSession(s, e).start = s.start
         /\ UpdateSession(s, e).peak >= s.peak
         /\ UpdateSession(s, e).peak >= UpdateSession(s, e).current
BY DEF UpdateSession, SessionState

(* A fill adds its decision to the applied ones. *)
LEMMA FilledApplied ==
  ASSUME NEW b \in BookState, NEW side, NEW q, NEW p, NEW d
  PROVE  [Filled(b, side, q, p) EXCEPT !.applied = @ \cup {d}].applied
           = b.applied \cup {d}
BY DEF Filled, BookState

(* A fill that overdraws neither cash nor position leaves a portfolio. *)
LEMMA FilledTyped ==
  ASSUME NEW b \in BookState, NEW p \in Nat, NEW side, NEW q \in Nat,
         NEW d \in Decision,
         Filled(b, side, q, p).cash >= 0, Filled(b, side, q, p).position >= 0
  PROVE  /\ Filled(b, side, q, p) \in BookState
         /\ [Filled(b, side, q, p) EXCEPT !.applied = @ \cup {d}] \in BookState
<1>1. b.cash \in Nat /\ b.position \in Nat /\ b.applied \in SUBSET Decision
  BY DEF BookState
<1> DEFINE n == q * p
<1>2. n \in Nat BY Product
<1> HIDE DEF n
<1>3. CASE side = "SELL"
  <2>1. Filled(b, side, q, p)
          = [cash |-> b.cash + n, position |-> b.position - q, applied |-> b.applied]
    BY <1>3 DEF Filled, n, BookState
  <2> QED BY <2>1, <1>1, <1>2 DEF BookState
<1>4. CASE side # "SELL"
  <2>1. Filled(b, side, q, p)
          = [cash |-> b.cash - n, position |-> b.position + q, applied |-> b.applied]
    BY <1>4 DEF Filled, n, BookState
  <2> QED BY <2>1, <1>1, <1>2 DEF BookState
<1> QED BY <1>3, <1>4

(* A fill at a price does not change what the portfolio is worth at it. *)
LEMMA FillKeepsEquity ==
  ASSUME NEW b \in BookState, NEW p \in Nat, NEW q \in Nat, NEW side, NEW d,
         NEW f, f = [Filled(b, side, q, p) EXCEPT !.applied = @ \cup {d}]
  PROVE  Equity(f, p) = Equity(b, p)
<1> DEFINE n == q * p
           v == b.position * p
<1>1. n \in Nat /\ v \in Nat /\ b.cash \in Nat /\ b.position \in Nat
  BY Product DEF BookState
<1>2. /\ f.cash = IF side = "SELL" THEN b.cash + n ELSE b.cash - n
      /\ f.position = IF side = "SELL" THEN b.position - q ELSE b.position + q
  BY DEF Filled, BookState
<1>3. (b.position - q) * p = v - n /\ (b.position + q) * p = v + n BY <1>1
<1> HIDE DEF n, v
<1>4. f.position * p = IF side = "SELL" THEN v - n ELSE v + n BY <1>2, <1>3
<1>5. f.cash + f.position * p = b.cash + v BY <1>1, <1>2, <1>4
<1> QED BY <1>5 DEF Equity, v

-----------------------------------------------------------------------------
(* Types *)

Events == [type : EventTypes, decision : Decision, approved : BOOLEAN]

\* Appending an event of a type about the decision in progress.
Adds(type) ==
  \E e \in Events : e.type = type /\ e.decision = decision /\ AppendEvent(e)

\* What no step changes.
Fixed ==
  /\ UNCHANGED <<price, jev>>
  /\ Bars' = Bars /\ Decision' = Decision /\ BookState' = BookState

\* The types of the next state: of the files, and of the memory.
Files ==
  /\ ledger' \subseteq Events
  /\ bookFile' \in BookState \cup {None}
  /\ sessionFile' \in SessionState \cup {None}
  /\ runRecord' \in BOOLEAN
  /\ promoted' \subseteq Targets
  /\ crashes' \in 0..MaxCrashes

Labels == {"down", "bar"} \cup Working

Mind ==
  /\ pc' \in Labels
  /\ bar' \in Nat
  /\ armed' \in BOOLEAN
  /\ decision' \in Decision \cup {None}
  /\ book' \in BookState \cup {None}
  /\ session' \in SessionState \cup {None}
  /\ logged' \in BOOLEAN
  /\ approved' \in BOOLEAN
  /\ owed' \in BOOLEAN

(* The files and the memory are all there is to type. *)
LEMMA Typed == ASSUME TypeOK, Fixed, Files, Mind PROVE TypeOK'
BY DEF TypeOK, Fixed, Files, Mind, Labels, Working, Deciding, Events

(* No step changes the data file, so a bar stays a bar. *)
LEMMA SetupFixed == ASSUME [Next]_vars PROVE Fixed
<1>1. UNCHANGED <<price, jev>>
  BY DEF Next, Step, vars, setup, Start, Halt, Finish, Propose, Evaluate, Collide,
     Skip, Lookup, EvaluateRisk, AppendDecision, Backfill, Kill, Fill, Block, SaveBook,
     SaveSession, AppendOrder, Promote, Crash
<1> QED BY <1>1 DEF Fixed, Bars, Decision, BookState

(* The strategy's proposal for a bar is a decision about it. *)
LEMMA ProposalTyped ==
  ASSUME TypeOK, NEW b \in Bars
  PROVE  Proposal(b) \in Decision /\ Proposal(b).bar = b
BY DEF Proposal, Decision, Actions

(* A bar in progress has a price. *)
LEMMA BarTyped ==
  ASSUME TypeOK, Memory, pc \in Working
  PROVE  bar \in Bars /\ bar \in Nat /\ price[bar] \in Nat \ {0}
BY PriceTyped DEF Memory

(* The absent file is no portfolio and no session. *)
LEMMA NoneApart ==
  ASSUME TypeOK
  PROVE  None \notin BookState /\ None \notin SessionState
<1>1. Decision \subseteq [bar : Nat, action : {"ENTER", "EXIT", "HOLD"}, jev : BOOLEAN]
  BY PriceTyped DEF Decision, Actions
<1>2. BookState \subseteq [cash : Int, position : Int, applied : SUBSET
                   [bar : Nat, action : {"ENTER", "EXIT", "HOLD"}, jev : BOOLEAN]]
  BY <1>1 DEF BookState
<1>3. SessionState \subseteq [start : Int, peak : Int, current : Int]
  BY DEF SessionState
<1> QED BY <1>2, <1>3, PaperAssumption DEF PaperAssumption

(* The engine starts with a portfolio: the saved one or a new one. *)
LEMMA LoadedTyped == ASSUME TypeOK PROVE LoadedBook \in BookState
BY PaperAssumption DEF PaperAssumption, LoadedBook, BookState, TypeOK

(* A process that ends leaves a memory of the right kinds. *)
LEMMA DownTyped == ASSUME Down PROVE Mind
BY DEF Down, Mind, Labels

(* A process that goes to the next bar keeps a memory of the right kinds. *)
LEMMA NextBarTyped == ASSUME TypeOK, NextBar PROVE Mind
<1>1. bar' \in Nat /\ pc' \in Labels BY DEF TypeOK, NextBar, Labels
<1>2. UNCHANGED <<armed, book, session>> BY DEF NextBar
<1> QED BY <1>1, <1>2 DEF TypeOK, NextBar, Mind

(* An event of a known type about a decision is an event. *)
LEMMA EventTyped ==
  ASSUME NEW t \in EventTypes, NEW d \in Decision, NEW a \in BOOLEAN
  PROVE  /\ Event(t, d) \in Events
         /\ Event(t, d).type = t /\ Event(t, d).decision = d
         /\ [Event(t, d) EXCEPT !.approved = a] \in Events
         /\ [Event(t, d) EXCEPT !.approved = a].type = t
         /\ [Event(t, d) EXCEPT !.approved = a].decision = d
         /\ [Event(t, d) EXCEPT !.approved = a].approved = a
BY DEF Event, Events

(* A JEV's evaluation is an event about the bar in progress. *)
LEMMA EvaluationAdded ==
  ASSUME TypeOK, Memory, Evaluate
  PROVE  \E e \in Events :
            /\ e.type = "JEV_EVALUATION"
            /\ e.decision = decision' /\ e.decision.bar = bar
            /\ AppendEvent(e)
<1>1. decision' \in Decision /\ decision'.bar = bar
  BY BarTyped, PaperAssumption
     DEF Evaluate, Decision, Actions, PaperAssumption, Working
<1>2. "JEV_EVALUATION" \in EventTypes /\ FALSE \in BOOLEAN BY DEF EventTypes
<1>3. AppendEvent(Event("JEV_EVALUATION", decision')) BY DEF Evaluate
<1> QED BY <1>1, <1>2, <1>3, EventTyped

(* The other actions that write to the ledger append an event about the *)
(* decision in progress, each of its own type.                          *)
LEMMA EventAdded ==
  ASSUME TypeOK, Memory
  PROVE  /\ EvaluateRisk => Adds("RISK_EVALUATION")
         /\ AppendDecision => Adds("DECISION")
         /\ Backfill \/ AppendOrder => Adds("ORDER")
         /\ Kill => Adds("KILL_SWITCH")
         /\ Block => Adds("RISK_BLOCK")
<1>1. pc \in Deciding => decision \in Decision BY DEF Memory
<1>2. ASSUME NEW t \in EventTypes, pc \in Deciding, AppendEvent(Event(t, decision))
      PROVE  Adds(t)
  BY <1>1, <1>2, EventTyped DEF Adds
<1>3. ASSUME EvaluateRisk PROVE Adds("RISK_EVALUATION")
  <2> DEFINE new == [Event("RISK_EVALUATION", decision) EXCEPT !.approved = approved']
  <2>1. approved' \in BOOLEAN /\ decision \in Decision /\ AppendEvent(new)
    BY <1>1, <1>3 DEF EvaluateRisk, Approves, Deciding
  <2>2. new \in Events /\ new.type = "RISK_EVALUATION" /\ new.decision = decision
    BY <2>1, EventTyped DEF EventTypes
  <2> QED BY <2>1, <2>2 DEF Adds
<1> QED
  BY <1>2, <1>3
     DEF AppendDecision, Backfill, AppendOrder, Kill, Block, Deciding, EventTypes

(* An event appended is in the ledger, with all that was there before. *)
LEMMA Appended ==
  ASSUME NEW e, AppendEvent(e)
  PROVE  /\ ledger \subseteq ledger'
         /\ ledger' \subseteq ledger \cup {e}
         /\ Has(e.type, e.decision)'
         /\ Has(e.type, e.decision) => ledger' = ledger
BY DEF AppendEvent, Has

(* So the ledger stays a set of events. *)
LEMMA AddedTyped ==
  ASSUME TypeOK, NEW t, Adds(t)
  PROVE  ledger' \subseteq Events
BY Appended DEF Adds, TypeOK, Events

\* The fill that the engine is about to make.
After == Filled(book, Side(decision), Quantity, price[bar])

(* A lookup leaves a session. *)
LEMMA LookupTyped == ASSUME TypeOK, Memory, Lookup PROVE session' \in SessionState
<1>1. Equity(book, price[bar]) \in Nat
  BY BarTyped, EquityTyped DEF Lookup, Memory, Working, Deciding
<1> QED BY <1>1, SessionTyped DEF Lookup, TypeOK

(* A fill that goes through leaves a portfolio and a session. *)
LEMMA FillTyped ==
  ASSUME TypeOK, Memory, Fill, After.cash >= 0, After.position >= 0
  PROVE  /\ book' = [After EXCEPT !.applied = @ \cup {decision}]
         /\ session' = UpdateSession(session, Equity(After, price[bar]))
         /\ book' \in BookState
         /\ Equity(After, price[bar]) \in Nat
         /\ session' \in SessionState
<1>1. decision \in Decision /\ book \in BookState /\ pc = "act" /\ price[bar] \in Nat
  BY BarTyped DEF Fill, Memory, Deciding, Working
<1>2. Quantity \in Nat BY PaperAssumption DEF PaperAssumption
<1>3. /\ book' = [After EXCEPT !.applied = @ \cup {decision}]
      /\ session' = UpdateSession(session, Equity(After, price[bar]))
  BY DEF Fill, After
<1>4. After \in BookState /\ book' \in BookState
  BY <1>1, <1>2, <1>3, FilledTyped DEF After
<1>5. Equity(After, price[bar]) \in Nat BY <1>4, <1>1, EquityTyped
<1>6. session \in SessionState BY <1>1 DEF Memory, TypeOK, Deciding
<1> QED BY <1>3, <1>4, <1>5, <1>6, SessionTyped

(* Every step keeps the types; a fill that would overdraw ends the process. *)
LEMMA TypingStep == ASSUME TypeOK, Memory, [Next]_vars PROVE TypeOK'
<1>1. Fixed BY SetupFixed
<1> USE <1>1, Typed, EventAdded, AddedTyped
    DEF Files, Mind, Labels, Working, Deciding, Events, disk
<1>2. CASE Start
  BY <1>2, PaperAssumption, LoadedTyped DEF Start, TypeOK, PaperAssumption
<1>3. CASE Halt BY <1>3, DownTyped DEF Halt, TypeOK
<1>4. CASE Finish BY <1>4, DownTyped DEF Finish, TypeOK
<1>5. CASE Propose
  <2>1. \A e \in Evaluations(bar) : e.decision \in Decision
    BY DEF Evaluations, TypeOK
  <2>2. bar \in Bars /\ Proposal(bar) \in Decision BY <1>5, ProposalTyped DEF Propose
  <2> QED BY <1>5, <2>1, <2>2 DEF Propose, Choose, TypeOK
<1>6. CASE Evaluate
  <2>1. decision' \in Decision /\ ledger' \subseteq Events
    BY <1>6, EvaluationAdded, Appended DEF TypeOK
  <2> QED BY <1>6, <2>1 DEF Evaluate, TypeOK
<1>7. CASE Collide BY <1>7, DownTyped DEF Collide, TypeOK
<1>8. CASE Skip BY <1>8, NextBarTyped DEF Skip, TypeOK
<1>9. CASE Lookup
  <2>1. session' \in SessionState BY <1>9, LookupTyped
  <2>2. logged' \in BOOLEAN BY <1>9 DEF Lookup, Has
  <2>3. approved' \in BOOLEAN /\ pc' \in Labels BY <1>9 DEF Lookup, Recorded, TypeOK
  <2> QED BY <1>9, <2>1, <2>2, <2>3 DEF Lookup, TypeOK
<1>10. CASE EvaluateRisk
  <2>1. approved' \in BOOLEAN BY <1>10 DEF EvaluateRisk, Approves
  <2> QED BY <1>10, <2>1 DEF EvaluateRisk, TypeOK
<1>11. CASE AppendDecision BY <1>11 DEF AppendDecision, TypeOK
<1>12. CASE Backfill BY <1>12 DEF Backfill, TypeOK
<1>13. CASE Kill BY <1>13, DownTyped DEF Kill, TypeOK
<1>14. CASE Fill
  <2>1. CASE After.cash >= 0 /\ After.position >= 0
    <3>1. book' \in BookState /\ session' \in SessionState BY <1>14, <2>1, FillTyped
    <3> QED BY <1>14, <2>1, <3>1 DEF Fill, After, TypeOK
  <2>2. CASE ~(After.cash >= 0 /\ After.position >= 0)
    BY <1>14, <2>2, DownTyped DEF Fill, After, TypeOK
  <2> QED BY <2>1, <2>2
<1>15. CASE Block BY <1>15 DEF Block, TypeOK
<1>16. CASE SaveBook BY <1>16 DEF SaveBook, TypeOK
<1>17. CASE SaveSession BY <1>17, NextBarTyped DEF SaveSession, TypeOK
<1>18. CASE AppendOrder BY <1>18, NextBarTyped DEF AppendOrder, TypeOK
<1>19. CASE Promote BY <1>19 DEF Promote, TypeOK, memory
<1>20. CASE Crash
  <2>1. crashes' \in 0..MaxCrashes BY <1>20, PaperAssumption DEF Crash, TypeOK
  <2> QED BY <1>20, <2>1, DownTyped DEF Crash, TypeOK
<1>21. CASE UNCHANGED vars BY <1>21 DEF vars, TypeOK
<1> QED
  BY <1>2, <1>3, <1>4, <1>5, <1>6, <1>7, <1>8, <1>9, <1>10, <1>11, <1>12, <1>13,
     <1>14, <1>15, <1>16, <1>17, <1>18, <1>19, <1>20, <1>21 DEF Next, Step

-----------------------------------------------------------------------------
(* Memory *)

(* Every step keeps Memory: a fill is in memory first, then in the portfolio *)
(* file, then in the session file, and last in the ledger.                   *)
LEMMA MemoryStep == ASSUME TypeOK, TypeOK', Memory, [Next]_vars PROVE Memory'
<1> USE DEF Memory, Fixed, Killed, Working, Deciding, disk, Down, NextBar, TypeOK,
        Event, AppendEvent
<1>1. Fixed BY SetupFixed
<1>2. CASE Start
  <2>1. book' \in BookState /\ bookFile' = book' BY <1>2, LoadedTyped DEF Start
  <2>2. bookFile' # None BY <2>1, NoneApart
  <2>3. /\ pc' = "bar" /\ bar' = 2
        /\ session' = sessionFile /\ UNCHANGED <<sessionFile, ledger, owed>>
    BY <1>2 DEF Start
  <2>4. ~owed BY <1>2 DEF Start, Memory
  <2> QED BY <2>1, <2>2, <2>3, <2>4, <1>1 DEF Memory, Fixed, Working, Deciding
<1>3. CASE Halt BY <1>1, <1>3 DEF Halt
<1>4. CASE Finish BY <1>1, <1>4 DEF Finish
<1>5. CASE Propose BY <1>1, <1>5, ProposalTyped DEF Propose, Choose, Evaluations
<1>6. CASE Evaluate
  <2>1. bar \in Bars /\ ~Killed BY <1>6 DEF Evaluate, Memory, Working
  <2>2. decision' \in Decision /\ decision'.bar = bar
    BY <2>1, <1>6, PaperAssumption DEF Evaluate, PaperAssumption, Decision, Actions
  <2>3. ~Killed' BY <2>1, <1>6 DEF Evaluate, AppendEvent, Killed, Event
  <2>4. /\ book' = bookFile' /\ session' = sessionFile' /\ book' \in BookState
        /\ bookFile' # None /\ bar' = bar /\ bar >= 2 /\ pc' = "lookup" /\ ~owed'
    BY <1>6 DEF Evaluate, Memory
  <2> QED BY <2>1, <2>2, <2>3, <2>4, <1>1 DEF Memory, Fixed, Deciding, Working
<1>7. CASE Collide BY <1>1, <1>7 DEF Collide
<1>8. CASE Skip BY <1>1, <1>8 DEF Skip
<1>9. CASE Lookup
  <2>1. session' # None
    BY <1>9, NoneApart, LookupTyped
  <2>2. /\ pc' \in {"risk", "act", "decide"} /\ pc = "lookup"
        /\ UNCHANGED <<setup, disk, bar, decision, book, owed>>
    BY <1>9 DEF Lookup
  <2>3. ~Killed' = ~Killed BY <2>2 DEF disk, Killed
  <2> QED BY <2>1, <2>2, <2>3, <1>1 DEF Memory, Fixed, Deciding, Working, disk
<1>10. CASE EvaluateRisk BY <1>1, <1>10 DEF EvaluateRisk
<1>11. CASE AppendDecision BY <1>1, <1>11 DEF AppendDecision
<1>12. CASE Backfill BY <1>1, <1>12 DEF Backfill
<1>13. CASE Kill BY <1>1, <1>13 DEF Kill
<1>14. CASE Fill
  <2>1. CASE After.cash >= 0 /\ After.position >= 0
    <3>1. /\ pc' = "save_book" /\ pc = "act"
          /\ UNCHANGED <<setup, disk, bar, decision>>
          /\ owed'
          /\ book' = [After EXCEPT !.applied = @ \cup {decision}]
      BY <1>14, <2>1 DEF Fill, After
    <3>2. session' \in SessionState /\ book' \in BookState BY <1>14, <2>1, FillTyped
    <3>3. session' # None BY <3>2, NoneApart
    <3>4. /\ book = bookFile /\ bar \in Bars /\ bar >= 2 /\ ~Killed
          /\ decision \in Decision /\ decision.bar = bar /\ bookFile # None
      BY <3>1 DEF Memory, Working, Deciding
    <3>5. ~Killed' BY <3>1, <3>4 DEF Killed, disk
    <3>6. price' = price BY <1>1 DEF Fixed
    <3>7. book' = [Filled(bookFile, Side(decision), Quantity, price[bar])
                     EXCEPT !.applied = @ \cup {decision}]
      BY <3>1, <3>4 DEF After
    <3> QED
      BY <3>1, <3>2, <3>3, <3>4, <3>5, <3>6, <3>7, <1>1
         DEF Memory, Fixed, Deciding, Working, disk
  <2>2. CASE ~(After.cash >= 0 /\ After.position >= 0)
    BY <1>14, <1>1, <2>2 DEF Fill, After, Memory, Fixed, Working, Deciding, Down, disk
  <2> QED BY <2>1, <2>2
<1>15. CASE Block BY <1>1, <1>15 DEF Block
<1>16. CASE SaveBook BY <1>1, <1>16, NoneApart DEF SaveBook
<1>17. CASE SaveSession BY <1>1, <1>17 DEF SaveSession
<1>18. CASE AppendOrder BY <1>1, <1>18 DEF AppendOrder
<1>19. CASE Promote BY <1>1, <1>19 DEF Promote, memory
<1>20. CASE Crash BY <1>1, <1>20 DEF Crash
<1>21. CASE UNCHANGED vars BY <1>21, <1>1 DEF vars
<1> QED
  BY <1>2, <1>3, <1>4, <1>5, <1>6, <1>7, <1>8, <1>9, <1>10, <1>11, <1>12, <1>13,
     <1>14, <1>15, <1>16, <1>17, <1>18, <1>19, <1>20, <1>21
     DEF Next, Step

-----------------------------------------------------------------------------
(* Decisions *)

(* Two decisions that were made about one bar are one decision. *)
LEMMA MadeOnce ==
  ASSUME Origin, NEW d, NEW e, Made(d), Made(e), d.bar = e.bar PROVE d = e
BY DEF Origin, Made, Has

(* An event about a decision that was made keeps what Origin says of the *)
(* ledger.                                                               *)
LEMMA OriginGrows ==
  ASSUME TypeOK, Origin, Fixed,
         NEW e, AppendEvent(e), e.type # "JEV_EVALUATION", Made(e.decision)
  PROVE  /\ \A f \in ledger' : Made(f.decision)'
         /\ \A f, g \in ledger' :
              f.type = "JEV_EVALUATION" /\ g.type = "JEV_EVALUATION"
                /\ f.decision.bar = g.decision.bar => f.decision = g.decision
         /\ ~jev => \A f \in ledger' : f.type # "JEV_EVALUATION"
         /\ Made(e.decision)'
<1>1. ledger \subseteq ledger' /\ ledger' \subseteq ledger \cup {e} BY Appended
<1>2. ASSUME NEW d, Made(d) PROVE Made(d)'
  BY <1>1, <1>2 DEF Made, Has, Fixed, Proposal, Return
<1> QED BY <1>1, <1>2 DEF Origin

(* So does an event about the decision in progress, and the memory goes on *)
(* with that decision, with the next bar or not at all.                    *)
LEMMA OriginAdded ==
  ASSUME TypeOK, Origin, Fixed, pc \in Deciding,
         NEW t, t # "JEV_EVALUATION", Adds(t),
         pc' \in Deciding \cup {"down", "bar"},
         pc' \in Deciding => decision' = decision
  PROVE  Origin'
<1>1. PICK e : e.type = t /\ e.decision = decision /\ AppendEvent(e) BY DEF Adds
<1>2. Made(e.decision) BY <1>1 DEF Origin
<1> QED BY <1>1, <1>2, OriginGrows DEF Origin, Fixed, Deciding

(* Every step keeps Origin: the JEV is asked about a bar once, and a *)
(* restart takes its recorded answer.                                *)
LEMMA OriginStep == ASSUME TypeOK, Memory, Origin, [Next]_vars PROVE Origin'
<1>1. Fixed BY SetupFixed
<1>2. CASE AppendDecision
  BY <1>1, <1>2, EventAdded, OriginAdded DEF AppendDecision, Deciding, Down, NextBar
<1>3. CASE Backfill
  BY <1>1, <1>3, EventAdded, OriginAdded DEF Backfill, Deciding, Down, NextBar
<1>4. CASE Kill
  BY <1>1, <1>4, EventAdded, OriginAdded DEF Kill, Deciding, Down, NextBar
<1>5. CASE Block
  BY <1>1, <1>5, EventAdded, OriginAdded DEF Block, Deciding, Down, NextBar
<1>6. CASE AppendOrder
  BY <1>1, <1>6, EventAdded, OriginAdded DEF AppendOrder, Deciding, Down, NextBar
<1>7. CASE EvaluateRisk
  BY <1>1, <1>7, EventAdded, OriginAdded DEF EvaluateRisk, Deciding, Down, NextBar
<1> USE DEF Origin, Made, Has, Fixed, Proposal, Return, Evaluations, Working, Deciding,
        disk, Down, NextBar, TypeOK
<1>8. CASE Start BY <1>1, <1>8 DEF Start
<1>9. CASE Halt BY <1>1, <1>9 DEF Halt
<1>10. CASE Finish BY <1>1, <1>10 DEF Finish
<1>11. CASE Propose BY <1>1, <1>11, ProposalTyped DEF Propose, Choose
<1>12. CASE Evaluate
  <2> DEFINE new == Event("JEV_EVALUATION", decision')
  <2>1. jev /\ jev' /\ Evaluations(bar) = {} /\ pc' = "lookup" /\ AppendEvent(new)
    BY <1>12, <1>1 DEF Evaluate, Origin, Fixed
  <2>2. decision'.bar = bar BY <1>12 DEF Evaluate
  <2>3. new.type = "JEV_EVALUATION" /\ new.decision = decision' BY DEF Event
  <2> HIDE DEF new
  <2>4. ledger \subseteq ledger' /\ ledger' \subseteq ledger \cup {new}
    BY <2>1, Appended
  <2>5. \E e \in ledger' : e.type = "JEV_EVALUATION" /\ e.decision = decision'
    BY <2>1, <2>3 DEF AppendEvent, Has
  <2>6. \A e \in ledger' : Made(e.decision)'
    BY <2>1, <2>3, <2>4, <2>5 DEF Origin, Made, Has
  <2>7. Made(decision)' BY <2>1, <2>5 DEF Made, Has
  <2>8. ASSUME NEW e \in ledger', NEW f \in ledger', e.type = "JEV_EVALUATION",
               f.type = "JEV_EVALUATION", e.decision.bar = f.decision.bar
        PROVE  e.decision = f.decision
    <3>1. \A g \in ledger : g.type = "JEV_EVALUATION" => g.decision.bar # bar
      BY <2>1 DEF Evaluations
    <3> QED BY <3>1, <2>2, <2>3, <2>4, <2>8 DEF Origin
  <2> QED BY <2>1, <2>6, <2>7, <2>8 DEF Origin
<1>13. CASE Collide BY <1>1, <1>13 DEF Collide
<1>14. CASE Skip BY <1>1, <1>14 DEF Skip
<1>15. CASE Lookup BY <1>1, <1>15 DEF Lookup
<1>16. CASE Fill BY <1>1, <1>16 DEF Fill
<1>17. CASE SaveBook BY <1>1, <1>17 DEF SaveBook
<1>18. CASE SaveSession BY <1>1, <1>18 DEF SaveSession
<1>19. CASE Promote BY <1>1, <1>19 DEF Promote, memory
<1>20. CASE Crash BY <1>1, <1>20 DEF Crash
<1>21. CASE UNCHANGED vars BY <1>21, <1>1 DEF vars
<1> QED
  BY <1>2, <1>3, <1>4, <1>5, <1>6, <1>7, <1>8, <1>9, <1>10, <1>11, <1>12, <1>13,
     <1>14, <1>15, <1>16, <1>17, <1>18, <1>19, <1>20, <1>21
     DEF Next, Step

-----------------------------------------------------------------------------
(* Settled bars *)

(* An event about the bar in progress settles it or leaves Done alone. *)
LEMMA DoneGrows ==
  ASSUME TypeOK, Memory, Progress, Fixed, pc \in Working,
         NEW e, AppendEvent(e), e.decision.bar = bar
  PROVE  /\ \A b \in Bars : Done(b) => Done(b)'
         /\ \A f \in ledger' : \A b \in Bars : b < f.decision.bar => Done(b)'
         /\ \A b \in Bars : b < bar => Done(b)'
         /\ IF e.type \in {"ORDER", "RISK_BLOCK"}
            THEN \E f \in ledger' :
                   f.type \in {"ORDER", "RISK_BLOCK"} /\ f.decision.bar = bar
            ELSE \A b \in Bars : Done(b)' => Done(b)
<1>1. ledger \subseteq ledger' /\ ledger' \subseteq ledger \cup {e} BY Appended
<1>2. \A b \in Bars : Done(b) => Done(b)' BY <1>1 DEF Done
<1>3. \A f \in ledger' : \A b \in Bars : b < f.decision.bar => Done(b)'
  BY <1>1, <1>2 DEF Progress, Working, Memory, Deciding
<1>4. \A b \in Bars : b < bar => Done(b)' BY <1>2 DEF Progress, Working, Deciding
<1>5. CASE e.type \in {"ORDER", "RISK_BLOCK"}
  BY <1>2, <1>3, <1>4, <1>5 DEF AppendEvent, Has
<1>6. CASE e.type \notin {"ORDER", "RISK_BLOCK"}
  BY <1>1, <1>2, <1>3, <1>4, <1>6 DEF Done
<1> QED BY <1>5, <1>6

(* The same for an event about the decision in progress. *)
LEMMA DoneAdded ==
  ASSUME TypeOK, Memory, Progress, Fixed, pc \in Deciding, NEW t, Adds(t)
  PROVE  /\ \A b \in Bars : Done(b) => Done(b)'
         /\ \A f \in ledger' : \A b \in Bars : b < f.decision.bar => Done(b)'
         /\ \A b \in Bars : b < bar => Done(b)'
         /\ IF t \in {"ORDER", "RISK_BLOCK"}
            THEN \E f \in ledger' :
                   f.type \in {"ORDER", "RISK_BLOCK"} /\ f.decision.bar = bar
            ELSE \A b \in Bars : Done(b)' => Done(b)
<1>1. PICK e : e.type = t /\ e.decision = decision /\ AppendEvent(e) BY DEF Adds
<1>2. pc \in Working /\ e.decision.bar = bar BY <1>1 DEF Memory, Working
<1> QED BY <1>1, <1>2, DoneGrows

(* A settled bar was settled for its one decision. *)
LEMMA DoneIsDecided ==
  ASSUME Memory, Origin, pc \in Deciding
  PROVE  Done(bar) <=> Decided(decision)
<1>1. Made(decision) /\ decision.bar = bar BY DEF Memory, Origin
<1>2. \A e \in ledger : e.decision.bar = bar => e.decision = decision
  BY <1>1, MadeOnce DEF Origin
<1> QED BY <1>1, <1>2 DEF Done, Decided, Has

(* Nothing is settled without an event. *)
LEMMA DoneKept ==
  ASSUME UNCHANGED ledger, NEW b PROVE Done(b)' <=> Done(b)
BY DEF Done

(* Every step keeps Progress: the engine skips a bar only when the ledger *)
(* has settled it, and leaves it only then.                               *)
LEMMA ProgressStep ==
  ASSUME TypeOK, Memory, Origin, Progress, [Next]_vars
  PROVE  Progress'
<1> USE DEF Progress, Fixed, Working, Deciding, disk, Down, NextBar
<1>1. Fixed BY SetupFixed
<1>2. CASE Start BY <1>1, <1>2, DoneKept, PriceTyped DEF Start, Bars
<1>3. CASE Halt BY <1>1, <1>3, DoneKept DEF Halt
<1>4. CASE Finish BY <1>1, <1>4, DoneKept DEF Finish
<1>5. CASE Propose BY <1>1, <1>5, DoneKept DEF Propose, Choose
<1>6. CASE Evaluate
  <2>1. PICK e : AppendEvent(e) /\ e.type = "JEV_EVALUATION" /\ e.decision.bar = bar
    BY <1>6, EvaluationAdded
  <2> QED BY <1>1, <1>6, <2>1, DoneGrows DEF Evaluate
<1>7. CASE Collide BY <1>1, <1>7, DoneKept DEF Collide
<1>8. CASE Skip
  BY <1>1, <1>8, DoneKept, DoneIsDecided, BarTyped, PriceTyped DEF Skip, Memory
<1>9. CASE Lookup BY <1>1, <1>9, DoneKept, DoneIsDecided DEF Lookup
<1>10. CASE EvaluateRisk
  BY <1>1, <1>10, EventAdded, DoneAdded, BarTyped DEF EvaluateRisk
<1>11. CASE AppendDecision
  BY <1>1, <1>11, EventAdded, DoneAdded, BarTyped DEF AppendDecision
<1>12. CASE Backfill
  <2>1. Done(bar)' BY <1>1, <1>12, EventAdded, DoneAdded DEF Backfill, Done
  <2>2. bar' = bar BY <1>12 DEF Backfill
  <2> QED BY <1>1, <1>12, <2>1, <2>2, EventAdded, DoneAdded DEF Backfill, Memory
<1>13. CASE Kill
  BY <1>1, <1>13, EventAdded, DoneAdded DEF Kill
<1>14. CASE Fill BY <1>1, <1>14, DoneKept DEF Fill
<1>15. CASE Block
  <2>1. Done(bar)' BY <1>1, <1>15, EventAdded, DoneAdded DEF Block, Done
  <2>2. bar' = bar BY <1>15 DEF Block
  <2> QED BY <1>1, <1>15, <2>1, <2>2, EventAdded, DoneAdded DEF Block, Memory
<1>16. CASE SaveBook BY <1>1, <1>16, DoneKept DEF SaveBook
<1>17. CASE SaveSession
  BY <1>1, <1>17, DoneKept, BarTyped, PriceTyped DEF SaveSession, Memory
<1>18. CASE AppendOrder
  <2>1. \E f \in ledger' : f.type \in {"ORDER", "RISK_BLOCK"} /\ f.decision.bar = bar
    BY <1>1, <1>18, EventAdded, DoneAdded DEF AppendOrder
  <2>2. PICK c \in Bars : c = bar BY <1>18, BarTyped DEF AppendOrder
  <2>3. Done(c)' BY <2>1, <2>2 DEF Done
  <2>4. \A b \in Bars : b < bar' => b < bar \/ b = c
    BY <2>2, <1>18, PriceTyped DEF AppendOrder
  <2> QED BY <1>1, <1>18, <2>3, <2>4, EventAdded, DoneAdded DEF AppendOrder
<1>19. CASE Promote BY <1>1, <1>19, DoneKept DEF Promote, memory
<1>20. CASE Crash BY <1>1, <1>20, DoneKept DEF Crash
<1>21. CASE UNCHANGED vars BY <1>21, <1>1, DoneKept DEF vars
<1> QED
  BY <1>2, <1>3, <1>4, <1>5, <1>6, <1>7, <1>8, <1>9, <1>10, <1>11, <1>12, <1>13,
     <1>14, <1>15, <1>16, <1>17, <1>18, <1>19, <1>20, <1>21
     DEF Next, Step

-----------------------------------------------------------------------------
(* Risk records, fills and refusals *)

(* The portfolio file after it was saved. *)
LEMMA SavedApplied ==
  ASSUME TypeOK, Memory, SaveBook
  PROVE  Applied' = IF owed THEN Applied \cup {decision} ELSE Applied
<1>1. pc = "save_book" /\ bookFile' = book /\ book # None /\ bookFile # None
  BY NoneApart DEF SaveBook, Memory
<1>2. bookFile \in BookState BY <1>1 DEF TypeOK
<1>3. CASE owed
  <2>1. bookFile' = [Filled(bookFile, Side(decision), Quantity, price[bar])
                       EXCEPT !.applied = @ \cup {decision}]
    BY <1>1, <1>3 DEF Memory
  <2>2. bookFile'.applied = bookFile.applied \cup {decision}
    BY <1>2, <2>1, FilledApplied
  <2> QED BY <1>1, <1>3, <2>2 DEF Applied
<1>4. CASE ~owed BY <1>1, <1>4 DEF Memory, Applied
<1> QED BY <1>3, <1>4

(* An event keeps Outcomes if it brings with it what it says of a decision: *)
(* a risk record is the first, an order has its fill in the portfolio file, *)
(* a refusal its recorded disapproval.                                      *)
LEMMA OutcomesAppended ==
  ASSUME Outcomes, Applied' = Applied, NEW e, AppendEvent(e),
         e.type = "RISK_EVALUATION" =>
            /\ Recorded(e.decision) = {}
            /\ e.approved => Side(e.decision) \in {"BUY", "SELL"},
         e.type = "ORDER" => e.decision \in Applied,
         e.type = "RISK_BLOCK" =>
            Has("DECISION", e.decision) /\ \E f \in Recorded(e.decision) : ~f.approved
  PROVE  Outcomes'
<1>1. ledger \subseteq ledger' /\ ledger' \subseteq ledger \cup {e} BY Appended
<1>2. \A f, g \in ledger' :
       f.type = "RISK_EVALUATION" /\ g.type = "RISK_EVALUATION"
         /\ f.decision = g.decision => f = g
  BY <1>1 DEF Outcomes, Recorded
<1>3. \A f \in ledger' : f.type = "RISK_EVALUATION" /\ f.approved =>
       Side(f.decision) \in {"BUY", "SELL"}
  BY <1>1 DEF Outcomes
<1>4. \A d \in Applied' : Has("DECISION", d)' /\ \E f \in Recorded(d)' : f.approved
  BY <1>1 DEF Outcomes, Has, Recorded
<1>5. \A d \in Refused' : Has("DECISION", d)' /\ \E f \in Recorded(d)' : ~f.approved
  <2> SUFFICES ASSUME NEW g \in ledger', g.type = "RISK_BLOCK"
               PROVE  /\ Has("DECISION", g.decision)'
                      /\ \E f \in Recorded(g.decision)' : ~f.approved
    BY DEF Refused
  <2>1. Has("DECISION", g.decision) /\ \E f \in Recorded(g.decision) : ~f.approved
    BY <1>1 DEF Outcomes, Refused
  <2> QED BY <1>1, <2>1 DEF Has, Recorded
<1>6. Executed' \subseteq Applied' BY <1>1 DEF Outcomes, Executed
<1> QED BY <1>2, <1>3, <1>4, <1>5, <1>6 DEF Outcomes

(* The same for an event about the decision in progress. *)
LEMMA OutcomesGrow ==
  ASSUME Outcomes, Applied' = Applied, NEW t, t # "RISK_EVALUATION", Adds(t),
         t = "ORDER" => decision \in Applied,
         t = "RISK_BLOCK" =>
            Has("DECISION", decision) /\ \E f \in Recorded(decision) : ~f.approved
  PROVE  Outcomes'
<1>1. PICK e : e.type = t /\ e.decision = decision /\ AppendEvent(e) BY DEF Adds
<1> QED BY <1>1, OutcomesAppended

(* The portfolio may gain what is recorded as approved. *)
LEMMA OutcomesFilled ==
  ASSUME Outcomes, UNCHANGED ledger, NEW d, Applied' = Applied \cup {d},
         Has("DECISION", d), \E e \in Recorded(d) : e.approved
  PROVE  Outcomes'
BY DEF Outcomes, Has, Recorded, Refused, Executed

(* What leaves ledger and applied decisions alone keeps Outcomes. *)
LEMMA OutcomesKept ==
  ASSUME Outcomes, UNCHANGED ledger, Applied' = Applied
  PROVE  Outcomes'
BY DEF Outcomes, Has, Recorded, Refused, Executed

(* Every step keeps Outcomes: risk is evaluated only where no record is, *)
(* and an ORDER event follows its saved fill.                            *)
LEMMA OutcomesStep ==
  ASSUME TypeOK, Memory, Outcomes, Remembered, [Next]_vars
  PROVE  Outcomes'
<1>1. Fixed BY SetupFixed
<1>2. CASE Start
  <2>1. Applied' = Applied
    BY <1>2, LoadedTyped, NoneApart, PaperAssumption DEF Start, LoadedBook, Applied
  <2> QED BY <1>2, <2>1, OutcomesKept DEF Start
<1>3. CASE Halt BY <1>3, OutcomesKept DEF Halt, Applied, disk
<1>4. CASE Finish BY <1>4, OutcomesKept DEF Finish, Applied, disk
<1>5. CASE Propose BY <1>5, OutcomesKept DEF Propose, Applied, disk
<1>6. CASE Evaluate
  <2>1. PICK e : AppendEvent(e) /\ e.type = "JEV_EVALUATION" BY <1>6, EvaluationAdded
  <2> QED BY <1>6, <2>1, OutcomesAppended DEF Evaluate, Applied
<1>7. CASE Collide BY <1>7, OutcomesKept DEF Collide, Applied, disk
<1>8. CASE Skip BY <1>8, OutcomesKept DEF Skip, Applied, disk
<1>9. CASE Lookup BY <1>9, OutcomesKept DEF Lookup, Applied, disk
<1>10. CASE EvaluateRisk
  <2> DEFINE new == [Event("RISK_EVALUATION", decision) EXCEPT !.approved = approved']
  <2>1. AppendEvent(new) /\ new.type = "RISK_EVALUATION" /\ new.decision = decision
    BY <1>10 DEF EvaluateRisk, Event
  <2>2. Applied' = Applied BY <1>10 DEF EvaluateRisk, Applied
  <2>3. Recorded(decision) = {} /\ (new.approved => Side(decision) \in {"BUY", "SELL"})
    BY <1>10 DEF EvaluateRisk, Remembered, Event, Approves
  <2> HIDE DEF new
  <2> QED BY <2>1, <2>2, <2>3, OutcomesAppended
<1>11. CASE AppendDecision
  BY <1>11, EventAdded, OutcomesGrow DEF AppendDecision, Applied
<1>12. CASE Backfill
  <2>1. decision \in Applied BY <1>12 DEF Backfill, Memory, Applied
  <2> QED BY <1>12, <2>1, EventAdded, OutcomesGrow DEF Backfill, Applied
<1>13. CASE Kill BY <1>13, EventAdded, OutcomesGrow DEF Kill, Applied
<1>14. CASE Fill BY <1>14, OutcomesKept DEF Fill, Applied, disk
<1>15. CASE Block
  <2>1. Has("DECISION", decision) /\ \E f \in Recorded(decision) : ~f.approved
    BY <1>15 DEF Block, Remembered
  <2> QED BY <1>15, <2>1, EventAdded, OutcomesGrow DEF Block, Applied
<1>16. CASE SaveBook
  <2>1. UNCHANGED ledger /\ pc = "save_book" BY <1>16 DEF SaveBook
  <2>2. CASE owed BY <1>16, <2>1, <2>2, SavedApplied, OutcomesFilled DEF Remembered
  <2>3. CASE ~owed BY <1>16, <2>1, <2>3, SavedApplied, OutcomesKept
  <2> QED BY <2>2, <2>3
<1>17. CASE SaveSession
  BY <1>17, OutcomesKept DEF SaveSession, Applied, disk
<1>18. CASE AppendOrder
  <2>1. decision \in Applied BY <1>18 DEF AppendOrder, Memory, Remembered
  <2> QED BY <1>18, <2>1, EventAdded, OutcomesGrow DEF AppendOrder, Applied
<1>19. CASE Promote BY <1>19, OutcomesKept DEF Promote, Applied, memory
<1>20. CASE Crash BY <1>20, OutcomesKept DEF Crash, Applied, disk
<1>21. CASE UNCHANGED vars BY <1>21, OutcomesKept DEF vars, Applied
<1> QED
  BY <1>2, <1>3, <1>4, <1>5, <1>6, <1>7, <1>8, <1>9, <1>10, <1>11, <1>12, <1>13,
     <1>14, <1>15, <1>16, <1>17, <1>18, <1>19, <1>20, <1>21
     DEF Next, Step

-----------------------------------------------------------------------------
(* What the engine remembers of its decision *)

(* Every step keeps Remembered: what was looked up stays true until it is *)
(* used.                                                                  *)
LEMMA RememberedStep ==
  ASSUME TypeOK, Memory, Outcomes, Remembered, [Next]_vars
  PROVE  Remembered'
<1> USE DEF Remembered, Applied, Memory, Deciding, Working, Has, Recorded, disk, Down,
        NextBar, Fixed
<1>1. Fixed BY SetupFixed
<1>2. CASE Start BY <1>1, <1>2 DEF Start
<1>3. CASE Halt BY <1>1, <1>3 DEF Halt
<1>4. CASE Finish BY <1>1, <1>4 DEF Finish
<1>5. CASE Propose BY <1>1, <1>5 DEF Propose, Choose
<1>6. CASE Evaluate BY <1>1, <1>6 DEF Evaluate, AppendEvent, Event
<1>7. CASE Collide BY <1>1, <1>7 DEF Collide
<1>8. CASE Skip BY <1>1, <1>8 DEF Skip
<1>9. CASE Lookup BY <1>1, <1>9 DEF Lookup
<1>10. CASE EvaluateRisk
  <2> DEFINE new == [Event("RISK_EVALUATION", decision) EXCEPT !.approved = approved']
  <2>1. /\ AppendEvent(new) /\ new.type = "RISK_EVALUATION" /\ new.decision = decision
        /\ new.approved = approved'
    BY <1>10 DEF EvaluateRisk, Event
  <2> HIDE DEF new
  <2>2. ~Has("RISK_EVALUATION", decision)
    BY <1>10 DEF EvaluateRisk, Remembered, Recorded, Has
  <2>3. ledger' = ledger \cup {new} BY <2>1, <2>2 DEF AppendEvent
  <2>4. \E e \in Recorded(decision)' : e.approved = approved'
    BY <1>10, <2>1, <2>3 DEF Recorded, EvaluateRisk
  <2>5. pc' = "act" => Has("DECISION", decision)'
    BY <1>10, <2>3 DEF EvaluateRisk, Remembered, Has
  <2>6. pc' \in {"act", "decide"} BY <1>10 DEF EvaluateRisk
  <2> QED BY <2>4, <2>5, <2>6 DEF Remembered
<1>11. CASE AppendDecision
  <2> DEFINE new == Event("DECISION", decision)
  <2>1. AppendEvent(new) /\ new.type = "DECISION" /\ new.decision = decision
    BY <1>11 DEF AppendDecision, Event
  <2> HIDE DEF new
  <2>2. ledger \subseteq ledger' /\ Has("DECISION", decision)'
    BY <1>11, <2>1, Appended DEF Has, AppendDecision
  <2>3. \E e \in Recorded(decision) : e.approved = approved
    BY <1>11 DEF AppendDecision, Remembered
  <2>4. \E e \in Recorded(decision)' : e.approved = approved'
    BY <1>11, <2>2, <2>3 DEF AppendDecision, Recorded
  <2> QED BY <1>11, <2>2, <2>4 DEF AppendDecision, Remembered
<1>12. CASE Backfill BY <1>1, <1>12 DEF Backfill, AppendEvent, Event
<1>13. CASE Kill BY <1>1, <1>13 DEF Kill, AppendEvent, Event
<1>14. CASE Fill BY <1>1, <1>14 DEF Fill
<1>15. CASE Block BY <1>1, <1>15 DEF Block, AppendEvent, Event
<1>16. CASE SaveBook BY <1>1, <1>16, SavedApplied DEF SaveBook
<1>17. CASE SaveSession BY <1>1, <1>17 DEF SaveSession
<1>18. CASE AppendOrder BY <1>1, <1>18 DEF AppendOrder, AppendEvent, Event
<1>19. CASE Promote BY <1>1, <1>19 DEF Promote, memory
<1>20. CASE Crash BY <1>1, <1>20 DEF Crash
<1>21. CASE UNCHANGED vars BY <1>21 DEF vars
<1> QED
  BY <1>2, <1>3, <1>4, <1>5, <1>6, <1>7, <1>8, <1>9, <1>10, <1>11, <1>12, <1>13,
     <1>14, <1>15, <1>16, <1>17, <1>18, <1>19, <1>20, <1>21
     DEF Next, Step

-----------------------------------------------------------------------------
(* Approvals in waiting *)

(* While a bar is open, only its own approval can be without a fill: later  *)
(* bars have no events, and each earlier one has been filled or refused.    *)
LEMMA OnlyOpenApproval ==
  ASSUME TypeOK, Memory, Origin, Progress, Outcomes, pc \in Deciding, ~Done(bar),
         NEW e \in ledger, e.type = "RISK_EVALUATION", e.approved,
         e.decision \notin Applied
  PROVE  e.decision = decision
<1>1. e.decision.bar \in Bars /\ e.decision.bar \in Nat /\ bar \in Bars /\ bar \in Nat
  BY PriceTyped, BarTyped DEF TypeOK, Decision, Working
<1>2. ~(bar < e.decision.bar) BY <1>1 DEF Progress
<1>3. ~(e.decision.bar < bar)
  <2> SUFFICES ASSUME e.decision.bar < bar PROVE FALSE OBVIOUS
  <2>1. Done(e.decision.bar) BY <1>1 DEF Progress, Deciding
  <2>2. PICK f \in ledger :
          f.type \in {"ORDER", "RISK_BLOCK"} /\ f.decision.bar = e.decision.bar
    BY <2>1 DEF Done
  <2>3. f.decision = e.decision BY <2>2, MadeOnce DEF Origin
  <2>4. CASE f.type = "ORDER" BY <2>3, <2>4 DEF Outcomes, Executed
  <2>5. CASE f.type = "RISK_BLOCK"
    <3>1. \E g \in Recorded(e.decision) : ~g.approved
      BY <2>3, <2>5 DEF Outcomes, Refused
    <3> QED BY <3>1 DEF Outcomes, Recorded
  <2> QED BY <2>2, <2>4, <2>5
<1>4. e.decision.bar = decision.bar BY <1>1, <1>2, <1>3 DEF Memory
<1> QED BY <1>4, MadeOnce DEF Origin

(* An event that is no risk record changes nothing about open approvals. *)
LEMMA FitsAppended ==
  ASSUME ApprovalStillFits, Fixed, UNCHANGED bookFile,
         NEW e, AppendEvent(e), e.type # "RISK_EVALUATION"
  PROVE  ApprovalStillFits'
<1>1. ledger' \subseteq ledger \cup {e} BY Appended
<1>2. Applied' = Applied BY DEF Applied
<1> QED BY <1>1, <1>2 DEF ApprovalStillFits, Fixed

(* Nor does a step that leaves ledger and portfolio file alone. *)
LEMMA FitsKept ==
  ASSUME ApprovalStillFits, Fixed, UNCHANGED <<ledger, bookFile>>
  PROVE  ApprovalStillFits'
BY DEF ApprovalStillFits, Fixed, Applied

(* Every step keeps ApprovalStillFits: an approval is recorded from the *)
(* saved portfolio, and until its own fill no other changes it.         *)
LEMMA FitsStep ==
  ASSUME TypeOK, Memory, Origin, Progress, Outcomes, ApprovalStillFits,
         [Next]_vars
  PROVE  ApprovalStillFits'
<1>1. Fixed BY SetupFixed
<1>2. CASE Start
  <2>1. UNCHANGED ledger /\ bookFile' = LoadedBook BY <1>2 DEF Start
  <2>2. CASE bookFile = None BY <2>1, <2>2 DEF Memory, ApprovalStillFits
  <2>3. CASE bookFile # None BY <1>1, <2>1, <2>3, FitsKept DEF LoadedBook
  <2> QED BY <2>2, <2>3
<1>3. CASE Halt BY <1>1, <1>3, FitsKept DEF Halt, disk
<1>4. CASE Finish BY <1>1, <1>4, FitsKept DEF Finish, disk
<1>5. CASE Propose BY <1>1, <1>5, FitsKept DEF Propose, disk
<1>6. CASE Evaluate
  <2>1. PICK e : AppendEvent(e) /\ e.type = "JEV_EVALUATION" BY <1>6, EvaluationAdded
  <2> QED BY <1>1, <1>6, <2>1, FitsAppended DEF Evaluate
<1>7. CASE Collide BY <1>1, <1>7, FitsKept DEF Collide, disk
<1>8. CASE Skip BY <1>1, <1>8, FitsKept DEF Skip, disk
<1>9. CASE Lookup BY <1>1, <1>9, FitsKept DEF Lookup, disk
<1>10. CASE EvaluateRisk
  <2> DEFINE new == [Event("RISK_EVALUATION", decision) EXCEPT !.approved = approved']
  <2>1. /\ AppendEvent(new) /\ new.decision = decision
        /\ new.approved = approved'
    BY <1>10 DEF EvaluateRisk, Event
  <2> HIDE DEF new
  <2>2. ledger' \subseteq ledger \cup {new} /\ Applied' = Applied
    BY <1>10, <2>1, Appended DEF EvaluateRisk, Applied
  <2>3. book = bookFile /\ decision.bar = bar
    BY <1>10 DEF EvaluateRisk, Memory, Deciding
  <2>4. new.approved =>
          Affordable(bookFile, Side(decision), Quantity, price[decision.bar],
                     RiskLimits)
    BY <1>10, <2>1, <2>3 DEF EvaluateRisk, Approves
  <2>5. UNCHANGED <<bookFile, price>> BY <1>10, <1>1 DEF EvaluateRisk, Fixed
  <2> QED BY <2>1, <2>2, <2>4, <2>5 DEF ApprovalStillFits
<1>11. CASE AppendDecision
  BY <1>1, <1>11, EventAdded, FitsAppended DEF AppendDecision, Adds
<1>12. CASE Backfill BY <1>1, <1>12, EventAdded, FitsAppended DEF Backfill, Adds
<1>13. CASE Kill BY <1>1, <1>13, EventAdded, FitsAppended DEF Kill, Adds
<1>14. CASE Fill BY <1>1, <1>14, FitsKept DEF Fill, disk
<1>15. CASE Block BY <1>1, <1>15, EventAdded, FitsAppended DEF Block, Adds
<1>16. CASE SaveBook
  <2>1. UNCHANGED ledger /\ pc = "save_book" /\ bookFile' = book BY <1>16 DEF SaveBook
  <2>2. CASE owed
    <3>1. Applied' = Applied \cup {decision} BY <1>16, <2>2, SavedApplied
    <3>2. pc \in Deciding /\ ~Done(bar) BY <2>1, <2>2 DEF Progress, Deciding
    <3>3. \A e \in ledger :
            e.type = "RISK_EVALUATION" /\ e.approved /\ e.decision \notin Applied
              => e.decision = decision
      BY <3>2, OnlyOpenApproval
    <3> QED BY <2>1, <3>1, <3>3 DEF ApprovalStillFits
  <2>3. CASE ~owed BY <1>1, <2>1, <2>3, FitsKept DEF Memory
  <2> QED BY <2>2, <2>3
<1>17. CASE SaveSession BY <1>1, <1>17, FitsKept DEF SaveSession, disk
<1>18. CASE AppendOrder BY <1>1, <1>18, EventAdded, FitsAppended DEF AppendOrder, Adds
<1>19. CASE Promote BY <1>1, <1>19, FitsKept DEF Promote, memory
<1>20. CASE Crash BY <1>1, <1>20, FitsKept DEF Crash, disk
<1>21. CASE UNCHANGED vars BY <1>1, <1>21, FitsKept DEF vars
<1> QED
  BY <1>2, <1>3, <1>4, <1>5, <1>6, <1>7, <1>8, <1>9, <1>10, <1>11, <1>12, <1>13,
     <1>14, <1>15, <1>16, <1>17, <1>18, <1>19, <1>20, <1>21
     DEF Next, Step

-----------------------------------------------------------------------------
(* Sessions *)

(* Every step keeps Sessions: the session is opened once and then only *)
(* updated.                                                            *)
LEMMA SessionsStep ==
  ASSUME TypeOK, TypeOK', Memory, Sessions, [Next]_vars
  PROVE  Sessions'
<1> USE DEF Sessions, Memory, Deciding, disk, Down, NextBar
<1>1. Fixed BY SetupFixed
<1>2. CASE Start BY <1>1, <1>2 DEF Start, TypeOK, SessionState
<1>3. CASE Halt BY <1>1, <1>3 DEF Halt
<1>4. CASE Finish BY <1>1, <1>4 DEF Finish
<1>5. CASE Propose BY <1>1, <1>5 DEF Propose, Choose
<1>6. CASE Evaluate BY <1>1, <1>6 DEF Evaluate
<1>7. CASE Collide BY <1>1, <1>7 DEF Collide
<1>8. CASE Skip BY <1>1, <1>8 DEF Skip
<1>9. CASE Lookup
  <2> DEFINE equity == Equity(book, price[bar])
  <2>1. equity \in Nat
    BY <1>9, BarTyped, EquityTyped DEF Lookup, Memory, Working, Deciding
  <2>2. session' = IF session = None THEN NewSession(equity)
                   ELSE UpdateSession(session, equity)
    BY <1>9 DEF Lookup
  <2>3. session' # None BY <1>9, LookupTyped, NoneApart
  <2>4. session = sessionFile /\ pc = "lookup" /\ UNCHANGED sessionFile
    BY <1>9 DEF Lookup, Memory, disk
  <2> HIDE DEF equity
  <2>5. session'.peak >= session'.current
    BY <2>1, <2>2, UpdateKeeps DEF NewSession, TypeOK
  <2>6. session # None =>
          session'.start = session.start /\ session'.peak >= session.peak
    BY <2>1, <2>2, UpdateKeeps DEF TypeOK
  <2> QED BY <2>3, <2>4, <2>5, <2>6 DEF Sessions
<1>10. CASE EvaluateRisk BY <1>1, <1>10 DEF EvaluateRisk
<1>11. CASE AppendDecision BY <1>1, <1>11 DEF AppendDecision
<1>12. CASE Backfill BY <1>1, <1>12 DEF Backfill
<1>13. CASE Kill BY <1>1, <1>13 DEF Kill
<1>14. CASE Fill
  <2>1. CASE After.cash >= 0 /\ After.position >= 0
    <3>1. /\ session' = UpdateSession(session, Equity(After, price[bar]))
          /\ session' \in SessionState
      BY <1>14, <2>1, FillTyped
    <3>2. Equity(After, price[bar]) \in Int BY <1>14, <2>1, FillTyped
    <3>3. pc = "act" BY <1>14 DEF Fill
    <3>4. session \in SessionState /\ pc = "act" BY <3>3 DEF Memory, Deciding, TypeOK
    <3>5. UNCHANGED sessionFile BY <1>14 DEF Fill, disk
    <3>6. /\ session'.start = session.start /\ session'.peak >= session.peak
          /\ session'.peak >= session'.current
      BY <3>1, <3>4, <3>2, UpdateKeeps
    <3>7. session' # None /\ session # None BY <3>1, <3>4, NoneApart
    <3>8. session.peak \in Int /\ session'.peak \in Int BY <3>1, <3>4 DEF SessionState
    <3>9. sessionFile # None => sessionFile.peak \in Int BY DEF TypeOK, SessionState
    <3> QED BY <3>5, <3>4, <3>6, <3>7, <3>8, <3>9 DEF Sessions
  <2>2. CASE ~(After.cash >= 0 /\ After.position >= 0)
    BY <1>14, <2>2 DEF Fill, After, Sessions, Down, disk
  <2> QED BY <2>1, <2>2
<1>15. CASE Block BY <1>1, <1>15 DEF Block
<1>16. CASE SaveBook BY <1>1, <1>16 DEF SaveBook
<1>17. CASE SaveSession BY <1>1, <1>17 DEF SaveSession, TypeOK, SessionState
<1>18. CASE AppendOrder BY <1>1, <1>18 DEF AppendOrder
<1>19. CASE Promote BY <1>1, <1>19 DEF Promote, memory
<1>20. CASE Crash BY <1>1, <1>20 DEF Crash
<1>21. CASE UNCHANGED vars BY <1>21 DEF vars
<1> QED
  BY <1>2, <1>3, <1>4, <1>5, <1>6, <1>7, <1>8, <1>9, <1>10, <1>11, <1>12, <1>13,
     <1>14, <1>15, <1>16, <1>17, <1>18, <1>19, <1>20, <1>21
     DEF Next, Step

-----------------------------------------------------------------------------
(* The start of the session *)

(* What the first lookup after any start values the book at. *)
LEMMA FirstEquity ==
  ASSUME TypeOK, Memory, Origin, Progress, Outcomes, Lookup, sessionFile = None,
         Unsaved
  PROVE  Equity(book, price[bar]) = StartingCash
<1>1. /\ pc = "lookup" /\ pc \in Deciding /\ ~Done(bar)
      /\ book = bookFile /\ bookFile \in BookState
      /\ bar \in Bars /\ bar \in Nat
  BY DoneIsDecided, BarTyped DEF Lookup, Memory, Deciding, Working
<1>2. CASE Untouched
  <2>1. price[bar] \in Nat /\ StartingCash \in Nat
    BY <1>1, PriceTyped, PaperAssumption DEF PaperAssumption
  <2> QED BY <1>1, <1>2, <2>1 DEF Untouched, Equity
<1>3. CASE FirstFill
  <2>1. PICK d \in Applied :
          ~Done(d.bar) /\ Equity(bookFile, price[d.bar]) = StartingCash
    BY <1>3 DEF FirstFill
  <2>2. d \in Decision /\ d.bar \in Bars /\ d.bar \in Nat
    BY <1>1, PriceTyped DEF BookState, Decision, Applied
  <2>3. ~(d.bar < bar) BY <1>1, <2>1, <2>2 DEF Progress
  <2>4. ~(bar < d.bar)
    <3>1. \E e \in ledger : e.decision = d BY DEF Outcomes, Has
    <3> QED BY <1>1, <3>1 DEF Progress
  <2> QED BY <1>1, <2>1, <2>2, <2>3, <2>4
<1> QED BY <1>1, <1>2, <1>3 DEF Unsaved

(* An unsaved session stays well founded while no bar is settled. *)
LEMMA UnsavedKept ==
  ASSUME TypeOK, Fixed, Unsaved,
         pc \notin {"save_book", "save_session"}, bookFile # None,
         UNCHANGED <<bookFile, crashes>>, \A b \in Bars : Done(b)' => Done(b)
  PROVE  Unsaved'
<1>1. Applied' = Applied /\ Applied \subseteq Decision BY DEF Applied, TypeOK, BookState
<1>2. \A d \in Applied : d.bar \in Bars BY <1>1 DEF Decision
<1>3. FirstFill => FirstFill' BY <1>1, <1>2 DEF FirstFill, Fixed
<1> QED BY <1>3 DEF Unsaved, Untouched

(* Every step keeps SessionOrigin: a session opened by a lookup starts at *)
(* the opening equity, and so does one opened after a single crash.       *)
LEMMA SessionOriginStep ==
  ASSUME TypeOK, Memory, Origin, Progress, Outcomes, SessionOrigin, [Next]_vars
  PROVE  SessionOrigin'
<1>1. Fixed BY SetupFixed
<1> USE DEF Down, NextBar, disk
<1>2. CASE Start
  <2>1. /\ UNCHANGED <<ledger, sessionFile, crashes>> /\ session' = sessionFile
        /\ bookFile' = LoadedBook /\ pc = "down"
    BY <1>2 DEF Start
  <2>2. CASE bookFile = None
    <3>1. Untouched' BY <2>1, <2>2 DEF LoadedBook, Untouched
    <3> QED BY <2>1, <3>1 DEF SessionOrigin, Unsaved
  <2>3. CASE bookFile # None
    <3>1. bookFile' = bookFile BY <2>1, <2>3 DEF LoadedBook
    <3> QED BY <1>1, <2>1, <2>3, <3>1, UnsavedKept, DoneKept DEF SessionOrigin
  <2> QED BY <2>2, <2>3
<1>3. CASE Halt BY <1>1, <1>3, UnsavedKept, DoneKept DEF Halt, Memory, SessionOrigin
<1>4. CASE Finish BY <1>1, <1>4, UnsavedKept, DoneKept DEF Finish, Memory, SessionOrigin
<1>5. CASE Propose
  BY <1>1, <1>5, UnsavedKept, DoneKept DEF Propose, Memory, SessionOrigin
<1>6. CASE Evaluate
  <2>1. PICK e : AppendEvent(e) /\ e.type = "JEV_EVALUATION" /\ e.decision.bar = bar
    BY <1>6, EvaluationAdded
  <2>2. \A b \in Bars : Done(b)' => Done(b)
    BY <1>1, <1>6, <2>1, DoneGrows DEF Evaluate, Working
  <2> QED BY <1>1, <1>6, <2>2, UnsavedKept DEF Evaluate, SessionOrigin, Memory
<1>7. CASE Collide
  BY <1>1, <1>7, UnsavedKept, DoneKept DEF Collide, Memory, SessionOrigin
<1>8. CASE Skip BY <1>1, <1>8, UnsavedKept, DoneKept DEF Skip, Memory, SessionOrigin
<1>9. CASE Lookup
  <2>1. /\ UNCHANGED <<ledger, bookFile, sessionFile, crashes>> /\ pc = "lookup"
        /\ session = sessionFile /\ bookFile # None
    BY <1>9 DEF Lookup, disk, Memory
  <2>2. session' = IF session = None THEN NewSession(Equity(book, price[bar]))
                   ELSE UpdateSession(session, Equity(book, price[bar]))
    BY <1>9 DEF Lookup
  <2>3. crashes <= 1 => session'.start = StartingCash
    BY <1>9, <2>1, <2>2, FirstEquity DEF SessionOrigin, NewSession, UpdateSession
  <2> QED BY <1>1, <2>1, <2>3, UnsavedKept, DoneKept DEF SessionOrigin
<1>10. CASE EvaluateRisk
  <2>1. \A b \in Bars : Done(b)' => Done(b)
    BY <1>1, <1>10, EventAdded, DoneAdded DEF EvaluateRisk, Deciding
  <2> QED BY <1>1, <1>10, <2>1, UnsavedKept DEF EvaluateRisk, Memory, SessionOrigin
<1>11. CASE AppendDecision
  <2>1. \A b \in Bars : Done(b)' => Done(b)
    BY <1>1, <1>11, EventAdded, DoneAdded DEF AppendDecision, Deciding
  <2> QED BY <1>1, <1>11, <2>1, UnsavedKept DEF AppendDecision, Memory, SessionOrigin
<1>12. CASE Backfill
  <2>1. /\ pc = "act" /\ pc' = "save_book"
        /\ UNCHANGED <<bookFile, sessionFile, session, crashes>>
    BY <1>12 DEF Backfill
  <2>2. crashes <= 1 => crashes = 0 \/ crashes = 1 BY DEF TypeOK
  <2> QED BY <2>1, <2>2 DEF SessionOrigin, Unsaved, Untouched
<1>13. CASE Kill
  <2>1. pc \in Deciding /\ Adds("KILL_SWITCH") BY <1>13, EventAdded DEF Kill, Deciding
  <2>2. \A b \in Bars : Done(b)' => Done(b) BY <1>1, <2>1, DoneAdded
  <2> QED BY <1>1, <1>13, <2>2, UnsavedKept DEF Kill, Memory, SessionOrigin
<1>14. CASE Fill
  <2>1. /\ UNCHANGED <<ledger, bookFile, sessionFile, crashes>> /\ pc = "act"
        /\ session # None
    BY <1>14 DEF Fill, disk, Memory, Deciding
  <2>2. pc' # "down" => session' = UpdateSession(session, Equity(After, price[bar]))
    BY <1>14 DEF Fill, After, Down
  <2>3. pc' # "down" => session'.start = session.start BY <2>2 DEF UpdateSession
  <2> QED BY <1>1, <2>1, <2>3, UnsavedKept, DoneKept DEF SessionOrigin
<1>15. CASE Block
  <2>1. /\ pc = "act" /\ pc' = "save_book"
        /\ UNCHANGED <<bookFile, sessionFile, session, crashes>>
    BY <1>15 DEF Block
  <2>2. crashes <= 1 => crashes = 0 \/ crashes = 1 BY DEF TypeOK
  <2> QED BY <2>1, <2>2 DEF SessionOrigin, Unsaved, Untouched
<1>16. CASE SaveBook
  <2>1. /\ UNCHANGED <<ledger, sessionFile, session, crashes>> /\ pc = "save_book"
        /\ pc' = "save_session" /\ bookFile' = book
    BY <1>16 DEF SaveBook
  <2>2. SUFFICES ASSUME crashes = 0, sessionFile = None PROVE Unsaved'
    <3>1. crashes <= 1 => crashes = 0 \/ crashes = 1 BY DEF TypeOK
    <3> QED BY <2>1, <3>1 DEF SessionOrigin, Unsaved
  <2>3. Untouched /\ bookFile # None BY <2>1, <2>2 DEF SessionOrigin, Unsaved, Memory
  <2>4. CASE ~owed BY <2>1, <2>3, <2>4 DEF Memory, Unsaved, Untouched
  <2>5. CASE owed
    <3>1. bookFile' = [Filled(bookFile, Side(decision), Quantity, price[bar])
                         EXCEPT !.applied = @ \cup {decision}]
      BY <2>1, <2>5 DEF Memory
    <3>2. /\ bookFile \in BookState /\ price[bar] \in Nat
          /\ Quantity \in Nat /\ StartingCash \in Nat
      BY <2>1, <2>3, BarTyped, PaperAssumption
         DEF TypeOK, PaperAssumption, Deciding, Working
    <3>3. Equity(bookFile', price[bar]) = Equity(bookFile, price[bar])
      BY <3>1, <3>2, FillKeepsEquity
    <3>4. Equity(bookFile, price[bar]) = StartingCash
      BY <2>3, <3>2 DEF Untouched, Equity
    <3>5. Applied' = Applied \cup {decision} BY <1>16, <2>5, SavedApplied
    <3>6. decision \in Applied' BY <3>5
    <3>7. ~Done(bar) /\ decision.bar = bar BY <2>1, <2>5 DEF Progress, Memory, Deciding
    <3>8. decision' = decision BY <1>16 DEF SaveBook
    <3>9. ~Done(decision.bar)' /\ decision.bar = bar BY <3>7, <3>8, <2>1, DoneKept
    <3>10. FirstFill' BY <1>1, <3>3, <3>4, <3>6, <3>9, <3>8 DEF FirstFill, Fixed
    <3> QED BY <2>1, <3>10 DEF Unsaved
  <2> QED BY <2>4, <2>5
<1>17. CASE SaveSession
  <2>1. /\ session # None /\ sessionFile' = session
        /\ UNCHANGED <<session, crashes>> /\ pc # "down"
    BY <1>17 DEF SaveSession, NextBar, Memory, Deciding
  <2> QED BY <2>1 DEF SessionOrigin
<1>18. CASE AppendOrder
  <2>1. /\ session = sessionFile /\ session # None
        /\ UNCHANGED <<sessionFile, session, crashes>> /\ pc # "down"
    BY <1>18 DEF AppendOrder, NextBar, Memory, Deciding
  <2> QED BY <2>1 DEF SessionOrigin
<1>19. CASE Promote
  <2>1. UNCHANGED <<ledger, bookFile, sessionFile, crashes, pc, session>>
    BY <1>19 DEF Promote, memory
  <2> QED
    BY <1>1, <2>1, DoneKept
       DEF SessionOrigin, Unsaved, Untouched, FirstFill, Applied, Fixed
<1>20. CASE Crash
  <2>1. /\ UNCHANGED <<ledger, bookFile, sessionFile>> /\ crashes' = crashes + 1
        /\ pc' = "down"
    BY <1>20 DEF Crash, Down, disk
  <2>2. crashes' <= 1 => crashes = 0 /\ crashes' = 1 BY <2>1 DEF TypeOK
  <2> QED
    BY <1>1, <2>1, <2>2, DoneKept
       DEF SessionOrigin, Unsaved, Untouched, FirstFill, Applied, Fixed
<1>21. CASE UNCHANGED vars
  BY <1>1, <1>21, DoneKept
     DEF vars, SessionOrigin, Unsaved, Untouched, FirstFill, Applied, Fixed
<1> QED
  BY <1>2, <1>3, <1>4, <1>5, <1>6, <1>7, <1>8, <1>9, <1>10, <1>11, <1>12, <1>13,
     <1>14, <1>15, <1>16, <1>17, <1>18, <1>19, <1>20, <1>21
     DEF Next, Step

-----------------------------------------------------------------------------
(* Completed runs and promotions *)

(* Nothing is ever removed from the ledger. *)
LEMMA LedgerKept == ASSUME [Next]_vars PROVE ledger \subseteq ledger'
BY DEF Next, Step, vars, Start, Halt, Finish, Propose, Evaluate, Collide, Skip, Lookup,
   EvaluateRisk, AppendDecision, Backfill, Kill, Fill, Block, SaveBook, SaveSession,
   AppendOrder, Promote, Crash, AppendEvent, disk

(* What promote may find: a completed run for PAPER, and never enough for LIVE. *)
LEMMA OnlyCompleted ==
  ASSUME TypeOK, NEW env \in Environments, NEW target,
         Eligible(Evidence(runRecord, Len(price) - 1, RiskLimits, env), target)
  PROVE  /\ target # "LIVE"
         /\ target = "PAPER" => runRecord /\ Bars # {}
<1> DEFINE evidence == Evidence(runRecord, Len(price) - 1, RiskLimits, env)
<1>1. evidence.live_controls_verified = FALSE /\ evidence.paper_run_complete = runRecord
      /\ evidence.replay_deterministic = (Len(price) - 1 > 0)
  BY DEF Evidence, ReplayDeterministic
<1>2. \A field \in Requirements(target) : evidence[field] BY DEF Eligible
<1> HIDE DEF evidence
<1>3. target # "LIVE"
  <2> SUFFICES ASSUME target = "LIVE" PROVE FALSE OBVIOUS
  <2>1. "live_controls_verified" \in Requirements(target)
    BY DEF Requirements, LiveRequirements
  <2> QED BY <1>1, <1>2, <2>1
<1>4. ASSUME target = "PAPER" PROVE runRecord /\ Bars # {}
  <2>1. {"paper_run_complete", "replay_deterministic"} \subseteq Requirements(target)
    BY DEF Requirements, BaseRequirements
  <2>2. runRecord BY <1>1, <1>2, <2>1
  <2>3. Len(price) - 1 > 0 BY <1>1, <1>2, <2>1
  <2>4. 2 \in Bars BY <2>3, PriceTyped DEF Bars
  <2> QED BY <2>2, <2>4
<1> QED BY <1>3, <1>4

(* Every step keeps Completion: a run is recorded as completed past its *)
(* last bar, and promote looks at that record.                          *)
LEMMA CompletionStep ==
  ASSUME TypeOK, Memory, Progress, Completion, [Next]_vars
  PROVE  Completion'
<1>1. Fixed BY SetupFixed
<1>2. \A b \in Bars : Done(b) => Done(b)' BY LedgerKept DEF Done
<1>3. CASE Finish
  <2>1. /\ bar \in Nat /\ bar >= 2 /\ bar \notin 2..Len(price) /\ Len(price) \in Nat
        /\ pc = "bar" /\ promoted' = promoted
    BY <1>3, PriceTyped DEF Finish, Memory, Bars, TypeOK
  <2>2. \A b \in Bars : b < bar BY <2>1 DEF Bars
  <2>3. runRecord' BY <1>3 DEF Finish
  <2>4. \A b \in Bars : Done(b) BY <2>1, <2>2 DEF Progress
  <2> QED BY <1>1, <1>2, <2>1, <2>3, <2>4 DEF Completion, Fixed
<1>4. CASE Promote
  <2>1. PICK env \in Environments, target \in Targets :
          /\ Eligible(Evidence(runRecord, Len(price) - 1, RiskLimits, env), target)
          /\ promoted' = promoted \cup {target}
    BY <1>4 DEF Promote
  <2>2. runRecord' = runRecord BY <1>4 DEF Promote
  <2> QED BY <1>1, <1>2, <2>1, <2>2, OnlyCompleted DEF Completion, Fixed
<1>5. CASE UNCHANGED <<runRecord, promoted>>
  BY <1>1, <1>2, <1>5 DEF Completion, Fixed
<1> QED
  BY <1>3, <1>4, <1>5 DEF Next, Step, vars, Start, Halt, Propose, Evaluate, Collide,
  Skip, Lookup, EvaluateRisk, AppendDecision, Backfill, Kill, Fill, Block, SaveBook,
  SaveSession, AppendOrder, Crash, disk

-----------------------------------------------------------------------------
(* The invariant *)

(* The initial state is of the right types. *)
LEMMA InitTyped == Init => TypeOK
<1> SUFFICES ASSUME Init PROVE TypeOK OBVIOUS
<1>1. crashes \in 0..MaxCrashes /\ bar \in Nat
  BY PaperAssumption DEF Init, PaperAssumption
<1>2. price \in Paths /\ jev \in JevChoices /\ ledger = {} /\ promoted = {} BY DEF Init
<1>3. /\ runRecord = FALSE /\ armed = FALSE /\ logged = FALSE
      /\ approved = FALSE /\ owed = FALSE
  BY DEF Init
<1>4. /\ pc = "down" /\ bookFile = None /\ sessionFile = None /\ decision = None
      /\ book = None /\ session = None
  BY DEF Init
<1> QED BY <1>1, <1>2, <1>3, <1>4 DEF TypeOK

(* The invariant holds before the engine first starts, *)
LEMMA InitInv == ASSUME Init PROVE IInv
<1>1. TypeOK BY InitTyped
<1>2. /\ ledger = {} /\ bookFile = None /\ sessionFile = None
      /\ session = None /\ pc = "down"
      /\ ~owed /\ ~runRecord /\ promoted = {}
  BY DEF Init
<1>3. Memory /\ Origin /\ Progress
  BY <1>2 DEF Memory, Origin, Progress, Working, Deciding
<1>4. Outcomes /\ Remembered /\ ApprovalStillFits
  BY <1>2 DEF Outcomes, Remembered, ApprovalStillFits, Applied, Refused, Executed
<1>5. Sessions /\ SessionOrigin /\ Completion
  BY <1>2 DEF Sessions, SessionOrigin, Completion
<1> QED BY <1>1, <1>3, <1>4, <1>5 DEF IInv

(* every step keeps it, *)
LEMMA NextInv == ASSUME IInv, [Next]_vars PROVE IInv'
BY TypingStep, MemoryStep, OriginStep, ProgressStep, OutcomesStep, RememberedStep,
   FitsStep, SessionsStep, SessionOriginStep, CompletionStep DEF IInv

(* and so it always holds. *)
LEMMA Invariant == Spec => []IInv
BY InitInv, NextInv, PTL DEF Spec

-----------------------------------------------------------------------------
(* The properties *)

(* In every reachable state the files and the memory are of the right  *)
(* types; in particular PaperPortfolio never holds, and _persist_state *)
(* never saves, a negative cash or position.                           *)
THEOREM PaperTyped == Spec => []TypeOK
<1>1. IInv => TypeOK BY DEF IInv
<1> QED BY <1>1, Invariant, PTL

(* A recorded approval that was not executed still fits the saved        *)
(* portfolio: run() may take it over after any number of crashes without *)
(* evaluating risk again.                                                *)
THEOREM ApprovalsStillFit == Spec => []ApprovalStillFits
<1>1. IInv => ApprovalStillFits BY DEF IInv
<1> QED BY <1>1, Invariant, PTL

(* The saved session is one that load() accepts, and one death before its   *)
(* first save does not move the start that the day's loss is measured from. *)
THEOREM SessionsUsable == Spec => []SessionUsable
<1>1. IInv => SessionUsable BY DEF IInv, Sessions, SessionOrigin, SessionUsable
<1> QED BY <1>1, Invariant, PTL

(* Files and memory as they are say what an observer sees of the files. *)
LEMMA LedgerExplains == ASSUME IInv PROVE AuditTrail
<1> USE DEF IInv
<1>1. Executed \subseteq Applied BY DEF Outcomes
<1>2. Applied \cap Refused = {} BY DEF Outcomes, Recorded
<1>3. \A d \in Applied \cup Refused :
        /\ Has("DECISION", d)
        /\ \E e \in Recorded(d) : e.approved <=> d \in Applied
  BY <1>2 DEF Outcomes
<1>4. ASSUME NEW d \in Applied \ Executed, NEW o \in Applied \cup Refused
      PROVE  o.bar < d.bar \/ o = d
  <2>1. PICK e \in ledger : e.decision = o BY <1>3 DEF Has
  <2>2. PICK f \in ledger : f.decision = d BY <1>3 DEF Has
  <2>3. o.bar \in Bars /\ o.bar \in Nat /\ d.bar \in Bars /\ d.bar \in Nat
    BY <2>1, <2>2, PriceTyped DEF TypeOK, Decision
  <2>4. ~(d.bar < o.bar)
    <3> SUFFICES ASSUME d.bar < o.bar PROVE FALSE OBVIOUS
    <3>1. Done(d.bar) BY <2>1, <2>3 DEF Progress
    <3>2. PICK g \in ledger :
            g.type \in {"ORDER", "RISK_BLOCK"} /\ g.decision.bar = d.bar
      BY <3>1 DEF Done
    <3>3. g.decision = d BY <2>2, <3>2, MadeOnce DEF Origin
    <3> QED BY <1>2, <3>2, <3>3 DEF Executed, Refused
  <2>5. o.bar = d.bar => o = d BY <2>1, <2>2, MadeOnce DEF Origin
  <2> QED BY <2>3, <2>4, <2>5
<1> QED BY <1>1, <1>2, <1>3, <1>4 DEF AuditTrail

(* The ledger and the portfolio file explain each other in every state a   *)
(* crash can leave: an ORDER has its fill, a fill its approval and its     *)
(* DECISION and no RISK_BLOCK, and only the latest decision's ORDER can be *)
(* owed.                                                                   *)
THEOREM LedgerExplainsPortfolio == Spec => []AuditTrail
BY LedgerExplains, Invariant, PTL

(* promote finds PAPER eligible only after a run that decided every bar of *)
(* the data, and LIVE never.                                               *)
THEOREM PromotionsFollowTrading == Spec => []PromotionFollowsTrading
<1>1. ASSUME IInv PROVE PromotionFollowsTrading
  <2> USE <1>1 DEF IInv
  <2>1. DecidedBars \subseteq Bars
    <3>1. \A d \in Applied \cup Refused : \E e \in ledger : e.decision = d
      BY DEF Outcomes, Has
    <3> QED BY <3>1 DEF DecidedBars, TypeOK, Decision
  <2>2. ASSUME NEW b \in Bars, Done(b) PROVE b \in DecidedBars
    <3>1. PICK e \in ledger : e.type \in {"ORDER", "RISK_BLOCK"} /\ e.decision.bar = b
      BY <2>2 DEF Done
    <3>2. e.decision \in Applied \cup Refused BY <3>1 DEF Outcomes, Executed, Refused
    <3> QED BY <3>1, <3>2 DEF DecidedBars
  <2>3. "PAPER" \in promoted => DecidedBars = Bars /\ Bars # {}
    BY <2>1, <2>2 DEF Completion
  <2> QED BY <2>3 DEF PromotionFollowsTrading, Completion
<1> QED BY <1>1, Invariant, PTL

(* The applied decisions change only when a fill is saved. *)
LEMMA AppliedStep ==
  ASSUME IInv, [Next]_vars PROVE Applied' = Applied \/ (SaveBook /\ owed)
<1>1. CASE Start
  BY <1>1, LoadedTyped, NoneApart, PaperAssumption DEF Start, LoadedBook, Applied, IInv
<1>2. CASE SaveBook BY <1>2, SavedApplied DEF IInv
<1>3. CASE UNCHANGED bookFile BY <1>3 DEF Applied
<1> QED
  BY <1>1, <1>2, <1>3 DEF Next, Step, vars, Halt, Finish, Propose, Evaluate, Collide,
  Skip, Lookup, EvaluateRisk, AppendDecision, Backfill, Kill, Fill, Block, SaveSession,
  AppendOrder, Promote, Crash, disk

(* The refused ones change only when a refusal is recorded. *)
LEMMA RefusedStep ==
  ASSUME [Next]_vars PROVE Refused' = Refused \/ Block
<1>1. ASSUME NEW e, AppendEvent(e), e.type # "RISK_BLOCK" PROVE Refused' = Refused
  BY <1>1 DEF AppendEvent, Refused
<1>2. ASSUME UNCHANGED ledger PROVE Refused' = Refused BY <1>2 DEF Refused
<1>3. CASE Evaluate BY <1>1, <1>3 DEF Evaluate, Event
<1>4. CASE EvaluateRisk
  <2>1. [Event("RISK_EVALUATION", decision) EXCEPT !.approved = approved'].type
          # "RISK_BLOCK"
    BY DEF Event
  <2> QED BY <1>1, <1>4, <2>1 DEF EvaluateRisk
<1>5. CASE AppendDecision BY <1>1, <1>5 DEF AppendDecision, Event
<1>6. CASE Backfill BY <1>1, <1>6 DEF Backfill, Event
<1>7. CASE Kill BY <1>1, <1>7 DEF Kill, Event
<1>8. CASE AppendOrder BY <1>1, <1>8 DEF AppendOrder, Event
<1> QED
  BY <1>2, <1>3, <1>4, <1>5, <1>6, <1>7, <1>8
     DEF Next, Step, vars, Start, Halt, Finish, Propose, Collide,
  Skip, Lookup, Fill, SaveBook, SaveSession, Promote, Crash, disk

(* Once a KILL_SWITCH event is recorded, nothing is filled or refused *)
(* again, by this process or by one started later.                    *)
THEOREM KillStopsAll == Spec => KillStopsTrading
<1>1. ASSUME IInv, [Next]_vars, Killed PROVE Applied' = Applied /\ Refused' = Refused
  <2>1. pc \notin Working BY <1>1 DEF IInv, Memory
  <2>2. ~SaveBook /\ ~Block BY <2>1 DEF SaveBook, Block, Working, Deciding
  <2> QED BY <1>1, <2>2, AppliedStep, RefusedStep
<1>2. IInv /\ [Next]_vars => [Killed => Applied' = Applied /\ Refused' = Refused]_vars
  BY <1>1
<1> QED BY <1>2, Invariant, PTL DEF Spec, KillStopsTrading

(* Once saved, the session keeps its start, and its peak never falls, over *)
(* any crash.                                                              *)
THEOREM SessionsKept == Spec => SessionKept
<1>1. ASSUME IInv, [Next]_vars, sessionFile # None
      PROVE  /\ sessionFile' # None
             /\ sessionFile'.start = sessionFile.start
             /\ sessionFile'.peak >= sessionFile.peak
  <2>1. CASE SaveSession
    <3>1. pc = "save_session" /\ sessionFile' = session BY <2>1 DEF SaveSession
    <3> QED BY <1>1, <3>1 DEF IInv, Sessions
  <2>2. CASE UNCHANGED sessionFile BY <1>1, <2>2 DEF IInv, TypeOK, SessionState
  <2> QED
    BY <1>1, <2>1, <2>2
       DEF Next, Step, vars, Start, Halt, Finish, Propose, Evaluate, Collide,
  Skip, Lookup, EvaluateRisk, AppendDecision, Backfill, Kill, Fill, Block, SaveBook,
  AppendOrder, Promote, Crash, disk
<1> QED BY <1>1, Invariant, PTL DEF Spec, SessionKept

-----------------------------------------------------------------------------
(* Refinement *)

\* The state of PaperTrading the engine is in.
Outcome(b) ==
  IF \E d \in Applied : d.bar = b THEN "filled"
  ELSE IF \E d \in Refused : d.bar = b THEN "refused" ELSE "open"
Cash == IF bookFile = None THEN StartingCash ELSE bookFile.cash
Position == IF bookFile = None THEN 0 ELSE bookFile.position

(* The bar in progress is open in the abstract market, and the next in turn. *)
LEMMA InTurn ==
  ASSUME IInv, pc \in Deciding, ~Done(bar), decision \notin Applied
  PROVE  /\ bar \in Bars
         /\ Outcome(bar) = "open"
         /\ \A b \in Bars : b < bar => Outcome(b) # "open"
<1> USE DEF IInv
<1>1. bar \in Bars BY DEF Memory, Deciding, Working
<1>2. \A d \in Applied \cup Refused : \E e \in ledger : e.decision = d
  BY DEF Outcomes, Has
<1>3. Made(decision) /\ decision.bar = bar BY DEF Memory, Origin
<1>4. \A d \in Applied \cup Refused : d.bar = bar => d = decision
  BY <1>2, <1>3, MadeOnce DEF Origin
<1>5. decision \notin Refused BY <1>3 DEF Done, Refused
<1>6. Outcome(bar) = "open" BY <1>4, <1>5 DEF Outcome
<1>7. ASSUME NEW b \in Bars, b < bar PROVE Outcome(b) # "open"
  <2>1. Done(b) BY <1>7 DEF Progress, Deciding
  <2>2. PICK e \in ledger : e.type \in {"ORDER", "RISK_BLOCK"} /\ e.decision.bar = b
    BY <2>1 DEF Done
  <2>3. e.decision \in Applied \cup Refused BY <2>2 DEF Outcomes, Executed, Refused
  <2> QED BY <2>2, <2>3 DEF Outcome
<1> QED BY <1>1, <1>6, <1>7

(* What it is to be next in turn, in terms of outcomes. *)
LEMMA TurnMapped ==
  ASSUME NEW b \in Bars
  PROVE  Trading!Turn(b) <=>
           Outcome(b) = "open" /\ \A c \in Bars : c < b => Outcome(c) # "open"
BY DEF Trading!Turn, Trading!Bars, Bars, Outcome

(* Saving a fill is the abstract fill. *)
LEMMA SaveBookRefines ==
  ASSUME IInv, SaveBook, owed, Fixed PROVE Trading!Next
<1> USE DEF IInv
<1>1. /\ pc = "save_book" /\ pc \in Deciding
      /\ bookFile' = book /\ UNCHANGED <<ledger, decision>>
      /\ ~Done(bar) /\ decision \notin Applied /\ decision.bar = bar /\ bookFile # None
  BY DEF SaveBook, Progress, Remembered, Memory, Deciding
<1>2. PICK e \in Recorded(decision) : e.approved BY <1>1 DEF Remembered
<1>3. e \in ledger /\ e.type = "RISK_EVALUATION" /\ e.decision = decision
  BY DEF Recorded
<1>4. Affordable(bookFile, Side(decision), Quantity, price[bar], RiskLimits)
      /\ Side(decision) \in {"BUY", "SELL"}
  BY <1>1, <1>2, <1>3 DEF ApprovalStillFits, Outcomes
<1>5. PICK b \in Bars : b = bar BY <1>1, InTurn
<1>6. PICK side \in {"BUY", "SELL"} : side = Side(decision) BY <1>4
<1>7. Trading!Turn(b) BY <1>1, <1>5, InTurn, TurnMapped
<1>8. Trading!Affordable(Trading!Book, side, Quantity, price[b], RiskLimits)
  BY <1>1, <1>4, <1>5, <1>6
     DEF Trading!Affordable, Affordable, Trading!Book, Trading!Equity, Equity
<1>9. bookFile' = [Filled(bookFile, Side(decision), Quantity, price[bar])
                     EXCEPT !.applied = @ \cup {decision}]
  BY <1>1 DEF Memory
<1>10. bookFile \in BookState /\ bookFile' # None BY <1>1, NoneApart DEF TypeOK, Memory
<1>11. /\ Cash' = Trading!Filled(Trading!Book, side, Quantity, price[b]).cash
      /\ Position' = Trading!Filled(Trading!Book, side, Quantity, price[b]).position
  BY <1>1, <1>5, <1>9, <1>10, <1>6
     DEF Cash, Position, Trading!Filled, Filled, Trading!Book, BookState
<1>12. Applied' = Applied \cup {decision} /\ Refused' = Refused
  BY <1>1, SavedApplied DEF Refused
<1>13. \A c \in Bars : Outcome(c)' = IF c = b THEN "filled" ELSE Outcome(c)
  BY <1>1, <1>5, <1>12 DEF Outcome
<1>14. [c \in Bars |-> Outcome(c)]'
         = [[c \in Bars |-> Outcome(c)] EXCEPT ![b] = "filled"]
  BY <1>5, <1>13 DEF Fixed
<1>15. Trading!Fill(b, side)
  BY <1>8, <1>11, <1>14, <1>7 DEF Trading!Fill, Outcome, Cash, Position, Fixed
<1> QED BY <1>15 DEF Trading!Next, Trading!Bars, Bars

(* Recording a refusal is the abstract refusal. *)
LEMMA BlockRefines ==
  ASSUME IInv, Block, Fixed PROVE Trading!Next
<1> USE DEF IInv
<1>1. /\ pc = "act" /\ pc \in Deciding /\ ~approved /\ UNCHANGED bookFile /\ ~Done(bar)
      /\ decision.bar = bar /\ AppendEvent(Event("RISK_BLOCK", decision))
  BY DEF Block, Progress, Memory, Deciding
<1>2. decision \notin Applied
  <2>1. \E e \in Recorded(decision) : ~e.approved BY <1>1 DEF Remembered
  <2> QED BY <2>1 DEF Outcomes, Recorded
<1>3. PICK b \in Bars : b = bar BY <1>1, <1>2, InTurn
<1>4. Trading!Turn(b) /\ Outcome(b) = "open" BY <1>1, <1>2, <1>3, InTurn, TurnMapped
<1>5. Applied' = Applied /\ Cash' = Cash /\ Position' = Position
  BY <1>1 DEF Applied, Cash, Position
<1>6. ~Has("RISK_BLOCK", decision) BY <1>1 DEF Done, Has
<1>7. ledger' = ledger \cup {Event("RISK_BLOCK", decision)}
  BY <1>1, <1>6 DEF AppendEvent, Event
<1>8. Refused' = Refused \cup {decision}
  <2> DEFINE new == Event("RISK_BLOCK", decision)
  <2>1. new.type = "RISK_BLOCK" /\ new.decision = decision BY DEF Event
  <2>2. ledger' = ledger \cup {new} BY <1>7
  <2> HIDE DEF new
  <2> QED BY <2>1, <2>2 DEF Refused
<1>9. \A c \in Bars : Outcome(c)' = IF c = b THEN "refused" ELSE Outcome(c)
  BY <1>1, <1>3, <1>5, <1>8, <1>4 DEF Outcome
<1>10. [c \in Bars |-> Outcome(c)]'
         = [[c \in Bars |-> Outcome(c)] EXCEPT ![b] = "refused"]
  BY <1>3, <1>9 DEF Fixed
<1>11. Trading!Refuse(b)
  BY <1>5, <1>10, <1>4 DEF Trading!Refuse, Outcome, Cash, Position, Fixed
<1> QED BY <1>11 DEF Trading!Next, Trading!Bars, Bars

(* Every other step leaves the abstract state as it is. *)
LEMMA Stutters ==
  ASSUME Fixed, UNCHANGED <<Applied, Refused, Cash, Position>>
  PROVE  UNCHANGED Trading!vars
BY DEF Trading!vars, Fixed, Cash, Position

(* Cash and position change only when a fill is saved. *)
LEMMA BookStep ==
  ASSUME IInv, [Next]_vars
  PROVE  UNCHANGED <<Cash, Position>> \/ (SaveBook /\ owed)
<1>1. CASE Start
  BY <1>1, LoadedTyped, NoneApart DEF Start, LoadedBook, Cash, Position, IInv
<1>2. CASE SaveBook
  <2>1. ~owed => bookFile' = bookFile BY <1>2 DEF SaveBook, IInv, Memory
  <2> QED BY <1>2, <2>1 DEF Cash, Position
<1>3. CASE UNCHANGED bookFile BY <1>3 DEF Cash, Position
<1> QED
  BY <1>1, <1>2, <1>3 DEF Next, Step, vars, Halt, Finish, Propose, Evaluate, Collide,
  Skip, Lookup, EvaluateRisk, AppendDecision, Backfill, Kill, Fill, Block, SaveSession,
  AppendOrder, Promote, Crash, disk

(* The engine with its files and crashes implements PaperTrading: each bar *)
(* is decided once and in order, a fill and its booking are one step, and  *)
(* no fill exceeds the limits.                                             *)
THEOREM PaperImplementsTrading == Spec => ImplementsPaperTrading
<1>1. ASSUME Init PROVE Trading!Init
  BY <1>1 DEF Init, Trading!Init, Trading!Bars, Bars, Applied, Refused
<1>2. ASSUME IInv, [Next]_vars PROVE [Trading!Next]_(Trading!vars)
  <2>1. Fixed BY <1>2, SetupFixed
  <2>2. CASE SaveBook /\ owed BY <1>2, <2>1, <2>2, SaveBookRefines
  <2>3. CASE Block BY <1>2, <2>1, <2>3, BlockRefines
  <2>4. CASE ~(SaveBook /\ owed) /\ ~Block
    BY <1>2, <2>1, <2>4, Stutters, AppliedStep, RefusedStep, BookStep
  <2> QED BY <2>2, <2>3, <2>4
<1> QED BY <1>1, <1>2, Invariant, PTL DEF Spec, ImplementsPaperTrading, Trading!Spec

-----------------------------------------------------------------------------
(* The replay of orders.  Expected folds over a sequence; the induction is  *)
(* over sets of indices, as that of SumProofs is over subsets.               *)

\* What is expected before any order.
Opening == [cash |-> StartingCash, position |-> 0, oversold |-> FALSE]

\* An order the portfolio has applied counts.
Account(applied, before, order) ==
  IF order.id \in applied THEN Booked(before, order) ELSE before

\* The amounts expected after the orders of indices s, from those expected
\* without the last of them.
AfterOrders(replay, applied, orders, s) ==
  IF s = {} THEN Opening
  ELSE Account(applied, replay[s \ {Max(s)}], orders[Max(s)])

\* replay gives the amounts expected after each set of the orders.
IsReplay(replay, applied, orders, S) ==
  \A s \in SUBSET S : replay[s] = AfterOrders(replay, applied, orders, s)

\* The same orders at the indices S, and the same of them applied.
SameOrders(S, a, orders, b, more) ==
  \A i \in S : more[i] = orders[i] /\ (orders[i].id \in a <=> orders[i].id \in b)

\* Some of the numbers up to one.
Indices(S) == \E n \in Nat : S \in SUBSET (1..n)

(* A set of numbers up to n is finite. *)
LEMMA IndicesFinite ==
  ASSUME NEW S, Indices(S) PROVE IsFiniteSet(S)
<1>1. PICK n \in Nat : S \in SUBSET (1..n) BY DEF Indices
<1>2. IsFiniteSet(1..n) BY FS_Interval
<1> QED BY <1>1, <1>2, FS_Subset

(* Of some numbers up to n, one is the largest. *)
LEMMA MaxIsElement ==
  ASSUME NEW S, Indices(S), S # {} PROVE Max(S) \in S
<1> DEFINE Largest(s) == \E x \in s : \A y \in s : x >= y
           good == {s \in SUBSET S : s # {} => Largest(s)}
<1>1. S \subseteq Int BY DEF Indices
<1>2. ASSUME NEW s \in SUBSET S, \A r \in SUBSET s : r # s => r \in good
      PROVE  s \in good
  <2> SUFFICES ASSUME s # {} PROVE Largest(s) OBVIOUS
  <2>1. PICK e \in s : e \in Int BY <1>1
  <2>2. s \ {e} \in good BY <1>2, <2>1
  <2>3. CASE s \ {e} = {}
    <3>1. \A y \in s : y = e BY <2>3
    <3> QED BY <2>1, <3>1
  <2>4. CASE s \ {e} # {}
    <3>1. PICK m \in s \ {e} : \A y \in s \ {e} : m >= y BY <2>2, <2>4
    <3>2. \A y \in s : y = e \/ m >= y BY <3>1
    <3>3. m \in Int BY <1>1, <3>1
    <3> QED BY <2>1, <3>1, <3>2, <3>3
  <2> QED BY <2>3, <2>4
<1>3. IsFiniteSet(S) /\ good \in SUBSET SUBSET S BY IndicesFinite
<1> HIDE DEF good
<1>4. good = SUBSET S BY <1>2, <1>3, SubsetInduction
<1>5. Largest(S) BY <1>4 DEF good
<1> QED BY <1>5 DEF Max

(* Replays of the same orders agree if the same of them were applied. *)
LEMMA ReplaysAgree ==
  ASSUME NEW S, Indices(S), NEW a, NEW b, NEW orders, NEW more,
         SameOrders(S, a, orders, b, more),
         NEW t, IsReplay(t, a, orders, S), NEW u, IsReplay(u, b, more, S)
  PROVE  t[S] = u[S]
<1> DEFINE good == {s \in SUBSET S : t[s] = u[s]}
<1>1. ASSUME NEW s \in SUBSET S, \A r \in SUBSET s : r # s => r \in good
      PROVE  s \in good
  <2>1. t[s] = AfterOrders(t, a, orders, s) /\ u[s] = AfterOrders(u, b, more, s)
    BY DEF IsReplay
  <2>2. CASE s = {} BY <2>1, <2>2 DEF AfterOrders
  <2>3. CASE s # {}
    <3> DEFINE m == Max(s)
    <3>1. m \in s BY <2>3, MaxIsElement DEF Indices
    <3>2. /\ t[s] = Account(a, t[s \ {m}], orders[m])
          /\ u[s] = Account(b, u[s \ {m}], more[m])
      BY <2>1, <2>3 DEF AfterOrders
    <3> HIDE DEF m
    <3>3. s \ {m} \in good BY <1>1, <3>1
    <3> QED BY <3>1, <3>2, <3>3 DEF Account, SameOrders
  <2> QED BY <2>2, <2>3
<1>2. IsFiniteSet(S) /\ good \in SUBSET SUBSET S BY IndicesFinite DEF Indices
<1> HIDE DEF good
<1>3. good = SUBSET S BY <1>1, <1>2, SubsetInduction
<1> QED BY <1>3 DEF good

(* Every sequence of orders has a replay. *)
LEMMA ReplaysExist ==
  ASSUME NEW n \in Nat, NEW a, NEW orders
  PROVE  \E t : IsReplay(t, a, orders, 1..n)
<1> DEFINE S == 1..n
           Replay(s) == CHOOSE t : IsReplay(t, a, orders, s)
           good == {s \in SUBSET S : \E t : IsReplay(t, a, orders, s)}
<1>1. ASSUME NEW s \in SUBSET S, \A r \in SUBSET s : r # s => r \in good
      PROVE  s \in good
  <2> DEFINE of == [r \in SUBSET s |-> Replay(r)[r]]
             t == [r \in SUBSET s |-> AfterOrders(of, a, orders, r)]
  <2>1. ASSUME NEW r \in SUBSET s, r # s PROVE IsReplay(Replay(r), a, orders, r)
    BY <1>1, <2>1
  <2> HIDE DEF Replay
  <2>2. ASSUME NEW r \in SUBSET s, r # s PROVE of[r] = t[r]
    <3>1. of[r] = AfterOrders(Replay(r), a, orders, r) BY <2>1, <2>2 DEF IsReplay
    <3>2. CASE r = {} BY <3>1, <3>2 DEF AfterOrders
    <3>3. CASE r # {}
      <4> DEFINE q == r \ {Max(r)}
      <4>1. Max(r) \in r BY <3>3, MaxIsElement DEF Indices
      <4>2. q \in SUBSET (1..n) /\ q \in SUBSET s /\ q # s /\ q \subseteq r
        BY <2>2, <4>1
      <4>3. /\ IsReplay(Replay(r), a, orders, r)
            /\ IsReplay(Replay(q), a, orders, q)
        BY <2>1, <2>2, <4>2
      <4>4. Replay(r)[q] = Replay(q)[q]
        <5>1. IsReplay(Replay(r), a, orders, q) BY <4>2, <4>3 DEF IsReplay
        <5>2. SameOrders(q, a, orders, a, orders) BY DEF SameOrders
        <5>3. Indices(q) BY <4>2 DEF Indices
        <5> HIDE DEF q
        <5> QED BY <4>3, <5>1, <5>2, <5>3, ReplaysAgree
      <4>5. of[q] = Replay(r)[q] BY <4>2, <4>4
      <4> HIDE DEF of
      <4> QED BY <2>2, <3>1, <3>3, <4>5 DEF AfterOrders
    <3> QED BY <3>2, <3>3
  <2>3. ASSUME NEW r \in SUBSET s
        PROVE  AfterOrders(of, a, orders, r) = AfterOrders(t, a, orders, r)
    <3>1. CASE r # {}
      <4>1. Max(r) \in r BY <3>1, MaxIsElement DEF Indices
      <4>2. of[r \ {Max(r)}] = t[r \ {Max(r)}]
        <5> HIDE DEF of, t
        <5> QED BY <2>2, <4>1
      <4> HIDE DEF of, t
      <4> QED BY <3>1, <4>2 DEF AfterOrders
    <3> QED BY <3>1 DEF AfterOrders
  <2>4. IsReplay(t, a, orders, s)
    <3> HIDE DEF of
    <3> QED BY <2>3 DEF IsReplay
  <2> HIDE DEF t
  <2> QED BY <2>4
<1>2. IsFiniteSet(S) /\ good \in SUBSET SUBSET S BY IndicesFinite DEF Indices
<1> HIDE DEF good
<1>3. good = SUBSET S BY <1>1, <1>2, SubsetInduction
<1> QED BY <1>3 DEF good

(* What is expected of a sequence of orders is its replay. *)
LEMMA ExpectedIsReplay ==
  ASSUME NEW portfolio, NEW n \in Nat, NEW orders, DOMAIN orders = 1..n,
         NEW t, IsReplay(t, portfolio.applied, orders, 1..n)
  PROVE  Expected(portfolio, orders, StartingCash) = t[1..n]
<1> DEFINE a == portfolio.applied
           S == 1..n
           IsIter(it) == it = [s \in SUBSET S |-> AfterOrders(it, a, orders, s)]
           iter == CHOOSE it : IsIter(it)
           r == [s \in SUBSET S |-> t[s]]
<1>1. Expected(portfolio, orders, StartingCash) = iter[S]
  BY DEF Expected, FoldLeft, MapThenFoldSet, AfterOrders, Opening, Account
<1>2. IsIter(r)
  <2>1. ASSUME NEW s \in SUBSET S PROVE t[s] = AfterOrders(r, a, orders, s)
    <3>1. t[s] = AfterOrders(t, a, orders, s) BY DEF IsReplay
    <3>2. s \ {Max(s)} \in SUBSET S OBVIOUS
    <3>3. r[s \ {Max(s)}] = t[s \ {Max(s)}] BY <3>2
    <3> HIDE DEF r
    <3> QED BY <3>1, <3>3 DEF AfterOrders
  <2>2. [s \in SUBSET S |-> t[s]] = [s \in SUBSET S |-> AfterOrders(r, a, orders, s)]
    <3> HIDE DEF r
    <3> QED BY <2>1
  <2> QED BY <2>2
<1> HIDE DEF IsIter
<1>3. IsIter(iter) BY <1>2
<1>4. IsReplay(iter, a, orders, S)
  <2> HIDE DEF iter
  <2> QED BY <1>3 DEF IsIter, IsReplay
<1>5. iter[S] = t[S]
  <2>1. SameOrders(S, a, orders, a, orders) BY DEF SameOrders
  <2>2. Indices(S) /\ IsReplay(t, a, orders, S) BY DEF Indices
  <2> HIDE DEF iter, S, a
  <2> QED BY <1>4, <2>1, <2>2, ReplaysAgree
<1> QED BY <1>1, <1>5

(* Nothing is expected of no orders but the start. *)
LEMMA ExpectedOfNone ==
  ASSUME NEW portfolio, NEW orders, DOMAIN orders = 1..0
  PROVE  Expected(portfolio, orders, StartingCash) = Opening
<1>1. PICK t : IsReplay(t, portfolio.applied, orders, 1..0) BY ReplaysExist
<1>2. 1..0 = {} OBVIOUS
<1>3. t[1..0] = Opening BY <1>1, <1>2 DEF IsReplay, AfterOrders
<1> QED BY <1>1, <1>3, ExpectedIsReplay

(* One more order is accounted for after all the others. *)
LEMMA ExpectedAppends ==
  ASSUME NEW before, NEW after, NEW n \in Nat, NEW orders, NEW more,
         DOMAIN orders = 1..n, DOMAIN more = 1..(n + 1),
         SameOrders(1..n, before.applied, orders, after.applied, more)
  PROVE  Expected(after, more, StartingCash) =
           Account(after.applied, Expected(before, orders, StartingCash), more[n + 1])
<1>1. PICK t : IsReplay(t, before.applied, orders, 1..n) BY ReplaysExist
<1>2. PICK u : IsReplay(u, after.applied, more, 1..(n + 1)) BY ReplaysExist
<1>3. Expected(before, orders, StartingCash) = t[1..n] BY <1>1, ExpectedIsReplay
<1>4. Expected(after, more, StartingCash) = u[1..(n + 1)] BY <1>2, ExpectedIsReplay
<1>5. /\ n + 1 \in Nat /\ 1..(n + 1) # {} /\ 1..n \in SUBSET (1..n)
      /\ 1..n \subseteq 1..(n + 1) /\ (1..(n + 1)) \ {n + 1} = 1..n
      /\ 1..(n + 1) \in SUBSET (1..(n + 1))
  OBVIOUS
<1>6. Max(1..(n + 1)) = n + 1
  <2>1. n + 1 \in 1..(n + 1) /\ \A y \in 1..(n + 1) : n + 1 >= y OBVIOUS
  <2>2. \A x \in 1..(n + 1) : x >= n + 1 => x = n + 1 OBVIOUS
  <2> QED BY <2>1, <2>2 DEF Max
<1>7. u[1..(n + 1)] = Account(after.applied, u[1..n], more[n + 1])
  <2>1. u[1..(n + 1)] = AfterOrders(u, after.applied, more, 1..(n + 1))
    BY <1>2, <1>5 DEF IsReplay
  <2> QED BY <1>5, <1>6, <2>1 DEF AfterOrders
<1>8. t[1..n] = u[1..n]
  <2>1. IsReplay(u, after.applied, more, 1..n) BY <1>2, <1>5 DEF IsReplay
  <2>2. Indices(1..n) BY DEF Indices
  <2> QED BY <1>1, <2>1, <2>2, ReplaysAgree
<1> QED BY <1>3, <1>4, <1>7, <1>8

\* What a replay counts.
Amounts == [cash : Int, position : Int, oversold : BOOLEAN]

(* The start is amounts. *)
LEMMA OpeningTyped == Opening \in Amounts
<1>1. StartingCash \in Int BY PaperAssumption
<1> QED BY <1>1 DEF Opening, Amounts

(* The three things an order does to amounts. *)
LEMMA BookedCases ==
  ASSUME NEW x \in Amounts, NEW order
  PROVE  /\ order.side = "BUY" =>
              Booked(x, order) = [cash |-> x.cash - order.notional,
                                  position |-> x.position + order.quantity,
                                  oversold |-> x.oversold]
         /\ order.side # "BUY" /\ order.quantity > x.position =>
              Booked(x, order) = [cash |-> x.cash, position |-> x.position,
                                  oversold |-> TRUE]
         /\ order.side # "BUY" /\ ~(order.quantity > x.position) =>
              Booked(x, order) = [cash |-> x.cash + order.notional,
                                  position |-> x.position - order.quantity,
                                  oversold |-> x.oversold]
BY DEF Booked, Amounts

(* An order makes amounts of amounts. *)
LEMMA BookedTyped ==
  ASSUME NEW x \in Amounts, NEW order, order.notional \in Int, order.quantity \in Int
  PROVE  Booked(x, order) \in Amounts
<1>1. x.cash \in Int /\ x.position \in Int /\ x.oversold \in BOOLEAN BY DEF Amounts
<1>2. CASE order.side = "BUY"
  <2>1. x.cash - order.notional \in Int /\ x.position + order.quantity \in Int
    BY <1>1
  <2> QED BY <1>1, <1>2, <2>1, BookedCases DEF Amounts
<1>3. CASE order.side # "BUY" /\ order.quantity > x.position
  <2>1. [cash |-> x.cash, position |-> x.position, oversold |-> TRUE] \in Amounts
    BY <1>1 DEF Amounts
  <2> QED BY <1>3, <2>1, BookedCases
<1>4. CASE order.side # "BUY" /\ ~(order.quantity > x.position)
  <2>1. x.cash + order.notional \in Int /\ x.position - order.quantity \in Int
    BY <1>1
  <2> QED BY <1>1, <1>4, <2>1, BookedCases DEF Amounts
<1> QED BY <1>2, <1>3, <1>4

(* What is expected are amounts. *)
LEMMA ExpectedTyped ==
  ASSUME NEW portfolio, NEW n \in Nat, NEW orders, DOMAIN orders = 1..n,
         \A i \in 1..n : orders[i].notional \in Int /\ orders[i].quantity \in Int
  PROVE  Expected(portfolio, orders, StartingCash) \in Amounts
<1> DEFINE S == 1..n
<1>1. PICK t : IsReplay(t, portfolio.applied, orders, S) BY ReplaysExist
<1> DEFINE good == {s \in SUBSET S : t[s] \in Amounts}
<1>2. ASSUME NEW s \in SUBSET S, \A r \in SUBSET s : r # s => r \in good
      PROVE  s \in good
  <2>1. t[s] = AfterOrders(t, portfolio.applied, orders, s) BY <1>1 DEF IsReplay
  <2>2. CASE s = {} BY <2>1, <2>2, OpeningTyped DEF AfterOrders
  <2>3. CASE s # {}
    <3> DEFINE m == Max(s)
               x == t[s \ {m}]
    <3>1. m \in s BY <2>3, MaxIsElement DEF Indices
    <3>2. t[s] = Account(portfolio.applied, x, orders[m]) BY <2>1, <2>3 DEF AfterOrders
    <3>3. s \ {m} \in good
      <4> HIDE DEF m
      <4> QED BY <1>2, <3>1
    <3>4. x \in Amounts /\ orders[m].notional \in Int /\ orders[m].quantity \in Int
      BY <3>1, <3>3
    <3> HIDE DEF m, x
    <3>5. Booked(x, orders[m]) \in Amounts BY <3>4, BookedTyped
    <3> QED BY <3>2, <3>4, <3>5 DEF Account
  <2> QED BY <2>2, <2>3
<1>3. IsFiniteSet(S) /\ good \in SUBSET SUBSET S BY IndicesFinite DEF Indices
<1> HIDE DEF good
<1>4. good = SUBSET S BY <1>2, <1>3, SubsetInduction
<1>5. t[S] \in Amounts BY <1>4 DEF good
<1> QED BY <1>1, <1>5, ExpectedIsReplay

-----------------------------------------------------------------------------
(* The orders of a set of decisions *)

\* The place of a decision among those of S.
Place(S, d) == Cardinality({e \in S : e.bar <= d.bar})

\* A finite number of decisions, each about a bar of its own.
OnePerBar(S) ==
  /\ IsFiniteSet(S)
  /\ \A d \in S : d.bar \in Nat
  /\ \A d, e \in S : d.bar = e.bar => d = e

(* Decisions take the places from the first to the last, each its own. *)
LEMMA PlacesTaken ==
  ASSUME NEW S, OnePerBar(S)
  PROVE  /\ Cardinality(S) \in Nat
         /\ \A d \in S : Place(S, d) \in 1..Cardinality(S)
         /\ \A d, e \in S : Place(S, d) = Place(S, e) => d = e
         /\ \A i \in 1..Cardinality(S) : \E d \in S : Place(S, d) = i
<1> DEFINE n == Cardinality(S)
           Upto(d) == {e \in S : e.bar <= d.bar}
<1>1. n \in Nat BY FS_CardinalityType DEF OnePerBar
<1>2. ASSUME NEW d \in S
      PROVE  IsFiniteSet(Upto(d)) /\ Place(S, d) \in Nat /\ Place(S, d) \in 1..n
  <2>1. IsFiniteSet(Upto(d)) /\ Cardinality(Upto(d)) <= n
    BY FS_Subset DEF OnePerBar
  <2>2. Cardinality(Upto(d)) \in Nat BY <2>1, FS_CardinalityType
  <2>3. Upto(d) # {} BY DEF OnePerBar
  <2>4. Cardinality(Upto(d)) # 0 BY <2>1, <2>3, FS_EmptySet
  <2>5. Place(S, d) = Cardinality(Upto(d)) BY DEF Place
  <2> HIDE DEF Upto, n
  <2> QED BY <1>1, <2>1, <2>2, <2>4, <2>5
<1>3. ASSUME NEW d \in S, NEW e \in S, d.bar < e.bar PROVE Place(S, d) # Place(S, e)
  <2>1. Upto(d) \in SUBSET Upto(e) /\ e \in Upto(e) /\ e \notin Upto(d)
    BY <1>3 DEF OnePerBar
  <2>2. IsFiniteSet(Upto(e)) BY <1>2
  <2>3. Upto(d) # Upto(e) BY <2>1
  <2>4. Cardinality(Upto(d)) # Cardinality(Upto(e))
    <3> HIDE DEF Upto
    <3> QED BY <2>1, <2>2, <2>3, FS_Subset
  <2> QED BY <2>4 DEF Place
<1>4. ASSUME NEW d \in S, NEW e \in S, d # e PROVE Place(S, d) # Place(S, e)
  <2>1. d.bar < e.bar \/ e.bar < d.bar BY <1>4 DEF OnePerBar
  <2> QED BY <1>3, <2>1
<1> DEFINE place == [d \in S |-> Place(S, d)]
<1>5. place \in Injection(S, 1..n)
  <2> HIDE DEF n
  <2> QED BY <1>2, <1>4 DEF Injection, IsInjective
<1>6. IsFiniteSet(1..n) /\ Cardinality(1..n) = n BY <1>1, FS_Interval
<1>7. place \in Surjection(S, 1..n)
  <2> HIDE DEF place
  <2>1. Cardinality(S) = Cardinality(1..n) BY <1>6
  <2> QED BY <1>5, <1>6, <2>1, FS_Injection
<1>8. \A i \in 1..n : \E d \in S : Place(S, d) = i
  <2> HIDE DEF n
  <2> QED BY <1>7 DEF Surjection
<1> QED BY <1>1, <1>2, <1>4, <1>8

(* The places of decisions give their orders. *)
LEMMA OrdersPlaced ==
  ASSUME NEW S, OnePerBar(S)
  PROVE  /\ DOMAIN OrdersOf(S) = 1..Cardinality(S)
         /\ \A d \in S : OrdersOf(S)[Place(S, d)] = PaperOrder(d)
<1>1. DOMAIN OrdersOf(S) = 1..Cardinality(S) BY DEF OrdersOf
<1>2. ASSUME NEW d \in S PROVE OrdersOf(S)[Place(S, d)] = PaperOrder(d)
  <2> DEFINE i == Place(S, d)
  <2>1. i \in 1..Cardinality(S) BY PlacesTaken
  <2>2. (CHOOSE e \in S : Place(S, e) = i) = d BY PlacesTaken
  <2>3. OrdersOf(S)[i] = PaperOrder(CHOOSE e \in S : Place(S, e) = i)
    <3> HIDE DEF i
    <3> QED BY <2>1 DEF OrdersOf, Place
  <2> QED BY <2>2, <2>3
<1> QED BY <1>1, <1>2

(* The order of the latest decision comes last. *)
LEMMA OrdersAppend ==
  ASSUME NEW S, OnePerBar(S), NEW d, d.bar \in Nat, \A e \in S : e.bar < d.bar
  PROVE  /\ OnePerBar(S \cup {d}) /\ Cardinality(S \cup {d}) = Cardinality(S) + 1
         /\ \A i \in 1..Cardinality(S) : OrdersOf(S \cup {d})[i] = OrdersOf(S)[i]
         /\ OrdersOf(S \cup {d})[Cardinality(S) + 1] = PaperOrder(d)
<1> DEFINE T == S \cup {d}
           n == Cardinality(S)
<1>1. d \notin S BY DEF OnePerBar
<1>2. OnePerBar(T)
  <2>1. IsFiniteSet(T) BY FS_AddElement DEF OnePerBar
  <2>2. \A e \in T : e.bar \in Nat BY DEF OnePerBar
  <2>3. \A e, f \in T : e.bar = f.bar => e = f BY DEF OnePerBar
  <2> QED BY <2>1, <2>2, <2>3 DEF OnePerBar
<1>3. Cardinality(T) = n + 1 /\ n \in Nat
  BY <1>1, FS_AddElement, PlacesTaken DEF OnePerBar
<1>4. ASSUME NEW e \in S PROVE Place(T, e) = Place(S, e)
  <2>1. {f \in T : f.bar <= e.bar} = {f \in S : f.bar <= e.bar} BY DEF OnePerBar
  <2> QED BY <2>1 DEF Place
<1>5. Place(T, d) = n + 1
  <2>1. {f \in T : f.bar <= d.bar} = T BY DEF OnePerBar
  <2> QED BY <1>3, <2>1 DEF Place
<1>6. ASSUME NEW i \in 1..n PROVE OrdersOf(T)[i] = OrdersOf(S)[i]
  <2>1. PICK e \in S : Place(S, e) = i BY PlacesTaken
  <2>2. OrdersOf(S)[i] = PaperOrder(e) BY <2>1, OrdersPlaced
  <2>3. OrdersOf(T)[Place(T, e)] = PaperOrder(e)
    <3>1. e \in T OBVIOUS
    <3> HIDE DEF T
    <3> QED BY <1>2, <3>1, OrdersPlaced
  <2> QED BY <1>4, <2>1, <2>2, <2>3
<1>7. OrdersOf(T)[n + 1] = PaperOrder(d)
  <2>1. d \in T OBVIOUS
  <2> HIDE DEF T
  <2> QED BY <1>2, <1>5, <2>1, OrdersPlaced
<1> QED BY <1>2, <1>3, <1>6, <1>7

(* The orders of a set of decisions are about these decisions. *)
LEMMA OrderIdsAre ==
  ASSUME NEW S, OnePerBar(S)
  PROVE  OrderIds(OrdersOf(S)) = S /\ Len(OrdersOf(S)) = Cardinality(S)
<1> DEFINE n == Cardinality(S)
           o == OrdersOf(S)
<1>1. DOMAIN o = 1..n /\ \A d \in S : o[Place(S, d)] = PaperOrder(d)
  BY OrdersPlaced
<1>2. n \in Nat /\ \A d \in S : Place(S, d) \in 1..n BY PlacesTaken
<1>3. \A i \in 1..n : \E d \in S : o[i] = PaperOrder(d)
  <2> HIDE DEF o
  <2> QED BY <1>1, PlacesTaken
<1>4. \A d : PaperOrder(d).id = d BY DEF PaperOrder
<1>5. OrderIds(o) = {o[i].id : i \in 1..n}
  <2> HIDE DEF o
  <2> QED BY <1>1 DEF OrderIds, ToSet
<1>6. OrderIds(o) = S
  <2> HIDE DEF o
  <2> QED BY <1>1, <1>2, <1>3, <1>4, <1>5
<1>7. Len(o) = n
  <2>1. o = [i \in 1..n |-> o[i]] BY DEF OrdersOf
  <2> HIDE DEF o, n
  <2> QED BY <1>2, <2>1
<1> QED BY <1>6, <1>7

-----------------------------------------------------------------------------
(* The orders of the ledger replayed against the portfolio file *)

\* The orders of what the portfolio file has applied, replayed, give its
\* amounts; no sale among them exceeds what was held.
Explained ==
  /\ IsFiniteSet(Applied)
  /\ bookFile # None =>
       Expected(bookFile, OrdersOf(Applied), StartingCash) =
         [cash |-> bookFile.cash, position |-> bookFile.position, oversold |-> FALSE]

(* The decisions applied are of different bars. *)
LEMMA AppliedApart ==
  ASSUME IInv, IsFiniteSet(Applied)
  PROVE  /\ OnePerBar(Applied)
         /\ \A S \in SUBSET Applied : OnePerBar(S)
<1>1. \A d \in Applied : \E e \in ledger : e.decision = d
  BY DEF IInv, Outcomes, Has
<1>2. \A d \in Applied : Made(d) BY <1>1 DEF IInv, Origin
<1>3. \A d \in Applied : d.bar \in Nat
  BY <1>1, PriceTyped DEF IInv, TypeOK, Decision
<1>4. \A d, e \in Applied : d.bar = e.bar => d = e
  BY <1>2, MadeOnce DEF IInv
<1>5. \A S \in SUBSET Applied : IsFiniteSet(S) BY FS_Subset
<1> QED BY <1>3, <1>4, <1>5 DEF OnePerBar

(* A fill that is about to be saved is later than all that were. *)
LEMMA FillIsLatest ==
  ASSUME IInv, pc = "save_book", owed, NEW d \in Applied PROVE d.bar < bar
<1> USE DEF IInv
<1>1. PICK e \in ledger : e.decision = d BY DEF Outcomes, Has
<1>2. d.bar \in Bars /\ d.bar \in Nat /\ bar \in Bars /\ bar \in Nat
  BY <1>1, PriceTyped DEF TypeOK, Decision, Memory, Working, Deciding
<1>3. ~(bar < d.bar) BY <1>1, <1>2 DEF Progress
<1>4. d.bar # bar
  <2>1. decision \notin Applied /\ decision.bar = bar /\ Made(decision)
    BY DEF Remembered, Memory, Origin, Deciding
  <2> QED BY <1>1, <2>1, MadeOnce DEF Origin
<1> QED BY <1>2, <1>3, <1>4

(* A step that leaves the portfolio file alone keeps Explained. *)
LEMMA ExplainedKept ==
  ASSUME Explained, Fixed, UNCHANGED bookFile PROVE Explained'
<1>1. Applied' = Applied BY DEF Applied
<1>2. OrdersOf(Applied)' = OrdersOf(Applied) BY <1>1 DEF Fixed, OrdersOf, PaperOrder
<1> QED BY <1>1, <1>2 DEF Explained

(* A new portfolio has applied nothing. *)
LEMMA NewExplained ==
  ASSUME Fixed, bookFile' # None, bookFile'.applied = {},
         bookFile'.cash = StartingCash, bookFile'.position = 0
  PROVE  Explained'
<1>1. Applied' = {} BY DEF Applied
<1>2. IsFiniteSet({}) /\ Cardinality({}) = 0 BY FS_EmptySet
<1>3. DOMAIN OrdersOf({}) = 1..0 BY <1>2 DEF OrdersOf
<1>4. OrdersOf(Applied)' = OrdersOf({})
  BY <1>1 DEF Fixed, OrdersOf, PaperOrder
<1>5. Expected(bookFile', OrdersOf({}), StartingCash) = Opening
  BY <1>3, ExpectedOfNone
<1> QED BY <1>1, <1>2, <1>4, <1>5 DEF Explained, Opening

(* Accounting for an order is what the fill does to the portfolio. *)
LEMMA BookedAsFilled ==
  ASSUME TypeOK, NEW b \in BookState, NEW d \in Decision, Side(d) \in {"BUY", "SELL"},
         NEW after, after = [Filled(b, Side(d), Quantity, price[d.bar])
                               EXCEPT !.applied = @ \cup {d}],
         after.position >= 0
  PROVE  Booked([cash |-> b.cash, position |-> b.position, oversold |-> FALSE],
                PaperOrder(d))
           = [cash |-> after.cash, position |-> after.position, oversold |-> FALSE]
<1> DEFINE q == Quantity
           n == q * price[d.bar]
<1>1. q \in Nat /\ price[d.bar] \in Nat BY PriceTyped, PaperAssumption DEF Decision
<1>2. n \in Nat BY <1>1, Product
<1>3. b.cash \in Nat /\ b.position \in Nat BY DEF BookState
<1> DEFINE o == PaperOrder(d)
           x == [cash |-> b.cash, position |-> b.position, oversold |-> FALSE]
<1>4. o.side = Side(d) /\ o.quantity = q /\ o.notional = n BY DEF PaperOrder
<1>5. x \in Amounts BY <1>3 DEF Amounts
<1>6. x.cash = b.cash /\ x.position = b.position /\ x.oversold = FALSE OBVIOUS
<1>7. /\ after.cash = IF Side(d) = "SELL" THEN b.cash + n ELSE b.cash - n
      /\ after.position = IF Side(d) = "SELL" THEN b.position - q ELSE b.position + q
  BY DEF Filled, BookState
<1> HIDE DEF n, q, o, x
<1>8. Booked(x, o) = [cash |-> after.cash, position |-> after.position,
                      oversold |-> FALSE]
  BY <1>1, <1>2, <1>3, <1>4, <1>5, <1>6, <1>7, BookedCases
<1> QED BY <1>8 DEF o, x

(* Saving a fill appends its order. *)
LEMMA SavedExplained ==
  ASSUME IInv, IInv', Fixed, Explained, SaveBook, owed PROVE Explained'
<1> DEFINE S == Applied
           d == decision
           T == S \cup {d}
           n == Cardinality(S)
<1>1. /\ pc = "save_book" /\ bookFile' = book /\ bookFile \in BookState
      /\ bookFile # None /\ bookFile' # None /\ bookFile' \in BookState
  BY NoneApart DEF IInv, TypeOK, SaveBook, Memory
<1>2. /\ d \in Decision /\ d.bar = bar /\ d.bar \in Nat
      /\ Side(d) \in {"BUY", "SELL"}
  BY <1>1, PriceTyped
     DEF IInv, TypeOK, Memory, Working, Deciding, Decision, Remembered, Outcomes, Recorded
<1>3. Applied' = T BY <1>1, SavedApplied DEF IInv
<1>4. bookFile' = [Filled(bookFile, Side(d), Quantity, price[d.bar])
                     EXCEPT !.applied = @ \cup {d}]
  BY <1>1, <1>2 DEF IInv, Memory
<1>5. OnePerBar(S) /\ \A e \in S : e.bar < d.bar
  BY <1>1, <1>2, AppliedApart, FillIsLatest DEF Explained
<1>6. /\ OnePerBar(T) /\ Cardinality(T) = n + 1
      /\ \A i \in 1..n : OrdersOf(T)[i] = OrdersOf(S)[i]
      /\ OrdersOf(T)[n + 1] = PaperOrder(d)
  <2> HIDE DEF S, d
  <2> QED BY <1>2, <1>5, OrdersAppend
<1>7. /\ n \in Nat /\ DOMAIN OrdersOf(S) = 1..n /\ DOMAIN OrdersOf(T) = 1..(n + 1)
  <2> HIDE DEF S, T
  <2> QED BY <1>5, <1>6, PlacesTaken, OrdersPlaced
<1>8. /\ bookFile.applied = S /\ bookFile'.applied = T
  BY <1>1, <1>3 DEF Applied
<1>9. SameOrders(1..n, S, OrdersOf(S), T, OrdersOf(T))
  <2>1. \A i \in 1..n : \E e \in S : OrdersOf(S)[i] = PaperOrder(e)
    <3> HIDE DEF S
    <3> QED BY <1>5, PlacesTaken, OrdersPlaced
  <2>2. \A e : PaperOrder(e).id = e BY DEF PaperOrder
  <2>3. S \subseteq T OBVIOUS
  <2> HIDE DEF S, T, n
  <2> QED BY <1>6, <2>1, <2>2, <2>3 DEF SameOrders
<1>10. Expected(bookFile', OrdersOf(T), StartingCash)
         = Account(T, Expected(bookFile, OrdersOf(S), StartingCash), PaperOrder(d))
  <2> HIDE DEF S, T, n
  <2> QED BY <1>6, <1>7, <1>8, <1>9, ExpectedAppends
<1>11. Expected(bookFile', OrdersOf(T), StartingCash)
         = Booked(Expected(bookFile, OrdersOf(S), StartingCash), PaperOrder(d))
  BY <1>10 DEF Account, PaperOrder
<1>12. Expected(bookFile', OrdersOf(T), StartingCash)
         = [cash |-> bookFile'.cash, position |-> bookFile'.position, oversold |-> FALSE]
  <2>1. bookFile'.position >= 0 BY <1>1 DEF BookState
  <2>2. Expected(bookFile, OrdersOf(S), StartingCash)
          = [cash |-> bookFile.cash, position |-> bookFile.position, oversold |-> FALSE]
    BY <1>1 DEF Explained
  <2> QED BY <1>1, <1>2, <1>4, <1>11, <2>1, <2>2, BookedAsFilled DEF IInv
<1>13. OrdersOf(Applied)' = OrdersOf(T)
  BY <1>3 DEF Fixed, OrdersOf, PaperOrder
<1>14. IsFiniteSet(T) BY <1>6 DEF OnePerBar
<1> QED BY <1>3, <1>12, <1>13, <1>14 DEF Explained

(* Every step keeps Explained. *)
LEMMA ExplainedStep == ASSUME IInv, IInv', Explained, [Next]_vars PROVE Explained'
<1>1. Fixed BY SetupFixed
<1>2. CASE Start
  <2>1. CASE bookFile = None
    BY <1>1, <1>2, <2>1, LoadedTyped, NoneApart, NewExplained
       DEF Start, LoadedBook, IInv
  <2>2. CASE bookFile # None BY <1>1, <1>2, <2>2, ExplainedKept DEF Start, LoadedBook
  <2> QED BY <2>1, <2>2
<1>3. CASE SaveBook
  <2>1. CASE owed BY <1>1, <1>3, <2>1, SavedExplained
  <2>2. CASE ~owed BY <1>1, <1>3, <2>2, ExplainedKept DEF SaveBook, IInv, Memory
  <2> QED BY <2>1, <2>2
<1>4. CASE UNCHANGED bookFile BY <1>1, <1>4, ExplainedKept
<1> QED
  BY <1>2, <1>3, <1>4 DEF Next, Step, vars, Halt, Finish, Propose, Evaluate, Collide,
  Skip, Lookup, EvaluateRisk, AppendDecision, Backfill, Kill, Fill, Block, SaveSession,
  AppendOrder, Promote, Crash, disk

(* So it always holds. *)
LEMMA ExplainedInvariant == Spec => []Explained
<1>1. ASSUME Init PROVE Explained
  <2>1. bookFile = None /\ Applied = {} BY <1>1 DEF Init, Applied
  <2> QED BY <2>1, FS_EmptySet DEF Explained
<1> QED BY <1>1, ExplainedStep, Invariant, PTL DEF Spec

(* What the reconciliation reports, from what it compares. *)
LEMMA ReportedErrors ==
  ASSUME NEW b \in BookState, NEW orders, NEW x, x = Expected(b, orders, StartingCash),
         Cardinality(OrderIds(orders)) = Len(orders), x.oversold = FALSE
  PROVE  Reconcile(b, orders, StartingCash) =
           Reported("PORTFOLIO_ORDER_MISSING_FROM_LEDGER",
                    ~(b.applied \subseteq OrderIds(orders)))
             \cup Reported("PORTFOLIO_CASH_MISMATCH", b.cash # x.cash)
             \cup Reported("PORTFOLIO_POSITION_QUANTITY_MISMATCH", b.position # x.position)
<1>1. DOMAIN b = Required BY DEF BookState, Required
<1>2. \A e : Reported(e, FALSE) = {} BY DEF Reported
<1> DEFINE R1 == Reported("PORTFOLIO_ORDER_MISSING_FROM_LEDGER",
                         ~(b.applied \subseteq OrderIds(orders)))
           R2 == Reported("PORTFOLIO_CASH_MISMATCH", b.cash # x.cash)
           R3 == Reported("PORTFOLIO_POSITION_QUANTITY_MISMATCH", b.position # x.position)
<1>3. Reconcile(b, orders, StartingCash) =
        UNION {Reported("LEDGER_ORDER_ID_DUPLICATE", FALSE), R1,
               Reported("LEDGER_SELL_EXCEEDS_RECONCILED_POSITION", FALSE), R2, R3}
  BY <1>1 DEF Reconcile
<1> HIDE DEF R1, R2, R3
<1>4. Reconcile(b, orders, StartingCash) = R1 \cup R2 \cup R3 BY <1>2, <1>3
<1> QED BY <1>4 DEF R1, R2, R3

(* Replaying the ledger's ORDER events gives the portfolio file's amounts in *)
(* every state a crash can leave; while a fill's ORDER is owed, and only     *)
(* then, reconcile_portfolio misses this one order and its amounts, and it   *)
(* never finds a sale of what was not held or an order twice.                *)
THEOREM PortfolioReconciles == Spec => []FileReconciles
<1>1. ASSUME IInv, Explained PROVE FileReconciles
  <2> SUFFICES ASSUME bookFile # None
               PROVE  Reconcile(bookFile, Orders, StartingCash) =
                        IF Applied \subseteq Executed THEN {}
                        ELSE {"PORTFOLIO_ORDER_MISSING_FROM_LEDGER",
                              "PORTFOLIO_CASH_MISMATCH",
                              "PORTFOLIO_POSITION_QUANTITY_MISMATCH"}
    BY DEF FileReconciles
  <2> DEFINE A == Applied
             E == Executed
             n == Cardinality(E)
             x == Expected(bookFile, OrdersOf(E), StartingCash)
  <2>1. bookFile \in BookState /\ bookFile.applied = A
    BY <1>1 DEF IInv, TypeOK, Applied
  <2>2. E \subseteq A BY <1>1 DEF IInv, Outcomes
  <2>3. OnePerBar(A) /\ OnePerBar(E)
    BY <1>1, <2>2, AppliedApart DEF Explained
  <2>4. Orders = OrdersOf(E) BY DEF Orders
  <2>5. OrderIds(OrdersOf(E)) = E /\ Len(OrdersOf(E)) = n
    <3> HIDE DEF E
    <3> QED BY <2>3, OrderIdsAre
  <2>6. Expected(bookFile, OrdersOf(A), StartingCash)
          = [cash |-> bookFile.cash, position |-> bookFile.position, oversold |-> FALSE]
    BY <1>1 DEF Explained
  <2>7. x.oversold = FALSE =>
          Reconcile(bookFile, Orders, StartingCash) =
            Reported("PORTFOLIO_ORDER_MISSING_FROM_LEDGER", ~(A \subseteq E))
              \cup Reported("PORTFOLIO_CASH_MISMATCH", bookFile.cash # x.cash)
              \cup Reported("PORTFOLIO_POSITION_QUANTITY_MISMATCH",
                            bookFile.position # x.position)
    <3> HIDE DEF A, E, n
    <3> QED BY <2>1, <2>4, <2>5, ReportedErrors DEF n
  <2>8. CASE A \subseteq E
    <3>1. A = E BY <2>2, <2>8
    <3>2. x = [cash |-> bookFile.cash, position |-> bookFile.position,
               oversold |-> FALSE]
      BY <2>6, <3>1
    <3>3. x.oversold = FALSE /\ bookFile.cash = x.cash /\ bookFile.position = x.position
      BY <3>2
    <3> HIDE DEF x, A, E
    <3> QED BY <2>7, <2>8, <3>3 DEF Reported, A, E
  <2>9. CASE ~(A \subseteq E)
    <3>1. PICK d \in A : d \notin E BY <2>9
    <3>2. \A e \in A : e.bar < d.bar \/ e = d
      BY <1>1, <3>1, LedgerExplains DEF AuditTrail
    <3>3. A = E \cup {d} /\ \A e \in E : e.bar < d.bar
      <4>1. \A e \in A : e # d => e \in E
        <5> SUFFICES ASSUME NEW e \in A, e # d, e \notin E PROVE FALSE OBVIOUS
        <5>1. e.bar < d.bar /\ d.bar < e.bar
          BY <1>1, <3>1, <3>2, LedgerExplains DEF AuditTrail
        <5> QED BY <2>3, <5>1 DEF OnePerBar
      <4> HIDE DEF A, E
      <4> QED BY <2>2, <3>1, <3>2, <4>1
    <3>4. d \in Decision /\ d.bar \in Nat /\ Side(d) \in {"BUY", "SELL"}
      BY <1>1, <3>1, PriceTyped
         DEF IInv, TypeOK, Outcomes, Recorded, Decision, Has
    <3>5. /\ Cardinality(A) = n + 1 /\ OrdersOf(A)[n + 1] = PaperOrder(d)
          /\ \A i \in 1..n : OrdersOf(A)[i] = OrdersOf(E)[i]
      <4> HIDE DEF A, E
      <4> QED BY <2>3, <3>3, <3>4, OrdersAppend
    <3>6. n \in Nat /\ DOMAIN OrdersOf(E) = 1..n /\ DOMAIN OrdersOf(A) = 1..(n + 1)
      <4> HIDE DEF A, E
      <4> QED BY <2>3, <3>5, PlacesTaken, OrdersPlaced
    <3>7. SameOrders(1..n, bookFile.applied, OrdersOf(E), bookFile.applied, OrdersOf(A))
      BY <3>5 DEF SameOrders
    <3>8. Expected(bookFile, OrdersOf(A), StartingCash) = Booked(x, PaperOrder(d))
      <4>1. Expected(bookFile, OrdersOf(A), StartingCash)
              = Account(bookFile.applied, x, PaperOrder(d))
        <5> HIDE DEF A, E, n
        <5> QED BY <3>5, <3>6, <3>7, ExpectedAppends
      <4> QED BY <2>1, <3>1, <4>1 DEF Account, PaperOrder
    <3>9. /\ Quantity \in Nat \ {0}
          /\ \A e \in Decision : Quantity * price[e.bar] \in Nat \ {0}
      <4>1. \A e \in Decision : price[e.bar] \in Nat \ {0}
        BY <1>1, PriceTyped DEF IInv, Decision
      <4>2. \A p \in Nat, q \in Nat : p > 0 /\ q > 0 => p * q \in Nat /\ p * q > 0
        OBVIOUS
      <4> QED BY <4>1, <4>2, PaperAssumption
    <3>10. x \in Amounts
      <4>1. \A i \in 1..n : \E e \in E : OrdersOf(E)[i] = PaperOrder(e)
        <5> HIDE DEF E
        <5> QED BY <2>3, PlacesTaken, OrdersPlaced
      <4>2. E \subseteq Decision BY <1>1 DEF IInv, TypeOK, Executed
      <4>3. \A e \in E : PaperOrder(e).notional \in Int /\ PaperOrder(e).quantity \in Int
        BY <3>9, <4>2 DEF PaperOrder
      <4> HIDE DEF E, n
      <4> QED BY <3>6, <4>1, <4>3, ExpectedTyped
    <3>11. /\ x.oversold = FALSE
           /\ bookFile.cash # x.cash /\ bookFile.position # x.position
      <4> DEFINE o == PaperOrder(d)
                 y == [cash |-> bookFile.cash, position |-> bookFile.position,
                       oversold |-> FALSE]
      <4>1. /\ o.side = Side(d) /\ o.quantity \in Nat \ {0} /\ o.notional \in Nat \ {0}
        BY <3>4, <3>9 DEF PaperOrder
      <4>2. x.cash \in Int /\ x.position \in Int /\ x.oversold \in BOOLEAN
        BY <3>10 DEF Amounts
      <4>3. y = Booked(x, o) BY <2>6, <3>8
      <4>4. /\ y.cash = bookFile.cash /\ y.position = bookFile.position
            /\ y.oversold = FALSE
        OBVIOUS
      <4> HIDE DEF x, o, y
      <4>5. ~(o.side # "BUY" /\ o.quantity > x.position)
        BY <3>10, <4>3, <4>4, BookedCases
      <4>6. CASE o.side = "BUY"
        <5>1. /\ y.cash = x.cash - o.notional /\ y.position = x.position + o.quantity
              /\ y.oversold = x.oversold
          BY <3>10, <4>3, <4>6, BookedCases
        <5>2. bookFile.cash = x.cash - o.notional BY <4>4, <5>1
        <5>3. bookFile.position = x.position + o.quantity BY <4>4, <5>1
        <5>4. bookFile.cash # x.cash BY <4>1, <4>2, <5>2
        <5>5. bookFile.position # x.position BY <4>1, <4>2, <5>3
        <5> QED BY <4>4, <5>1, <5>4, <5>5
      <4>7. CASE o.side # "BUY"
        <5>1. /\ y.cash = x.cash + o.notional /\ y.position = x.position - o.quantity
              /\ y.oversold = x.oversold
          BY <3>10, <4>3, <4>5, <4>7, BookedCases
        <5>2. bookFile.cash = x.cash + o.notional BY <4>4, <5>1
        <5>3. bookFile.position = x.position - o.quantity BY <4>4, <5>1
        <5>4. bookFile.cash # x.cash BY <4>1, <4>2, <5>2
        <5>5. bookFile.position # x.position BY <4>1, <4>2, <5>3
        <5> QED BY <4>4, <5>1, <5>4, <5>5
      <4> QED BY <4>6, <4>7
    <3> HIDE DEF x, A, E
    <3> QED BY <2>7, <2>9, <3>11 DEF Reported, A, E
  <2> QED BY <2>8, <2>9
<1> QED BY <1>1, Invariant, ExplainedInvariant, PTL
=============================================================================
