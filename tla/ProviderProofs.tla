--------------------------- MODULE ProviderProofs ---------------------------
(***************************************************************************)
(* Proofs about the execution layer and what the provider tells it: that   *)
(* reconciliation can always catch up, that an inspection finds nothing    *)
(* wrong, and that the intent table implements the order lifecycle.        *)
(*                                                                         *)
(* Each theorem names what it needs of the provider; nothing is assumed    *)
(* about crashes, lost answers, or the order in which processes proceed.   *)
(***************************************************************************)
EXTENDS CallProofs, FiniteSetTheorems

-----------------------------------------------------------------------------
(* What is needed of the provider *)

\* It reports its own orders only, with quantities that add up, and says what
\* became of them.
HonestProvider ==
  /\ Anomalies = {}
  /\ \A r \in ProviderResults : QuantitiesFit(None, r) /\ r.status # "UNKNOWN"

\* A result says what was filled wherever something may have been.
StatesFill(r) ==
  IF r.status \in {"PARTIALLY_FILLED", "FILLED", "CANCELED"}
  THEN r.filled # None ELSE Filled(r) = 0

\* It states quantities, in what it was asked and in what it was not.
FillsStated ==
  /\ \A r \in ProviderResults : StatesFill(r)
  /\ \A i \in Anomalies : StatesFill(i.result)

-----------------------------------------------------------------------------
(* Results *)

(* What a result says was filled is a quantity of the order. *)
LEMMA FilledTyped ==
  ASSUME NEW r \in BrokerResults \cup {None} PROVE Filled(r) \in 0..Qty
BY QtyAssumption, NoneIsNothing DEF Filled, BrokerResults, Results

(* The record of a lost answer says nothing was filled, and is not the       *)
(* answer of a provider that knows.                                          *)
LEMMA TimeoutSaysNothing ==
  /\ StatesFill(TimeoutResult) /\ Filled(TimeoutResult) = 0
  /\ TimeoutResult.order = None /\ TimeoutResult.status = "UNKNOWN"
BY DEF TimeoutResult, StatesFill, Filled

(* A result that replaces another states no smaller fill. *)
LEMMA FillGrows ==
  ASSUME NEW prev \in BrokerResults \cup {None}, NEW r \in BrokerResults,
         prev = None \/ StatesFill(prev), StatesFill(r), Replaces(prev, r)
  PROVE  Filled(prev) <= Filled(r)
<1>1. Filled(prev) \in 0..Qty /\ Filled(r) \in 0..Qty BY FilledTyped
<1>2. CASE r.filled # None
  BY <1>1, <1>2, NoneIsNothing DEF Replaces, QuantitiesFit, Filled
<1>3. CASE r.filled = None
  <2>1. r.status \in {"UNKNOWN", "ACCEPTED", "REJECTED"}
    BY <1>3 DEF StatesFill, BrokerResults, Results, Statuses, Terminal
  <2>2. CASE prev = None \/ prev = r BY <1>1, <2>2, QtyAssumption DEF Filled
  <2>3. CASE prev # None /\ r.status \in AllowedNext(prev.status)
    <3>1. prev.status \in Statuses BY <2>3 DEF BrokerResults, Results
    <3>2. prev.status \notin {"PARTIALLY_FILLED", "FILLED", "CANCELED"}
      BY <2>1, <2>3, <3>1 DEF AllowedNext, Terminal, Statuses
    <3> QED BY <1>1, <2>3, <3>2, QtyAssumption DEF StatesFill
  <2> QED BY <2>2, <2>3 DEF Replaces, TransitionAllowed
<1> QED BY <1>2, <1>3

\* An order that was as r says may by now be as v says.
Precedes(r, v) ==
  \/ r = v
  \/ /\ r.order = v.order /\ r.status \notin Terminal
     /\ Filled(r) <= Filled(v) /\ v.status # "UNKNOWN"
     /\ r.status = "PARTIALLY_FILLED" => v.status \notin {"ACCEPTED", "REJECTED"}

(* An order moves on step by step. *)
LEMMA PrecedesTransitive ==
  ASSUME NEW r \in BrokerResults, NEW u \in BrokerResults, NEW v \in BrokerResults,
         Precedes(r, u), Precedes(u, v)
  PROVE  Precedes(r, v)
<1>1. Filled(r) \in 0..Qty /\ Filled(u) \in 0..Qty /\ Filled(v) \in 0..Qty
  BY FilledTyped
<1>2. u.status \in Statuses BY DEF BrokerResults, Results
<1> QED BY <1>1, <1>2, QtyAssumption DEF Precedes, Statuses, Terminal

\* What is known of an order is what it was, or nothing.
Behind(r, v) ==
  \/ r \in {None, TimeoutResult}
  \/ r \in ProviderResults /\ v # None /\ Precedes(r, v)

(* What is known of an order can be replaced by what became of it. *)
LEMMA BehindCatchesUp ==
  ASSUME HonestProvider, NEW r \in BrokerResults \cup {None},
         NEW v \in ProviderResults, Behind(r, v)
  PROVE  Replaces(r, v)
<1>1. /\ v \in BrokerResults /\ v.status \in Statuses \ {"UNKNOWN"}
      /\ QuantitiesFit(None, v)
  BY ProviderAssumption DEF HonestProvider, BrokerResults, Results
<1>2. Filled(r) \in 0..Qty /\ Filled(v) \in 0..Qty BY <1>1, FilledTyped
<1>3. Filled(r) <= Filled(v)
  BY <1>2, TimeoutSaysNothing, QtyAssumption DEF Behind, Precedes, Filled
<1>4. QuantitiesFit(r, v)
  BY <1>1, <1>2, <1>3, QtyAssumption, NoneIsNothing DEF QuantitiesFit, Filled
<1>5. SameOrder(r, v)
  BY TimeoutSaysNothing DEF Behind, Precedes, SameOrder
<1>6. TransitionAllowed(r, v)
  <2>1. CASE r \in {None, TimeoutResult}
    <3>1. AllowedNext("UNKNOWN") = Statuses \ {"UNKNOWN"}
      BY DEF AllowedNext, Terminal
    <3> QED BY <1>1, <2>1, <3>1, TimeoutSaysNothing DEF TransitionAllowed
  <2>2. CASE r \in ProviderResults /\ Precedes(r, v)
    <3>1. r.status \in Statuses
      BY <2>2, ProviderAssumption DEF BrokerResults, Results
    <3> QED BY <1>1, <2>2, <3>1
            DEF Precedes, TransitionAllowed, AllowedNext, Statuses, Terminal
  <2> QED BY <2>1, <2>2 DEF Behind
<1> QED BY <1>4, <1>5, <1>6 DEF Replaces

-----------------------------------------------------------------------------
(* Rows *)

(* The steps of a worker that touch rows and their trail: an intent is        *)
(* inserted, the answer of the broker is recorded, or an answer it took up.  *)
LEMMA RowSteps ==
  ASSUME IInv, NEW w \in Workers, Begin(w) \/ Step(w) \/ Crash(w)
  PROVE  \/ UNCHANGED <<intents, audit>>
         \/ \E k \in Keys, a \in Auths \cup {None}, e \in Approvals \cup {None} :
              RecordIntent(k, a, e)
         \/ /\ pc[w] = "record"
            /\ \E i \in call[w].items :
                 /\ i.key \in LocalKeys
                 /\ CommitResult(i.key, i.result,
                      IF i.result = TimeoutResult THEN "EXECUTION_UNKNOWN"
                      ELSE "EXECUTION_RESULT")
         \/ /\ pc[w] \in {"adopt", "settle"}
            /\ CommitResult(call[w].key, call[w].item.result, AnswerType(call[w]))
<1>1. Bound(pc[w], call[w], LocalKeys, SendableKeys) /\ call[w] \in Calls
  BY DEF IInv, TypeOK, CallsBound
<1>2. Local => UNCHANGED <<intents, audit>> BY DEF Local, storeVars
<1>3. Begin(w) => Local BY BeginCall DEF IInv
<1>4. Match(w) \/ Crash(w) \/ Ask(w) \/ CheckOrphans(w) \/ ReadLedger(w)
        \/ ReadStore(w) \/ ReadReason(w) \/ Authorize(w) \/ Reauthorize(w)
        \/ CheckHalt(w) \/ Lookup(w) \/ CheckPrepare(w) => Local
  BY DEF Match, Crash, Ask, CheckOrphans, ReadLedger, ReadStore, ReadReason,
     Authorize, Reauthorize, RequireAuthorization, CheckHalt, Lookup, CheckPrepare
<1>5. SeedState(w) \/ SeedLimits(w) \/ Contact(w) \/ WriteRiskState(w)
        \/ WriteRiskLimits(w) \/ AssertHalt(w) \/ Clear(w)
        => UNCHANGED <<intents, audit>>
  BY DEF SeedState, SeedRiskState, SeedLimits, SeedRiskLimits, Contact,
     WriteRiskState, MutateRiskState, WriteRiskLimits, MutateRiskLimits,
     AssertHalt, AssertHaltFor, Clear, ClearHaltOf, storeVars
<1>6. CommitIntent(w) =>
        \/ UNCHANGED <<intents, audit>>
        \/ \E k \in Keys, a \in Auths \cup {None}, e \in Approvals \cup {None} :
             RecordIntent(k, a, e)
  <2> SUFFICES ASSUME CommitIntent(w)
               PROVE  \/ UNCHANGED <<intents, audit>>
                      \/ \E k \in Keys, a \in Auths \cup {None},
                            e \in Approvals \cup {None} : RecordIntent(k, a, e)
    OBVIOUS
  <2>1. /\ call[w].key \in Keys /\ call[w].auth \in Auths \cup {None}
        /\ call[w].approval \in Approvals \cup {None}
    BY <1>1 DEF CommitIntent, Bound, Calls
  <2>2. CASE RecordIntent(call[w].key, call[w].auth, call[w].approval)
    BY <2>1, <2>2
  <2>3. CASE UNCHANGED storeVars \/ RecordRefusal(call[w].key)
    BY <2>3 DEF storeVars, RecordRefusal
  <2> QED BY <2>2, <2>3 DEF CommitIntent
<1>7. Acquire(w) => UNCHANGED <<intents, audit>>
  BY <1>1 DEF Acquire, AcquireAuthority, BindIntent, Bound, SendableKeys, LocalKeys,
     storeVars
<1>8. Adopt(w) \/ Settle(w) =>
        \/ UNCHANGED <<intents, audit>>
        \/ /\ pc[w] \in {"adopt", "settle"}
           /\ CommitResult(call[w].key, call[w].item.result, AnswerType(call[w]))
  BY DEF Adopt, Settle, CommitAnswer, storeVars
<1>9. Record(w) =>
        /\ pc[w] = "record"
        /\ \E i \in call[w].items :
             /\ i.key \in LocalKeys
             /\ CommitResult(i.key, i.result,
                  IF i.result = TimeoutResult THEN "EXECUTION_UNKNOWN"
                  ELSE "EXECUTION_RESULT")
  BY <1>1 DEF Record, Bound
<1> QED BY <1>2, <1>3, <1>4, <1>5, <1>6, <1>7, <1>8, <1>9 DEF Step

(* What a committed result does to its row and its trail. *)
LEMMA CommitWrites ==
  ASSUME TypeOK, NEW k \in LocalKeys, NEW r \in BrokerResults, NEW type,
         CommitResult(k, r, type)
  PROVE  \/ UNCHANGED <<intents, audit>>
         \/ /\ Replaces(intents[k].result, r)
            /\ LocalKeys' = LocalKeys
            /\ intents'[k] = [intents[k] EXCEPT !.result = r]
            /\ intents'[k].result = r
            /\ audit'[k] = Append(audit[k], [type |-> type, result |-> r])
            /\ \A j \in Keys \ {k} : intents'[j] = intents[j] /\ audit'[j] = audit[j]
<1>1. CASE UNCHANGED storeVars BY <1>1 DEF storeVars
<1>2. CASE ResultOutcome(k, r, type) = "committed"
  <2>1. Replaces(intents[k].result, r) BY <1>2 DEF ResultOutcome, Replaces
  <2>2. /\ intents' = [intents EXCEPT ![k].result = r]
        /\ audit' = [audit EXCEPT ![k] = Append(@, [type |-> type, result |-> r])]
    BY <1>2 DEF CommitResult, ResultOutcome, storeVars
  <2>3. k \in Keys /\ intents[k] \in Intents
    BY DEF LocalKeys, TypeOK, StoreTypeOK
  <2>4. /\ intents'[k] = [intents[k] EXCEPT !.result = r]
        /\ \A j \in Keys \ {k} : intents'[j] = intents[j]
    BY <2>2, <2>3 DEF TypeOK, StoreTypeOK
  <2>5. intents'[k] \in Intents /\ intents'[k].result = r
    BY <2>3, <2>4 DEF Intents
  <2>6. LocalKeys' = LocalKeys
    BY <2>3, <2>4, <2>5, NoneIsNothing DEF LocalKeys
  <2>7. /\ audit'[k] = Append(audit[k], [type |-> type, result |-> r])
        /\ \A j \in Keys \ {k} : audit'[j] = audit[j]
    BY <2>2, <2>3 DEF TypeOK, StoreTypeOK
  <2> QED BY <2>1, <2>4, <2>5, <2>6, <2>7
<1> QED BY <1>1, <1>2 DEF CommitResult

(* What inserting an intent does. *)
LEMMA RecordWrites ==
  ASSUME IInv, NEW k \in Keys, NEW a \in Auths \cup {None},
         NEW e \in Approvals \cup {None}, RecordIntent(k, a, e)
  PROVE  \/ UNCHANGED <<intents, audit>>
         \/ /\ intents[k] = None /\ intents'[k] = NewIntent(a, e)
            /\ intents'[k] # None /\ intents'[k].result = None
            /\ audit'[k] = <<[type |-> "EXECUTION_INTENT_CREATED", result |-> None]>>
            /\ \A j \in Keys \ {k} : intents'[j] = intents[j] /\ audit'[j] = audit[j]
<1>1. /\ StoreTypeOK /\ AuditMatchesState BY DEF IInv, TypeOK
<1>2. CASE intents[k] # None BY <1>2 DEF RecordIntent, BindIntent
<1>3. CASE intents[k] = None
  <2> DEFINE created == [type |-> "EXECUTION_INTENT_CREATED", result |-> None]
  <2>1. /\ intents' = [intents EXCEPT ![k] = NewIntent(a, e)]
        /\ audit' = [audit EXCEPT ![k] = Append(@, created)] /\ audit[k] = <<>>
    BY <1>1, <1>3 DEF RecordIntent, BindIntent, AuditMatchesState
  <2>2. /\ intents'[k] = NewIntent(a, e) /\ audit'[k] = <<created>>
        /\ \A j \in Keys \ {k} : intents'[j] = intents[j] /\ audit'[j] = audit[j]
    BY <1>1, <2>1 DEF StoreTypeOK
  <2>3. NewIntent(a, e) \in Intents
    BY <1>1, NoneIsNothing
       DEF StoreTypeOK, NewIntent, Intents, Basis, Bounds, CanBind, AuthorityHeld,
           RecordIntent
  <2>4. NewIntent(a, e).result = None BY DEF NewIntent
  <2> QED BY <1>3, <2>2, <2>3, <2>4, NoneIsNothing
<1> QED BY <1>2, <1>3

-----------------------------------------------------------------------------
(* What the provider's orders were *)

\* Every order of the provider is one of its results, and its id is its own.
VenueFits ==
  /\ \A k \in Keys : venue[k] \in ProviderResults \cup {None}
  /\ \A j, k \in Keys : j # k /\ venue[j] # None /\ venue[k] # None =>
       venue[j].order = None \/ venue[j].order # venue[k].order

\* A row knows its order as it was, or not at all.
RowsBehind == \A k \in LocalKeys : Behind(intents[k].result, venue[k])

\* So does an answer that is still to be dealt with; only submit has one that
\* says nothing.
AnswersBehind ==
  \A w \in Workers : \A i \in call[w].items :
    /\ Behind(i.result, venue[i.key])
    /\ pc[w] # "record" => i.result \in ProviderResults

\* The row an answer was taken up for is that of its order.
AnswersMatched ==
  \A w \in Workers : pc[w] \in {"adopt", "settle"} =>
    call[w].item \in call[w].items /\ call[w].key = call[w].item.key

(* The invariant under an honest provider. *)
KnownInv ==
  /\ \A k \in Keys : venue[k] # None => k \in LocalKeys
  /\ VenueFits /\ RowsBehind /\ AnswersBehind /\ AnswersMatched

(* Whatever happens at the provider, what was behind stays behind. *)
LEMMA VenueMoves ==
  ASSUME HonestProvider, IInv, KnownInv, [Next]_vars
  PROVE  /\ VenueFits'
         /\ \A k \in Keys : venue[k] # None => venue'[k] # None
         /\ \A k \in Keys, r \in BrokerResults \cup {None} :
              Behind(r, venue[k]) => Behind(r, venue'[k])
         /\ \A k \in Keys : venue'[k] # None => k \in LocalKeys
<1> DEFINE Goal ==
      /\ VenueFits'
      /\ \A k \in Keys : venue[k] # None => venue'[k] # None
      /\ \A k \in Keys, r \in BrokerResults \cup {None} :
           Behind(r, venue[k]) => Behind(r, venue'[k])
      /\ \A k \in Keys : venue'[k] # None => k \in LocalKeys
<1>1. /\ TypeOK /\ CallsBound /\ VenueFits
      /\ venue \in [Keys -> BrokerResults \cup {None}]
  BY DEF IInv, TypeOK, KnownInv
<1>2. CASE UNCHANGED venue BY <1>2 DEF KnownInv, VenueFits
<1>3. ASSUME NEW w \in Workers, Contact(w) PROVE Goal
  <2> DEFINE k == call[w].key
  <2>1. PICK placed \in BrokerResults \cup {None} :
          /\ k \in LocalKeys /\ venue' = [venue EXCEPT ![k] = placed]
          /\ IF venue[k] # None THEN placed = venue[k]
             ELSE placed # None =>
               /\ placed \in ProviderResults
               /\ \A j \in Keys : venue[j] # None =>
                    placed.order = None \/ placed.order # venue[j].order
    BY <1>1, <1>3, ContactAnswers
  <2>2. k \in Keys /\ placed \in ProviderResults \cup {None}
    BY <1>1, <2>1 DEF LocalKeys, VenueFits
  <2>3. venue'[k] = placed /\ \A j \in Keys \ {k} : venue'[j] = venue[j]
    BY <1>1, <2>1, <2>2
  <2>4. VenueFits' BY <1>1, <2>1, <2>2, <2>3 DEF VenueFits
  <2>5. \A j \in Keys, r \in BrokerResults \cup {None} :
          Behind(r, venue[j]) => Behind(r, venue'[j])
    BY <2>1, <2>2, <2>3 DEF Behind
  <2>6. \A j \in Keys : venue'[j] # None => j \in LocalKeys
    BY <2>1, <2>3 DEF KnownInv
  <2> QED BY <2>1, <2>2, <2>3, <2>4, <2>5, <2>6
<1>4. ASSUME NEW k \in Keys, Progress(k) PROVE Goal
  <2>1. PICK r \in ProviderResults :
          MovesTo(venue[k], r) /\ venue' = [venue EXCEPT ![k] = r]
    BY <1>4 DEF Progress
  <2>2. venue[k] # None /\ venue[k] \in BrokerResults /\ r \in BrokerResults
    BY <1>1, <1>4, ProviderAssumption DEF Progress
  <2>3. /\ r # None
        /\ venue'[k] = r /\ \A j \in Keys \ {k} : venue'[j] = venue[j]
    BY <1>1, <2>1, <2>2, NoneIsNothing
  <2>4. Precedes(venue[k], r) /\ venue[k].order = r.order
    BY <2>1 DEF MovesTo, Precedes
  <2>5. VenueFits' BY <1>1, <2>2, <2>3, <2>4 DEF VenueFits
  <2>6. ASSUME NEW q \in BrokerResults \cup {None}, Behind(q, venue[k])
        PROVE  Behind(q, r)
    BY <2>2, <2>3, <2>4, <2>6, NoneIsNothing, PrecedesTransitive DEF Behind
  <2>7. \A j \in Keys : venue'[j] # None => j \in LocalKeys
    BY <2>2, <2>3 DEF KnownInv
  <2> QED BY <2>2, <2>3, <2>5, <2>6, <2>7
<1>5. ASSUME NEW w \in Workers, Begin(w) \/ Step(w) \/ Crash(w), ~Contact(w)
      PROVE  UNCHANGED venue
  BY <1>5, ContactsCounted
<1>6. ASSUME NEW a, Activate(a) \/ Revoke(a) \/ Expire(a) PROVE UNCHANGED venue
  BY <1>6 DEF Activate, Revoke, Expire
<1>7. OperatorHalt => UNCHANGED venue BY DEF OperatorHalt
<1>8. UNCHANGED vars => UNCHANGED venue BY DEF vars
<1> HIDE DEF Goal
<1>9. UNCHANGED venue => Goal BY <1>2 DEF Goal
<1>10. Goal BY <1>3, <1>4, <1>5, <1>6, <1>7, <1>8, <1>9 DEF Next
<1> QED BY <1>10 DEF Goal

(* An answer that is taken up is one of the call's answers, for its own key   *)
(* or for the row that knows its order id.                                   *)
LEMMA MatchSettles ==
  ASSUME IInv, NEW w \in Workers, Match(w), pc'[w] \in {"adopt", "settle"}
  PROVE  /\ call'[w].item \in call[w].items
         /\ \/ call'[w].key = call'[w].item.key
            \/ /\ call'[w].item.result.order # None
               /\ call'[w].key \in BoundKeys(call'[w].item.result.order)
<1>1. TypeOK BY DEF IInv
<1>2. PICK i \in call[w].items :
        MatchRecovered(w, i) \/ MatchDiscovered(w, i) \/ MatchReconciled(w, i)
  BY DEF Match
<1>3. ~Return(w) BY <1>1, ReturnCall
<1>4. /\ \A errors : ~HaltWith(w, errors)
      /\ \A names : ~Finished(w, i, names)
  BY <1>1, <1>3, GotoCall DEF HaltWith, Finished
<1>5. ASSUME NEW k, NEW label, Settling(w, i, k, label)
      PROVE  call'[w].item = i /\ call'[w].key = k
  BY <1>1, <1>5 DEF Settling, TypeOK, Calls
<1>6. CASE MatchRecovered(w, i)
  BY <1>3, <1>5, <1>6 DEF MatchRecovered
<1>7. CASE MatchDiscovered(w, i)
  BY <1>4, <1>5, <1>7 DEF MatchDiscovered
<1>8. CASE MatchReconciled(w, i)
  <2>1. PICK k \in BoundKeys(i.result.order) : Settling(w, i, k, "settle")
    BY <1>4, <1>8 DEF MatchReconciled
  <2>2. i.result.order # None
    BY <1>1, <1>4, <1>8, NoneIsNothing DEF MatchReconciled, TypeOK, Calls
  <2> QED BY <1>5, <2>1, <2>2
<1> QED BY <1>2, <1>6, <1>7, <1>8

(* A row that knows the order id of an answer is the row of its key. *)
LEMMA OrderIdsTellKeys ==
  ASSUME IInv, KnownInv, NEW k \in Keys, NEW r \in ProviderResults,
         r # TimeoutResult, r # None, Behind(r, venue[k]), r.order # None,
         NEW j \in BoundKeys(r.order)
  PROVE  j = k
<1>1. j \in LocalKeys /\ j \in Keys
  BY DEF BoundKeys, PendingKeys, LocalKeys
<1>2. venue[k] # None /\ venue[k].order = r.order
  BY DEF Behind, Precedes
<1>3. /\ intents[j].result \notin {None, TimeoutResult}
      /\ intents[j].result.order = r.order
  BY TimeoutSaysNothing DEF BoundKeys
<1>4. venue[j] # None /\ venue[j].order = r.order
  BY <1>1, <1>3 DEF KnownInv, RowsBehind, Behind, Precedes
<1> QED BY <1>1, <1>2, <1>4 DEF KnownInv, VenueFits

(* Rows and answers stay behind the provider. *)
LEMMA WorkerKeepsKnown ==
  ASSUME HonestProvider, IInv, KnownInv, NEW w \in Workers,
         Begin(w) \/ Step(w) \/ Crash(w)
  PROVE  RowsBehind' /\ AnswersBehind' /\ AnswersMatched'
<1>1. /\ TypeOK /\ CallsBound
      /\ \A v \in Workers : call[v] \in Calls /\ call[v].items \subseteq Items
      /\ \A k \in LocalKeys :
           k \in Keys /\ intents[k].result \in BrokerResults \cup {None}
      /\ TypeOK' /\ Moves(w)
  BY NextIsStoreStep, WorkerMoves
     DEF IInv, TypeOK, StoreTypeOK, Calls, LocalKeys, Intents, Next
<1>2. /\ \A k \in Keys, r \in BrokerResults \cup {None} :
           Behind(r, venue[k]) => Behind(r, venue'[k])
      /\ \A k \in Keys : venue[k] # None => venue'[k] # None
  BY VenueMoves DEF Next
<1>3. ASSUME NEW r \in ProviderResults
      PROVE  r \in BrokerResults /\ r # None /\ r # TimeoutResult
  BY ProviderAssumption, NoneIsNothing, TimeoutSaysNothing DEF HonestProvider
<1>4. RowsBehind'
  <2>1. ASSUME NEW k \in LocalKeys, NEW r \in BrokerResults, NEW type,
               CommitResult(k, r, type), Behind(r, venue[k])
        PROVE  RowsBehind'
    <3>1. CASE UNCHANGED <<intents, audit>>
      BY <1>1, <1>2, <3>1 DEF KnownInv, RowsBehind, LocalKeys
    <3>2. CASE /\ LocalKeys' = LocalKeys /\ intents'[k].result = r
               /\ \A j \in Keys \ {k} : intents'[j] = intents[j]
      BY <1>1, <1>2, <2>1, <3>2 DEF KnownInv, RowsBehind
    <3> QED BY <1>1, <2>1, <3>1, <3>2, CommitWrites
  <2>2. CASE UNCHANGED <<intents, audit>>
    BY <1>1, <1>2, <2>2 DEF KnownInv, RowsBehind, LocalKeys
  <2>3. ASSUME NEW k \in Keys, NEW a \in Auths \cup {None},
               NEW e \in Approvals \cup {None}, RecordIntent(k, a, e)
        PROVE  RowsBehind'
    <3>1. CASE /\ intents'[k].result = None
               /\ \A j \in Keys \ {k} : intents'[j] = intents[j]
      BY <1>1, <1>2, <3>1 DEF KnownInv, RowsBehind, LocalKeys, Behind
    <3> QED BY <2>2, <2>3, <3>1, RecordWrites
  <2>4. ASSUME NEW i \in call[w].items, NEW type, i.key \in LocalKeys,
               CommitResult(i.key, i.result, type)
        PROVE  RowsBehind'
    BY <1>1, <2>1, <2>4 DEF KnownInv, AnswersBehind, Items
  <2>5. ASSUME NEW type, pc[w] \in {"adopt", "settle"},
               CommitResult(call[w].key, call[w].item.result, type)
        PROVE  RowsBehind'
    <3>1. call[w].item \in call[w].items /\ call[w].key = call[w].item.key
      BY <2>5 DEF KnownInv, AnswersMatched
    <3>2. call[w].item.key \in LocalKeys
      BY <1>1, <2>5, <3>1 DEF CallsBound, Bound
    <3> QED BY <2>4, <2>5, <3>1, <3>2
  <2> QED BY <2>2, <2>3, <2>4, <2>5, RowSteps
<1>5. ASSUME NEW v \in Workers \ {w} PROVE pc'[v] = pc[v] /\ call'[v] = call[v]
  BY <1>1, OthersWait
<1>6. ASSUME NEW v \in Workers, NEW i \in call[v].items
      PROVE  Behind(i.result, venue'[i.key])
  BY <1>1, <1>2 DEF KnownInv, AnswersBehind, Items
<1>7. AnswersBehind'
  <2>1. ASSUME NEW i \in call'[w].items
        PROVE  /\ Behind(i.result, venue'[i.key])
               /\ pc'[w] # "record" => i.result \in ProviderResults
    <3>1. CASE Contact(w)
      <4>1. pc'[w] = "record" BY <1>1, <3>1, GotoCall DEF Contact
      <4>2. PICK placed \in BrokerResults \cup {None}, answer \in BrokerResults :
              /\ call[w].key \in LocalKeys
              /\ answer \in {placed, TimeoutResult}
              /\ call'[w].items = {[key |-> call[w].key, result |-> answer]}
              /\ venue' = [venue EXCEPT ![call[w].key] = placed]
              /\ IF venue[call[w].key] # None THEN placed = venue[call[w].key]
                 ELSE placed # None => placed \in ProviderResults
        BY <1>1, <3>1, ContactAnswers
      <4>3. i.key = call[w].key /\ i.result = answer BY <2>1, <4>2
      <4>4. venue'[i.key] = placed /\ placed \in ProviderResults \cup {None}
        BY <1>1, <4>2, <4>3 DEF TypeOK, KnownInv, VenueFits
      <4>5. Behind(answer, placed)
        BY <4>2, <4>4, NoneIsNothing DEF Behind, Precedes
      <4> QED BY <4>1, <4>3, <4>4, <4>5
    <3>2. CASE Ask(w)
      <4>1. i.key \in Keys /\ venue[i.key] # None /\ i.result = venue[i.key]
        BY <1>1, <2>1, <3>2, AskAnswers DEF HonestProvider
      <4>2. i.result \in ProviderResults BY <4>1 DEF KnownInv, VenueFits
      <4>3. Behind(i.result, venue[i.key]) BY <4>1, <4>2 DEF Behind, Precedes
      <4> QED BY <1>2, <1>3, <4>1, <4>2, <4>3
    <3>3. CASE ~Contact(w) /\ ~Ask(w)
      <4>1. i \in call[w].items /\ pc[w] # "record"
        BY <2>1, <3>3, AnswerSteps
      <4> QED BY <1>6, <4>1 DEF KnownInv, AnswersBehind
    <3> QED BY <3>1, <3>2, <3>3
  <2>2. ASSUME NEW v \in Workers \ {w}, NEW i \in call'[v].items
        PROVE  /\ Behind(i.result, venue'[i.key])
               /\ pc'[v] # "record" => i.result \in ProviderResults
    BY <1>5, <1>6, <2>2 DEF KnownInv, AnswersBehind
  <2> QED BY <2>1, <2>2 DEF AnswersBehind
<1>8. AnswersMatched'
  <2>1. ASSUME pc'[w] \in {"adopt", "settle"}
        PROVE  call'[w].item \in call'[w].items /\ call'[w].key = call'[w].item.key
    <3> DEFINE i == call'[w].item
    <3>1. Match(w) /\ call'[w].items = call[w].items BY <2>1, AnswerSteps
    <3>2. /\ i \in call[w].items
          /\ \/ call'[w].key = i.key
             \/ i.result.order # None /\ call'[w].key \in BoundKeys(i.result.order)
      BY <2>1, <3>1, MatchSettles
    <3>3. i \in Items /\ i.key \in Keys BY <1>1, <3>2 DEF Items
    <3>4. i.result \in ProviderResults /\ Behind(i.result, venue[i.key])
      BY <3>1, <3>2 DEF KnownInv, AnswersBehind, Match
    <3> HIDE DEF i
    <3>5. call'[w].key = i.key BY <1>3, <3>2, <3>3, <3>4, OrderIdsTellKeys
    <3> QED BY <3>1, <3>2, <3>5 DEF i
  <2> QED BY <1>5, <2>1 DEF KnownInv, AnswersMatched
<1> QED BY <1>4, <1>7, <1>8

(* Every step keeps the invariant. *)
LEMMA NextKnownInv ==
  ASSUME HonestProvider PROVE IInv /\ KnownInv /\ [Next]_vars => KnownInv'
<1> SUFFICES ASSUME IInv, KnownInv, [Next]_vars PROVE KnownInv' OBVIOUS
<1>1. LocalKeys \subseteq LocalKeys'
  BY NextIsStoreStep, StoreStepKeeps DEF IInv, TypeOK
<1>2. /\ VenueFits' /\ \A k \in Keys : venue'[k] # None => k \in LocalKeys'
      /\ \A k \in Keys, r \in BrokerResults \cup {None} :
           Behind(r, venue[k]) => Behind(r, venue'[k])
  BY <1>1, VenueMoves
<1>3. /\ \A k \in LocalKeys :
           k \in Keys /\ intents[k].result \in BrokerResults \cup {None}
      /\ \A v \in Workers : call[v].items \subseteq Items
  BY DEF IInv, TypeOK, StoreTypeOK, Calls, LocalKeys, Intents
<1>4. ASSUME UNCHANGED <<intents, pc, call>>
      PROVE  RowsBehind' /\ AnswersBehind' /\ AnswersMatched'
  <2>1. RowsBehind' BY <1>2, <1>3, <1>4 DEF KnownInv, RowsBehind, LocalKeys
  <2>2. AnswersBehind' BY <1>2, <1>3, <1>4 DEF KnownInv, AnswersBehind, Items
  <2>3. AnswersMatched' BY <1>4 DEF KnownInv, AnswersMatched
  <2> QED BY <2>1, <2>2, <2>3
<1>5. ASSUME NEW a, Activate(a) \/ Revoke(a) \/ Expire(a)
      PROVE  UNCHANGED <<intents, pc, call>>
  BY <1>5 DEF Activate, ActivateAuthorization, Revoke, RevokeAuthorization,
     Expire, storeVars
<1>6. ASSUME NEW k, Progress(k) PROVE UNCHANGED <<intents, pc, call>>
  BY <1>6 DEF Progress, storeVars
<1>7. OperatorHalt \/ UNCHANGED vars => UNCHANGED <<intents, pc, call>>
  BY DEF OperatorHalt, vars, storeVars
<1>8. RowsBehind' /\ AnswersBehind' /\ AnswersMatched'
  BY <1>4, <1>5, <1>6, <1>7, WorkerKeepsKnown DEF Next
<1> QED BY <1>2, <1>8 DEF KnownInv

(* The invariant holds in every reachable state. *)
LEMMA KnownInvariant == ASSUME HonestProvider PROVE Spec => []KnownInv
<1>1. Init => KnownInv
  BY DEF Init, StoreInit, NoCall, LocalKeys, KnownInv, VenueFits, RowsBehind,
     AnswersBehind, AnswersMatched
<1> QED BY <1>1, NextKnownInv, Invariant, PTL DEF Spec

(* No race between submissions, recoveries and reconciliations leaves a row   *)
(* that the provider's present answer could not be recorded in               *)
(* (execution._update_result_in_connection, broker.py).                      *)
THEOREM ReconciliationCatchesUp == ASSUME HonestProvider PROVE Spec => []CanCatchUp
<1>1. ASSUME IInv, KnownInv, NEW k \in LocalKeys, venue[k] # None
      PROVE  Replaces(intents[k].result, venue[k])
  <2>1. /\ intents[k].result \in BrokerResults \cup {None}
        /\ venue[k] \in ProviderResults /\ Behind(intents[k].result, venue[k])
    BY <1>1 DEF IInv, TypeOK, StoreTypeOK, LocalKeys, Intents, KnownInv, VenueFits,
       RowsBehind
  <2> QED BY <2>1, BehindCatchesUp
<1>2. IInv /\ KnownInv => CanCatchUp BY <1>1 DEF CanCatchUp
<1> QED BY <1>2, Invariant, KnownInvariant, PTL
-----------------------------------------------------------------------------
(* What the ledger was told *)

\* An event says of an order what the provider did, or that it said nothing.
Truthful(event) ==
  /\ event.type = "EXECUTION_UNKNOWN" => event.result = TimeoutResult
  /\ event.type \in ResultEvents \ {"EXECUTION_UNKNOWN"} =>
       event.result \in ProviderResults

\* The trail of an order is truthful, ends its uncertainty for good, and its
\* fills do not shrink.
TrailFits(trail, result) ==
  /\ \A i \in DOMAIN trail : Truthful(trail[i])
  /\ result \in {None, TimeoutResult} =>
       \A i \in DOMAIN trail : trail[i].result \in {None, TimeoutResult}
  /\ \A i, j \in DOMAIN trail : i < j =>
       Filled(trail[i].result) <= Filled(trail[j].result)

ToldInv == \A k \in LocalKeys : TrailFits(audit[k], intents[k].result)

(* A trail that fits still does with a truthful event at its end. *)
LEMMA TrailGrows ==
  ASSUME HonestProvider, FillsStated, NEW trail \in Seq(Events), trail # <<>>,
         NEW prev \in {None, TimeoutResult} \cup ProviderResults,
         trail[Len(trail)].result = prev, TrailFits(trail, prev),
         NEW type \in ResultEvents,
         NEW r \in {TimeoutResult} \cup ProviderResults,
         Truthful([type |-> type, result |-> r]), Replaces(prev, r)
  PROVE  TrailFits(Append(trail, [type |-> type, result |-> r]), r)
<1> DEFINE event == [type |-> type, result |-> r]
           n == Len(trail)
           longer == Append(trail, event)
<1>1. /\ prev \in BrokerResults \cup {None} /\ r \in BrokerResults
      /\ (prev = None \/ StatesFill(prev)) /\ StatesFill(r)
  BY ProviderAssumption, TimeoutIsResult, TimeoutSaysNothing DEF FillsStated
<1>2. StatesFill(r) BY TimeoutSaysNothing DEF FillsStated
<1>3. event \in Events /\ event.result = r BY <1>1 DEF Events
<1> HIDE DEF event
<1>4. /\ n \in Nat \ {0} /\ DOMAIN longer = 1..(n + 1) /\ DOMAIN trail = 1..n
      /\ longer[n + 1] = event /\ \A i \in 1..n : longer[i] = trail[i]
  BY <1>3
<1>5. ASSUME NEW i \in 1..n PROVE trail[i].result \in BrokerResults \cup {None}
  <2>1. trail[i] \in Events BY <1>4
  <2> QED BY <2>1 DEF Events
<1>6. \A i \in 1..n : Filled(trail[i].result) <= Filled(r)
  <2> SUFFICES ASSUME NEW i \in 1..n PROVE Filled(trail[i].result) <= Filled(r)
    OBVIOUS
  <2>1. Filled(trail[i].result) <= Filled(prev)
    <3>1. Filled(prev) \in 0..Qty BY <1>1, FilledTyped
    <3> QED BY <1>4, <3>1, QtyAssumption DEF TrailFits
  <2>2. Filled(prev) <= Filled(r) BY <1>1, <1>2, FillGrows
  <2>3. Filled(trail[i].result) \in Nat /\ Filled(prev) \in Nat /\ Filled(r) \in Nat
    BY <1>1, <1>5, FilledTyped, QtyAssumption
  <2> QED BY <2>1, <2>2, <2>3
<1>7. \A i \in DOMAIN longer : Truthful(longer[i])
  BY <1>4 DEF TrailFits, event
<1>8. r \in {None, TimeoutResult} => prev \in {None, TimeoutResult}
  <2> SUFFICES ASSUME r = TimeoutResult, prev \in ProviderResults PROVE FALSE
    BY <1>1, NoneIsNothing
  <2>1. prev.status \in Statuses \ {"UNKNOWN"} /\ prev # None
    BY <1>1, ProviderAssumption, NoneIsNothing
       DEF HonestProvider, BrokerResults, Results
  <2>2. "UNKNOWN" \notin AllowedNext(prev.status)
    BY <2>1 DEF AllowedNext, Statuses, Terminal
  <2> QED BY <2>1, <2>2, TimeoutSaysNothing DEF Replaces, TransitionAllowed
<1>9. r \in {None, TimeoutResult} =>
        \A i \in DOMAIN longer : longer[i].result \in {None, TimeoutResult}
  BY <1>3, <1>4, <1>8 DEF TrailFits
<1>10. \A i, j \in DOMAIN longer : i < j =>
         Filled(longer[i].result) <= Filled(longer[j].result)
  BY <1>3, <1>4, <1>6 DEF TrailFits
<1> QED BY <1>7, <1>9, <1>10 DEF TrailFits, event

(* Every step keeps the trails fitting. *)
LEMMA NextToldInv ==
  ASSUME HonestProvider, FillsStated
  PROVE  IInv /\ KnownInv /\ ToldInv /\ [Next]_vars => ToldInv'
<1> SUFFICES ASSUME IInv, KnownInv, ToldInv, [Next]_vars PROVE ToldInv' OBVIOUS
<1>1. TypeOK /\ CallsBound /\ AuditMatchesState BY DEF IInv
<1>2. CASE UNCHANGED <<intents, audit>> BY <1>2 DEF ToldInv, LocalKeys
<1>3. ASSUME NEW k \in LocalKeys, NEW r \in {TimeoutResult} \cup ProviderResults,
             NEW type \in ResultEvents, CommitResult(k, r, type),
             Truthful([type |-> type, result |-> r])
      PROVE  ToldInv'
  <2> DEFINE prev == intents[k].result
  <2>1. /\ k \in Keys /\ intents[k] # None
        /\ prev \in {None, TimeoutResult} \cup ProviderResults
    BY DEF LocalKeys, KnownInv, RowsBehind, Behind
  <2>2. /\ audit[k] \in Seq(Events) /\ audit[k] # <<>>
        /\ audit[k][Len(audit[k])].result = prev
    BY <1>1, <2>1 DEF TypeOK, StoreTypeOK, AuditMatchesState
  <2>3. r \in BrokerResults BY TimeoutIsResult, ProviderAssumption
  <2>4. CASE /\ Replaces(prev, r) /\ LocalKeys' = LocalKeys
             /\ intents'[k].result = r
             /\ audit'[k] = Append(audit[k], [type |-> type, result |-> r])
             /\ \A j \in Keys \ {k} : intents'[j] = intents[j] /\ audit'[j] = audit[j]
    <3>1. TrailFits(audit[k], prev) BY DEF ToldInv
    <3> HIDE DEF prev
    <3>2. TrailFits(audit'[k], intents'[k].result)
      BY <1>3, <2>1, <2>2, <2>4, <3>1, TrailGrows
    <3>3. \A j \in LocalKeys \ {k} : TrailFits(audit'[j], intents'[j].result)
      BY <2>4 DEF ToldInv, LocalKeys
    <3> QED BY <2>4, <3>2, <3>3 DEF ToldInv
  <2> QED BY <1>1, <1>2, <1>3, <2>3, <2>4, CommitWrites
<1>4. ASSUME NEW k \in Keys, NEW a \in Auths \cup {None},
             NEW e \in Approvals \cup {None}, RecordIntent(k, a, e)
      PROVE  ToldInv'
  <2> DEFINE created == [type |-> "EXECUTION_INTENT_CREATED", result |-> None]
  <2>1. CASE /\ intents'[k].result = None /\ audit'[k] = <<created>>
             /\ \A j \in Keys \ {k} : intents'[j] = intents[j] /\ audit'[j] = audit[j]
    <3>1. TrailFits(<<created>>, None)
      BY DEF TrailFits, Truthful, ResultEvents
    <3>2. \A j \in LocalKeys' \ {k} : j \in LocalKeys BY <2>1 DEF LocalKeys
    <3>3. \A j \in LocalKeys' \ {k} : TrailFits(audit'[j], intents'[j].result)
      BY <2>1, <3>2 DEF ToldInv, LocalKeys
    <3> HIDE DEF created
    <3> QED BY <2>1, <3>1, <3>3 DEF ToldInv
  <2> QED BY <1>2, <1>4, <2>1, RecordWrites
<1>5. ASSUME NEW w \in Workers, Begin(w) \/ Step(w) \/ Crash(w) PROVE ToldInv'
  <2>1. ASSUME NEW i \in call[w].items, i.key \in LocalKeys,
               CommitResult(i.key, i.result,
                 IF i.result = TimeoutResult THEN "EXECUTION_UNKNOWN"
                 ELSE "EXECUTION_RESULT")
        PROVE  ToldInv'
    <3> DEFINE type == IF i.result = TimeoutResult THEN "EXECUTION_UNKNOWN"
                       ELSE "EXECUTION_RESULT"
    <3>1. i.result \in BrokerResults
      BY <1>1, <2>1 DEF TypeOK, Calls, Items
    <3>2. i.result \in {TimeoutResult} \cup ProviderResults
      BY <2>1, <3>1, NoneIsNothing DEF KnownInv, AnswersBehind, Behind
    <3>3. type \in ResultEvents /\ Truthful([type |-> type, result |-> i.result])
      BY <3>2 DEF ResultEvents, Truthful
    <3> QED BY <1>3, <2>1, <3>2, <3>3
  <2>2. ASSUME pc[w] \in {"adopt", "settle"},
               CommitResult(call[w].key, call[w].item.result, AnswerType(call[w]))
        PROVE  ToldInv'
    <3>1. call[w].item \in call[w].items /\ call[w].key \in LocalKeys
      BY <1>1, <2>2 DEF KnownInv, AnswersMatched, CallsBound, Bound
    <3>2. call[w].item.result \in ProviderResults
      BY <2>2, <3>1 DEF KnownInv, AnswersBehind
    <3>3. /\ AnswerType(call[w]) \in ResultEvents
          /\ Truthful([type |-> AnswerType(call[w]), result |-> call[w].item.result])
      BY <3>2 DEF AnswerType, ResultEvents, Truthful
    <3> QED BY <1>3, <2>2, <3>1, <3>2, <3>3
  <2> QED BY <1>2, <1>4, <1>5, <2>1, <2>2, RowSteps
<1>6. ASSUME NEW a, Activate(a) \/ Revoke(a) \/ Expire(a)
      PROVE  UNCHANGED <<intents, audit>>
  BY <1>6 DEF Activate, ActivateAuthorization, Revoke, RevokeAuthorization,
     Expire, storeVars
<1>7. ASSUME NEW k, Progress(k) PROVE UNCHANGED <<intents, audit>>
  BY <1>7 DEF Progress, storeVars
<1>8. OperatorHalt \/ UNCHANGED vars => UNCHANGED <<intents, audit>>
  BY DEF OperatorHalt, vars, storeVars
<1> QED BY <1>2, <1>5, <1>6, <1>7, <1>8 DEF Next

(* One event of the types counts as one. *)
LEMMA CountsOne ==
  ASSUME NEW events, NEW types, 1 \in DOMAIN events,
         \A i \in DOMAIN events : events[i].type \in types <=> i = 1
  PROVE  Count(events, types) = 1
<1> DEFINE found == {i \in DOMAIN events : events[i].type \in types}
<1>1. found = {1} OBVIOUS
<1>2. Cardinality({1}) = 1 BY FS_Singleton
<1>3. Count(events, types) = Cardinality(found) BY DEF Count
<1> HIDE DEF found
<1> QED BY <1>1, <1>2, <1>3

(* No event of the types counts as none. *)
LEMMA CountsNone ==
  ASSUME NEW events, NEW types, \A i \in DOMAIN events : events[i].type \notin types
  PROVE  Count(events, types) = 0
<1> DEFINE found == {i \in DOMAIN events : events[i].type \in types}
<1>1. found = {} OBVIOUS
<1>2. Cardinality({}) = 0 BY FS_EmptySet
<1>3. Count(events, types) = Cardinality(found) BY DEF Count
<1> HIDE DEF found
<1> QED BY <1>1, <1>2, <1>3

(* An inspection of such a store and ledger finds nothing. *)
LEMMA NothingToFind ==
  ASSUME HonestProvider, IInv, KnownInv, ToldInv PROVE AlwaysHealthy
<1> DEFINE result(k) == intents[k].result
           trail(k) == audit[k]
           logged(k) == {i \in DOMAIN audit[k] : audit[k][i].type \in ResultEvents}
<1>1. ASSUME NEW k \in LocalKeys
      PROVE  /\ k \in Keys /\ intents[k] # None
             /\ trail(k) \in Seq(Events) /\ Len(trail(k)) \in Nat \ {0}
             /\ DOMAIN trail(k) = 1..Len(trail(k))
             /\ trail(k)[Len(trail(k))].result = result(k)
             /\ result(k) = None <=> Len(trail(k)) = 1
             /\ logged(k) = 2..Len(trail(k))
  <2>1. /\ k \in Keys /\ intents[k] # None /\ trail(k) \in Seq(Events)
        /\ trail(k) # <<>>
    BY DEF LocalKeys, IInv, TypeOK, StoreTypeOK, AuditMatchesState
  <2>2. /\ Len(trail(k)) \in Nat \ {0} /\ DOMAIN trail(k) = 1..Len(trail(k))
        /\ \A i \in 1..Len(trail(k)) : trail(k)[i] \in Events
    BY <2>1
  <2>3. /\ trail(k)[Len(trail(k))].result = result(k)
        /\ \A i \in 1..Len(trail(k)) :
             /\ trail(k)[i].type = "EXECUTION_INTENT_CREATED" <=> i = 1
             /\ trail(k)[i].result = None <=> i = 1
    BY <2>1, <2>2 DEF IInv, AuditMatchesState
  <2>4. \A i \in 1..Len(trail(k)) : i # 1 <=> trail(k)[i].type \in ResultEvents
    BY <2>2, <2>3 DEF Events, ResultEvents
  <2>5. logged(k) = 2..Len(trail(k)) BY <2>2, <2>4
  <2>6. result(k) = None <=> Len(trail(k)) = 1
    <3>1. Len(trail(k)) \in 1..Len(trail(k)) BY <2>2
    <3> QED BY <2>3, <3>1
  <2> QED BY <2>1, <2>2, <2>3, <2>5, <2>6
<1>2. ASSUME NEW k \in Keys \ LocalKeys PROVE audit[k] = <<>>
  BY DEF LocalKeys, IInv, AuditMatchesState
<1>3. ASSUME NEW k \in LocalKeys, NEW j \in LocalKeys, j # k,
             result(k) # None, result(j) # None, result(k).order # None
      PROVE  result(j).order # result(k).order
  <2> SUFFICES ASSUME result(j).order = result(k).order PROVE FALSE OBVIOUS
  <2>1. /\ venue[k] # None /\ venue[k].order = result(k).order
        /\ venue[j] # None /\ venue[j].order = result(j).order
    BY <1>3, TimeoutSaysNothing DEF KnownInv, RowsBehind, Behind, Precedes
  <2> QED BY <1>1, <1>3, <2>1 DEF KnownInv, VenueFits
<1>4. ASSUME NEW k \in LocalKeys
      PROVE  Count(audit[k], {"EXECUTION_INTENT_CREATED"}) = 1
  <2>1. \A i \in DOMAIN audit[k] :
          audit[k][i].type \in {"EXECUTION_INTENT_CREATED"} <=> i = 1
    BY <1>1 DEF IInv, AuditMatchesState
  <2>2. 1 \in DOMAIN audit[k] BY <1>1
  <2> QED BY <2>1, <2>2, CountsOne
<1>5. ASSUME NEW k \in LocalKeys, NEW i \in logged(k)
      PROVE  /\ audit[k][i].type = "EXECUTION_UNKNOWN" =>
                  audit[k][i].result = TimeoutResult
             /\ audit[k][i].type # "EXECUTION_UNKNOWN" =>
                  audit[k][i].result \in ProviderResults
  BY DEF ToldInv, TrailFits, Truthful
<1>6. ASSUME NEW k \in LocalKeys, NEW i \in logged(k), \A j \in logged(k) : j <= i
      PROVE  audit[k][i].result = result(k)
  BY <1>1, <1>6
<1>7. ASSUME NEW k \in LocalKeys, NEW i \in logged(k), NEW j \in logged(k), i < j,
             audit[k][i].result.filled # None, audit[k][j].result.filled # None
      PROVE  /\ audit[k][i].result.filled \in Nat /\ audit[k][j].result.filled \in Nat
             /\ audit[k][i].result.filled <= audit[k][j].result.filled
  <2>1. Filled(audit[k][i].result) <= Filled(audit[k][j].result)
    BY <1>7 DEF ToldInv, TrailFits
  <2>2. audit[k][i].result # None /\ audit[k][j].result # None
    BY <1>1, <1>7 DEF IInv, AuditMatchesState
  <2>3. audit[k][i] \in Events /\ audit[k][j] \in Events BY <1>1
  <2>4. audit[k][i].result \in Results /\ audit[k][j].result \in Results
    BY <2>2, <2>3 DEF Events, BrokerResults
  <2> QED BY <1>7, <2>1, <2>2, <2>4, QtyAssumption DEF Filled, Results
<1>8. ASSUME NEW k \in LocalKeys, Status(k) = "UNKNOWN"
      PROVE  Count(audit[k], {"EXECUTION_RECOVERED", "EXECUTION_RECONCILED"}) = 0
  <2>1. result(k) \in {None, TimeoutResult}
    BY <1>8, ProviderAssumption
       DEF KnownInv, RowsBehind, Behind, Status, HonestProvider
  <2>2. \A i \in DOMAIN audit[k] : audit[k][i].result \in {None, TimeoutResult}
    BY <2>1 DEF ToldInv, TrailFits
  <2>3. None \notin ProviderResults /\ TimeoutResult \notin ProviderResults
    BY ProviderAssumption, NoneIsNothing, TimeoutSaysNothing DEF HonestProvider
  <2>4. ASSUME NEW i \in DOMAIN audit[k],
               audit[k][i].type \in {"EXECUTION_RECOVERED", "EXECUTION_RECONCILED"}
        PROVE  FALSE
    BY <2>2, <2>3, <2>4 DEF ToldInv, TrailFits, Truthful, ResultEvents
  <2> DEFINE types == {"EXECUTION_RECOVERED", "EXECUTION_RECONCILED"}
  <2>5. \A i \in DOMAIN audit[k] : audit[k][i].type \notin types BY <2>4
  <2> HIDE DEF types
  <2>6. Count(audit[k], types) = 0 BY <2>5, CountsNone
  <2> QED BY <2>6 DEF types
<1> DEFINE Decided == {k \in LocalKeys : result(k) # None}
           Audited == {k \in Decided : logged(k) # {}}
<1>9. Decided = Audited /\ \A k \in LocalKeys \ Decided : logged(k) = {}
  <2>1. ASSUME NEW k \in Decided PROVE 2 \in logged(k)
    <3>1. k \in LocalKeys /\ result(k) # None OBVIOUS
    <3>2. PICK n \in Nat \ {0} : n # 1 /\ logged(k) = 2..n BY <1>1, <3>1
    <3> HIDE DEF logged
    <3>3. 2 \in 2..n BY <3>2
    <3> QED BY <3>2, <3>3
  <2>2. ASSUME NEW k \in LocalKeys \ Decided PROVE logged(k) = {}
    <3>1. Len(audit[k]) = 1 /\ logged(k) = 2..Len(audit[k]) BY <1>1
    <3> QED BY <3>1
  <2> HIDE DEF logged
  <2> QED BY <2>1, <2>2
<1>10. {k \in Keys \ LocalKeys : audit[k] # <<>>} = {} BY <1>2
<1>11. {k \in Decided : result(k).order # None /\
          \E j \in Decided \ {k} : result(j).order = result(k).order} = {}
  BY <1>3
<1>12. {k \in LocalKeys : Count(audit[k], {"EXECUTION_INTENT_CREATED"}) # 1} = {}
  BY <1>4
<1>13. {k \in LocalKeys \ Decided : logged(k) # {}} = {} BY <1>9
<1>14. Decided \ Audited = {} BY <1>9
<1>15. {k \in Audited : \E i \in logged(k) :
          /\ audit[k][i].type = "EXECUTION_UNKNOWN"
          /\ audit[k][i].result.status # "UNKNOWN"} = {}
  BY <1>5, TimeoutSaysNothing
<1>16. {k \in Audited : \E i \in logged(k) :
          /\ audit[k][i].type = "EXECUTION_RESULT"
          /\ audit[k][i].result.status = "UNKNOWN"} = {}
  BY <1>5 DEF HonestProvider
<1>17. {k \in Audited : \E i \in logged(k) :
          /\ \A j \in logged(k) : j <= i
          /\ audit[k][i].result # result(k)} = {}
  BY <1>6
<1>18. {k \in Audited : \E i, j \in logged(k) :
          /\ i < j
          /\ audit[k][i].result.filled # None /\ audit[k][j].result.filled # None
          /\ audit[k][j].result.filled < audit[k][i].result.filled} = {}
  BY <1>7
<1>19. {k \in Audited :
          /\ Status(k) = "UNKNOWN"
          /\ Count(audit[k], {"EXECUTION_RECOVERED", "EXECUTION_RECONCILED"}) > 0} = {}
  BY <1>8
<1> QED BY <1>10, <1>11, <1>12, <1>13, <1>14, <1>15, <1>16, <1>17, <1>18, <1>19
        DEF AlwaysHealthy, Discrepancies

(* The trails fit in every reachable state. *)
LEMMA ToldInvariant ==
  ASSUME HonestProvider, FillsStated PROVE Spec => []ToldInv
<1>1. Init => ToldInv BY DEF Init, StoreInit, LocalKeys, ToldInv
<1> QED BY <1>1, NextToldInv, Invariant, KnownInvariant, PTL DEF Spec

(* Whatever was lost, late or repeated, an inspection that reads ledger and   *)
(* intents at once finds nothing wrong (execution_reconciliation.py).           *)
THEOREM InspectionsFindNothing ==
  ASSUME HonestProvider, FillsStated PROVE Spec => []AlwaysHealthy
BY NothingToFind, Invariant, KnownInvariant, ToldInvariant, PTL
=============================================================================
