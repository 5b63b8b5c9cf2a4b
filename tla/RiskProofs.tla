----------------------------- MODULE RiskProofs -----------------------------
(***************************************************************************)
(* The proof that the aggregate LIVE position is what it started from plus *)
(* everything that was executed (RiskEqualsExecuted), for a provider that  *)
(* says what it filled.                                                    *)
(*                                                                         *)
(* The invariant sums the fills the rows state.  A row's fill moves with   *)
(* the position in one transaction; the owner of the risk basis writes     *)
(* back a position it read earlier, which is the present one because every *)
(* write raises the version it has to name.                                *)
(***************************************************************************)
EXTENDS LifecycleProofs, SumProofs

Fills == [k \in Keys |-> Filled(intents[k].result)]

Bought == LocalKeys \ Sells
Sold == LocalKeys \cap Sells

-----------------------------------------------------------------------------
(* The invariant *)

(* The tables: the position is the one it started from with all fills, a      *)
(* LIVE row has an authority and a position to move.                         *)
FillsAddUp ==
  /\ IsFiniteSet(LocalKeys)
  /\ risk # None => Live
  /\ Live => \A k \in LocalKeys : risk # None /\ intents[k].auth # None
  /\ \A k \in LocalKeys : Status(k) = "FILLED" => Filled(intents[k].result) = Qty
  /\ risk # None =>
       risk.state.position =
         ProviderSnapshot.position + Total(Fills, Bought) - Total(Fills, Sold)

(* The calls: a basis that was read is older than the present one, or has    *)
(* its position; only LIVE calls seed one.                                   *)
BasisKnown ==
  \A w \in Workers :
    /\ pc[w] = "seed_state" => Live
    /\ pc[w] = "mutate_state" =>
         /\ risk # None /\ call[w].basis.version <= risk.version
         /\ call[w].basis.version = risk.version =>
              call[w].basis.state.position = risk.state.position

-----------------------------------------------------------------------------
(* Transactions *)

(* The steps of a worker that touch a row or the risk basis. *)
LEMMA RiskSteps ==
  ASSUME IInv, StatedInv, BasisKnown, NEW w \in Workers,
         Begin(w) \/ Step(w) \/ Crash(w)
  PROVE  \/ UNCHANGED <<intents, risk>>
         \/ \E k \in Keys, a \in Auths \cup {None}, e \in Approvals \cup {None} :
              (Live => a \in Auths) /\ RecordIntent(k, a, e)
         \/ \E k \in LocalKeys, r \in BrokerResults, type \in ResultEvents :
              StatesFill(r) /\ CommitResult(k, r, type)
         \/ Live /\ SeedRiskState(ProviderSnapshot)
         \/ /\ pc[w] = "mutate_state"
            /\ \E d \in Nat :
                 MutateRiskState([call[w].basis.state EXCEPT !.cash = @ + d],
                                 call[w].basis.version)
<1> DEFINE Committed ==
      \E k \in LocalKeys, r \in BrokerResults, type \in ResultEvents :
        StatesFill(r) /\ CommitResult(k, r, type)
<1>1. TypeOK /\ Bound(pc[w], call[w], LocalKeys, SendableKeys) /\ call[w] \in Calls
  BY DEF IInv, TypeOK, CallsBound
<1>2. Local => UNCHANGED <<intents, risk>> BY DEF Local, storeVars
<1>3. Begin(w) => Local BY BeginCall DEF IInv
<1>4. Match(w) \/ Crash(w) \/ Ask(w) \/ CheckOrphans(w) \/ ReadLedger(w)
        \/ ReadStore(w) \/ ReadReason(w) \/ Authorize(w) \/ Reauthorize(w)
        \/ CheckHalt(w) \/ Lookup(w) \/ CheckPrepare(w) => Local
  BY DEF Match, Crash, Ask, CheckOrphans, ReadLedger, ReadStore, ReadReason,
     Authorize, Reauthorize, RequireAuthorization, CheckHalt, Lookup, CheckPrepare
<1>5. SeedLimits(w) \/ Contact(w) \/ WriteRiskLimits(w) \/ AssertHalt(w) \/ Clear(w)
        => UNCHANGED <<intents, risk>>
  BY DEF SeedLimits, SeedRiskLimits, Contact, WriteRiskLimits, MutateRiskLimits,
     AssertHalt, AssertHaltFor, Clear, ClearHaltOf, storeVars
<1>6. SeedState(w) => Live /\ SeedRiskState(ProviderSnapshot)
  BY DEF SeedState, BasisKnown
<1>7. WriteRiskState(w) =>
        \/ UNCHANGED <<intents, risk>>
        \/ /\ pc[w] = "mutate_state"
           /\ \E d \in Nat :
                MutateRiskState([call[w].basis.state EXCEPT !.cash = @ + d],
                                call[w].basis.version)
  BY ProviderAssumption DEF WriteRiskState, storeVars
<1>8. CommitIntent(w) =>
        \/ UNCHANGED <<intents, risk>>
        \/ \E k \in Keys, a \in Auths \cup {None}, e \in Approvals \cup {None} :
             (Live => a \in Auths) /\ RecordIntent(k, a, e)
  <2> SUFFICES ASSUME CommitIntent(w)
               PROVE  \/ UNCHANGED <<intents, risk>>
                      \/ \E k \in Keys, a \in Auths \cup {None},
                            e \in Approvals \cup {None} :
                           (Live => a \in Auths) /\ RecordIntent(k, a, e)
    OBVIOUS
  <2>1. /\ call[w].key \in Keys /\ call[w].auth \in Auths \cup {None}
        /\ call[w].approval \in Approvals \cup {None}
        /\ Live => call[w].auth \in Auths
    BY <1>1 DEF CommitIntent, Bound, Calls
  <2>2. CASE RecordIntent(call[w].key, call[w].auth, call[w].approval)
    BY <2>1, <2>2
  <2>3. CASE UNCHANGED storeVars \/ RecordRefusal(call[w].key)
    BY <2>3 DEF storeVars, RecordRefusal
  <2> QED BY <2>2, <2>3 DEF CommitIntent
<1>9. Acquire(w) => UNCHANGED <<intents, risk>>
  BY <1>1 DEF Acquire, AcquireAuthority, BindIntent, Bound, SendableKeys, LocalKeys,
     storeVars
<1>10. ASSUME Adopt(w) \/ Settle(w) PROVE UNCHANGED <<intents, risk>> \/ Committed
  <2>1. /\ call[w].key \in LocalKeys /\ call[w].item.result \in BrokerResults
        /\ StatesFill(call[w].item.result)
        /\ AnswerType(call[w]) \in ResultEvents
    BY <1>1, <1>10
       DEF Adopt, Settle, Bound, Items, StatedInv, AnswerType, ResultEvents
  <2>2. \/ UNCHANGED storeVars
        \/ CommitResult(call[w].key, call[w].item.result, AnswerType(call[w]))
    BY <1>10 DEF Adopt, Settle, CommitAnswer
  <2> QED BY <2>1, <2>2 DEF storeVars
<1>11. ASSUME Record(w) PROVE Committed
  <2>1. PICK i \in call[w].items :
          CommitResult(i.key, i.result,
            IF i.result = TimeoutResult THEN "EXECUTION_UNKNOWN"
            ELSE "EXECUTION_RESULT")
    BY <1>11 DEF Record
  <2>2. /\ i.key \in LocalKeys /\ i.result \in BrokerResults /\ StatesFill(i.result)
    BY <1>1, <1>11 DEF Record, Bound, Calls, Items, StatedInv
  <2> DEFINE type == IF i.result = TimeoutResult THEN "EXECUTION_UNKNOWN"
                     ELSE "EXECUTION_RESULT"
  <2>3. type \in ResultEvents BY DEF ResultEvents
  <2>4. CommitResult(i.key, i.result, type) BY <2>1
  <2> HIDE DEF type
  <2> QED BY <2>2, <2>3, <2>4
<1> HIDE DEF Committed
<1>12. \/ UNCHANGED <<intents, risk>> \/ Committed
       \/ \E k \in Keys, a \in Auths \cup {None}, e \in Approvals \cup {None} :
            (Live => a \in Auths) /\ RecordIntent(k, a, e)
       \/ Live /\ SeedRiskState(ProviderSnapshot)
       \/ /\ pc[w] = "mutate_state"
          /\ \E d \in Nat :
               MutateRiskState([call[w].basis.state EXCEPT !.cash = @ + d],
                               call[w].basis.version)
  BY <1>2, <1>3, <1>4, <1>5, <1>6, <1>7, <1>8, <1>9, <1>10, <1>11 DEF Step
<1> QED BY <1>12 DEF Committed

(* Neither table changing, neither does anything that is summed. *)
LEMMA RiskStutters ==
  FillsAddUp /\ UNCHANGED <<intents, risk>> => FillsAddUp'
BY DEF FillsAddUp, Fills, Bought, Sold, LocalKeys, Status

(* The fills of the rows are quantities. *)
LEMMA FillsTyped ==
  ASSUME TypeOK, NEW k \in LocalKeys
  PROVE  /\ k \in Keys /\ intents[k] \in Intents
         /\ intents[k].result \in BrokerResults \cup {None}
         /\ Fills[k] = Filled(intents[k].result)
         /\ Filled(intents[k].result) \in 0..Qty
<1>1. k \in Keys /\ intents[k] \in Intents
  BY DEF TypeOK, StoreTypeOK, LocalKeys
<1>2. intents[k].result \in BrokerResults \cup {None} BY <1>1 DEF Intents
<1> QED BY <1>1, <1>2, FilledTyped DEF Fills

(* What a result adds to the fill of a LIVE order is what the aggregate is   *)
(* told (_apply_live_fill_risk_in_connection).                               *)
LEMMA DeltaIsGrowth ==
  ASSUME TypeOK, StatedInv, NEW k \in LocalKeys, NEW r \in BrokerResults,
         StatesFill(r), Replaces(intents[k].result, r)
  PROVE  /\ intents[k].auth # None =>
              FillDelta(k, r) = Filled(r) - Filled(intents[k].result)
         /\ FillDelta(k, r) \in Nat
         /\ r.status = "FILLED" => Filled(r) = Qty
<1>1. PICK prev \in BrokerResults \cup {None} : prev = intents[k].result
  BY FillsTyped
<1>2. prev = None \/ StatesFill(prev) BY <1>1 DEF StatedInv
<1>3. Filled(prev) \in 0..Qty /\ Filled(r) \in 0..Qty BY FilledTyped
<1>4. Filled(prev) <= Filled(r) BY <1>1, <1>2, FillGrows
<1>5. r.filled = None => Filled(r) = 0 BY DEF Filled
<1>6. r.filled # None => Filled(r) = r.filled BY NoneIsNothing DEF Filled
<1>7. r.status = "FILLED" => Filled(r) = Qty
  BY <1>6 DEF StatesFill, Replaces, QuantitiesFit
<1> QED BY <1>1, <1>3, <1>4, <1>5, <1>6, <1>7, QtyAssumption DEF FillDelta

(* A committed result moves the position by what it adds to the fill. *)
LEMMA CommitAddsUp ==
  ASSUME IInv, StatedInv, FillsAddUp, NEW k \in LocalKeys, NEW r \in BrokerResults,
         NEW type, StatesFill(r), CommitResult(k, r, type)
  PROVE  FillsAddUp'
<1>1. TypeOK /\ StoreTypeOK BY DEF IInv, TypeOK
<1>2. CASE UNCHANGED storeVars BY <1>2, RiskStutters DEF storeVars
<1>3. CASE ResultOutcome(k, r, type) = "committed"
  <2>1. Replaces(intents[k].result, r) /\ FillFits(k, r)
    BY <1>3 DEF ResultOutcome, Replaces
  <2>2. intents' = [intents EXCEPT ![k].result = r] /\ risk' = AfterFill(k, r)
    BY <1>3 DEF CommitResult
  <2>3. /\ intents'[k] = [intents[k] EXCEPT !.result = r]
        /\ \A j \in Keys \ {k} : intents'[j] = intents[j]
    BY <1>1, <2>2, FillsTyped DEF StoreTypeOK
  <2>4. /\ intents'[k] \in Intents /\ intents'[k].result = r
        /\ intents'[k].auth = intents[k].auth
    BY <2>3, <1>1, FillsTyped DEF Intents
  <2>5. LocalKeys' = LocalKeys
    BY <1>1, <2>3, <2>4, FillsTyped, NoneIsNothing DEF LocalKeys
  <2>6. /\ intents[k].auth # None =>
             FillDelta(k, r) = Filled(r) - Filled(intents[k].result)
        /\ FillDelta(k, r) \in Nat
        /\ r.status = "FILLED" => Filled(r) = Qty
    BY <1>1, <2>1, DeltaIsGrowth
  <2>7. \A j \in LocalKeys :
          Status(j)' = "FILLED" => Filled(intents'[j].result) = Qty
    <3> SUFFICES ASSUME NEW j \in LocalKeys, Status(j)' = "FILLED"
                 PROVE  Filled(intents'[j].result) = Qty
      OBVIOUS
    <3>1. CASE j = k BY <2>4, <2>6, <3>1, NoneIsNothing DEF Status
    <3>2. CASE j # k
      <4>1. intents'[j] = intents[j] BY <2>3, <3>2 DEF LocalKeys
      <4> QED BY <4>1 DEF Status, FillsAddUp
    <3> QED BY <3>1, <3>2
  <2>8. CASE ~Live
    <3>1. risk = None BY <2>8 DEF FillsAddUp
    <3>2. risk' = None BY <2>1, <2>2, <2>6, <3>1 DEF FillFits, AfterFill
    <3> QED BY <2>5, <2>7, <2>8, <3>2 DEF FillsAddUp
  <2>9. CASE Live
    <3>1. /\ risk # None /\ risk \in Basis /\ intents[k].auth # None
          /\ risk.state.position =
               ProviderSnapshot.position + Total(Fills, Bought) - Total(Fills, Sold)
      BY <1>1, <2>9 DEF FillsAddUp, StoreTypeOK
    <3>2. risk' \in Basis
      <4>1. risk' \in Basis \cup {None} BY <1>1, <2>1, <2>2, AfterFillTyped
      <4>2. CASE FillDelta(k, r) = 0 BY <2>2, <3>1, <4>2 DEF AfterFill
      <4>3. CASE FillDelta(k, r) # 0
        <5>1. SignedDelta(k, r) \in Int BY <2>6 DEF SignedDelta
        <5> QED BY <2>1, <2>2, <2>6, <3>1, <4>3, <5>1
                DEF FillFits, AfterFill, Basis, Snapshots
      <4> QED BY <4>2, <4>3
    <3>3. PICK g : g = Fills OBVIOUS
    <3>4. PICK h : h = Fills' OBVIOUS
    <3>5. /\ \A j \in LocalKeys : g[j] \in Int /\ h[j] \in Int
          /\ \A j \in LocalKeys \ {k} : h[j] = g[j]
          /\ h[k] = Filled(r) /\ g[k] = Filled(intents[k].result)
      <4>1. h[k] = Filled(r) /\ g[k] = Filled(intents[k].result)
        BY <1>1, <2>4, <3>3, <3>4, FillsTyped DEF Fills
      <4>2. \A j \in LocalKeys \ {k} : h[j] = g[j]
        BY <2>3, <3>3, <3>4 DEF Fills, LocalKeys
      <4>3. \A j \in LocalKeys : g[j] \in Int
        BY <1>1, <3>3, FillsTyped, QtyAssumption
      <4>4. h[k] \in Int BY <4>1, FilledTyped, QtyAssumption
      <4> QED BY <4>1, <4>2, <4>3, <4>4
    <3>6. PICK local : local = LocalKeys /\ IsFiniteSet(local) BY DEF FillsAddUp
    <3>7. PICK buys, sales :
            /\ buys = local \ Sells /\ sales = local \cap Sells
            /\ IsFiniteSet(buys) /\ IsFiniteSet(sales)
      BY <3>6, FS_Subset
    <3>8. /\ Total(g, buys) \in Int /\ Total(h, buys) \in Int
          /\ Total(h, buys) = IF k \in buys THEN Total(g, buys) + h[k] - g[k]
                              ELSE Total(g, buys)
      <4>1. /\ \A j \in buys : g[j] \in Int /\ h[j] \in Int
            /\ \A j \in buys \ {k} : h[j] = g[j]
            /\ IsFiniteSet(buys)
        BY <3>5, <3>6, <3>7
      <4> QED BY <4>1, TotalMoves
    <3>9. /\ Total(g, sales) \in Int /\ Total(h, sales) \in Int
          /\ Total(h, sales) = IF k \in sales THEN Total(g, sales) + h[k] - g[k]
                               ELSE Total(g, sales)
      <4>1. /\ \A j \in sales : g[j] \in Int /\ h[j] \in Int
            /\ \A j \in sales \ {k} : h[j] = g[j]
            /\ IsFiniteSet(sales)
        BY <3>5, <3>6, <3>7
      <4> QED BY <4>1, TotalMoves
    <3>10. risk'.state.position = risk.state.position + SignedDelta(k, r)
      <4>1. CASE FillDelta(k, r) = 0
        BY <2>2, <3>1, <4>1 DEF AfterFill, SignedDelta, Basis, Snapshots
      <4>2. CASE FillDelta(k, r) # 0 BY <2>2, <4>2 DEF AfterFill
      <4> QED BY <4>1, <4>2
    <3>11. risk'.state.position =
             ProviderSnapshot.position + Total(h, buys) - Total(h, sales)
      <4>1. FillDelta(k, r) = h[k] - g[k] /\ h[k] \in Int /\ g[k] \in Int
        BY <2>6, <3>1, <3>5
      <4>2. ProviderSnapshot.position \in Int
        BY ProviderAssumption DEF Snapshots
      <4>3. risk.state.position =
              ProviderSnapshot.position + Total(g, buys) - Total(g, sales)
        BY <3>1, <3>3, <3>6, <3>7 DEF Bought, Sold
      <4>4. k \in Sells => k \notin buys /\ k \in sales BY <3>6, <3>7
      <4>5. k \notin Sells => k \in buys /\ k \notin sales BY <3>6, <3>7
      <4> QED BY <3>8, <3>9, <3>10, <4>1, <4>2, <4>3, <4>4, <4>5 DEF SignedDelta
    <3>12. Bought' = buys /\ Sold' = sales
      BY <2>5, <3>6, <3>7 DEF Bought, Sold
    <3>13. \A j \in LocalKeys : intents'[j].auth # None
      <4>1. \A j \in LocalKeys : intents[j].auth # None BY <2>9 DEF FillsAddUp
      <4> QED BY <2>3, <2>4, <4>1 DEF LocalKeys
    <3>14. risk' # None BY <3>2, NoneIsNothing
    <3>15. risk'.state.position =
             ProviderSnapshot.position + Total(Fills', Bought') - Total(Fills', Sold')
      BY <3>4, <3>11, <3>12
    <3> QED BY <2>5, <2>7, <2>9, <3>6, <3>13, <3>14, <3>15 DEF FillsAddUp
  <2> QED BY <2>8, <2>9
<1> QED BY <1>2, <1>3 DEF CommitResult

(* A new intent has nothing filled, and in LIVE mode an authority. *)
LEMMA RecordAddsUp ==
  ASSUME IInv, FillsAddUp, NEW k \in Keys, NEW a \in Auths \cup {None},
         NEW e \in Approvals \cup {None}, Live => a \in Auths,
         RecordIntent(k, a, e)
  PROVE  FillsAddUp'
<1>1. TypeOK BY DEF IInv
<1>2. risk' = risk /\ (Live => risk # None)
  BY DEF RecordIntent, CanBind, AuthorityHeld
<1>3. CASE UNCHANGED <<intents, audit>> BY <1>2, <1>3, RiskStutters
<1>4. CASE /\ intents[k] = None /\ intents'[k] = NewIntent(a, e)
           /\ intents'[k] # None /\ intents'[k].result = None
           /\ \A j \in Keys \ {k} : intents'[j] = intents[j]
  <2>1. LocalKeys' = LocalKeys \cup {k} /\ k \notin LocalKeys
    BY <1>4 DEF LocalKeys
  <2>2. PICK g : g = Fills OBVIOUS
  <2>3. PICK h : h = Fills' OBVIOUS
  <2>4. /\ h[k] = 0
        /\ \A j \in LocalKeys : g[j] \in Int /\ h[j] = g[j]
    <3>1. h[k] = 0 BY <1>4, <2>3 DEF Fills, Filled
    <3>2. ASSUME NEW j \in LocalKeys PROVE g[j] \in Int /\ h[j] = g[j]
      <4>1. g[j] \in Int BY <1>1, <2>2, FillsTyped, QtyAssumption
      <4>2. intents'[j] = intents[j] /\ j \in Keys
        BY <1>4, <2>1 DEF LocalKeys
      <4> QED BY <2>2, <2>3, <4>1, <4>2 DEF Fills
    <3> QED BY <3>1, <3>2
  <2>5. PICK local : local = LocalKeys /\ IsFiniteSet(local) BY DEF FillsAddUp
  <2>6. PICK buys, sales :
          /\ buys = local \ Sells /\ sales = local \cap Sells
          /\ IsFiniteSet(buys) /\ IsFiniteSet(sales)
    BY <2>5, FS_Subset
  <2>7. \A S \in {buys, sales} :
          /\ k \notin S /\ \A j \in S : g[j] \in Int /\ h[j] = g[j]
          /\ IsFiniteSet(S)
    BY <2>1, <2>4, <2>5, <2>6
  <2>8. ASSUME NEW S \in {buys, sales}
        PROVE  /\ Total(h, S \cup {k}) = Total(g, S)
               /\ Total(h, S) = Total(g, S)
    BY <2>4, <2>7, TotalGrows, TotalAgrees
  <2>9. /\ Bought' = IF k \in Sells THEN buys ELSE buys \cup {k}
        /\ Sold' = IF k \in Sells THEN sales \cup {k} ELSE sales
    BY <2>1, <2>5, <2>6 DEF Bought, Sold
  <2>10. Total(Fills', Bought') = Total(g, buys) /\ Total(Fills', Sold') = Total(g, sales)
    BY <2>3, <2>8, <2>9
  <2>11. IsFiniteSet(LocalKeys') BY <2>1, <2>5, FS_AddElement
  <2>12. \A j \in LocalKeys' : Status(j)' = "FILLED" =>
                                 Filled(intents'[j].result) = Qty
    BY <1>4, <2>1 DEF Status, FillsAddUp, LocalKeys
  <2>13. Live => \A j \in LocalKeys' : intents'[j].auth # None
    BY <1>4, <2>1, NoneIsNothing DEF NewIntent, FillsAddUp, LocalKeys
  <2>14. Total(Fills, Bought) = Total(g, buys) /\ Total(Fills, Sold) = Total(g, sales)
    BY <2>2, <2>5, <2>6 DEF Bought, Sold
  <2>15. risk # None =>
           risk.state.position =
             ProviderSnapshot.position + Total(Fills, Bought) - Total(Fills, Sold)
    BY DEF FillsAddUp
  <2>16. risk' # None =>
           risk'.state.position =
             ProviderSnapshot.position + Total(Fills', Bought') - Total(Fills', Sold')
    BY <1>2, <2>10, <2>14, <2>15
  <2>17. risk' # None => Live BY <1>2 DEF FillsAddUp
  <2> QED BY <1>2, <2>11, <2>12, <2>13, <2>16, <2>17 DEF FillsAddUp
<1> QED BY <1>3, <1>4, RecordWrites

(* The basis is seeded before there is anything to sum. *)
LEMMA SeedAddsUp ==
  ASSUME FillsAddUp, Live, SeedRiskState(ProviderSnapshot) PROVE FillsAddUp'
<1>1. UNCHANGED intents BY DEF SeedRiskState
<1>2. CASE risk # None BY <1>1, <1>2, RiskStutters DEF SeedRiskState
<1>3. CASE risk = None
  <2>1. LocalKeys = {} /\ LocalKeys' = {} BY <1>1, <1>3 DEF FillsAddUp, LocalKeys
  <2>2. Bought' = {} /\ Sold' = {} BY <2>1 DEF Bought, Sold
  <2>3. PICK h : h = Fills' OBVIOUS
  <2>4. Total(h, {}) = 0 BY TotalOfNothing
  <2>5. risk'.state = ProviderSnapshot BY <1>3 DEF SeedRiskState
  <2>6. ProviderSnapshot.position \in Int BY ProviderAssumption DEF Snapshots
  <2>7. Total(Fills', Bought') = 0 /\ Total(Fills', Sold') = 0
    BY <2>2, <2>3, <2>4
  <2>8. risk'.state.position =
          ProviderSnapshot.position + Total(Fills', Bought') - Total(Fills', Sold')
    BY <2>5, <2>6, <2>7
  <2> QED BY <2>1, <2>8, FS_EmptySet DEF FillsAddUp
<1> QED BY <1>2, <1>3

(* The owner of the basis moves no position. *)
LEMMA MutateAddsUp ==
  ASSUME FillsAddUp, BasisKnown, NEW w \in Workers, pc[w] = "mutate_state",
         NEW d \in Nat, call[w].basis \in Basis,
         MutateRiskState([call[w].basis.state EXCEPT !.cash = @ + d],
                         call[w].basis.version)
  PROVE  FillsAddUp'
<1> DEFINE basis == call[w].basis
<1>1. /\ UNCHANGED intents /\ risk # None /\ risk.version = basis.version
      /\ risk' = [state |-> [basis.state EXCEPT !.cash = @ + d],
                  version |-> basis.version + 1]
  BY DEF MutateRiskState, RiskStateMutable
<1>2. risk'.state.position = basis.state.position
  BY <1>1 DEF Basis, Snapshots
<1>3. basis.state.position = risk.state.position BY <1>1 DEF BasisKnown
<1>4. /\ LocalKeys' = LocalKeys /\ Bought' = Bought /\ Sold' = Sold
      /\ Fills' = Fills /\ \A k : Status(k)' = Status(k)
  BY <1>1 DEF LocalKeys, Bought, Sold, Fills, Status
<1>5. risk'.state.position = risk.state.position BY <1>2, <1>3
<1>6. risk' # None
  <2>1. risk' \in Basis BY <1>1 DEF Basis, Snapshots
  <2> QED BY <2>1, NoneIsNothing
<1> QED BY <1>1, <1>4, <1>5, <1>6 DEF FillsAddUp

-----------------------------------------------------------------------------
(* Calls *)

(* Only reading the basis leads to writing it, and only LIVE calls seed it. *)
LEMMA BasisLabels ==
  ASSUME TypeOK, NEW w \in Workers, Begin(w) \/ Step(w) \/ Crash(w)
  PROVE  /\ pc'[w] = "mutate_state" => ReadRiskState(w)
         /\ pc'[w] = "seed_state" => Live
<1> SUFFICES ASSUME pc'[w] \in {"mutate_state", "seed_state"}
             PROVE  \/ ReadRiskState(w) /\ pc'[w] = "mutate_state"
                    \/ Live /\ pc'[w] = "seed_state"
  OBVIOUS
<1>1. \A c, label : Start(w, c, label) => pc'[w] = label
  BY GotoCall DEF Start
<1>2. ~Return(w) BY ReturnCall
<1>3. \A label : Goto(w, label) => label \in {"mutate_state", "seed_state"}
  BY GotoCall
<1>4. /\ \A errors : ~HaltWith(w, errors)
      /\ \A i, names : ~Finished(w, i, names)
      /\ \A i, k : ~Settling(w, i, k, "adopt") /\ ~Settling(w, i, k, "settle")
  <2>1. ~Goto(w, "assert_halt") /\ ~Goto(w, "match") /\ ~Goto(w, "adopt")
          /\ ~Goto(w, "settle")
    BY <1>3
  <2> QED BY <1>2, <2>1 DEF HaltWith, Finished, Settling
<1>5. ~Match(w)
  <2>1. \A i, k, x :
          ~Settling(w, i, k, IF intents[x].result = None THEN "adopt" ELSE "settle")
    BY <1>4
  <2> QED BY <1>2, <1>4, <2>1
          DEF Match, MatchRecovered, MatchDiscovered, MatchReconciled
<1>6. ~Adopt(w) /\ ~Settle(w) BY <1>2, <1>4 DEF Adopt, Settle, CommitAnswer
<1>7. /\ ~Authorize(w) /\ ~CheckHalt(w) /\ ~Lookup(w)
      /\ ~SeedState(w) /\ ~SeedLimits(w) /\ ~CommitIntent(w) /\ ~Reauthorize(w)
      /\ ~Acquire(w) /\ ~Contact(w) /\ ~Record(w)
  BY <1>2, <1>3 DEF Authorize, Reauthorize, RequireAuthorization, CheckHalt, Lookup,
     SeedState, SeedLimits, CommitIntent, Acquire, Contact, Record
<1>8. /\ ~ReadLedger(w) /\ ~ReadStore(w) /\ ~AssertHalt(w) /\ ~Clear(w) /\ ~Ask(w)
      /\ ~CheckOrphans(w) /\ ~WriteRiskState(w) /\ ~WriteRiskLimits(w) /\ ~Crash(w)
      /\ ~ReadReason(w)
  BY <1>2, <1>3, <1>4
     DEF ReadLedger, ReadStore, AssertHalt, Clear, Ask, CheckOrphans,
         WriteRiskState, WriteRiskLimits, Crash, ReadReason
<1>9. CheckPrepare(w) => Live /\ pc'[w] = "seed_state"
  <2> SUFFICES ASSUME CheckPrepare(w) PROVE Live /\ pc'[w] = "seed_state" OBVIOUS
  <2> DEFINE label == IF Live /\ (risk = None \/ limits = None)
                      THEN "seed_state" ELSE "commit_intent"
  <2>1. Goto(w, label) BY <1>2 DEF CheckPrepare
  <2>2. pc'[w] = label BY <2>1, GotoCall
  <2> QED BY <2>2
<1>10. /\ ~Submit(w) /\ ~Prepare(w) /\ ~Enforce(w) /\ ~ClearHalt(w) /\ ~Recover(w)
       /\ ~Reconcile(w) /\ ~ReconcileTwice(w) /\ ~Discover(w) /\ ~ReadRiskLimits(w)
       /\ ReadRiskState(w) => pc'[w] = "mutate_state"
  BY <1>1 DEF Submit, Prepare, Enforce, ClearHalt, Recover, Reconcile,
     ReconcileTwice, Discover, ReadRiskLimits, ReadRiskState
<1>11. Begin(w) => ReadRiskState(w) /\ pc'[w] = "mutate_state"
  BY <1>10 DEF Begin
<1>12. Step(w) => Live /\ pc'[w] = "seed_state"
  BY <1>5, <1>6, <1>7, <1>8, <1>9 DEF Step
<1> QED BY <1>8, <1>11, <1>12

(* A committed result that moves the basis raises its version. *)
LEMMA CommitRaises ==
  ASSUME TypeOK, StatedInv, risk # None, NEW k \in LocalKeys,
         NEW r \in BrokerResults, NEW type, StatesFill(r), CommitResult(k, r, type)
  PROVE  risk' = risk \/ (risk' \in Basis /\ risk'.version = risk.version + 1)
<1>1. risk \in Basis
  <2>1. StoreTypeOK BY DEF TypeOK
  <2> QED BY <2>1 DEF StoreTypeOK
<1>2. CASE UNCHANGED storeVars BY <1>2 DEF storeVars
<1>3. CASE ResultOutcome(k, r, type) = "committed"
  <2>1. Replaces(intents[k].result, r) /\ FillFits(k, r) /\ risk' = AfterFill(k, r)
    BY <1>3 DEF ResultOutcome, Replaces, CommitResult
  <2>2. FillDelta(k, r) \in Nat BY <2>1, DeltaIsGrowth
  <2>3. SignedDelta(k, r) \in Int BY <2>2 DEF SignedDelta
  <2>4. CASE FillDelta(k, r) = 0 BY <2>1, <2>4 DEF AfterFill
  <2>5. CASE FillDelta(k, r) # 0
    BY <1>1, <2>1, <2>2, <2>3, <2>5 DEF FillFits, AfterFill, Basis, Snapshots
  <2> QED BY <2>4, <2>5
<1> QED BY <1>2, <1>3 DEF CommitResult

(* Whoever writes the basis raises its version. *)
LEMMA VersionsRise ==
  ASSUME IInv, StatedInv, BasisKnown, NEW w \in Workers,
         Begin(w) \/ Step(w) \/ Crash(w), risk # None
  PROVE  risk' = risk \/ (risk' \in Basis /\ risk'.version > risk.version)
<1> DEFINE Goal == risk' = risk \/ (risk' \in Basis /\ risk'.version > risk.version)
<1>1. TypeOK /\ risk.version \in Nat
  <2>1. TypeOK /\ StoreTypeOK BY DEF IInv, TypeOK
  <2> QED BY <2>1 DEF StoreTypeOK, Basis
<1>2. UNCHANGED risk => Goal OBVIOUS
<1>3. ASSUME NEW k \in LocalKeys, NEW r \in BrokerResults,
             NEW type \in ResultEvents, StatesFill(r), CommitResult(k, r, type)
      PROVE  Goal
  BY <1>1, <1>3, CommitRaises
<1>4. ASSUME pc[w] = "mutate_state", NEW d \in Nat,
             MutateRiskState([call[w].basis.state EXCEPT !.cash = @ + d],
                             call[w].basis.version)
      PROVE  Goal
  <2>1. call[w].basis \in Basis BY <1>4 DEF IInv, CallsBound, Bound
  <2>2. /\ risk.version = call[w].basis.version
        /\ risk' = [state |-> [call[w].basis.state EXCEPT !.cash = @ + d],
                    version |-> risk.version + 1]
    BY <1>4 DEF MutateRiskState, RiskStateMutable
  <2>3. [call[w].basis.state EXCEPT !.cash = @ + d] \in Snapshots
    BY <2>1 DEF Basis, Snapshots
  <2> QED BY <1>1, <2>2, <2>3 DEF Basis
<1>5. SeedRiskState(ProviderSnapshot) => UNCHANGED risk BY DEF SeedRiskState
<1>6. \A k, a, e : RecordIntent(k, a, e) => UNCHANGED risk BY DEF RecordIntent
<1> HIDE DEF Goal
<1>7. Goal BY <1>2, <1>3, <1>4, <1>5, <1>6, RiskSteps
<1> QED BY <1>7 DEF Goal

(* A basis that was read never gets ahead of the present one. *)
LEMMA NextBasisKnown ==
  ASSUME IInv, StatedInv, BasisKnown, NEW w \in Workers,
         Begin(w) \/ Step(w) \/ Crash(w)
  PROVE  BasisKnown'
<1>1. TypeOK BY DEF IInv
<1>2. risk # None => risk \in Basis /\ risk.version \in Nat /\ risk' # None
  <2> SUFFICES ASSUME risk # None PROVE risk \in Basis /\ risk' # None
    BY DEF Basis
  <2>1. risk \in Basis BY <1>1 DEF TypeOK, StoreTypeOK
  <2> QED BY <2>1, VersionsRise, NoneIsNothing
<1>3. ASSUME NEW v \in Workers, pc[v] = "mutate_state"
      PROVE  call[v].basis.version \in Nat
  BY <1>3 DEF IInv, CallsBound, Bound, Basis
<1>4. ASSUME NEW v \in Workers \ {w}
      PROVE  /\ pc'[v] = "seed_state" => Live
             /\ pc'[v] = "mutate_state" =>
                  /\ risk' # None /\ call'[v].basis.version <= risk'.version
                  /\ call'[v].basis.version = risk'.version =>
                       call'[v].basis.state.position = risk'.state.position
  <2>1. pc'[v] = pc[v] /\ call'[v] = call[v] BY <1>1, WorkerMoves, OthersWait
  <2>2. CASE pc[v] = "seed_state" BY <2>1, <2>2 DEF BasisKnown
  <2>3. CASE pc[v] = "mutate_state"
    <3>1. /\ risk # None /\ call[v].basis.version <= risk.version
          /\ call[v].basis.version = risk.version =>
               call[v].basis.state.position = risk.state.position
      BY <2>3 DEF BasisKnown
    <3>2. risk' = risk \/ (risk' \in Basis /\ risk'.version > risk.version)
      BY <3>1, VersionsRise
    <3>3. CASE risk' = risk BY <2>1, <2>3, <3>1, <3>3
    <3>4. CASE risk' \in Basis /\ risk'.version > risk.version
      <4>1. risk'.version \in Nat /\ call[v].basis.version \in Nat
            /\ risk.version \in Nat
        BY <1>2, <1>3, <2>3, <3>1, <3>4 DEF Basis
      <4>2. call[v].basis.version < risk'.version BY <3>1, <3>4, <4>1
      <4> QED BY <1>2, <2>1, <2>3, <3>1, <4>1, <4>2
    <3> QED BY <3>2, <3>3, <3>4
  <2> QED BY <2>1, <2>2, <2>3
<1>5. pc'[w] = "seed_state" => Live BY <1>1, BasisLabels
<1>6. ASSUME pc'[w] = "mutate_state"
      PROVE  risk' = risk /\ risk # None /\ call'[w].basis = risk
  <2>1. ReadRiskState(w) BY <1>1, <1>6, BasisLabels
  <2> QED BY <1>1, <2>1
          DEF ReadRiskState, Start, storeVars, NoCall, TypeOK
<1>7. pc'[w] = "mutate_state" =>
        /\ risk' # None /\ call'[w].basis.version <= risk'.version
        /\ call'[w].basis.version = risk'.version =>
             call'[w].basis.state.position = risk'.state.position
  BY <1>2, <1>6
<1> QED BY <1>4, <1>5, <1>7 DEF BasisKnown

-----------------------------------------------------------------------------
(* The whole system *)

RiskInv == FillsAddUp /\ BasisKnown

(* Every step keeps the invariant. *)
LEMMA NextRiskInv == IInv /\ StatedInv /\ RiskInv /\ [Next]_vars => RiskInv'
<1> SUFFICES ASSUME IInv, StatedInv, FillsAddUp, BasisKnown, [Next]_vars
             PROVE  FillsAddUp' /\ BasisKnown'
  BY DEF RiskInv
<1>1. UNCHANGED <<intents, risk, pc, call>> => FillsAddUp' /\ BasisKnown'
  BY RiskStutters DEF BasisKnown
<1>2. ASSUME NEW w \in Workers, Begin(w) \/ Step(w) \/ Crash(w)
      PROVE  FillsAddUp' /\ BasisKnown'
  <2>1. BasisKnown' BY <1>2, NextBasisKnown
  <2>2. ASSUME pc[w] = "mutate_state" PROVE call[w].basis \in Basis
    BY <2>2 DEF IInv, CallsBound, Bound
  <2>3. FillsAddUp'
    BY <1>2, <2>2, RiskSteps, RiskStutters, RecordAddsUp, CommitAddsUp, SeedAddsUp,
       MutateAddsUp
  <2> QED BY <2>1, <2>3
<1>3. ASSUME NEW a, Activate(a) \/ Revoke(a) \/ Expire(a)
      PROVE  UNCHANGED <<intents, risk, pc, call>>
  BY <1>3 DEF Activate, ActivateAuthorization, Revoke, RevokeAuthorization,
     Expire, storeVars
<1>4. ASSUME NEW k, Progress(k) PROVE UNCHANGED <<intents, risk, pc, call>>
  BY <1>4 DEF Progress, storeVars
<1>5. OperatorHalt \/ UNCHANGED vars => UNCHANGED <<intents, risk, pc, call>>
  BY DEF OperatorHalt, vars, storeVars
<1> QED BY <1>1, <1>2, <1>3, <1>4, <1>5 DEF Next

(* The invariant holds in every reachable state. *)
LEMMA RiskInvariant == ASSUME FillsStated PROVE Spec => []RiskInv
<1>1. Init => RiskInv
  <2> SUFFICES ASSUME Init PROVE RiskInv OBVIOUS
  <2>1. LocalKeys = {} /\ risk = None BY DEF Init, StoreInit, LocalKeys
  <2>2. FillsAddUp BY <2>1, FS_EmptySet DEF FillsAddUp
  <2>3. BasisKnown BY DEF Init, BasisKnown
  <2> QED BY <2>2, <2>3 DEF RiskInv
<1> QED BY <1>1, NextRiskInv, Invariant, StatedInvariant, PTL DEF Spec

-----------------------------------------------------------------------------
(* The sum of the property *)

(* What the rows say was executed is what they state as filled, in whatever   *)
(* order the sum takes them.                                                 *)
LEMMA ExecutedIsTotal ==
  ASSUME TypeOK, FillsAddUp, NEW S, S \subseteq LocalKeys
  PROVE  MapThenSumSet(Executed, S) = Total(Fills, S)
<1> DEFINE Sum(it, s) == IF s = {} THEN 0 ELSE Executed(Pick(s)) + it[s \ {Pick(s)}]
           P(it) == it = [s \in SUBSET S |-> Sum(it, s)]
           iter == CHOOSE it : P(it)
<1>1. MapThenSumSet(Executed, S) = iter[S]
  BY DEF MapThenSumSet, MapThenFoldSet, Pick
<1>2. IsFiniteSet(S) BY FS_Subset DEF FillsAddUp
<1>3. \A k \in S : Executed(k) = Fills[k]
  BY FillsTyped DEF Executed, FillsAddUp
<1>4. PICK g : g = Fills OBVIOUS
<1>5. ASSUME NEW it PROVE P(it) <=> IsTotal(it, g, S)
  <2> DEFINE F(s) == IF s = {} THEN 0 ELSE g[Pick(s)] + it[s \ {Pick(s)}]
  <2>1. ASSUME NEW s \in SUBSET S PROVE Sum(it, s) = F(s)
    <3>1. s # {} => Executed(Pick(s)) = g[Pick(s)]
      BY <1>3, <1>4, PickIsElement
    <3> QED BY <3>1
  <2>2. IsTotal(it, g, S) <=> it = [s \in SUBSET S |-> F(s)] BY DEF IsTotal
  <2> HIDE DEF F, Sum
  <2>3. [s \in SUBSET S |-> F(s)] = [s \in SUBSET S |-> Sum(it, s)] BY <2>1
  <2> QED BY <2>2, <2>3
<1>6. IsTotal(Totals(g, S), g, S) BY <1>2, TotalsExist
<1> HIDE DEF P
<1>7. P(iter) BY <1>5, <1>6
<1> HIDE DEF iter
<1>8. IsTotal(iter, g, S) BY <1>5, <1>7
<1>9. iter[S] = Totals(g, S)[S] BY <1>2, <1>6, <1>8, TotalsAgree
<1> QED BY <1>1, <1>4, <1>9 DEF Total

(* The aggregate LIVE position is the position it started from plus every     *)
(* executed quantity, for any number of orders, processes and fills: no       *)
(* partial, late, repeated or lost answer, no retry, crash or deposit makes   *)
(* one count twice or not at all (execution._apply_live_fill_risk_in_         *)
(* connection, mutate_live_risk_state).                                      *)
THEOREM PositionIsExecuted ==
  ASSUME FillsStated PROVE Spec => []RiskEqualsExecuted
<1>1. IInv /\ RiskInv => RiskEqualsExecuted
  <2> SUFFICES ASSUME IInv, RiskInv PROVE RiskEqualsExecuted OBVIOUS
  <2>1. TypeOK /\ FillsAddUp BY DEF IInv, RiskInv
  <2>2. /\ MapThenSumSet(Executed, LocalKeys \ Sells) = Total(Fills, Bought)
        /\ MapThenSumSet(Executed, LocalKeys \cap Sells) = Total(Fills, Sold)
    BY <2>1, ExecutedIsTotal DEF Bought, Sold
  <2> QED BY <2>1, <2>2 DEF RiskEqualsExecuted, FillsAddUp
<1> QED BY <1>1, RiskInvariant, Invariant, PTL
=============================================================================
