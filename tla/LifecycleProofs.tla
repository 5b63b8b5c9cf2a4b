-------------------------- MODULE LifecycleProofs --------------------------
(***************************************************************************)
(* The proof that the intent table implements OrderLifecycle, whatever the *)
(* processes, the crashes and the answers: an order is created once, its   *)
(* stage only advances, its order id and its authority never change, and   *)
(* its fill never shrinks.                                                 *)
(*                                                                         *)
(* Only the last needs something of the provider: that a result of an      *)
(* order which may have been filled states the quantity (FillsStated).     *)
(* Orders it was never sent, and answers with wrong quantities or ids, are *)
(* all within its powers.                                                  *)
(***************************************************************************)
EXTENDS ProviderProofs

-----------------------------------------------------------------------------
(* What is recorded states what was filled *)

(* The invariant: so do the provider, the rows, the answers on their way,    *)
(* and the one that is being recorded.                                       *)
StatedInv ==
  /\ \A k \in Keys : venue[k] = None \/ StatesFill(venue[k])
  /\ \A k \in LocalKeys :
       intents[k].result = None \/ StatesFill(intents[k].result)
  /\ \A w \in Workers : \A i \in call[w].items : StatesFill(i.result)
  /\ \A w \in Workers :
       pc[w] \in {"adopt", "settle"} => StatesFill(call[w].item.result)

(* The provider's orders keep stating what was filled. *)
LEMMA VenueStates ==
  ASSUME FillsStated, IInv, StatedInv, [Next]_vars, NEW k \in Keys
  PROVE  venue'[k] = None \/ StatesFill(venue'[k])
<1> DEFINE Goal == venue'[k] = None \/ StatesFill(venue'[k])
<1>1. /\ TypeOK /\ CallsBound /\ venue \in [Keys -> BrokerResults \cup {None}]
  BY DEF IInv, TypeOK
<1>2. UNCHANGED venue => Goal BY DEF StatedInv
<1>3. ASSUME NEW w \in Workers, Contact(w) PROVE Goal
  <2>1. PICK placed \in BrokerResults \cup {None} :
          /\ venue' = [venue EXCEPT ![call[w].key] = placed]
          /\ IF venue[call[w].key] # None THEN placed = venue[call[w].key]
             ELSE placed # None => placed \in ProviderResults
          /\ call[w].key \in LocalKeys
    BY <1>1, <1>3, ContactAnswers
  <2>2. placed = None \/ StatesFill(placed)
    BY <2>1 DEF FillsStated, StatedInv, LocalKeys
  <2> QED BY <1>1, <2>1, <2>2 DEF StatedInv
<1>4. ASSUME NEW j \in Keys, Progress(j) PROVE Goal
  BY <1>1, <1>4 DEF Progress, FillsStated, StatedInv
<1>5. ASSUME NEW w \in Workers, Begin(w) \/ Step(w) \/ Crash(w), ~Contact(w)
      PROVE  UNCHANGED venue
  BY <1>5, ContactsCounted
<1>6. ASSUME NEW a, Activate(a) \/ Revoke(a) \/ Expire(a) PROVE UNCHANGED venue
  BY <1>6 DEF Activate, Revoke, Expire
<1>7. OperatorHalt \/ UNCHANGED vars => UNCHANGED venue BY DEF OperatorHalt, vars
<1> HIDE DEF Goal
<1>8. Goal BY <1>2, <1>3, <1>4, <1>5, <1>6, <1>7 DEF Next
<1> QED BY <1>8 DEF Goal

(* What a worker records states what was filled, and is written to a row of   *)
(* its own key.                                                              *)
LEMMA RecordedStates ==
  ASSUME IInv, StatedInv, NEW w \in Workers, Begin(w) \/ Step(w) \/ Crash(w)
  PROVE  \/ UNCHANGED <<intents, audit>>
         \/ \E k \in Keys, a \in Auths \cup {None}, e \in Approvals \cup {None} :
              RecordIntent(k, a, e)
         \/ \E k \in LocalKeys, r \in BrokerResults, type \in ResultEvents :
              StatesFill(r) /\ CommitResult(k, r, type)
<1>1. TypeOK /\ CallsBound BY DEF IInv
<1>2. ASSUME NEW i \in call[w].items, i.key \in LocalKeys,
             CommitResult(i.key, i.result,
               IF i.result = TimeoutResult THEN "EXECUTION_UNKNOWN"
               ELSE "EXECUTION_RESULT")
      PROVE  \E k \in LocalKeys, r \in BrokerResults, type \in ResultEvents :
               StatesFill(r) /\ CommitResult(k, r, type)
  <2> DEFINE type == IF i.result = TimeoutResult THEN "EXECUTION_UNKNOWN"
                     ELSE "EXECUTION_RESULT"
  <2>1. i.result \in BrokerResults /\ StatesFill(i.result)
    BY <1>1 DEF TypeOK, Calls, Items, StatedInv
  <2>2. type \in ResultEvents BY DEF ResultEvents
  <2>3. CommitResult(i.key, i.result, type) BY <1>2
  <2> HIDE DEF type
  <2> QED BY <1>2, <2>1, <2>2, <2>3
<1>3. ASSUME pc[w] \in {"adopt", "settle"},
             CommitResult(call[w].key, call[w].item.result, AnswerType(call[w]))
      PROVE  \E k \in LocalKeys, r \in BrokerResults, type \in ResultEvents :
               StatesFill(r) /\ CommitResult(k, r, type)
  <2>1. call[w].key \in LocalKeys /\ call[w].item.result \in BrokerResults
    BY <1>1, <1>3 DEF CallsBound, Bound, Items
  <2>2. AnswerType(call[w]) \in ResultEvents BY DEF AnswerType, ResultEvents
  <2>3. StatesFill(call[w].item.result) BY <1>3 DEF StatedInv
  <2> QED BY <1>3, <2>1, <2>2, <2>3
<1> QED BY <1>2, <1>3, RowSteps

(* Rows keep stating what was filled. *)
LEMMA RowsState ==
  ASSUME IInv, StatedInv, NEW w \in Workers, Begin(w) \/ Step(w) \/ Crash(w),
         NEW k \in LocalKeys'
  PROVE  intents'[k].result = None \/ StatesFill(intents'[k].result)
<1> DEFINE Goal == intents'[k].result = None \/ StatesFill(intents'[k].result)
<1>1. TypeOK BY DEF IInv
<1>2. UNCHANGED <<intents, audit>> => Goal BY DEF StatedInv, LocalKeys
<1>3. ASSUME NEW j \in Keys, NEW a \in Auths \cup {None},
             NEW e \in Approvals \cup {None}, RecordIntent(j, a, e)
      PROVE  Goal
  <2>1. CASE /\ intents'[j].result = None
             /\ \A i \in Keys \ {j} : intents'[i] = intents[i]
    BY <2>1 DEF StatedInv, LocalKeys
  <2> QED BY <1>2, <1>3, <2>1, RecordWrites
<1>4. ASSUME NEW j \in LocalKeys, NEW r \in BrokerResults,
             NEW type \in ResultEvents, StatesFill(r), CommitResult(j, r, type)
      PROVE  Goal
  <2>1. CASE /\ intents'[j].result = r
             /\ \A i \in Keys \ {j} : intents'[i] = intents[i]
    BY <1>4, <2>1 DEF StatedInv, LocalKeys
  <2> QED BY <1>1, <1>2, <1>4, <2>1, CommitWrites
<1> HIDE DEF Goal
<1>5. Goal BY <1>2, <1>3, <1>4, RecordedStates
<1> QED BY <1>5 DEF Goal

(* Every step keeps the invariant. *)
LEMMA NextStatedInv ==
  ASSUME FillsStated PROVE IInv /\ StatedInv /\ [Next]_vars => StatedInv'
<1> SUFFICES ASSUME IInv, StatedInv, [Next]_vars PROVE StatedInv' OBVIOUS
<1>1. TypeOK BY DEF IInv
<1>2. \A k \in Keys : venue'[k] = None \/ StatesFill(venue'[k]) BY VenueStates
<1>3. UNCHANGED <<intents, pc, call>> => StatedInv'
  BY <1>2 DEF StatedInv, LocalKeys
<1>4. ASSUME NEW w \in Workers, Begin(w) \/ Step(w) \/ Crash(w) PROVE StatedInv'
  <2>1. ASSUME NEW v \in Workers \ {w} PROVE pc'[v] = pc[v] /\ call'[v] = call[v]
    BY <1>1, <1>4, WorkerMoves, OthersWait
  <2>2. ASSUME NEW i \in call'[w].items PROVE StatesFill(i.result)
    <3>1. CASE Contact(w)
      <4>1. PICK placed \in BrokerResults \cup {None}, answer \in BrokerResults :
              /\ call[w].key \in LocalKeys
              /\ answer \in {placed, TimeoutResult}
              /\ call'[w].items = {[key |-> call[w].key, result |-> answer]}
              /\ venue' = [venue EXCEPT ![call[w].key] = placed]
        BY <3>1, ContactAnswers DEF IInv
      <4>2. i.result = answer BY <2>2, <4>1
      <4>3. placed = venue'[call[w].key] /\ call[w].key \in Keys
        BY <1>1, <4>1 DEF TypeOK, LocalKeys
      <4> QED BY <1>2, <4>1, <4>2, <4>3, NoneIsNothing, TimeoutSaysNothing
    <3>2. CASE Ask(w) BY <1>1, <2>2, <3>2, AskAnswers DEF FillsStated, StatedInv
    <3>3. CASE ~Contact(w) /\ ~Ask(w)
      BY <1>4, <2>2, <3>3, AnswerSteps DEF StatedInv
    <3> QED BY <3>1, <3>2, <3>3
  <2>3. ASSUME pc'[w] \in {"adopt", "settle"}
        PROVE  StatesFill(call'[w].item.result)
    <3>1. Match(w) BY <1>4, <2>3, AnswerSteps
    <3>2. call'[w].item \in call[w].items BY <2>3, <3>1, MatchSettles
    <3> QED BY <3>2 DEF StatedInv
  <2>4. \A k \in LocalKeys' :
          intents'[k].result = None \/ StatesFill(intents'[k].result)
    BY <1>4, RowsState
  <2> QED BY <1>2, <2>1, <2>2, <2>3, <2>4 DEF StatedInv
<1>5. ASSUME NEW a, Activate(a) \/ Revoke(a) \/ Expire(a)
      PROVE  UNCHANGED <<intents, pc, call>>
  BY <1>5 DEF Activate, ActivateAuthorization, Revoke, RevokeAuthorization,
     Expire, storeVars
<1>6. ASSUME NEW k, Progress(k) PROVE UNCHANGED <<intents, pc, call>>
  BY <1>6 DEF Progress, storeVars
<1>7. OperatorHalt \/ UNCHANGED vars => UNCHANGED <<intents, pc, call>>
  BY DEF OperatorHalt, vars, storeVars
<1> QED BY <1>3, <1>4, <1>5, <1>6, <1>7 DEF Next

(* The invariant holds in every reachable state. *)
LEMMA StatedInvariant == ASSUME FillsStated PROVE Spec => []StatedInv
<1>1. Init => StatedInv
  BY DEF Init, StoreInit, NoCall, LocalKeys, StatedInv
<1> QED BY <1>1, NextStatedInv, Invariant, PTL DEF Spec
-----------------------------------------------------------------------------
(* The refinement *)

life == [k \in Keys |-> LifeOf(k)]

(* Inserting an intent creates the order. *)
LEMMA RecordCreates ==
  ASSUME IInv, NEW k \in Keys, NEW a \in Auths \cup {None},
         NEW e \in Approvals \cup {None}, RecordIntent(k, a, e)
  PROVE  UNCHANGED intents \/ Lifecycle!Create(k)
<1>1. CASE /\ intents[k] = None /\ intents'[k] = NewIntent(a, e)
           /\ intents'[k] # None /\ intents'[k].result = None
           /\ \A j \in Keys \ {k} : intents'[j] = intents[j]
  <2> DEFINE new == [stage |-> "unknown", order |-> None, filled |-> 0, auth |-> a]
  <2>1. LifeOf(k) = None BY <1>1 DEF LifeOf
  <2>2. LifeOf(k)' = new
    <3>1. Stage(k)' = "unknown" BY <1>1 DEF Stage, Status, Terminal
    <3>2. Filled(intents'[k].result) = 0 BY <1>1 DEF Filled
    <3>3. intents'[k].auth = a BY <1>1 DEF NewIntent
    <3> QED BY <1>1, <3>1, <3>2, <3>3 DEF LifeOf
  <2>3. \A j \in Keys \ {k} : LifeOf(j)' = LifeOf(j)
    BY <1>1 DEF LifeOf, Stage, Status
  <2> HIDE DEF new
  <2>4. life' = [life EXCEPT ![k] = new] BY <2>2, <2>3 DEF life
  <2> QED BY <2>1, <2>4 DEF Lifecycle!Create, life, new
<1> QED BY <1>1, RecordWrites

(* A committed result is news of the order. *)
LEMMA CommitLearns ==
  ASSUME IInv, StatedInv, NEW k \in LocalKeys, NEW r \in BrokerResults,
         NEW type, StatesFill(r), CommitResult(k, r, type)
  PROVE  UNCHANGED intents \/ Lifecycle!Learn(k)
<1>1. PICK row \in Intents : row = intents[k] /\ row # None /\ k \in Keys
  BY DEF IInv, TypeOK, StoreTypeOK, LocalKeys
<1>2. PICK prev \in BrokerResults \cup {None} :
        prev = row.result /\ (prev = None \/ StatesFill(prev))
  BY <1>1 DEF Intents, StatedInv
<1> DEFINE stage(x) == IF x = None \/ x.status = "UNKNOWN" THEN "unknown"
                       ELSE IF x.status \in Terminal THEN x.status ELSE "working"
           order(x) == IF x = None THEN None ELSE x.order
           of(x) == [stage |-> stage(x), order |-> order(x), filled |-> Filled(x),
                     auth |-> row.auth]
<1>3. CASE /\ Replaces(prev, r) /\ LocalKeys' = LocalKeys
           /\ intents'[k] = [row EXCEPT !.result = r] /\ intents'[k].result = r
           /\ \A j \in Keys \ {k} : intents'[j] = intents[j]
  <2>1. LifeOf(k) = of(prev)
    BY <1>1, <1>2 DEF LifeOf, Stage, Status, Terminal
  <2>2. LifeOf(k)' = of(r)
    <3>1. intents'[k] # None /\ intents'[k].auth = row.auth
      BY <1>1, <1>3 DEF LocalKeys, Intents
    <3>2. r # None BY NoneIsNothing
    <3> QED BY <1>1, <1>3, <3>1, <3>2 DEF LifeOf, Stage, Status, Terminal
  <2>3. \A j \in Keys \ {k} : LifeOf(j)' = LifeOf(j)
    BY <1>1, <1>3 DEF LifeOf, Stage, Status
  <2>4. stage(r) \in Lifecycle!Onward(stage(prev))
    <3>1. r # None /\ r.status \in Statuses
      BY NoneIsNothing DEF BrokerResults, Results
    <3>2. CASE prev = None \/ prev = r \/ prev.status = "UNKNOWN"
      BY <3>1, <3>2 DEF Lifecycle!Onward, Lifecycle!Open, Lifecycle!Closed,
         Terminal, Statuses
    <3>3. CASE /\ prev # None /\ prev.status # "UNKNOWN"
               /\ r.status \in AllowedNext(prev.status)
      <4>1. prev.status \in Statuses \ {"UNKNOWN"}
        BY <1>1, <1>2, <3>3 DEF BrokerResults, Results
      <4>2. CASE prev.status \in Terminal
        <5>1. r.status = prev.status
          BY <3>3, <4>2 DEF AllowedNext, Terminal
        <5> QED BY <3>1, <3>3, <4>2, <5>1
                   DEF Lifecycle!Onward, Lifecycle!Closed, Terminal
      <4>3. CASE prev.status \in {"ACCEPTED", "PARTIALLY_FILLED"}
        <5>1. r.status # "UNKNOWN"
          BY <3>1, <3>3, <4>3 DEF AllowedNext, Terminal
        <5>2. stage(prev) = "working" /\ stage(r) \in {"working"} \cup Terminal
          BY <3>1, <3>3, <4>3, <5>1 DEF Terminal
        <5>3. Lifecycle!Onward("working") = {"working"} \cup Terminal
          BY DEF Lifecycle!Onward, Lifecycle!Closed, Terminal
        <5> QED BY <5>2, <5>3
      <4> QED BY <4>1, <4>2, <4>3 DEF Statuses
    <3> QED BY <1>3, <3>2, <3>3 DEF Replaces, TransitionAllowed
  <2>5. /\ order(r) \in OrderIds \cup {None}
        /\ order(prev) # None => order(r) = order(prev)
    BY <1>2, <1>3, NoneIsNothing DEF Replaces, SameOrder, BrokerResults, Results
  <2>6. Filled(r) \in Filled(prev)..Qty
    <3>1. Filled(prev) \in 0..Qty /\ Filled(r) \in 0..Qty BY FilledTyped
    <3>2. Filled(prev) <= Filled(r) BY <1>1, <1>2, <1>3, FillGrows
    <3> QED BY <3>1, <3>2, QtyAssumption
  <2>7. of(r) = [of(prev) EXCEPT !.stage = stage(r), !.order = order(r),
                                 !.filled = Filled(r)]
    <3> HIDE DEF stage, order
    <3> DEFINE new == [of(prev) EXCEPT !.stage = stage(r), !.order = order(r),
                                       !.filled = Filled(r)]
    <3>1. new = [x \in DOMAIN of(prev) |->
                   IF x = "filled" THEN Filled(r) ELSE IF x = "order" THEN order(r)
                   ELSE IF x = "stage" THEN stage(r) ELSE of(prev)[x]]
      OBVIOUS
    <3> QED BY <3>1
  <2>8. /\ of(prev).stage = stage(prev) /\ of(prev).order = order(prev)
        /\ of(prev).filled = Filled(prev) /\ of(prev) # None
    <3>1. /\ stage(prev) \in Lifecycle!Open \cup Lifecycle!Closed
          /\ order(prev) \in OrderIds \cup {None}
          /\ row.auth \in Auths \cup {None}
      BY <1>1, <1>2
         DEF Intents, BrokerResults, Results, Lifecycle!Open, Lifecycle!Closed,
         Terminal
    <3>2. Filled(prev) \in 0..Qty BY FilledTyped
    <3> HIDE DEF stage, order
    <3>3. of(prev) \in Lifecycle!Orders BY <3>1, <3>2 DEF Lifecycle!Orders
    <3> QED BY <3>3, NoneIsNoOrder
  <2>9. life' = [life EXCEPT ![k] =
          [@ EXCEPT !.stage = stage(r), !.order = order(r), !.filled = Filled(r)]]
    BY <1>1, <2>1, <2>2, <2>3, <2>7 DEF life
  <2>10. life[k] = of(prev) BY <1>1, <2>1 DEF life
  <2>11. /\ life[k] # None
         /\ \E s \in Lifecycle!Onward(life[k].stage), o \in OrderIds \cup {None},
               f \in life[k].filled..Qty :
              /\ life[k].order # None => o = life[k].order
              /\ life' = [life EXCEPT ![k] =
                   [@ EXCEPT !.stage = s, !.order = o, !.filled = f]]
    BY <2>4, <2>5, <2>6, <2>8, <2>9, <2>10
  <2> QED BY <2>11 DEF Lifecycle!Learn, life
<1> QED BY <1>1, <1>2, <1>3, CommitWrites DEF IInv

(* The intent table implements the order lifecycle, whatever the processes,   *)
(* crashes and answers are (execution.py, coordinator.py).                   *)
THEOREM RowsFollowLifecycle ==
  ASSUME FillsStated PROVE Spec => ImplementsLifecycle
<1>1. Init => Lifecycle!Init
  BY DEF Init, StoreInit, Lifecycle!Init, LifeOf
<1>2. IInv /\ StatedInv /\ [Next]_vars => [Lifecycle!Next]_life
  <2> SUFFICES ASSUME IInv, StatedInv, [Next]_vars PROVE [Lifecycle!Next]_life
    OBVIOUS
  <2>1. UNCHANGED intents => UNCHANGED life BY DEF life, LifeOf, Stage, Status
  <2>2. ASSUME NEW w \in Workers, Begin(w) \/ Step(w) \/ Crash(w)
        PROVE  UNCHANGED intents \/ Lifecycle!Next
    <3>1. ASSUME NEW k \in LocalKeys, NEW r \in BrokerResults,
                 NEW type \in ResultEvents, StatesFill(r), CommitResult(k, r, type)
          PROVE  UNCHANGED intents \/ Lifecycle!Next
      <4>1. k \in Keys BY DEF LocalKeys
      <4> QED BY <3>1, <4>1, CommitLearns DEF Lifecycle!Next
    <3> QED BY <2>2, <3>1, RecordedStates, RecordCreates DEF Lifecycle!Next
  <2>3. ASSUME NEW a, Activate(a) \/ Revoke(a) \/ Expire(a) PROVE UNCHANGED intents
    BY <2>3 DEF Activate, ActivateAuthorization, Revoke, RevokeAuthorization,
       Expire, storeVars
  <2>4. ASSUME NEW k, Progress(k) PROVE UNCHANGED intents
    BY <2>4 DEF Progress, storeVars
  <2>5. OperatorHalt \/ UNCHANGED vars => UNCHANGED intents
    BY DEF OperatorHalt, vars, storeVars
  <2> QED BY <2>1, <2>2, <2>3, <2>4, <2>5 DEF Next
<1> QED BY <1>1, <1>2, Invariant, StatedInvariant, PTL
        DEF Spec, ImplementsLifecycle, Lifecycle!Spec, life
=============================================================================
