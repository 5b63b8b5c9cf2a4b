----------------------------- MODULE CallProofs -----------------------------
(***************************************************************************)
(* Proofs about what calls in progress know: that halts are audited, that  *)
(* nobody's order is sent twice, and that no order of this system is taken *)
(* for an orphan.                                                          *)
(*                                                                         *)
(* ExecutionProofs forgets which step made a transaction, and keeps of a   *)
(* call only what its keys and rows need.  Here each invariant is about    *)
(* something a call carries from one of its steps to a later one: the      *)
(* reason it is going to clear, the key it is going to send, the answers   *)
(* it is going to compare.                                                 *)
(***************************************************************************)
EXTENDS ExecutionProofs

-----------------------------------------------------------------------------
(* Steps and calls *)

(* A step of a worker changes no call but its own. *)
LEMMA WorkerMoves ==
  ASSUME IInv, NEW w \in Workers, Begin(w) \/ Step(w) \/ Crash(w)
  PROVE  Moves(w)
<1> USE DEF IInv
<1>1. Crash(w) => Effect(w) BY LocalReturn DEF Crash
<1>2. CASE Contact(w) BY <1>2, ContactEffect
<1>3. CASE ~Contact(w)
  <2>1. Effect(w)
    BY <1>1, <1>3, BeginEffect, SubmitEffect, RecordEffect, InspectEffect,
       AskEffect, CheckOrphansEffect, MatchEffect, AnswerEffect, WriteRiskEffect
       DEF Step
  <2> QED BY <2>1 DEF Effect
<1> QED BY <1>2, <1>3

(* The other workers are where they were. *)
LEMMA OthersWait ==
  ASSUME TypeOK, NEW w \in Workers, Moves(w), NEW v \in Workers \ {w}
  PROVE  pc'[v] = pc[v] /\ call'[v] = call[v]
BY DEF TypeOK, Moves

(* A call that ends carries nothing. *)
LEMMA ReturnCall ==
  ASSUME TypeOK, NEW w \in Workers, Return(w)
  PROVE  pc'[w] = "idle" /\ call'[w] = NoCall
BY DEF Return, TypeOK

(* A call that moves on is at the label it moved on to. *)
LEMMA GotoCall ==
  ASSUME TypeOK, NEW w \in Workers, NEW label, Goto(w, label)
  PROVE  pc'[w] = label
BY DEF Goto, TypeOK

(* A call that begins has no answers yet, and no reason to halt but a list   *)
(* that names an order twice.                                                *)
LEMMA BeginCall ==
  ASSUME TypeOK, NEW w \in Workers, Begin(w)
  PROVE  /\ pc'[w] \in {"authorize", "prepare", "read_ledger", "ask",
                        "assert_halt", "mutate_state", "mutate_limits"}
         /\ call'[w].items = {}
         /\ call'[w].errors \subseteq {<<"DUPLICATE_REQUESTED_ORDER_ID", None>>}
         /\ pc'[w] = "prepare" => call'[w].op = "prepare"
         /\ Local
<1> DEFINE none(c) == c.items = {} /\ c.errors = {}
           started(label) == pc'[w] = label /\ none(call'[w]) /\ Local
<1>1. ASSUME NEW c, NEW label, Start(w, c, label)
      PROVE  pc'[w] = label /\ call'[w] = c /\ Local
  BY <1>1 DEF Start, Goto, TypeOK, Local
<1>2. Submit(w) => started("authorize")
  <2> SUFFICES ASSUME NEW k, NEW a, NEW e,
                      Start(w, [NoCall EXCEPT !.op = "submit", !.key = k, !.auth = a,
                                              !.approval = e], "authorize")
               PROVE  started("authorize")
    BY Zenon DEF Submit
  <2> DEFINE c == [NoCall EXCEPT !.op = "submit", !.key = k, !.auth = a, !.approval = e]
  <2>1. none(c) BY DEF NoCall
  <2>2. Start(w, c, "authorize") OBVIOUS
  <2> HIDE DEF c
  <2> QED BY <1>1, <2>1, <2>2
<1>3. Prepare(w) => started("prepare") /\ call'[w].op = "prepare"
  <2> SUFFICES ASSUME NEW k, NEW a, NEW e,
                      Start(w, [NoCall EXCEPT !.op = "prepare", !.key = k, !.auth = a,
                                              !.approval = e], "prepare")
               PROVE  started("prepare") /\ call'[w].op = "prepare"
    BY Zenon DEF Prepare
  <2> DEFINE c == [NoCall EXCEPT !.op = "prepare", !.key = k, !.auth = a,
                                 !.approval = e]
  <2>1. none(c) /\ c.op = "prepare" BY DEF NoCall
  <2>2. Start(w, c, "prepare") OBVIOUS
  <2> HIDE DEF c
  <2> QED BY <1>1, <2>1, <2>2
<1>4. Enforce(w) \/ ClearHalt(w) => started("read_ledger")
  BY <1>1 DEF Enforce, ClearHalt, NoCall
<1>5. ASSUME NEW op, NEW ids, Start(w, [NoCall EXCEPT !.op = op, !.asked = ids], "ask")
      PROVE  started("ask")
  <2> DEFINE c == [NoCall EXCEPT !.op = op, !.asked = ids]
  <2>1. none(c) BY DEF NoCall
  <2>2. Start(w, c, "ask") BY <1>5
  <2> HIDE DEF c
  <2> QED BY <1>1, <2>1, <2>2
<1>6. Recover(w) \/ Reconcile(w) \/ Discover(w) => started("ask")
  <2>1. Recover(w) \/ Reconcile(w) => started("ask")
    BY <1>5 DEF Recover, Reconcile
  <2>2. Discover(w) => started("ask") BY <1>1 DEF Discover, NoCall
  <2> QED BY <2>1, <2>2
<1>7. ReconcileTwice(w) =>
        /\ pc'[w] = "assert_halt" /\ call'[w].items = {} /\ Local
        /\ call'[w].errors = {<<"DUPLICATE_REQUESTED_ORDER_ID", None>>}
  <2> DEFINE twice == {<<"DUPLICATE_REQUESTED_ORDER_ID", None>>}
             c == [NoCall EXCEPT !.op = "reconcile", !.errors = twice]
  <2> HIDE DEF twice
  <2>1. c.items = {} /\ c.errors = twice BY DEF NoCall
  <2>2. ReconcileTwice(w) => Start(w, c, "assert_halt") BY DEF ReconcileTwice, twice
  <2> HIDE DEF c
  <2> QED BY <1>1, <2>1, <2>2 DEF twice
<1>8. ASSUME NEW op, NEW basis, NEW label,
             Start(w, [NoCall EXCEPT !.op = op, !.basis = basis], label)
      PROVE  started(label)
  <2> DEFINE c == [NoCall EXCEPT !.op = op, !.basis = basis]
  <2>1. none(c) BY DEF NoCall
  <2>2. Start(w, c, label) BY <1>8
  <2> HIDE DEF c
  <2> QED BY <1>1, <2>1, <2>2
<1>9. /\ ReadRiskState(w) => started("mutate_state")
      /\ ReadRiskLimits(w) => started("mutate_limits")
  BY <1>8 DEF ReadRiskState, ReadRiskLimits
<1> QED BY <1>2, <1>3, <1>4, <1>6, <1>7, <1>9 DEF Begin

-----------------------------------------------------------------------------
(* Halts *)

(* A halt reason somebody can account for. *)
Explained(reason) ==
  \/ reason = {<<"OPERATOR", None>>}
  \/ <<"EXECUTION_HALT_ASSERTED", reason>> \in haltAudit

(* The invariant: what a call is about to clear is accounted for as well,   *)
(* although the halt may be another one by now.                             *)
HaltInv ==
  HaltsAudited /\ \A w \in Workers : pc[w] = "clear" => Explained(call[w].errors)

(* Only the reading of a halt's reason leads to its clearing. *)
LEMMA OnlyReadReasonClears ==
  ASSUME TypeOK, NEW w \in Workers, Begin(w) \/ Step(w) \/ Crash(w),
         pc'[w] = "clear"
  PROVE  ReadReason(w)
<1>1. ~Begin(w) BY BeginCall
<1>2. ~Return(w) BY ReturnCall
<1>3. \A label : Goto(w, label) => label = "clear" BY GotoCall
<1>4. /\ \A errors : ~HaltWith(w, errors)
      /\ \A i, names : ~Finished(w, i, names)
      /\ \A i, k, label : Settling(w, i, k, label) => label = "clear"
  BY <1>2, <1>3 DEF HaltWith, Finished, Settling
<1>5. ~Match(w)
  BY <1>2, <1>4 DEF Match, MatchRecovered, MatchDiscovered, MatchReconciled
<1>6. ~Adopt(w) /\ ~Settle(w) BY <1>2, <1>4 DEF Adopt, Settle, CommitAnswer
<1>7. /\ ~Authorize(w) /\ ~CheckHalt(w) /\ ~Lookup(w) /\ ~CheckPrepare(w)
      /\ ~SeedState(w) /\ ~SeedLimits(w) /\ ~CommitIntent(w) /\ ~Reauthorize(w)
      /\ ~Acquire(w) /\ ~Contact(w) /\ ~Record(w)
  BY <1>2, <1>3 DEF Authorize, Reauthorize, RequireAuthorization, CheckHalt, Lookup,
     CheckPrepare, SeedState, SeedLimits, CommitIntent, Acquire, Contact, Record
<1>8. /\ ~ReadLedger(w) /\ ~ReadStore(w) /\ ~AssertHalt(w) /\ ~Clear(w) /\ ~Ask(w)
      /\ ~CheckOrphans(w) /\ ~WriteRiskState(w) /\ ~WriteRiskLimits(w) /\ ~Crash(w)
  BY <1>2, <1>3, <1>4
     DEF ReadLedger, ReadStore, AssertHalt, Clear, Ask, CheckOrphans,
         WriteRiskState, WriteRiskLimits, Crash
<1> QED BY <1>1, <1>5, <1>6, <1>7, <1>8 DEF Step

(* A worker writes the halt flag and its events in two of its steps only. *)
LEMMA HaltWriters ==
  ASSUME TypeOK, NEW w \in Workers, Begin(w) \/ Step(w) \/ Crash(w)
  PROVE  \/ AssertHaltFor(call[w].errors)
         \/ pc[w] = "clear" /\ ClearHaltOf(call[w].errors)
         \/ UNCHANGED <<halt, haltAudit>>
<1>1. Local => UNCHANGED <<halt, haltAudit>> BY DEF Local, storeVars
<1>2. \A k, r, type : CommitResult(k, r, type) => UNCHANGED <<halt, haltAudit>>
  BY DEF CommitResult, storeVars
<1>3. Begin(w) => Local BY BeginCall
<1>4. Adopt(w) \/ Settle(w) \/ Record(w) => UNCHANGED <<halt, haltAudit>>
  BY <1>2 DEF Adopt, Settle, CommitAnswer, Record, storeVars
<1>5. Match(w) \/ Crash(w) \/ Ask(w) \/ CheckOrphans(w) \/ ReadLedger(w)
        \/ ReadStore(w) \/ ReadReason(w) \/ Authorize(w) \/ Reauthorize(w)
        \/ CheckHalt(w) \/ Lookup(w) \/ CheckPrepare(w) => Local
  BY DEF Match, Crash, Ask, CheckOrphans, ReadLedger, ReadStore, ReadReason,
     Authorize, Reauthorize, RequireAuthorization, CheckHalt, Lookup, CheckPrepare
<1>6. SeedState(w) \/ SeedLimits(w) \/ CommitIntent(w) \/ Acquire(w) \/ Contact(w)
        \/ WriteRiskState(w) \/ WriteRiskLimits(w) => UNCHANGED <<halt, haltAudit>>
  BY DEF SeedState, SeedRiskState, SeedLimits, SeedRiskLimits, CommitIntent,
     RecordIntent, RecordRefusal, Acquire, AcquireAuthority, Contact,
     WriteRiskState, MutateRiskState, WriteRiskLimits, MutateRiskLimits, storeVars
<1> QED BY <1>1, <1>3, <1>4, <1>5, <1>6 DEF Step, AssertHalt, Clear

(* Every step keeps halts accounted for. *)
LEMMA NextHaltInv == IInv /\ HaltInv /\ [Next]_vars => HaltInv'
<1> SUFFICES ASSUME IInv, HaltInv, [Next]_vars PROVE HaltInv' OBVIOUS
<1>1. TypeOK BY DEF IInv
<1>2. ASSUME NEW errors, AssertHaltFor(errors)
      PROVE  HaltsAudited' /\ haltAudit \subseteq haltAudit'
  BY <1>2 DEF AssertHaltFor, HaltInv, HaltsAudited
<1>3. ASSUME NEW errors, Explained(errors), ClearHaltOf(errors)
      PROVE  HaltsAudited' /\ haltAudit \subseteq haltAudit'
  <2>1. halt'.active = FALSE
    BY <1>1, <1>3 DEF ClearHaltOf, TypeOK, StoreTypeOK
  <2>2. haltAudit' = haltAudit \cup {<<"EXECUTION_HALT_CLEARED", errors>>}
    BY <1>3 DEF ClearHaltOf
  <2> QED BY <1>3, <2>1, <2>2 DEF HaltInv, HaltsAudited, Explained
<1>4. ASSUME UNCHANGED <<halt, haltAudit>>
      PROVE  HaltsAudited' /\ haltAudit \subseteq haltAudit'
  BY <1>4 DEF HaltInv, HaltsAudited
<1>5. ASSUME haltAudit \subseteq haltAudit', NEW reason, Explained(reason)
      PROVE  Explained(reason)'
  BY <1>5 DEF Explained
<1>6. ASSUME NEW w \in Workers, Begin(w) \/ Step(w) \/ Crash(w) PROVE HaltInv'
  <2>1. HaltsAudited' /\ haltAudit \subseteq haltAudit'
    BY <1>1, <1>2, <1>3, <1>4, <1>6, HaltWriters DEF HaltInv
  <2>2. ASSUME NEW v \in Workers, pc'[v] = "clear" PROVE Explained(call[v].errors)'
    <3>1. CASE v # w
      <4>1. pc[v] = "clear" /\ call'[v] = call[v]
        BY <1>1, <1>6, <2>2, <3>1, WorkerMoves, OthersWait
      <4>2. Explained(call[v].errors) BY <4>1 DEF HaltInv
      <4> QED BY <2>1, <4>1, <4>2 DEF Explained
    <3>2. CASE v = w
      <4>1. ReadReason(w) BY <1>1, <1>6, <2>2, <3>2, OnlyReadReasonClears
      <4>2. halt.active /\ call' = [call EXCEPT ![w].errors = halt.reason]
        BY <1>1, <2>2, <3>2, <4>1, ReturnCall DEF ReadReason
      <4>3. call'[w].errors = halt.reason
        BY <1>1, <4>2 DEF TypeOK, Calls
      <4>4. Explained(halt.reason) BY <4>2 DEF HaltInv, HaltsAudited, Explained
      <4> QED BY <2>1, <3>2, <4>3, <4>4 DEF Explained
    <3> QED BY <3>1, <3>2
  <2> QED BY <2>1, <2>2 DEF HaltInv
<1>7. ASSUME UNCHANGED <<pc, call>>, HaltsAudited', haltAudit \subseteq haltAudit'
      PROVE  HaltInv'
  BY <1>5, <1>7 DEF HaltInv
<1>8. CASE OperatorHalt
  BY <1>7, <1>8 DEF OperatorHalt, HaltInv, HaltsAudited
<1>9. ASSUME NEW a, Activate(a) \/ Revoke(a) \/ Expire(a) PROVE HaltInv'
  BY <1>4, <1>7, <1>9 DEF Activate, ActivateAuthorization, Revoke,
     RevokeAuthorization, Expire, storeVars
<1>10. ASSUME NEW k, Progress(k) PROVE HaltInv'
  BY <1>4, <1>7, <1>10 DEF Progress, storeVars
<1>11. CASE UNCHANGED vars
  BY <1>4, <1>7, <1>11 DEF vars, storeVars
<1> QED BY <1>6, <1>8, <1>9, <1>10, <1>11 DEF Next

(* A halt that is not the operator's own has its event in the ledger, and so *)
(* has every halt that was ever cleared, however asserting, inspecting and   *)
(* clearing interleave (coordinator._assert_execution_halt, clear_halt).     *)
THEOREM HaltsAccountedFor == Spec => []HaltsAudited
<1>1. Init => HaltInv
  BY DEF Init, StoreInit, HaltInv, HaltsAudited
<1>2. HaltInv => HaltsAudited BY DEF HaltInv
<1> QED BY <1>1, <1>2, NextHaltInv, Invariant, PTL DEF Spec
-----------------------------------------------------------------------------
(* Submissions *)

\* Labels of a submission that will send the order unless something refuses
\* it: past the lookup, which found no row of its key.
SendingLabels == {"prepare", "seed_state", "seed_limits", "commit_intent",
                  "reauthorize", "acquire", "contact"}

Sending(w) == pc[w] \in SendingLabels /\ call[w].op = "submit"

(* The invariant: an order about to be sent has not been sent.  prepare never *)
(* gets as far as the broker.                                                 *)
SendInv ==
  /\ SingleContact
  /\ \A w \in Workers :
       /\ Sending(w) => contacts[call[w].key] = 0
       /\ pc[w] \in {"reauthorize", "acquire", "contact"} => call[w].op = "submit"

(* No two processes submit the same key at the same time. *)
SubmittedApart ==
  \A v, w \in Workers :
    v # w /\ call[v].op = "submit" /\ call[w].op = "submit" =>
      call[v].key # call[w].key

(* A submission gets on its way to the broker by the lookup only, and holds  *)
(* on to its key.                                                            *)
LEMMA SendingSteps ==
  ASSUME IInv, SendInv, NEW w \in Workers, Begin(w) \/ Step(w) \/ Crash(w)
  PROVE  /\ Sending(w)' =>
              /\ call'[w] = call[w] /\ ~Contact(w)
              /\ Sending(w) \/ intents[call[w].key] = None
         /\ pc'[w] \in {"reauthorize", "acquire", "contact"} => call'[w].op = "submit"
<1> DEFINE Goal ==
      /\ Sending(w)' =>
              /\ call'[w] = call[w] /\ ~Contact(w)
              /\ Sending(w) \/ intents[call[w].key] = None
      /\ pc'[w] \in {"reauthorize", "acquire", "contact"} => call'[w].op = "submit"
<1>1. TypeOK /\ Bound(pc[w], call[w], LocalKeys, SendableKeys)
  BY DEF IInv, CallsBound
<1>2. Begin(w) => Goal BY <1>1, BeginCall DEF Sending, SendingLabels
<1>3. Return(w) => Goal BY <1>1, ReturnCall DEF Sending, SendingLabels
<1>4. ASSUME NEW label, label \notin SendingLabels, Goto(w, label) PROVE Goal
  BY <1>1, <1>4, GotoCall DEF Sending, SendingLabels
<1>5. ASSUME Lookup(w) PROVE Goal
  BY <1>1, <1>3, <1>5, GotoCall DEF Lookup, Local, Contact, Sending, SendingLabels
<1>6. ASSUME call' = call, pc[w] \in SendingLabels \ {"contact"},
             NEW label, Goto(w, label),
             label \in {"reauthorize", "acquire", "contact"} => call[w].op = "submit"
      PROVE  Goal
  BY <1>1, <1>6, GotoCall DEF Sending, Contact
<1>7. CheckPrepare(w) \/ SeedState(w) \/ SeedLimits(w) => Goal
  BY <1>3, <1>6 DEF CheckPrepare, SeedState, SeedLimits, SendingLabels
<1>8. CommitIntent(w) => Goal
  BY <1>1, <1>3, <1>6 DEF CommitIntent, SendingLabels, Bound
<1>9. Reauthorize(w) \/ Acquire(w) => Goal
  BY <1>3, <1>6
     DEF Reauthorize, RequireAuthorization, Acquire, SendingLabels, SendInv
<1>10. /\ \A errors : HaltWith(w, errors) => Goal
       /\ \A i, names : Finished(w, i, names) => Goal
       /\ \A i, k : \A label \in {"adopt", "settle"} : Settling(w, i, k, label) => Goal
  BY <1>3, <1>4 DEF HaltWith, Finished, Settling, SendingLabels
<1>11. Match(w) => Goal
  BY <1>3, <1>10 DEF Match, MatchRecovered, MatchDiscovered, MatchReconciled
<1>12. Adopt(w) \/ Settle(w) => Goal
  BY <1>3, <1>10 DEF Adopt, Settle, CommitAnswer
<1>13. Authorize(w) \/ CheckHalt(w) \/ Contact(w) \/ Record(w) \/ ReadLedger(w)
         \/ ReadStore(w) \/ AssertHalt(w) \/ ReadReason(w) \/ Clear(w) => Goal
  BY <1>3, <1>4
     DEF Authorize, RequireAuthorization, CheckHalt, Contact, Record, ReadLedger,
         ReadStore, AssertHalt, ReadReason, Clear, SendingLabels
<1>14. Ask(w) \/ CheckOrphans(w) \/ WriteRiskState(w) \/ WriteRiskLimits(w)
         \/ Crash(w) => Goal
  BY <1>3, <1>4, <1>10
     DEF Ask, CheckOrphans, WriteRiskState, WriteRiskLimits, Crash, SendingLabels
<1> HIDE DEF Goal
<1>15. Goal
  BY <1>2, <1>5, <1>7, <1>8, <1>9, <1>11, <1>12, <1>13, <1>14 DEF Step
<1> QED BY <1>15 DEF Goal

(* Only the step that calls the broker counts a contact and moves the        *)
(* provider.                                                                 *)
LEMMA ContactsCounted ==
  ASSUME IInv, NEW w \in Workers, Begin(w) \/ Step(w) \/ Crash(w)
  PROVE  \/ UNCHANGED <<contacts, venue>>
         \/ /\ Contact(w) /\ call[w].key \in Keys
            /\ contacts' = [contacts EXCEPT ![call[w].key] = @ + 1]
<1> USE DEF IInv
<1>1. Crash(w) => Effect(w) BY LocalReturn DEF Crash
<1>2. CASE Contact(w) BY <1>2, ContactEffect DEF Contact, SendableKeys, LocalKeys
<1>3. CASE ~Contact(w)
  <2>1. Effect(w)
    BY <1>1, <1>3, BeginEffect, SubmitEffect, RecordEffect, InspectEffect,
       AskEffect, CheckOrphansEffect, MatchEffect, AnswerEffect, WriteRiskEffect
       DEF Step
  <2> QED BY <2>1 DEF Effect
<1> QED BY <1>2, <1>3

(* While no key is submitted twice at once, every step keeps the invariant. *)
LEMMA NextSendInv ==
  IInv /\ SendInv /\ SubmittedApart /\ [Next]_vars => SendInv'
<1> SUFFICES ASSUME IInv, SendInv, SubmittedApart, [Next]_vars PROVE SendInv'
  OBVIOUS
<1>1. /\ TypeOK /\ contacts \in [Keys -> Nat]
      /\ \A k \in Keys : contacts[k] > 0 => intents[k] # None
      /\ \A w \in Workers : call[w].op = "submit" => call[w].key \in Keys
  BY DEF IInv, TypeOK, SendableKeys, LocalKeys, CallsBound, Bound
<1>2. ASSUME NEW w \in Workers, Begin(w) \/ Step(w) \/ Crash(w) PROVE SendInv'
  <2> DEFINE Good(v) ==
        /\ Sending(v)' => contacts'[call'[v].key] = 0
        /\ pc'[v] \in {"reauthorize", "acquire", "contact"} => call'[v].op = "submit"
  <2>1. ASSUME NEW v \in Workers \ {w} PROVE pc'[v] = pc[v] /\ call'[v] = call[v]
    BY <1>1, <1>2, WorkerMoves, OthersWait
  <2>2. CASE UNCHANGED contacts
    <3>1. ASSUME NEW v \in Workers \ {w} PROVE Good(v)
      BY <2>1, <2>2 DEF SendInv, Sending
    <3>2. Good(w)
      <4>1. Sending(w) => contacts[call[w].key] = 0 BY DEF SendInv
      <4>2. ASSUME Sending(w)' PROVE contacts[call'[w].key] = 0
        <5>1. call'[w] = call[w] /\ (Sending(w) \/ intents[call[w].key] = None)
          BY <1>2, <4>2, SendingSteps
        <5>2. call[w].key \in Keys BY <1>1, <4>2, <5>1 DEF Sending
        <5> QED BY <1>1, <4>1, <5>1, <5>2
      <4> QED BY <1>2, <2>2, <4>2, SendingSteps
    <3>3. \A v \in Workers : Good(v) BY <3>1, <3>2
    <3>4. SingleContact' BY <2>2 DEF SendInv, SingleContact
    <3> QED BY <3>3, <3>4 DEF SendInv
  <2>3. CASE /\ Contact(w) /\ call[w].key \in Keys
             /\ contacts' = [contacts EXCEPT ![call[w].key] = @ + 1]
    <3>1. Sending(w) /\ contacts[call[w].key] = 0
      BY <2>3 DEF Contact, SendInv, Sending, SendingLabels
    <3>2. SingleContact'
      BY <1>1, <2>3, <3>1 DEF SendInv, SingleContact
    <3>3. ASSUME NEW v \in Workers \ {w} PROVE Good(v)
      BY <1>1, <2>1, <2>3, <3>1 DEF SendInv, Sending, SubmittedApart
    <3>4. Good(w) BY <1>2, <2>3, SendingSteps
    <3>5. \A v \in Workers : Good(v) BY <3>3, <3>4
    <3> QED BY <3>2, <3>5 DEF SendInv
  <2> QED BY <1>2, <2>2, <2>3, ContactsCounted
<1>3. ASSUME UNCHANGED <<pc, call, contacts>> PROVE SendInv'
  BY <1>3 DEF SendInv, SingleContact, Sending
<1>4. ASSUME NEW a, Activate(a) \/ Revoke(a) \/ Expire(a) PROVE SendInv'
  BY <1>3, <1>4 DEF Activate, Revoke, Expire
<1>5. ASSUME NEW k, Progress(k) PROVE SendInv' BY <1>3, <1>5 DEF Progress
<1>6. CASE OperatorHalt BY <1>3, <1>6 DEF OperatorHalt
<1>7. CASE UNCHANGED vars BY <1>3, <1>7 DEF vars
<1> QED BY <1>2, <1>4, <1>5, <1>6, <1>7 DEF Next

(* No order is sent to the broker twice, whatever crashes, retries and other *)
(* calls there are, as long as no two processes submit its key at the same   *)
(* time (coordinator.submit, H3).                                            *)
THEOREM SentOnceApart == Spec /\ []SubmittedApart => []SingleContact
<1>1. Init => SendInv
  BY DEF Init, SendInv, SingleContact, Sending, SendingLabels
<1>2. SendInv => SingleContact BY DEF SendInv
<1> QED BY <1>1, <1>2, NextSendInv, Invariant, PTL DEF Spec

(* In particular one process never sends an order twice.                     *)
THEOREM SentOnceAlone ==
  ASSUME \A v, w \in Workers : v = w PROVE Spec => []SingleContact
<1>1. SubmittedApart BY DEF SubmittedApart
<1> QED BY <1>1, SentOnceApart, PTL
-----------------------------------------------------------------------------
(* Answers of the provider *)

(* Answers come from the provider only, and a call that took one up for a    *)
(* row still has it.                                                         *)
LEMMA AnswerSteps ==
  ASSUME IInv, NEW w \in Workers, Begin(w) \/ Step(w) \/ Crash(w)
  PROVE  /\ \/ Contact(w) \/ Ask(w)
            \/ call'[w].items \subseteq IF pc[w] = "record" THEN {} ELSE call[w].items
         /\ pc'[w] = "record" => Contact(w)
         /\ pc'[w] \in {"adopt", "settle"} =>
              Match(w) /\ call'[w].items = call[w].items
<1> DEFINE Goal ==
      /\ \/ Contact(w) \/ Ask(w)
         \/ call'[w].items \subseteq IF pc[w] = "record" THEN {} ELSE call[w].items
      /\ pc'[w] = "record" => Contact(w)
      /\ pc'[w] \in {"adopt", "settle"} =>
           Match(w) /\ call'[w].items = call[w].items
<1>1. TypeOK /\ call \in [Workers -> Calls] BY DEF IInv, TypeOK
<1>2. Begin(w) => Goal BY <1>1, BeginCall
<1>3. Return(w) => Goal BY <1>1, ReturnCall DEF NoCall
<1>4. ASSUME pc[w] # "record", NEW label \in Labels \ {"record", "adopt", "settle"},
             Goto(w, label), call'[w].items \subseteq call[w].items
      PROVE  Goal
  BY <1>1, <1>4, GotoCall
<1>5. ASSUME pc[w] # "record", NEW label \in Labels \ {"record", "adopt", "settle"},
             Goto(w, label), call' = call
      PROVE  Goal
  BY <1>4, <1>5
<1>6. ASSUME pc[w] # "record", NEW errors, HaltWith(w, errors) PROVE Goal
  <2>1. call'[w].items = call[w].items BY <1>1, <1>6 DEF HaltWith, Calls
  <2> QED BY <1>4, <1>6, <2>1 DEF HaltWith, Labels
<1>7. ASSUME pc[w] # "record", NEW i, NEW names, Finished(w, i, names) PROVE Goal
  <2>1. CASE Return(w) BY <1>3, <2>1
  <2>2. CASE ~Return(w)
    <3>1. call'[w].items \subseteq call[w].items
      BY <1>1, <1>7, <2>2 DEF Finished, Calls
    <3> QED BY <1>4, <1>7, <2>2, <3>1 DEF Finished, Labels
  <2> QED BY <2>1, <2>2
<1>8. ASSUME Match(w), NEW i, NEW k, NEW label \in {"adopt", "settle"},
             Settling(w, i, k, label)
      PROVE  Goal
  <2>1. call'[w].items = call[w].items BY <1>1, <1>8 DEF Settling, Calls
  <2>2. pc'[w] = label /\ pc[w] # "record"
    BY <1>1, <1>8, GotoCall DEF Settling, Match
  <2> QED BY <1>8, <2>1, <2>2
<1>9. Match(w) => Goal
  <2> SUFFICES ASSUME Match(w) PROVE Goal OBVIOUS
  <2>1. pc[w] # "record" BY DEF Match
  <2> HIDE DEF Goal
  <2> QED BY <1>3, <1>6, <1>7, <1>8, <2>1
          DEF Match, MatchRecovered, MatchDiscovered, MatchReconciled
<1>10. Adopt(w) \/ Settle(w) => Goal
  BY <1>3, <1>6, <1>7 DEF Adopt, Settle, CommitAnswer
<1>11. Authorize(w) \/ CheckHalt(w) \/ Lookup(w) \/ CheckPrepare(w) \/ SeedState(w)
         \/ SeedLimits(w) \/ CommitIntent(w) \/ Reauthorize(w) \/ Acquire(w) => Goal
  BY <1>3, <1>5
     DEF Authorize, RequireAuthorization, CheckHalt, Lookup, CheckPrepare,
         SeedState, SeedLimits, CommitIntent, Reauthorize, Acquire, Labels
<1>12. Record(w) \/ Clear(w) \/ WriteRiskState(w) \/ WriteRiskLimits(w) \/ Crash(w)
         => Goal
  BY <1>3 DEF Record, Clear, WriteRiskState, WriteRiskLimits, Crash
<1>13. ReadLedger(w) \/ ReadStore(w) \/ AssertHalt(w) \/ ReadReason(w) => Goal
  <2> SUFFICES ASSUME ReadLedger(w) \/ ReadStore(w) \/ AssertHalt(w) \/ ReadReason(w),
                      ~Return(w)
               PROVE  Goal
    BY <1>3
  <2>1. pc[w] # "record" /\ call'[w].items = call[w].items
    BY <1>1 DEF ReadLedger, ReadStore, AssertHalt, ReadReason, Calls
  <2> QED BY <1>4, <2>1
          DEF ReadLedger, ReadStore, AssertHalt, ReadReason, Labels
<1>14. CheckOrphans(w) => Goal
  BY <1>5, <1>6 DEF CheckOrphans, Labels
<1>15. Contact(w) => Goal
  <2> SUFFICES ASSUME Contact(w) PROVE Goal OBVIOUS
  <2>1. pc'[w] = "record" BY <1>1, GotoCall DEF Contact
  <2> QED BY <2>1
<1>16. Ask(w) => Goal
  <2> SUFFICES ASSUME Ask(w), ~Return(w) PROVE Goal BY <1>3
  <2>1. pc'[w] \in {"local_keys", "match"} BY <1>1, GotoCall DEF Ask
  <2> QED BY <2>1
<1> HIDE DEF Goal
<1>17. Goal
  BY <1>2, <1>9, <1>10, <1>11, <1>12, <1>13, <1>14, <1>15, <1>16 DEF Step
<1> QED BY <1>17 DEF Goal

(* The answer of broker.submit is about the key that was sent. *)
LEMMA ContactAnswers ==
  ASSUME TypeOK, CallsBound, NEW w \in Workers, Contact(w)
  PROVE  \E placed \in BrokerResults \cup {None}, answer \in BrokerResults :
           LET k == call[w].key IN
           /\ k \in LocalKeys
           /\ answer \in {placed, TimeoutResult}
           /\ call'[w].items = {[key |-> k, result |-> answer]}
           /\ venue' = [venue EXCEPT ![k] = placed]
           /\ IF venue[k] # None THEN placed = venue[k]
              ELSE placed # None =>
                /\ placed \in ProviderResults /\ QuantitiesFit(None, placed)
                /\ \A j \in Keys : venue[j] # None =>
                     placed.order = None \/ placed.order # venue[j].order
<1> DEFINE k == call[w].key
<1>1. k \in LocalKeys /\ k \in Keys
  BY DEF CallsBound, Bound, Contact, SendableKeys, LocalKeys
<1>2. PICK placed \in
         IF venue[k] # None THEN {venue[k]}
         ELSE {None} \cup {r \in ProviderResults :
                QuantitiesFit(None, r) /\ \A j \in Keys : venue[j] # None =>
                  r.order = None \/ r.order # venue[j].order} :
      \E answer \in {placed, TimeoutResult} \ {None} :
        /\ venue' = [venue EXCEPT ![k] = placed]
        /\ call' = [call EXCEPT ![w].items = {[key |-> k, result |-> answer]}]
  BY DEF Contact
<1>3. PICK answer \in {placed, TimeoutResult} \ {None} :
        /\ venue' = [venue EXCEPT ![k] = placed]
        /\ call' = [call EXCEPT ![w].items = {[key |-> k, result |-> answer]}]
  BY <1>2
<1>4. placed \in BrokerResults \cup {None} /\ answer \in BrokerResults
  BY <1>1, <1>2, TimeoutIsResult, ProviderAssumption DEF TypeOK
<1>5. call'[w].items = {[key |-> k, result |-> answer]}
  <2> DEFINE item == [key |-> k, result |-> answer]
  <2>1. call' = [call EXCEPT ![w].items = {item}] BY <1>3
  <2> HIDE DEF item
  <2>2. call'[w].items = {item} BY <2>1 DEF TypeOK, Calls
  <2> QED BY <2>2 DEF item
<1>6. IF venue[k] # None THEN placed = venue[k]
      ELSE placed # None =>
        /\ placed \in ProviderResults /\ QuantitiesFit(None, placed)
        /\ \A j \in Keys : venue[j] # None =>
             placed.order = None \/ placed.order # venue[j].order
  BY <1>2
<1> QED BY <1>1, <1>3, <1>4, <1>5, <1>6

(* A reconciliation is answered with stray items, and with the provider's     *)
(* present orders.                                                           *)
LEMMA AskAnswers ==
  ASSUME TypeOK, NEW w \in Workers, Ask(w), NEW i \in call'[w].items
  PROVE  \/ i \in Anomalies
         \/ i.key \in Keys /\ venue[i.key] # None /\ i.result = venue[i.key]
<1>1. PICK stray \in {{}} \cup {{x} : x \in Anomalies} :
        LET answer == stray \cup
              {[key |-> k, result |-> venue[k]] : k \in Reported(call[w])} IN
        IF answer = {} THEN Return(w)
        ELSE /\ call' = [call EXCEPT ![w].items = answer]
             /\ Goto(w, IF call[w].op = "discover" THEN "local_keys" ELSE "match")
  BY DEF Ask
<1> DEFINE answer == stray \cup
             {[key |-> k, result |-> venue[k]] : k \in Reported(call[w])}
<1>2. ~Return(w) BY ReturnCall DEF NoCall
<1>3. call' = [call EXCEPT ![w].items = answer] BY <1>1, <1>2
<1>4. i \in answer
  <2> HIDE DEF answer
  <2>1. call'[w].items = answer BY <1>3 DEF TypeOK, Calls
  <2> QED BY <2>1
<1>5. Reported(call[w]) \subseteq Keys /\ \A k \in Reported(call[w]) : venue[k] # None
  BY DEF Reported
<1> QED BY <1>4, <1>5

-----------------------------------------------------------------------------
(* Orphans *)

(* The invariant, without stray answers: the provider has orders for keys     *)
(* with rows only, and reports those only.                                   *)
OrphanInv ==
  /\ \A k \in Keys : venue[k] # None => k \in LocalKeys
  /\ \A w \in Workers : \A i \in call[w].items : i.key \in LocalKeys
  /\ NoFalseOrphan

\* No order is called an orphan by these errors.
NoOrphanIn(errors) == \A k \in Keys : <<"PROVIDER_ORDER_ORPHAN", k>> \notin errors

(* An inspection does not look for orphans. *)
LEMMA InspectionFindsNoOrphan ==
  ASSUME NEW view PROVE NoOrphanIn(Discrepancies(view))
BY DEF NoOrphanIn, Discrepancies

(* Without orphans among the answers no step finds one. *)
LEMMA ErrorSteps ==
  ASSUME IInv, OrphanInv, NEW w \in Workers, Begin(w) \/ Step(w) \/ Crash(w)
  PROVE  NoOrphanIn(call'[w].errors)
<1> DEFINE Goal == NoOrphanIn(call'[w].errors)
<1>1. /\ TypeOK /\ call \in [Workers -> Calls]
      /\ NoOrphanIn(call[w].errors) /\ NoOrphanIn(halt.reason)
  BY DEF IInv, TypeOK, OrphanInv, NoFalseOrphan, NoOrphanIn
<1>2. Begin(w) => Goal BY <1>1, BeginCall DEF NoOrphanIn
<1>3. Return(w) => Goal
  <2>1. Return(w) => call'[w].errors = {} BY <1>1, ReturnCall DEF NoCall
  <2>2. NoOrphanIn({}) BY DEF NoOrphanIn
  <2> QED BY <2>1, <2>2
<1>4. call'[w].errors = call[w].errors => Goal BY <1>1
<1>5. ASSUME NEW errors, NoOrphanIn(errors), HaltWith(w, errors) PROVE Goal
  <2>1. call'[w].errors = errors BY <1>1, <1>5 DEF HaltWith, Calls
  <2> QED BY <1>5, <2>1
<1>6. ASSUME NEW kind \in ErrorKinds \ {"PROVIDER_ORDER_ORPHAN"}, NEW x,
             HaltWith(w, {<<kind, x>>})
      PROVE  Goal
  BY <1>5, <1>6 DEF NoOrphanIn
<1>7. ASSUME NEW i, NEW names, Finished(w, i, names) PROVE Goal
  <2>1. ~Return(w) => call'[w].errors = call[w].errors
    BY <1>1, <1>7 DEF Finished, Calls
  <2> QED BY <1>3, <1>4, <2>1
<1>8. ASSUME NEW i, NEW k, NEW label, Settling(w, i, k, label) PROVE Goal
  <2>1. call'[w].errors = call[w].errors BY <1>1, <1>8 DEF Settling, Calls
  <2> QED BY <1>4, <2>1
<1>9. Match(w) => Goal
  <2> HIDE DEF Goal
  <2> QED BY <1>3, <1>6, <1>7, <1>8
          DEF Match, MatchRecovered, MatchDiscovered, MatchReconciled, ErrorKinds
<1>10. Adopt(w) \/ Settle(w) => Goal
  <2> HIDE DEF Goal
  <2> QED BY <1>3, <1>6, <1>7 DEF Adopt, Settle, CommitAnswer, ErrorKinds
<1>11. Authorize(w) \/ CheckHalt(w) \/ Lookup(w) \/ CheckPrepare(w) \/ SeedState(w)
         \/ SeedLimits(w) \/ CommitIntent(w) \/ Reauthorize(w) \/ Acquire(w) => Goal
  BY <1>3, <1>4
     DEF Authorize, RequireAuthorization, CheckHalt, Lookup, CheckPrepare,
         SeedState, SeedLimits, CommitIntent, Reauthorize, Acquire
<1>12. Record(w) \/ Clear(w) \/ WriteRiskState(w) \/ WriteRiskLimits(w) \/ Crash(w)
         => Goal
  BY <1>3 DEF Record, Clear, WriteRiskState, WriteRiskLimits, Crash
<1>13. ReadLedger(w) \/ AssertHalt(w) \/ ReadReason(w) => Goal
  <2> SUFFICES ASSUME ReadLedger(w) \/ AssertHalt(w) \/ ReadReason(w), ~Return(w)
               PROVE  Goal
    BY <1>3
  <2>1. call'[w].errors \in {call[w].errors, {}, halt.reason}
    BY <1>1 DEF ReadLedger, AssertHalt, ReadReason, Calls
  <2> QED BY <1>1, <2>1 DEF NoOrphanIn
<1>14. ReadStore(w) => Goal
  <2> DEFINE errors == Discrepancies(call[w].view)
  <2>1. NoOrphanIn(errors) BY InspectionFindsNoOrphan
  <2> HIDE DEF errors
  <2>2. ReadStore(w) /\ ~Return(w) => call'[w].errors \in {call[w].errors, errors}
    BY <1>1 DEF ReadStore, Calls, errors
  <2> QED BY <1>3, <1>4, <2>1, <2>2
<1>15. CheckOrphans(w) => Goal
  BY <1>4 DEF CheckOrphans, OrphanInv
<1>16. Contact(w) \/ Ask(w) => Goal
  <2> SUFFICES ASSUME Contact(w) \/ Ask(w), ~Return(w) PROVE Goal BY <1>3
  <2>1. \E answers : call' = [call EXCEPT ![w].items = answers]
    BY DEF Contact, Ask
  <2>2. call'[w].errors = call[w].errors BY <1>1, <2>1 DEF Calls
  <2> QED BY <1>4, <2>2
<1> HIDE DEF Goal
<1>17. Goal
  BY <1>2, <1>9, <1>10, <1>11, <1>12, <1>13, <1>14, <1>15, <1>16 DEF Step
<1> QED BY <1>17 DEF Goal

(* Every step keeps the invariant, if the provider reports nothing else.     *)
LEMMA NextOrphanInv ==
  ASSUME Anomalies = {} PROVE IInv /\ OrphanInv /\ [Next]_vars => OrphanInv'
<1> SUFFICES ASSUME IInv, OrphanInv, [Next]_vars PROVE OrphanInv' OBVIOUS
<1>1. /\ TypeOK /\ CallsBound /\ LocalKeys \subseteq LocalKeys'
      /\ venue \in [Keys -> BrokerResults \cup {None}]
  BY NextIsStoreStep, StoreStepKeeps DEF IInv, TypeOK
<1>2. ASSUME UNCHANGED <<call, halt>>,
             \A k \in Keys : venue'[k] # None => venue[k] # None
      PROVE  OrphanInv'
  BY <1>1, <1>2 DEF OrphanInv, NoFalseOrphan
<1>3. ASSUME NEW w \in Workers, Begin(w) \/ Step(w) \/ Crash(w) PROVE OrphanInv'
  <2>1. ASSUME NEW v \in Workers \ {w} PROVE pc'[v] = pc[v] /\ call'[v] = call[v]
    BY <1>1, <1>3, WorkerMoves, OthersWait
  <2>2. \A v \in Workers : NoOrphanIn(call'[v].errors)
    BY <1>3, <2>1, ErrorSteps DEF OrphanInv, NoFalseOrphan, NoOrphanIn
  <2>3. NoOrphanIn(halt'.reason)
    <3>1. NoOrphanIn(halt.reason) /\ NoOrphanIn(call[w].errors)
      BY DEF OrphanInv, NoFalseOrphan, NoOrphanIn
    <3>2. halt'.reason \in {halt.reason, call[w].errors}
      BY <1>1, <1>3, HaltWriters
         DEF AssertHaltFor, ClearHaltOf, TypeOK, StoreTypeOK
    <3> QED BY <3>1, <3>2
  <2>4. \A k \in Keys : venue'[k] # None => k \in LocalKeys'
    <3>1. CASE Contact(w)
      BY <1>1, <3>1, ContactAnswers DEF OrphanInv, LocalKeys
    <3>2. CASE ~Contact(w)
      BY <1>1, <1>3, <3>2, ContactsCounted DEF OrphanInv
    <3> QED BY <3>1, <3>2
  <2>5. \A i \in call'[w].items : i.key \in LocalKeys'
    <3>1. CASE Contact(w) BY <1>1, <3>1, ContactAnswers
    <3>2. CASE Ask(w) BY <1>1, <3>2, AskAnswers DEF OrphanInv
    <3>3. CASE ~Contact(w) /\ ~Ask(w)
      BY <1>1, <1>3, <3>3, AnswerSteps DEF OrphanInv
    <3> QED BY <3>1, <3>2, <3>3
  <2> QED BY <1>1, <2>1, <2>2, <2>3, <2>4, <2>5
          DEF OrphanInv, NoFalseOrphan, NoOrphanIn
<1>4. ASSUME NEW a, Activate(a) \/ Revoke(a) \/ Expire(a) PROVE OrphanInv'
  BY <1>2, <1>4 DEF Activate, ActivateAuthorization, Revoke, RevokeAuthorization,
     Expire, storeVars
<1>5. ASSUME NEW k \in Keys, Progress(k) PROVE OrphanInv'
  <2>1. UNCHANGED <<call, halt>> BY <1>5 DEF Progress, storeVars
  <2>2. \A j \in Keys : venue'[j] # None => venue[j] # None
    BY <1>1, <1>5 DEF Progress
  <2> QED BY <1>2, <2>1, <2>2
<1>6. CASE OperatorHalt
  BY <1>1, <1>6 DEF OperatorHalt, OrphanInv, NoFalseOrphan
<1>7. CASE UNCHANGED vars BY <1>2, <1>7 DEF vars, storeVars
<1> QED BY <1>3, <1>4, <1>5, <1>6, <1>7 DEF Next

(* If the provider reports nothing but its own orders, none of this system's  *)
(* orders is ever taken for an orphan, although submissions go on while       *)
(* provider orders and local keys are compared                               *)
(* (coordinator.reconcile_discovered_orders).                                *)
THEOREM OrphansAreReal == ASSUME Anomalies = {} PROVE Spec => []NoFalseOrphan
<1>1. Init => OrphanInv
  BY DEF Init, StoreInit, NoCall, OrphanInv, NoFalseOrphan
<1>2. OrphanInv => NoFalseOrphan BY DEF OrphanInv
<1> QED BY <1>1, <1>2, NextOrphanInv, Invariant, PTL DEF Spec

=============================================================================
