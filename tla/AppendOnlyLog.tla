--------------------------- MODULE AppendOnlyLog ---------------------------
(***************************************************************************)
(* What a ledger promises its callers: one log that only grows, in which   *)
(* an event id occurs once, and calls that each take effect at one instant *)
(* between their start and their reply, or fail and change nothing.        *)
(***************************************************************************)
EXTENDS Sequences, Naturals

CONSTANTS Callers, EventIds, None, Failures

VARIABLES log,       \* the event ids, oldest first
          owner,     \* the identity of the log: who created it, or None
          reply      \* caller -> what its last call answered, None while it runs

vars == <<log, owner, reply>>

InLog(id) == \E i \in DOMAIN log : log[i] = id

Init ==
  /\ log \in Seq(EventIds)
  /\ owner = None
  /\ reply = [c \in Callers |-> None]

Answer(c, outcome, value) ==
  /\ reply[c] = None
  /\ reply' = [reply EXCEPT ![c] = [outcome |-> outcome, value |-> value]]

\* The next call begins, or the caller dies and forgets.
Forget(c) ==
  /\ reply' = [reply EXCEPT ![c] = None]
  /\ UNCHANGED <<log, owner>>

Create(c) ==
  /\ owner = None
  /\ owner' = c
  /\ UNCHANGED <<log, reply>>

Add(c, id) ==
  /\ ~InLog(id)
  /\ log' = Append(log, id)
  /\ Answer(c, "APPENDED", Len(log))
  /\ UNCHANGED owner

Refuse(c, id) ==
  /\ InLog(id)
  /\ Answer(c, "LEDGER_EVENT_ID_EXISTS", id)
  /\ UNCHANGED <<log, owner>>

Read(c) ==
  /\ Answer(c, "EVENTS", log)
  /\ UNCHANGED <<log, owner>>

Find(c, id) ==
  /\ Answer(c, "FOUND", InLog(id))
  /\ UNCHANGED <<log, owner>>

Identify(c) ==
  /\ owner # None
  /\ Answer(c, "IDENTITY", owner)
  /\ UNCHANGED <<log, owner>>

Open(c) ==
  /\ Answer(c, "OPENED", None)
  /\ UNCHANGED <<log, owner>>

Fail(c) ==
  /\ \E f \in Failures, n \in 0..Len(log) : Answer(c, f, n)
  /\ UNCHANGED <<log, owner>>

Next ==
  \E c \in Callers :
    \/ Forget(c)
    \/ Create(c)
    \/ Read(c)
    \/ Identify(c)
    \/ Open(c)
    \/ Fail(c)
    \/ \E id \in EventIds : Add(c, id) \/ Refuse(c, id) \/ Find(c, id)

Spec == Init /\ [][Next]_vars

=============================================================================
