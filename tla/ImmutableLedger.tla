-------------------------- MODULE ImmutableLedger --------------------------
(***************************************************************************)
(* The hash-chained SQLite ledger of ledger.py, statement by statement.    *)
(* Connections are in autocommit mode, so every statement outside append's *)
(* BEGIN IMMEDIATE is a transaction of its own and other processes may run *)
(* between any two of them; append is one step.                            *)
(*                                                                         *)
(* The entry hash is taken to be injective: it is the sequence of what it  *)
(* commits, so equal hashes mean equal prefixes.  An event is its id; row  *)
(* i of "events" has sequence number i-1 (MAX+1, and nothing deletes).     *)
(***************************************************************************)
EXTENDS Sequences, Integers

CONSTANTS
  Procs,          \* processes that use the ledger file
  EventIds,       \* event ids they may append
  Legacy,         \* the ids in the files older than the hash chain
  SoloUpgrade,    \* such a file is opened by one process until it is chained
  CrashAt,        \* labels at which a process may die
  Ops,            \* calls made on an open ledger
  Blank,          \* the column default ''
  None

ASSUME LedgerAssumption ==
  /\ \A ids \in Legacy :
       /\ ids \in Seq(EventIds)
       /\ \A i, j \in DOMAIN ids : ids[i] = ids[j] => i = j
  /\ SoloUpgrade \in BOOLEAN
  /\ Ops \subseteq {"append", "read", "find", "identity"}
  /\ Blank \notin Seq(Nat \X EventIds)
  /\ None \notin Procs
  /\ None \notin [sequence : Nat, hash : Seq(Nat \X EventIds)]

VARIABLES
  columns,   \* hash columns the events table has
  events,    \* rows of the events table in sequence order
  tip,       \* the ledger_meta row, or None
  identity,  \* the ledger_identity row (whoever inserted it), or None
  pc,        \* statement a process executes next
  call,      \* the call it is in: operation, stage, and what it has read
  opened,    \* processes that hold an opened ledger object
  reply      \* what its last call returned or raised, None while it runs

file == <<columns, events, tip, identity>>
local == <<pc, call, opened, reply>>
vars == <<columns, events, tip, identity, pc, call, opened, reply>>

HashColumns == {"prev_hash", "entry_hash"}
GENESIS == <<>>

EntryHash(sequence, id, prev) == Append(prev, <<sequence, id>>)

LastHash(rows) == IF rows = <<>> THEN GENESIS ELSE rows[Len(rows)].entry_hash

HasEvent(rows, id) == \E i \in DOMAIN rows : rows[i].id = id

Unchained == {i \in DOMAIN events : events[i].entry_hash = Blank}

Chained == columns = HashColumns /\ Unchained = {}

\* Some process is chaining the rows, from its reading them to the anchor.
Rebuilding == \E p \in Procs : pc[p] \in {"rows", "update", "tip"}

Linked(rows, i) ==
  /\ rows[i].prev_hash = (IF i = 1 THEN GENESIS ELSE rows[i - 1].entry_hash)
  /\ rows[i].entry_hash = EntryHash(i - 1, rows[i].id, rows[i].prev_hash)

\* What verify_chain makes of rows and an anchor it has read.
Verdict(rows, anchor) ==
  CASE rows = <<>> ->
         IF anchor = None THEN "OK" ELSE "LEDGER_CHAIN_BROKEN"
    [] rows # <<>> /\ \E i \in DOMAIN rows : ~Linked(rows, i) ->
         "LEDGER_CHAIN_TAMPERED"
    [] OTHER ->
         IF anchor = None THEN "LEDGER_CHAIN_BROKEN"
         ELSE IF anchor = [sequence |-> Len(rows) - 1, hash |-> LastHash(rows)]
         THEN "OK" ELSE "LEDGER_CHAIN_TAMPERED"

NoCall == [op |-> "none", id |-> None, verified |-> FALSE,
           hash |-> GENESIS, rows |-> <<>>]

UnchainedRows(ids) ==
  [i \in 1..Len(ids) |-> [id |-> ids[i], prev_hash |-> Blank, entry_hash |-> Blank]]

\* A new file, with the tables CREATE TABLE IF NOT EXISTS makes, or an old one.
Init ==
  /\ \/ columns = HashColumns /\ events = <<>>
     \/ columns = {} /\ \E ids \in Legacy : events = UnchainedRows(ids)
  /\ tip = None
  /\ identity = None
  /\ pc = [p \in Procs |-> "idle"]
  /\ call = [p \in Procs |-> NoCall]
  /\ opened = {}
  /\ reply = [p \in Procs |-> None]

Idle(p) == pc[p] = "idle"

Goto(p, label) == pc' = [pc EXCEPT ![p] = label]

Return(p, outcome, value) ==
  /\ Goto(p, "idle")
  /\ call' = [call EXCEPT ![p] = NoCall]
  /\ reply' = [reply EXCEPT ![p] = [outcome |-> outcome, value |-> value]]

----------------------------------------------------------------------------
\* Calls.  Each of them connects first, and read connects twice.

Begin(p, op, id) ==
  /\ Idle(p)
  /\ op = "open" <=> p \notin opened
  /\ SoloUpgrade /\ (~Chained \/ Rebuilding) => \A q \in Procs : Idle(q)
  /\ call' = [call EXCEPT ![p] = [NoCall EXCEPT !.op = op, !.id = id]]
  /\ Goto(p, "columns")
  /\ reply' = [reply EXCEPT ![p] = None]
  /\ UNCHANGED <<columns, events, tip, identity, opened>>

Open(p) == Begin(p, "open", None)

Use(p) ==
  \E op \in Ops :
    IF op \in {"append", "find"}
    THEN \E id \in EventIds : Begin(p, op, id)
    ELSE Begin(p, op, None)

\* _ensure_hash_chain: PRAGMA table_info.
ReadColumns(p) ==
  /\ pc[p] = "columns"
  /\ Goto(p, IF "prev_hash" \notin columns THEN "alter_both"
             ELSE IF "entry_hash" \notin columns THEN "alter_entry"
             ELSE "count")
  /\ UNCHANGED <<columns, events, tip, identity, call, opened, reply>>

\* ALTER TABLE fails when another process has added the column meanwhile.
AddColumn(p, column, next) ==
  /\ IF column \in columns
     THEN Return(p, "OperationalError", 0) /\ UNCHANGED columns
     ELSE /\ columns' = columns \cup {column}
          /\ Goto(p, next)
          /\ UNCHANGED <<call, reply>>
  /\ UNCHANGED <<events, tip, identity, opened>>

\* No version of the file has entry_hash alone: without prev_hash both go in.
AlterPrev(p) == pc[p] = "alter_both" /\ AddColumn(p, "prev_hash", "alter_entry")
AlterEntry(p) == pc[p] = "alter_entry" /\ AddColumn(p, "entry_hash", "rows")

\* A defect: the columns are there, so the rows must be chained.
CountUnchained_TrustsColumns(p) ==
  /\ pc[p] = "count"
  /\ Goto(p, "identity")
  /\ UNCHANGED <<columns, events, tip, identity, call, opened, reply>>

CountUnchained(p) ==
  /\ pc[p] = "count"
  /\ Goto(p, IF Unchained = {} THEN "identity" ELSE "rows")
  /\ UNCHANGED <<columns, events, tip, identity, call, opened, reply>>

\* _rebuild_chain: the rows, one UPDATE each, then the anchor.
ReadRows(p) ==
  /\ pc[p] = "rows"
  /\ call' = [call EXCEPT ![p].rows = events, ![p].hash = GENESIS]
  /\ Goto(p, IF events = <<>> THEN "tip" ELSE "update")
  /\ UNCHANGED <<columns, events, tip, identity, opened, reply>>

UpdateRow(p) ==
  LET i == Len(call[p].hash) + 1
      hash == EntryHash(i - 1, call[p].rows[i].id, call[p].hash)
  IN /\ pc[p] = "update"
     /\ events' = [events EXCEPT ![i] =
          [id |-> @.id, prev_hash |-> call[p].hash, entry_hash |-> hash]]
     /\ call' = [call EXCEPT ![p].hash = hash]
     /\ Goto(p, IF i = Len(call[p].rows) THEN "tip" ELSE "update")
     /\ UNCHANGED <<columns, tip, identity, opened, reply>>

\* A defect: an anchor even where there is no row.
SetTip_AlsoOfNothing(p) ==
  /\ pc[p] = "tip"
  /\ tip' = [sequence |-> Len(call[p].rows) - 1, hash |-> call[p].hash]
  /\ Goto(p, "identity")
  /\ UNCHANGED <<columns, events, identity, call, opened, reply>>

SetTip(p) ==
  /\ pc[p] = "tip"
  /\ tip' = IF call[p].rows = <<>> THEN None
            ELSE [sequence |-> Len(call[p].rows) - 1, hash |-> call[p].hash]
  /\ Goto(p, "identity")
  /\ UNCHANGED <<columns, events, identity, call, opened, reply>>

Connected(p) ==
  CASE call[p].op = "append" -> "append"
    [] call[p].op = "find" -> "find"
    [] call[p].op = "identity" -> "identify"
    [] call[p].verified -> "fetch"
    [] OTHER -> "scan"

\* _ensure_identity: SELECT, and INSERT when there is none.
FindIdentity(p) ==
  /\ pc[p] = "identity"
  /\ Goto(p, IF identity = None THEN "insert" ELSE Connected(p))
  /\ UNCHANGED <<columns, events, tip, identity, call, opened, reply>>

\* A defect: INSERT OR REPLACE.
InsertIdentity_Replaces(p) ==
  /\ pc[p] = "insert"
  /\ identity' = p
  /\ Goto(p, Connected(p))
  /\ UNCHANGED <<columns, events, tip, call, opened, reply>>

InsertIdentity(p) ==
  /\ pc[p] = "insert"
  /\ IF identity = None
     THEN /\ identity' = p
          /\ Goto(p, Connected(p))
          /\ UNCHANGED <<call, reply>>
     ELSE Return(p, "IntegrityError", 0) /\ UNCHANGED identity
  /\ UNCHANGED <<columns, events, tip, opened>>

Identify(p) ==
  /\ pc[p] = "identify"
  /\ Return(p, "IDENTITY", identity)
  /\ UNCHANGED <<columns, events, tip, identity, opened>>

\* verify_chain: the rows, then the anchor; read goes on to a new connection.
Scan(p) ==
  /\ pc[p] = "scan"
  /\ call' = [call EXCEPT ![p].rows = events]
  /\ Goto(p, "anchor")
  /\ UNCHANGED <<columns, events, tip, identity, opened, reply>>

VerifySucceeds(p) ==
  /\ pc[p] = "anchor"
  /\ Verdict(call[p].rows, tip) = "OK"
  /\ IF call[p].op = "open"
     THEN /\ opened' = opened \cup {p}
          /\ Return(p, "OPENED", None)
     ELSE /\ call' = [call EXCEPT ![p] = [NoCall EXCEPT !.op = "read", !.verified = TRUE]]
          /\ Goto(p, "columns")
          /\ UNCHANGED <<opened, reply>>
  /\ UNCHANGED file

VerifyFails(p) ==
  /\ pc[p] = "anchor"
  /\ Verdict(call[p].rows, tip) # "OK"
  /\ Return(p, Verdict(call[p].rows, tip), Len(call[p].rows))
  /\ UNCHANGED <<columns, events, tip, identity, opened>>

Fetch(p) ==
  /\ pc[p] = "fetch"
  /\ Return(p, "EVENTS", [i \in DOMAIN events |-> events[i].id])
  /\ UNCHANGED <<columns, events, tip, identity, opened>>

\* contains_event_id; has_event_type asks the same of an event's type.
ContainsEvent(p) ==
  /\ pc[p] = "find"
  /\ Return(p, "FOUND", HasEvent(events, call[p].id))
  /\ UNCHANGED <<columns, events, tip, identity, opened>>

\* append: one BEGIN IMMEDIATE transaction, rolled back on a UNIQUE conflict.
NewRow(id) ==
  [id |-> id, prev_hash |-> LastHash(events),
   entry_hash |-> EntryHash(Len(events), id, LastHash(events))]

\* A defect: the anchor is left to the next rebuild.
AppendEvent_NoAnchor(p) ==
  /\ pc[p] = "append"
  /\ ~HasEvent(events, call[p].id)
  /\ events' = Append(events, NewRow(call[p].id))
  /\ Return(p, "APPENDED", Len(events))
  /\ UNCHANGED <<columns, tip, identity, opened>>

AppendEvent(p) ==
  /\ pc[p] = "append"
  /\ ~HasEvent(events, call[p].id)
  /\ events' = Append(events, NewRow(call[p].id))
  /\ tip' = [sequence |-> Len(events), hash |-> NewRow(call[p].id).entry_hash]
  /\ Return(p, "APPENDED", Len(events))
  /\ UNCHANGED <<columns, identity, opened>>

RefuseDuplicate(p) ==
  /\ pc[p] = "append"
  /\ HasEvent(events, call[p].id)
  /\ Return(p, "LEDGER_EVENT_ID_EXISTS", call[p].id)
  /\ UNCHANGED <<columns, events, tip, identity, opened>>

----------------------------------------------------------------------------
\* A process dies; what it committed stays.
Crash(p) ==
  /\ pc[p] \in CrashAt
  /\ pc' = [pc EXCEPT ![p] = "idle"]
  /\ call' = [call EXCEPT ![p] = NoCall]
  /\ opened' = opened \ {p}
  /\ reply' = [reply EXCEPT ![p] = None]
  /\ UNCHANGED file

Step(p) ==
  \/ ReadColumns(p) \/ AlterPrev(p) \/ AlterEntry(p) \/ CountUnchained(p)
  \/ ReadRows(p) \/ UpdateRow(p) \/ SetTip(p)
  \/ FindIdentity(p) \/ InsertIdentity(p) \/ Identify(p)
  \/ Scan(p) \/ VerifySucceeds(p) \/ VerifyFails(p) \/ Fetch(p)
  \/ ContainsEvent(p) \/ AppendEvent(p) \/ RefuseDuplicate(p)

Next == \E p \in Procs : Open(p) \/ Use(p) \/ Step(p) \/ Crash(p)

Spec == Init /\ [][Next]_vars

=============================================================================
