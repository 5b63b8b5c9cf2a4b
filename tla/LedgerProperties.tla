-------------------------- MODULE LedgerProperties --------------------------
(***************************************************************************)
(* What the ledger file and the calls on it promise.                       *)
(***************************************************************************)
EXTENDS ImmutableLedger

Labels == {"idle", "columns", "alter_both", "alter_entry", "count", "rows",
           "update", "tip", "identity", "insert", "identify", "scan", "anchor",
           "fetch", "find", "append"}

Hash == Seq(Nat \X EventIds)

Row == [id : EventIds, prev_hash : Hash \cup {Blank},
        entry_hash : Hash \cup {Blank}]

Call == [op : {"none", "open", "append", "read", "find", "identity"},
         id : EventIds \cup {None}, verified : BOOLEAN,
         hash : Hash, rows : Seq(Row)]

\* Types of the file and of every process's call.
TypeOK ==
  /\ columns \subseteq HashColumns
  /\ events \in Seq(Row)
  /\ tip \in {None} \cup [sequence : Nat, hash : Hash]
  /\ identity \in Procs \cup {None}
  /\ pc \in [Procs -> Labels]
  /\ call \in [Procs -> Call]
  /\ opened \subseteq Procs
  /\ DOMAIN reply = Procs

\* Once every row is chained and no rebuild is under way, verify_chain accepts
\* the file as it stands, whatever appends, opens, upgrades and crashes led
\* to it (append anchors the tip in its own transaction; an interrupted
\* rebuild leaves a row unchained, so that the next connection redoes it).
ChainIntact == Chained /\ ~Rebuilding => Verdict(events, tip) = "OK"

Alarms == {"LEDGER_CHAIN_BROKEN", "LEDGER_CHAIN_TAMPERED"}

Raised(p, outcomes) == reply[p] # None /\ reply[p].outcome \in outcomes

\* verify_chain raises on a file nobody tampered with only when an append
\* committed after it had read the rows: the rows it judged are fewer than
\* the ledger holds.
AlarmsOnlyDuringAppends ==
  \A p \in Procs : Raised(p, Alarms) => reply[p].value < Len(events)

Ids(rows) == [i \in DOMAIN rows |-> rows[i].id]

Log == INSTANCE AppendOnlyLog WITH
         Callers <- Procs, log <- Ids(events), owner <- identity,
         Failures <- Alarms \cup {"OperationalError", "IntegrityError"}

\* Every call takes effect at one instant between its start and its reply:
\* a read returns the whole log of some moment of the call, an append adds
\* one event at the sequence number it returns, upgrades and failures change
\* no event, and whoever asks for the identity gets the one value ever set.
ImplementsLog == Log!Spec

----------------------------------------------------------------------------
\* Said by a comment of the code, and not so.

\* An interrupted migration is picked up by the next connection: an old file
\* that nobody tampered with opens again after a crash.
MigrationResumes == \A p \in Procs : ~Raised(p, {"LEDGER_CHAIN_BROKEN"})

=============================================================================
