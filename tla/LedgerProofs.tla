---------------------------- MODULE LedgerProofs ----------------------------
(***************************************************************************)
(* Proofs about the ledger, for any number of processes, events and rows.  *)
(*                                                                         *)
(* CallsFit is what a call in progress knows from one statement to the     *)
(* next, whoever else writes in between; types, and that the ledger is an  *)
(* append-only log, follow from it.  ChainInv is what holds of the chain   *)
(* when an old file is upgraded by one process that does not die between   *)
(* its last UPDATE and the anchor: with it, an alarm needs an append that  *)
(* came between a scan and its look at the anchor.                         *)
(***************************************************************************)
EXTENDS LedgerProperties, SequenceTheorems, TLAPS

-----------------------------------------------------------------------------
(* What a call knows *)

\* Labels past _ensure_hash_chain, which a call reaches on a chained file.
Ready == {"identity", "insert", "identify", "scan", "anchor", "fetch", "find",
          "append"}

Written(i) == events[i].entry_hash # Blank

\* Rows a process in _rebuild_chain need not write: it has, or they came later.
Settled(p) ==
  {i \in DOMAIN events : i <= Len(call[p].hash) \/ i > Len(call[p].rows)}

Fits(p) ==
  /\ pc[p] # "idle" => reply[p] = None
  /\ call[p].op \in {"append", "find"} => call[p].id \in EventIds
  /\ pc[p] \in {"append", "find"} => call[p].op = pc[p]
  /\ pc[p] = "alter_entry" => "prev_hash" \in columns
  /\ pc[p] \in {"count", "rows", "update", "tip"} => columns = HashColumns
  /\ pc[p] = "update" => /\ Len(call[p].hash) < Len(call[p].rows)
                         /\ Len(call[p].rows) <= Len(events)
                         /\ \A i \in Settled(p) : Written(i)
  /\ pc[p] = "tip" => \A i \in DOMAIN events : Written(i)
  /\ pc[p] \in Ready => Chained
  /\ pc[p] = "identify" => identity # None
  /\ pc[p] = "anchor" => Len(call[p].rows) <= Len(events)

LogInv == TypeOK /\ \A p \in Procs : Fits(p)

\* What any step leaves of the file to the calls of other processes.
Onward ==
  /\ columns \subseteq columns'
  /\ identity # None => identity' # None
  /\ Len(events) <= Len(events')
  /\ \A i \in DOMAIN events' : Written(i)' \/ (i \in DOMAIN events /\ ~Written(i))

-----------------------------------------------------------------------------
(* Sequences and hashes *)

(* Appending to a sequence: its type, its length and its elements. *)
LEMMA Appended ==
  ASSUME NEW S, NEW s \in Seq(S), NEW x \in S
  PROVE  /\ Append(s, x) \in Seq(S)
         /\ Len(Append(s, x)) = Len(s) + 1
         /\ Append(s, x) # <<>>
         /\ \A i \in 1..Len(s) : Append(s, x)[i] = s[i]
         /\ Append(s, x)[Len(s) + 1] = x
BY AppendProperties

(* A hash commits the row it was computed for and what came before it. *)
LEMMA HashTyped ==
  ASSUME NEW h \in Hash, NEW n \in Nat, NEW id \in EventIds
  PROVE  /\ EntryHash(n, id, h) \in Hash
         /\ EntryHash(n, id, h) # Blank
         /\ Len(EntryHash(n, id, h)) = Len(h) + 1
<1> DEFINE S == Nat \X EventIds
           x == <<n, id>>
<1>1. x \in S OBVIOUS
<1>2. h \in Seq(S) BY DEF Hash
<1> HIDE DEF S, x
<1>3. Append(h, x) \in Seq(S) /\ Len(Append(h, x)) = Len(h) + 1
  BY <1>1, <1>2, Appended
<1> USE DEF S, x
<1> QED BY <1>3, LedgerAssumption DEF EntryHash, Hash

(* An UPDATE of _rebuild_chain writes two columns of one row. *)
LEMMA RowUpdated ==
  ASSUME NEW s \in Seq(Row), NEW i \in 1..Len(s), NEW h \in Hash, NEW g \in Hash
  PROVE  LET row == [id |-> s[i].id, prev_hash |-> h, entry_hash |-> g]
             t == [s EXCEPT ![i] = row]
         IN /\ t \in Seq(Row)
            /\ Len(t) = Len(s)
            /\ \A j \in 1..Len(s) : t[j] = IF j = i THEN row ELSE s[j]
<1> DEFINE row == [id |-> s[i].id, prev_hash |-> h, entry_hash |-> g]
<1>1. row \in Row BY ElementOfSeq DEF Row
<1> HIDE DEF row
<1>2. /\ [s EXCEPT ![i] = row] \in Seq(Row)
      /\ Len([s EXCEPT ![i] = row]) = Len(s)
      /\ \A j \in 1..Len(s) :
           [s EXCEPT ![i] = row][j] = IF j = i THEN row ELSE s[j]
  BY <1>1, ExceptSeq
<1> QED BY <1>2 DEF row

-----------------------------------------------------------------------------
(* One step of a call *)

\* A process changes its own call only.
Others(p) == \A q \in Procs \ {p} :
  pc'[q] = pc[q] /\ call'[q] = call[q] /\ reply'[q] = reply[q]

Sound(p) == TypeOK' /\ Onward /\ Fits(p)' /\ Others(p)

LEMMA NoCallTyped == NoCall \in Call
  BY EmptySeq DEF NoCall, Call, GENESIS, Hash

(* A step that leaves the file as it is. *)
LEMMA FileKept == ASSUME UNCHANGED file PROVE Onward
BY DEF file, Onward, Written

(* Written rows and columns stay, so what other calls rely on stays. *)
LEMMA OnwardKeepsChained == ASSUME TypeOK, TypeOK', Onward, Chained PROVE Chained'
<1>1. columns' = HashColumns BY DEF TypeOK, Onward, Chained
<1>2. \A i \in DOMAIN events : Written(i) BY DEF Chained, Unchained, Written
<1>3. \A i \in DOMAIN events' : Written(i)' BY <1>2 DEF Onward
<1> QED BY <1>1, <1>3 DEF Chained, Unchained, Written

LEMMA OthersFit ==
  ASSUME TypeOK, TypeOK', Onward, NEW q \in Procs, Fits(q),
         pc'[q] = pc[q], call'[q] = call[q], reply'[q] = reply[q]
  PROVE  Fits(q)'
<1>1. columns \subseteq columns' /\ columns' \subseteq HashColumns
  BY DEF TypeOK, Onward
<1>2. Len(events) \in Nat /\ Len(events') \in Nat /\ Len(events) <= Len(events')
      /\ DOMAIN events = 1..Len(events) /\ DOMAIN events' = 1..Len(events')
  BY LenProperties DEF TypeOK, Onward
<1>3. call[q] \in Call BY DEF TypeOK
<1>4. Len(call[q].hash) \in Nat /\ Len(call[q].rows) \in Nat
  BY <1>3, LenProperties DEF Call, Hash
<1>5. pc[q] = "update" =>
        /\ Len(call[q].rows) <= Len(events')
        /\ \A i \in Settled(q)' : Written(i)'
  <2> SUFFICES ASSUME pc[q] = "update", NEW i \in Settled(q)'
               PROVE  Len(call[q].rows) <= Len(events') /\ Written(i)'
    BY <1>2, <1>4 DEF Fits
  <2>1. Len(call[q].rows) <= Len(events) /\ \A j \in Settled(q) : Written(j)
    BY DEF Fits
  <2>2. i \in DOMAIN events' BY DEF Settled
  <2>3. i \in DOMAIN events => i \in Settled(q) BY DEF Settled
  <2> QED BY <1>2, <1>4, <2>1, <2>2, <2>3 DEF Onward
<1>6. pc[q] = "tip" => \A i \in DOMAIN events' : Written(i)' BY DEF Fits, Onward
<1>7. pc[q] \in Ready => Chained' BY OnwardKeepsChained DEF Fits
<1>8. /\ pc[q] = "alter_entry" => "prev_hash" \in columns'
      /\ pc[q] \in {"count", "rows", "update", "tip"} => columns' = HashColumns
  BY <1>1 DEF Fits
<1>9. pc[q] = "anchor" => Len(call[q].rows) <= Len(events')
  BY <1>2, <1>4 DEF Fits
<1>10. /\ pc[q] # "idle" => reply[q] = None
       /\ call[q].op \in {"append", "find"} => call[q].id \in EventIds
       /\ pc[q] \in {"append", "find"} => call[q].op = pc[q]
       /\ pc[q] = "update" => Len(call[q].hash) < Len(call[q].rows)
       /\ pc[q] = "identify" => identity' # None
  BY DEF Fits, Onward
<1> QED BY <1>5, <1>6, <1>7, <1>8, <1>9, <1>10 DEF Fits

(* Returning, with the call forgotten. *)
LEMMA Returned ==
  ASSUME TypeOK, NEW p \in Procs, NEW outcome, NEW value, Return(p, outcome, value)
  PROVE  /\ pc' \in [Procs -> Labels] /\ call' \in [Procs -> Call]
         /\ DOMAIN reply' = Procs /\ pc'[p] = "idle" /\ call'[p] = NoCall
         /\ Others(p)
<1>1. /\ pc' = [pc EXCEPT ![p] = "idle"]
      /\ call' = [call EXCEPT ![p] = NoCall]
      /\ reply' = [reply EXCEPT ![p] = [outcome |-> outcome, value |-> value]]
  BY DEF Return, Goto
<1>2. "idle" \in Labels BY DEF Labels
<1> QED BY <1>1, <1>2, NoCallTyped DEF TypeOK, Others

LEMMA ReturnedFits ==
  ASSUME NEW p \in Procs, pc'[p] = "idle", call'[p] = NoCall PROVE Fits(p)'
BY DEF Fits, NoCall, Ready

(* Going on to another statement of the same call. *)
LEMMA Went ==
  ASSUME TypeOK, NEW p \in Procs, NEW label \in Labels, Goto(p, label)
  PROVE  pc' \in [Procs -> Labels] /\ pc'[p] = label
         /\ \A q \in Procs \ {p} : pc'[q] = pc[q]
BY DEF TypeOK, Goto

LEMMA BeginSound ==
  ASSUME LogInv, NEW p \in Procs, NEW op, NEW id, Begin(p, op, id),
         op \in {"open", "append", "read", "find", "identity"},
         id \in IF op \in {"append", "find"} THEN EventIds ELSE {None}
  PROVE  Sound(p)
<1> DEFINE c == [NoCall EXCEPT !.op = op, !.id = id]
<1>1. TypeOK BY DEF LogInv
<1>2. c \in Call /\ c.op = op /\ c.id = id
  BY NoCallTyped DEF NoCall, Call
<1>3. /\ call' = [call EXCEPT ![p] = c]
      /\ reply' = [reply EXCEPT ![p] = None]
      /\ Goto(p, "columns")
      /\ UNCHANGED <<columns, events, tip, identity, opened>>
  BY DEF Begin
<1>4. pc' \in [Procs -> Labels] /\ pc'[p] = "columns"
      /\ \A q \in Procs \ {p} : pc'[q] = pc[q]
  BY <1>1, <1>3, Went DEF Labels
<1> HIDE DEF c
<1>5. TypeOK' BY <1>1, <1>2, <1>3, <1>4 DEF TypeOK
<1>6. call'[p] = c /\ reply'[p] = None /\ Others(p)
  BY <1>1, <1>3, <1>4 DEF TypeOK, Others
<1>7. Fits(p)' BY <1>2, <1>4, <1>6 DEF Fits, Ready
<1> QED BY <1>3, <1>5, <1>6, <1>7, FileKept DEF Sound, file

(* A call that only goes on, with the file and its answer as they were. *)
LEMMA WentSound ==
  ASSUME LogInv, NEW p \in Procs, NEW label \in Labels, Goto(p, label),
         UNCHANGED <<columns, events, tip, identity, call, opened, reply>>,
         pc[p] # "idle", Fits(p)'
  PROVE  Sound(p)
<1>1. TypeOK' BY Went DEF LogInv, TypeOK
<1>2. Others(p) BY Went DEF LogInv, Others
<1> QED BY <1>1, <1>2, FileKept DEF Sound, file

(* A call that returns, with the file as it was. *)
LEMMA ReturnSound ==
  ASSUME LogInv, NEW p \in Procs, NEW outcome, NEW value, Return(p, outcome, value),
         UNCHANGED file, opened' \subseteq Procs
  PROVE  Sound(p)
<1>1. TypeOK' BY Returned DEF LogInv, TypeOK, file
<1> QED BY <1>1, Returned, ReturnedFits, FileKept DEF Sound, LogInv

LEMMA ReadColumnsSound ==
  ASSUME LogInv, NEW p \in Procs, ReadColumns(p) PROVE Sound(p)
<1> DEFINE label == IF "prev_hash" \notin columns THEN "alter_both"
                    ELSE IF "entry_hash" \notin columns THEN "alter_entry"
                    ELSE "count"
<1>1. /\ label \in Labels /\ Goto(p, label) /\ pc[p] = "columns"
      /\ UNCHANGED <<columns, events, tip, identity, call, opened, reply>>
  BY DEF ReadColumns, Labels
<1>2. pc'[p] = label BY <1>1, Went DEF LogInv
<1>3. Fits(p)' BY <1>1, <1>2 DEF LogInv, Fits, Ready, TypeOK, HashColumns
<1> QED BY <1>1, <1>3, WentSound

LEMMA AddColumnSound ==
  ASSUME LogInv, NEW p \in Procs, NEW column \in HashColumns, NEW next,
         AddColumn(p, column, next), pc[p] \in {"alter_both", "alter_entry"},
         next = IF column = "prev_hash" THEN "alter_entry" ELSE "rows",
         column = IF pc[p] = "alter_both" THEN "prev_hash" ELSE "entry_hash"
  PROVE  Sound(p)
<1>1. CASE column \in columns
  BY <1>1, ReturnSound DEF AddColumn, file, LogInv, TypeOK
<1>2. CASE column \notin columns
  <2>1. /\ columns' = columns \cup {column} /\ Goto(p, next) /\ next \in Labels
        /\ UNCHANGED <<events, tip, identity, call, opened, reply>>
    BY <1>2 DEF AddColumn, Labels
  <2>2. TypeOK /\ Fits(p) BY DEF LogInv
  <2>3. pc' \in [Procs -> Labels] /\ pc'[p] = next /\ Others(p)
    BY <2>1, <2>2, Went DEF Others
  <2>4. TypeOK' BY <2>1, <2>2, <2>3 DEF TypeOK
  <2>5. Onward BY <2>1 DEF Onward, Written
  <2>6. Fits(p)' BY <2>1, <2>2, <2>3 DEF Fits, Ready, TypeOK, HashColumns
  <2> QED BY <2>3, <2>4, <2>5, <2>6 DEF Sound
<1> QED BY <1>1, <1>2

LEMMA CountUnchainedSound ==
  ASSUME LogInv, NEW p \in Procs, CountUnchained(p) PROVE Sound(p)
<1> DEFINE label == IF Unchained = {} THEN "identity" ELSE "rows"
<1>1. /\ label \in Labels /\ Goto(p, label) /\ pc[p] = "count"
      /\ UNCHANGED <<columns, events, tip, identity, call, opened, reply>>
  BY DEF CountUnchained, Labels
<1>2. pc'[p] = label BY <1>1, Went DEF LogInv
<1>3. Fits(p)' BY <1>1, <1>2 DEF LogInv, Fits, Ready, Chained, Unchained
<1> QED BY <1>1, <1>3, WentSound

LEMMA ReadRowsSound ==
  ASSUME LogInv, NEW p \in Procs, ReadRows(p) PROVE Sound(p)
<1> DEFINE label == IF events = <<>> THEN "tip" ELSE "update"
           c == [call[p] EXCEPT !.rows = events, !.hash = GENESIS]
<1>1. TypeOK /\ Fits(p) BY DEF LogInv
<1>2. /\ label \in Labels /\ Goto(p, label) /\ pc[p] = "rows"
      /\ call' = [call EXCEPT ![p] = c]
      /\ UNCHANGED <<columns, events, tip, identity, opened, reply>>
  BY DEF ReadRows, Labels
<1>3. /\ c \in Call /\ c.rows = events /\ c.hash = <<>>
      /\ c.op = call[p].op /\ c.id = call[p].id
  BY <1>1, EmptySeq DEF TypeOK, Call, GENESIS, Hash
<1>4. pc' \in [Procs -> Labels] /\ pc'[p] = label
      /\ \A q \in Procs \ {p} : pc'[q] = pc[q]
  BY <1>1, <1>2, Went
<1>5. Len(events) \in Nat /\ (events # <<>> => Len(events) > 0)
      /\ DOMAIN events = 1..Len(events) /\ Len(<<>>) = 0
  BY <1>1, EmptySeq, LenProperties DEF TypeOK
<1> HIDE DEF c
<1>6. TypeOK' BY <1>1, <1>2, <1>3, <1>4 DEF TypeOK
<1>7. call'[p] = c /\ Others(p) BY <1>1, <1>2, <1>4 DEF TypeOK, Others
<1>8. Settled(p)' = {} BY <1>2, <1>3, <1>5, <1>7 DEF Settled
<1>9. Fits(p)' BY <1>1, <1>2, <1>3, <1>4, <1>5, <1>7, <1>8 DEF Fits, Ready
<1> QED BY <1>2, <1>6, <1>7, <1>9, FileKept DEF Sound, file

LEMMA UpdateRowSound ==
  ASSUME LogInv, NEW p \in Procs, UpdateRow(p) PROVE Sound(p)
<1> DEFINE i == Len(call[p].hash) + 1
           hash == EntryHash(i - 1, call[p].rows[i].id, call[p].hash)
           label == IF i = Len(call[p].rows) THEN "tip" ELSE "update"
           c == [call[p] EXCEPT !.hash = hash]
           row == [id |-> events[i].id, prev_hash |-> call[p].hash,
                   entry_hash |-> hash]
<1>1. TypeOK /\ Fits(p) /\ pc[p] = "update" BY DEF LogInv, UpdateRow
<1>2. /\ label \in Labels /\ Goto(p, label)
      /\ events' = [events EXCEPT ![i] = row]
      /\ call' = [call EXCEPT ![p] = c]
      /\ UNCHANGED <<columns, tip, identity, opened, reply>>
  BY DEF UpdateRow, Labels
<1>3. /\ call[p] \in Call /\ call[p].hash \in Hash /\ call[p].rows \in Seq(Row)
      /\ Len(call[p].hash) \in Nat /\ Len(call[p].rows) \in Nat
      /\ Len(events) \in Nat /\ events \in Seq(Row)
      /\ DOMAIN events = 1..Len(events)
  BY <1>1, LenProperties DEF TypeOK, Call, Hash
<1>4. i \in 1..Len(call[p].rows) /\ i \in 1..Len(events)
      /\ Len(call[p].rows) <= Len(events)
  BY <1>1, <1>3 DEF Fits
<1>5. hash \in Hash /\ hash # Blank /\ Len(hash) = i
  <2> DEFINE rows == call[p].rows
  <2>1. i - 1 = Len(call[p].hash) BY <1>3
  <2>2. rows \in Seq(Row) /\ i \in 1..Len(rows) BY <1>3, <1>4
  <2> HIDE DEF i, rows
  <2>3. rows[i] \in Row BY <2>2, ElementOfSeq
  <2>4. call[p].rows[i].id \in EventIds BY <2>3 DEF Row, rows
  <2>5. /\ hash \in Hash /\ hash # Blank
        /\ Len(hash) = Len(call[p].hash) + 1
    BY <1>3, <2>1, <2>4, HashTyped
  <2> QED BY <2>5 DEF i
<1> HIDE DEF hash
<1>6. /\ events' \in Seq(Row) /\ Len(events') = Len(events)
      /\ \A j \in 1..Len(events) : events'[j] = IF j = i THEN row ELSE events[j]
  BY <1>2, <1>3, <1>4, <1>5, RowUpdated
<1>7. /\ c \in Call /\ c.rows = call[p].rows /\ c.hash = hash
      /\ c.op = call[p].op /\ c.id = call[p].id
  BY <1>3, <1>5 DEF Call
<1> HIDE DEF c
<1>8. pc' \in [Procs -> Labels] /\ pc'[p] = label
      /\ \A q \in Procs \ {p} : pc'[q] = pc[q]
  BY <1>1, <1>2, Went
<1>9. TypeOK' BY <1>1, <1>2, <1>6, <1>7, <1>8 DEF TypeOK
<1>10. call'[p] = c /\ Others(p) BY <1>1, <1>2, <1>8 DEF TypeOK, Others
<1>11. DOMAIN events' = DOMAIN events BY <1>3, <1>6, LenProperties
<1>12. /\ events'[i].entry_hash # Blank
       /\ \A j \in DOMAIN events : Written(j) => events'[j].entry_hash # Blank
  <2> HIDE DEF i
  <2> QED BY <1>3, <1>4, <1>5, <1>6 DEF Written
<1>13. Onward BY <1>2, <1>3, <1>6, <1>11, <1>12 DEF Onward, Written
<1>14. \A j \in DOMAIN events : j <= i \/ j > Len(call[p].rows) => Written(j)'
  <2>1. \A j \in DOMAIN events :
          j < i \/ j > Len(call[p].rows) => j \in Settled(p)
    BY <1>3 DEF Settled
  <2>2. \A j \in Settled(p) : Written(j) BY <1>1 DEF Fits
  <2>3. \A j \in DOMAIN events : j <= i => j < i \/ j = i BY <1>3
  <2> HIDE DEF i
  <2> QED BY <1>12, <2>1, <2>2, <2>3 DEF Written
<1>15. /\ label = "update" => /\ Len(c.hash) < Len(c.rows)
                              /\ Len(c.rows) <= Len(events')
                              /\ \A j \in Settled(p)' : Written(j)'
       /\ label = "tip" => \A j \in DOMAIN events' : Written(j)'
  BY <1>3, <1>4, <1>5, <1>6, <1>7, <1>10, <1>11, <1>14 DEF Settled
<1>16. Fits(p)'
  BY <1>1, <1>2, <1>7, <1>8, <1>10, <1>15 DEF Fits, Ready
<1> QED BY <1>9, <1>10, <1>13, <1>16 DEF Sound

LEMMA SetTipSound == ASSUME LogInv, NEW p \in Procs, SetTip(p) PROVE Sound(p)
<1>1. TypeOK /\ Fits(p) /\ pc[p] = "tip" BY DEF LogInv, SetTip
<1>2. /\ Goto(p, "identity") /\ "identity" \in Labels
      /\ tip' = IF call[p].rows = <<>> THEN None
                ELSE [sequence |-> Len(call[p].rows) - 1, hash |-> call[p].hash]
      /\ UNCHANGED <<columns, events, identity, call, opened, reply>>
  BY DEF SetTip, Labels
<1>3. pc' \in [Procs -> Labels] /\ pc'[p] = "identity" /\ Others(p)
  BY <1>1, <1>2, Went DEF Others
<1>4. tip' \in {None} \cup [sequence : Nat, hash : Hash]
  <2>1. call[p].rows \in Seq(Row) /\ call[p].hash \in Hash
    BY <1>1 DEF TypeOK, Call
  <2>2. call[p].rows # <<>> => Len(call[p].rows) - 1 \in Nat
    BY <2>1, EmptySeq, LenProperties
  <2> QED BY <1>2, <2>1, <2>2
<1>5. TypeOK' BY <1>1, <1>2, <1>3, <1>4 DEF TypeOK
<1>6. Onward BY <1>2 DEF Onward, Written
<1>7. Chained BY <1>1 DEF Fits, Chained, Unchained, Written
<1>8. Fits(p)' BY <1>1, <1>2, <1>3, <1>7 DEF Fits, Chained, Unchained
<1> QED BY <1>3, <1>5, <1>6, <1>8 DEF Sound

(* Where a call goes after its connection is open. *)
LEMMA ConnectedFits ==
  ASSUME NEW p \in Procs
  PROVE  /\ Connected(p) \in Labels /\ Connected(p) \in Ready
         /\ Connected(p) \in {"append", "find"} => call[p].op = Connected(p)
         /\ Connected(p) # "anchor"
BY DEF Connected, Labels, Ready

LEMMA FindIdentitySound ==
  ASSUME LogInv, NEW p \in Procs, FindIdentity(p) PROVE Sound(p)
<1> DEFINE label == IF identity = None THEN "insert" ELSE Connected(p)
<1>1. /\ label \in Labels /\ Goto(p, label) /\ pc[p] = "identity"
      /\ UNCHANGED <<columns, events, tip, identity, call, opened, reply>>
  BY ConnectedFits DEF FindIdentity, Labels
<1>2. pc'[p] = label BY <1>1, Went DEF LogInv
<1>3. Chained' BY <1>1 DEF LogInv, Fits, Ready, Chained, Unchained
<1>4. Fits(p)' BY <1>1, <1>2, <1>3, ConnectedFits DEF LogInv, Fits, Ready
<1> QED BY <1>1, <1>4, WentSound

LEMMA InsertIdentitySound ==
  ASSUME LogInv, NEW p \in Procs, InsertIdentity(p) PROVE Sound(p)
<1>1. CASE identity # None
  BY <1>1, ReturnSound DEF InsertIdentity, file, LogInv, TypeOK
<1>2. CASE identity = None
  <2>1. /\ Goto(p, Connected(p)) /\ pc[p] = "insert" /\ identity' = p
        /\ UNCHANGED <<columns, events, tip, call, opened, reply>>
    BY <1>2 DEF InsertIdentity
  <2>2. TypeOK /\ Fits(p) BY DEF LogInv
  <2>3. pc' \in [Procs -> Labels] /\ pc'[p] = Connected(p) /\ Others(p)
    BY <2>1, <2>2, Went, ConnectedFits DEF Others
  <2>4. TypeOK' BY <2>1, <2>2, <2>3 DEF TypeOK
  <2>5. identity' # None BY <2>1, LedgerAssumption
  <2>6. Onward BY <2>1, <2>5 DEF Onward, Written
  <2>7. Chained' BY <2>1, <2>2 DEF Fits, Ready, Chained, Unchained
  <2>8. Fits(p)'
    BY <2>1, <2>2, <2>3, <2>5, <2>7, ConnectedFits DEF Fits, Ready
  <2> QED BY <2>3, <2>4, <2>6, <2>8 DEF Sound
<1> QED BY <1>1, <1>2

LEMMA ScanSound == ASSUME LogInv, NEW p \in Procs, Scan(p) PROVE Sound(p)
<1> DEFINE c == [call[p] EXCEPT !.rows = events]
<1>1. TypeOK /\ Fits(p) /\ pc[p] = "scan" BY DEF LogInv, Scan
<1>2. /\ Goto(p, "anchor") /\ "anchor" \in Labels
      /\ call' = [call EXCEPT ![p] = c]
      /\ UNCHANGED <<columns, events, tip, identity, opened, reply>>
  BY DEF Scan, Labels
<1>3. c \in Call /\ c.rows = events /\ c.op = call[p].op /\ c.id = call[p].id
  BY <1>1 DEF TypeOK, Call
<1> HIDE DEF c
<1>4. pc' \in [Procs -> Labels] /\ pc'[p] = "anchor"
      /\ \A q \in Procs \ {p} : pc'[q] = pc[q]
  BY <1>1, <1>2, Went
<1>5. TypeOK' BY <1>1, <1>2, <1>3, <1>4 DEF TypeOK
<1>6. call'[p] = c /\ Others(p) BY <1>1, <1>2, <1>4 DEF TypeOK, Others
<1>7. Len(events) \in Nat BY <1>1, LenProperties DEF TypeOK
<1>8. Fits(p)'
  BY <1>1, <1>2, <1>3, <1>4, <1>6, <1>7 DEF Fits, Ready, Chained, Unchained
<1> QED BY <1>2, <1>5, <1>6, <1>8, FileKept DEF Sound, file

LEMMA VerifySucceedsSound ==
  ASSUME LogInv, NEW p \in Procs, VerifySucceeds(p) PROVE Sound(p)
<1> DEFINE c == [NoCall EXCEPT !.op = "read", !.verified = TRUE]
<1>1. TypeOK /\ Fits(p) /\ pc[p] = "anchor" /\ UNCHANGED file
  BY DEF LogInv, VerifySucceeds
<1>2. CASE call[p].op = "open"
  BY <1>1, <1>2, ReturnSound DEF VerifySucceeds, TypeOK
<1>3. CASE call[p].op # "open"
  <2>1. /\ Goto(p, "columns") /\ "columns" \in Labels
        /\ call' = [call EXCEPT ![p] = c]
        /\ UNCHANGED <<opened, reply>>
    BY <1>3 DEF VerifySucceeds, Labels
  <2>2. c \in Call /\ c.op = "read" BY NoCallTyped DEF NoCall, Call
  <2> HIDE DEF c
  <2>3. pc' \in [Procs -> Labels] /\ pc'[p] = "columns"
        /\ \A q \in Procs \ {p} : pc'[q] = pc[q]
    BY <1>1, <2>1, Went
  <2>4. TypeOK' BY <1>1, <2>1, <2>2, <2>3 DEF TypeOK, file
  <2>5. call'[p] = c /\ Others(p) BY <1>1, <2>1, <2>3 DEF TypeOK, Others
  <2>6. Fits(p)' BY <1>1, <2>1, <2>2, <2>3, <2>5 DEF Fits, Ready
  <2> QED BY <1>1, <2>4, <2>5, <2>6, FileKept DEF Sound
<1> QED BY <1>2, <1>3

(* The row append inserts. *)
LEMMA NewRowTyped ==
  ASSUME TypeOK, Chained, NEW id \in EventIds
  PROVE  /\ LastHash(events) \in Hash
         /\ NewRow(id) \in Row /\ NewRow(id).entry_hash # Blank
         /\ NewRow(id).entry_hash \in Hash
         /\ NewRow(id).id = id
<1>1. LastHash(events) \in Hash
  <2>1. CASE events = <<>> BY <2>1, EmptySeq DEF LastHash, GENESIS, Hash
  <2>2. CASE events # <<>>
    <3>1. Len(events) \in DOMAIN events /\ events[Len(events)] \in Row
      BY <2>2, EmptySeq, LenProperties, ElementOfSeq DEF TypeOK
    <3> QED BY <2>2, <3>1 DEF Row, Chained, Unchained, LastHash
  <2> QED BY <2>1, <2>2
<1>2. Len(events) \in Nat BY LenProperties DEF TypeOK
<1>3. EntryHash(Len(events), id, LastHash(events)) \in Hash
      /\ EntryHash(Len(events), id, LastHash(events)) # Blank
  BY <1>1, <1>2, HashTyped
<1> QED BY <1>1, <1>3 DEF NewRow, Row

LEMMA AppendEventSound ==
  ASSUME LogInv, NEW p \in Procs, AppendEvent(p) PROVE Sound(p)
<1> DEFINE id == call[p].id
<1>1. TypeOK /\ Fits(p) /\ pc[p] = "append" BY DEF LogInv, AppendEvent
<1>2. id \in EventIds /\ Chained BY <1>1 DEF Fits, Ready
<1>3. /\ events' = Append(events, NewRow(id))
      /\ tip' = [sequence |-> Len(events), hash |-> NewRow(id).entry_hash]
      /\ Return(p, "APPENDED", Len(events))
      /\ UNCHANGED <<columns, identity, opened>>
  BY DEF AppendEvent
<1>4. NewRow(id) \in Row /\ NewRow(id).entry_hash # Blank
      /\ NewRow(id).entry_hash \in Hash
  BY <1>1, <1>2, NewRowTyped
<1>5. /\ events' \in Seq(Row) /\ Len(events') = Len(events) + 1
      /\ \A i \in 1..Len(events) : events'[i] = events[i]
      /\ events'[Len(events) + 1] = NewRow(id)
      /\ Len(events) \in Nat
      /\ DOMAIN events = 1..Len(events) /\ DOMAIN events' = 1..Len(events')
  BY <1>1, <1>3, <1>4, Appended, LenProperties DEF TypeOK
<1>6. TypeOK' BY <1>1, <1>3, <1>4, <1>5, Returned DEF TypeOK
<1>7. Onward BY <1>3, <1>4, <1>5 DEF Onward, Written
<1> QED BY <1>1, <1>3, <1>6, <1>7, Returned, ReturnedFits DEF Sound

LEMMA CrashSound == ASSUME LogInv, NEW p \in Procs, Crash(p) PROVE Sound(p)
<1>1. TypeOK /\ UNCHANGED file BY DEF LogInv, Crash
<1>2. /\ pc' = [pc EXCEPT ![p] = "idle"]
      /\ call' = [call EXCEPT ![p] = NoCall]
      /\ reply' = [reply EXCEPT ![p] = None]
      /\ opened' \subseteq opened /\ "idle" \in Labels
  BY DEF Crash, Labels
<1>3. TypeOK' BY <1>1, <1>2, NoCallTyped DEF TypeOK, file
<1>4. pc'[p] = "idle" /\ call'[p] = NoCall /\ Others(p)
  BY <1>1, <1>2 DEF TypeOK, Others
<1> QED BY <1>1, <1>3, <1>4, ReturnedFits, FileKept DEF Sound

(* Every step of a process is sound: it fits the file, whoever else is in  *)
(* the middle of a call.                                                   *)
LEMMA StepSound ==
  ASSUME LogInv, NEW p \in Procs, Open(p) \/ Use(p) \/ Step(p) \/ Crash(p)
  PROVE  Sound(p)
<1>1. CASE Open(p) BY <1>1, BeginSound DEF Open
<1>2. CASE Use(p)
  <2>1. PICK op \in Ops : IF op \in {"append", "find"}
                          THEN \E id \in EventIds : Begin(p, op, id)
                          ELSE Begin(p, op, None)
    BY <1>2 DEF Use
  <2>2. op \in {"append", "read", "find", "identity"} BY LedgerAssumption
  <2> QED BY <2>1, <2>2, BeginSound
<1>3. CASE Step(p)
  <2>1. CASE AlterPrev(p) BY <2>1, AddColumnSound DEF AlterPrev, HashColumns
  <2>2. CASE AlterEntry(p) BY <2>2, AddColumnSound DEF AlterEntry, HashColumns
  <2>3. CASE Identify(p) \/ VerifyFails(p) \/ Fetch(p) \/ ContainsEvent(p)
             \/ RefuseDuplicate(p)
    <3>1. UNCHANGED file /\ opened' \subseteq Procs
      BY <2>3 DEF Identify, VerifyFails, Fetch, ContainsEvent, RefuseDuplicate,
                  file, LogInv, TypeOK
    <3> QED
      BY <2>3, <3>1, ReturnSound
         DEF Identify, VerifyFails, Fetch, ContainsEvent, RefuseDuplicate
  <2> QED
    BY <1>3, <2>1, <2>2, <2>3, ReadColumnsSound, CountUnchainedSound,
       ReadRowsSound, UpdateRowSound, SetTipSound, FindIdentitySound,
       InsertIdentitySound, ScanSound, VerifySucceedsSound, AppendEventSound
       DEF Step
<1>4. CASE Crash(p) BY <1>4, CrashSound
<1> QED BY <1>1, <1>2, <1>3, <1>4

LEMMA NextStep ==
  ASSUME [Next]_vars
  PROVE  UNCHANGED vars \/ \E p \in Procs : Open(p) \/ Use(p) \/ Step(p) \/ Crash(p)
BY DEF Next

LEMMA SoundKeepsLogInv ==
  ASSUME LogInv, NEW p \in Procs, Sound(p) PROVE LogInv'
<1>1. ASSUME NEW q \in Procs PROVE Fits(q)'
  BY OthersFit DEF LogInv, Sound, Others
<1> QED BY <1>1 DEF LogInv, Sound

LEMMA InitTyped == Init => LogInv
<1> SUFFICES ASSUME Init PROVE LogInv OBVIOUS
<1>1. events \in Seq(Row)
  <2>1. CASE events = <<>> BY <2>1, EmptySeq
  <2>2. ASSUME NEW ids \in Legacy, events = UnchainedRows(ids)
        PROVE  events \in Seq(Row)
    <3>1. ids \in Seq(EventIds) BY LedgerAssumption
    <3>2. Len(ids) \in Nat /\ \A i \in 1..Len(ids) : ids[i] \in EventIds
      BY <3>1, LenProperties, ElementOfSeq
    <3>3. \A i \in 1..Len(ids) :
            [id |-> ids[i], prev_hash |-> Blank, entry_hash |-> Blank] \in Row
      BY <3>2 DEF Row
    <3> QED BY <2>2, <3>2, <3>3, IsASeq DEF UnchainedRows
  <2> QED BY <2>1, <2>2 DEF Init
<1>2. TypeOK BY <1>1, NoCallTyped DEF Init, TypeOK, HashColumns, Labels
<1>3. \A p \in Procs : Fits(p) BY DEF Init, Fits, NoCall, Ready
<1> QED BY <1>2, <1>3 DEF LogInv

LEMMA LogInvariant == Spec => []LogInv
<1>1. ASSUME LogInv, [Next]_vars PROVE LogInv'
  <2>1. CASE UNCHANGED vars
    <3>1. TypeOK' BY <1>1, <2>1 DEF LogInv, TypeOK, vars
    <3>2. Onward BY <2>1 DEF vars, Onward, Written
    <3>3. \A q \in Procs : Fits(q)'
      BY <1>1, <2>1, <3>1, <3>2, OthersFit DEF LogInv, vars
    <3> QED BY <3>1, <3>3 DEF LogInv
  <2>2. ASSUME NEW p \in Procs, Open(p) \/ Use(p) \/ Step(p) \/ Crash(p)
        PROVE  LogInv'
    BY <1>1, <2>2, StepSound, SoundKeepsLogInv
  <2> QED BY <1>1, <2>1, <2>2, NextStep
<1> QED BY <1>1, InitTyped, PTL DEF Spec

(* Whatever processes use, upgrade or abandon the file, rows, anchor and     *)
(* identity are what the code writes, and append hashes a hash, never the    *)
(* blank of a row that was not chained (ledger.append).                      *)
THEOREM LedgerTyped == Spec => []TypeOK
BY LogInvariant, PTL DEF LogInv

-----------------------------------------------------------------------------
(* The ledger is an append-only log *)

LEMMA IdsOf ==
  ASSUME TypeOK
  PROVE  /\ Ids(events) \in Seq(EventIds)
         /\ Len(Ids(events)) = Len(events)
         /\ \A id : Log!InLog(id) <=> HasEvent(events, id)
<1>1. events \in Seq(Row) /\ Len(events) \in Nat /\ DOMAIN events = 1..Len(events)
  BY LenProperties DEF TypeOK
<1>2. \A i \in 1..Len(events) : events[i].id \in EventIds
  <2>1. \A i \in 1..Len(events) : events[i] \in Row BY <1>1, ElementOfSeq
  <2> QED BY <2>1 DEF Row
<1>3. Ids(events) = [i \in 1..Len(events) |-> events[i].id] BY <1>1 DEF Ids
<1>4. Ids(events) \in Seq(EventIds) /\ Len(Ids(events)) = Len(events)
      /\ DOMAIN Ids(events) = DOMAIN events
  BY <1>1, <1>2, <1>3, IsASeq, LenProperties
<1>5. \A id : Log!InLog(id) <=> HasEvent(events, id)
  BY <1>3, <1>4 DEF Log!InLog, HasEvent
<1> QED BY <1>4, <1>5

(* Statements that neither answer nor change an event or the identity.      *)
LEMMA SilentRefines ==
  ASSUME Ids(events') = Ids(events), UNCHANGED <<identity, reply>>
  PROVE  UNCHANGED Log!vars
BY DEF Log!vars

(* A failure changes nothing; an alarm reports no more rows than there are. *)
LEMMA FailRefines ==
  ASSUME LogInv, NEW p \in Procs, pc[p] # "idle",
         NEW f \in Alarms \cup {"OperationalError", "IntegrityError"},
         NEW n \in Nat, n <= Len(events),
         Return(p, f, n), UNCHANGED <<events, identity>>
  PROVE  Log!Next
<1>1. TypeOK /\ Fits(p) BY DEF LogInv
<1>2. n \in 0..Len(Ids(events)) BY <1>1, IdsOf, LenProperties DEF TypeOK
<1>3. Log!Answer(p, f, n) BY <1>1 DEF Log!Answer, Return, Fits
<1>4. Log!Fail(p) BY <1>2, <1>3 DEF Log!Fail
<1> QED BY <1>4 DEF Log!Next

LEMMA BeginRefines ==
  ASSUME NEW p \in Procs, NEW op, NEW id, Begin(p, op, id) PROVE Log!Next
<1>1. Log!Forget(p) BY DEF Begin, Log!Forget
<1> QED BY <1>1 DEF Log!Next

LEMMA CrashRefines == ASSUME NEW p \in Procs, Crash(p) PROVE Log!Next
<1>1. Log!Forget(p) BY DEF Crash, file, Log!Forget
<1> QED BY <1>1 DEF Log!Next

LEMMA AddColumnRefines ==
  ASSUME LogInv, NEW p \in Procs, NEW column, NEW next, pc[p] # "idle",
         AddColumn(p, column, next)
  PROVE  [Log!Next]_(Log!vars)
<1>1. CASE column \in columns
  <2>1. 0 <= Len(events) BY LenProperties DEF LogInv, TypeOK
  <2> QED BY <1>1, <2>1, FailRefines DEF AddColumn
<1>2. CASE column \notin columns BY <1>2, SilentRefines DEF AddColumn
<1> QED BY <1>1, <1>2

(* Chaining a row does not touch its event. *)
LEMMA UpdateRowRefines ==
  ASSUME LogInv, NEW p \in Procs, UpdateRow(p) PROVE UNCHANGED Log!vars
<1> DEFINE i == Len(call[p].hash) + 1
<1>1. PICK h, g : events' = [events EXCEPT ![i] =
                    [id |-> @.id, prev_hash |-> h, entry_hash |-> g]]
  BY DEF UpdateRow
<1>2. Ids(events') = Ids(events)
  <2>1. DOMAIN events' = DOMAIN events BY <1>1
  <2>2. \A j \in DOMAIN events : events'[j].id = events[j].id
    <3> HIDE DEF i
    <3> QED BY <1>1
  <2> QED BY <2>1, <2>2 DEF Ids
<1> QED BY <1>2, SilentRefines DEF UpdateRow

LEMMA InsertIdentityRefines ==
  ASSUME LogInv, NEW p \in Procs, InsertIdentity(p) PROVE Log!Next
<1>1. CASE identity = None
  <2>1. Log!Create(p) BY <1>1 DEF InsertIdentity, Log!Create
  <2> QED BY <2>1 DEF Log!Next
<1>2. CASE identity # None
  <2>1. 0 <= Len(events) BY LenProperties DEF LogInv, TypeOK
  <2> QED BY <1>2, <2>1, FailRefines DEF InsertIdentity
<1> QED BY <1>1, <1>2

LEMMA VerifyRefines ==
  ASSUME LogInv, NEW p \in Procs, VerifySucceeds(p) \/ VerifyFails(p)
  PROVE  [Log!Next]_(Log!vars)
<1>1. TypeOK /\ Fits(p) /\ pc[p] = "anchor" BY DEF LogInv, VerifySucceeds, VerifyFails
<1>2. CASE VerifySucceeds(p) /\ call[p].op = "open"
  <2>1. Log!Answer(p, "OPENED", None)
    BY <1>1, <1>2 DEF VerifySucceeds, Return, Fits, Log!Answer
  <2>2. Log!Open(p) BY <1>2, <2>1 DEF VerifySucceeds, file, Log!Open
  <2> QED BY <2>2 DEF Log!Next
<1>3. CASE VerifySucceeds(p) /\ call[p].op # "open"
  BY <1>3, SilentRefines DEF VerifySucceeds, file
<1>4. CASE VerifyFails(p)
  <2> DEFINE n == Len(call[p].rows)
  <2>1. n \in Nat /\ n <= Len(events)
    BY <1>1, LenProperties DEF TypeOK, Call, Fits
  <2>2. Verdict(call[p].rows, tip) \in Alarms
    BY <1>4 DEF VerifyFails, Verdict, Alarms
  <2> HIDE DEF n
  <2>3. Return(p, Verdict(call[p].rows, tip), n) /\ UNCHANGED <<events, identity>>
    BY <1>4 DEF VerifyFails, n
  <2> QED BY <1>1, <2>1, <2>2, <2>3, FailRefines
<1> QED BY <1>2, <1>3, <1>4

LEMMA AnswerRefines ==
  ASSUME LogInv, NEW p \in Procs,
         Identify(p) \/ Fetch(p) \/ ContainsEvent(p) \/ RefuseDuplicate(p)
  PROVE  Log!Next
<1>1. TypeOK /\ Fits(p) BY DEF LogInv
<1>2. CASE Identify(p)
  <2>1. Log!Identify(p)
    BY <1>1, <1>2 DEF Identify, Return, Fits, Log!Identify, Log!Answer
  <2> QED BY <2>1 DEF Log!Next
<1>3. CASE Fetch(p)
  <2>1. Log!Read(p)
    BY <1>1, <1>3 DEF Fetch, Return, Fits, Ids, Log!Read, Log!Answer
  <2> QED BY <2>1 DEF Log!Next
<1>4. CASE ContainsEvent(p) \/ RefuseDuplicate(p)
  <2> DEFINE id == call[p].id
  <2>1. id \in EventIds /\ reply[p] = None /\ (Log!InLog(id) <=> HasEvent(events, id))
    BY <1>1, <1>4, IdsOf DEF ContainsEvent, RefuseDuplicate, Fits
  <2>2. CASE ContainsEvent(p)
    <3>1. Log!InLog(id) = HasEvent(events, id) BY <2>1 DEF Log!InLog, HasEvent
    <3>2. Log!Find(p, id)
      BY <2>1, <2>2, <3>1 DEF ContainsEvent, Return, Log!Find, Log!Answer
    <3> QED BY <2>1, <3>2 DEF Log!Next
  <2>3. CASE RefuseDuplicate(p)
    <3>1. Log!Refuse(p, id)
      BY <2>1, <2>3 DEF RefuseDuplicate, Return, Log!Refuse, Log!Answer
    <3> QED BY <2>1, <3>1 DEF Log!Next
  <2> QED BY <1>4, <2>2, <2>3
<1> QED BY <1>2, <1>3, <1>4

LEMMA AppendEventRefines ==
  ASSUME LogInv, NEW p \in Procs, AppendEvent(p) PROVE Log!Next
<1> DEFINE id == call[p].id
<1>1. TypeOK /\ Fits(p) /\ pc[p] = "append" BY DEF LogInv, AppendEvent
<1>2. id \in EventIds /\ Chained /\ reply[p] = None BY <1>1 DEF Fits, Ready
<1>3. NewRow(id) \in Row /\ NewRow(id).id = id BY <1>1, <1>2, NewRowTyped
<1>4. /\ Len(events') = Len(events) + 1 /\ Len(events) \in Nat
      /\ DOMAIN events' = 1..(Len(events) + 1)
      /\ \A i \in 1..Len(events) : events'[i] = events[i]
      /\ events'[Len(events) + 1] = NewRow(id)
      /\ DOMAIN events = 1..Len(events)
  BY <1>1, <1>3, Appended, LenProperties DEF TypeOK, AppendEvent
<1>5. /\ Ids(events) \in Seq(EventIds) /\ Len(Ids(events)) = Len(events)
      /\ (Log!InLog(id) <=> HasEvent(events, id))
  BY <1>1, IdsOf
<1>6. Ids(events') = Append(Ids(events), id)
  <2>1. Append(Ids(events), id) =
          [i \in 1..(Len(events) + 1) |->
             IF i = Len(events) + 1 THEN id ELSE Ids(events)[i]]
    BY <1>5
  <2>2. \A i \in 1..Len(events) : Ids(events)[i] = events[i].id
    BY <1>4 DEF Ids
  <2>3. \A i \in 1..(Len(events) + 1) :
          events'[i].id = IF i = Len(events) + 1 THEN id ELSE Ids(events)[i]
    BY <1>3, <1>4, <2>2
  <2> QED BY <1>4, <2>1, <2>3 DEF Ids
<1>7. Log!Add(p, id)
  BY <1>2, <1>5, <1>6 DEF AppendEvent, Return, Log!Add, Log!Answer
<1> QED BY <1>2, <1>7 DEF Log!Next

(* Every call takes effect in one step, or in none, whatever runs between   *)
(* its statements: ledger.py implements the append-only log.                *)
THEOREM LedgerImplementsLog == Spec => ImplementsLog
<1>1. ASSUME Init PROVE Log!Init
  <2>1. TypeOK BY <1>1, InitTyped DEF LogInv
  <2> QED BY <1>1, <2>1, IdsOf DEF Init, Log!Init
<1>2. ASSUME LogInv, [Next]_vars PROVE [Log!Next]_(Log!vars)
  <2>1. CASE UNCHANGED vars BY <2>1, SilentRefines DEF vars
  <2>2. ASSUME NEW p \in Procs, Open(p) \/ Use(p) PROVE Log!Next
    BY <2>2, BeginRefines DEF Open, Use
  <2>3. ASSUME NEW p \in Procs, Step(p) PROVE [Log!Next]_(Log!vars)
    <3>1. CASE \/ ReadColumns(p) \/ CountUnchained(p) \/ ReadRows(p) \/ SetTip(p)
               \/ FindIdentity(p) \/ Scan(p)
      BY <3>1, SilentRefines
         DEF ReadColumns, CountUnchained, ReadRows, SetTip, FindIdentity, Scan
    <3>2. CASE AlterPrev(p) \/ AlterEntry(p)
      BY <1>2, <3>2, AddColumnRefines DEF AlterPrev, AlterEntry
    <3> QED
      BY <1>2, <2>3, <3>1, <3>2, UpdateRowRefines, InsertIdentityRefines,
         VerifyRefines, AnswerRefines, AppendEventRefines DEF Step
  <2> QED BY <1>2, <2>1, <2>2, <2>3, CrashRefines, NextStep
<1> QED BY <1>1, <1>2, LogInvariant, PTL DEF Spec, ImplementsLog, Log!Spec

-----------------------------------------------------------------------------
(* The chain *)

\* Only one process works on a file that is not chained yet.
OneUpgrader ==
  \A p, q \in Procs :
    (~Chained \/ Rebuilding) /\ ~Idle(p) /\ ~Idle(q) => p = q

\* The chained rows come first, and each continues the one before.
ChainedFirst ==
  \A i \in DOMAIN events : events[i].entry_hash # Blank =>
    /\ Linked(events, i)
    /\ \A j \in 1..i : events[j].entry_hash # Blank

\* Columns come in order, and hashes are written only after both are there.
ColumnsFirst ==
  /\ "entry_hash" \in columns => "prev_hash" \in columns
  /\ columns # HashColumns => \A i \in DOMAIN events : events[i].entry_hash = Blank

\* Where a process that chains the rows has got to.
UpgradeFits(p) ==
  /\ pc[p] = "rows" => events = <<>> \/ Unchained # {}
  /\ pc[p] = "update" =>
       /\ Unchained # {}
       /\ Len(call[p].rows) = Len(events)
       /\ \A i \in DOMAIN events : call[p].rows[i].id = events[i].id
       /\ Len(call[p].hash) > 0 =>
            call[p].hash = events[Len(call[p].hash)].entry_hash
  /\ pc[p] = "tip" => /\ Len(call[p].rows) = Len(events)
                      /\ call[p].hash = LastHash(events)
  /\ pc[p] = "anchor" =>
       \A i \in DOMAIN call[p].rows : call[p].rows[i] = events[i]

\* The anchor append and _set_tip leave for rows that are all chained.
Anchor(rows) ==
  IF rows = <<>> THEN None
  ELSE [sequence |-> Len(rows) - 1, hash |-> LastHash(rows)]

TipFits ==
  tip = IF Chained /\ ~Rebuilding THEN Anchor(events) ELSE None

\* What AlarmsOnlyDuringAppends says of one process.
Excused(p) ==
  Raised(p, Alarms) => reply[p].value \in Nat /\ reply[p].value < Len(events)

ChainInv ==
  /\ OneUpgrader /\ ChainedFirst /\ ColumnsFirst /\ TipFits
  /\ \A p \in Procs : UpgradeFits(p) /\ Excused(p)

\* One process upgrades, and does not die between the last UPDATE and the
\* anchor: without it no anchor would ever be written.
Careful == SoloUpgrade /\ "tip" \notin CrashAt

ChainLabels == {"rows", "update", "tip"}

(* Linked rows and their anchor pass verify_chain. *)
LEMMA LinkedVerifies ==
  ASSUME NEW rows \in Seq(Row), \A i \in DOMAIN rows : Linked(rows, i),
         \A i \in DOMAIN rows : rows[i].entry_hash # Blank
  PROVE  Verdict(rows, Anchor(rows)) = "OK"
<1>1. CASE rows = <<>> BY <1>1 DEF Verdict, Anchor
<1>2. CASE rows # <<>>
  <2>1. Len(rows) \in DOMAIN rows /\ rows[Len(rows)] \in Row /\ Len(rows) - 1 \in Nat
    BY <1>2, EmptySeq, LenProperties, ElementOfSeq
  <2>2. LastHash(rows) \in Hash BY <1>2, <2>1 DEF LastHash, Row
  <2>3. Anchor(rows) # None
    BY <1>2, <2>1, <2>2, LedgerAssumption DEF Anchor, Hash
  <2> QED BY <1>2, <2>3 DEF Verdict, Anchor
<1> QED BY <1>1, <1>2

LEMMA ChainedLinked ==
  ASSUME ChainedFirst, Chained
  PROVE  \A i \in DOMAIN events : Linked(events, i) /\ Written(i)
BY DEF ChainedFirst, Chained, Unchained, Written

(* Whoever works on an unchained file is alone. *)
LEMMA Alone ==
  ASSUME OneUpgrader, ~Chained \/ Rebuilding, NEW p \in Procs, ~Idle(p)
  PROVE  /\ \A q \in Procs \ {p} : pc[q] = "idle"
         /\ Rebuilding <=> pc[p] \in ChainLabels
BY DEF OneUpgrader, Idle, Rebuilding, ChainLabels

(* An alarm stays explained, for the ledger never shrinks. *)
LEMMA StillExcused ==
  ASSUME TypeOK, TypeOK', Onward, NEW q \in Procs, Excused(q), reply'[q] = reply[q]
  PROVE  Excused(q)'
<1>1. Len(events) \in Nat /\ Len(events') \in Nat /\ Len(events) <= Len(events')
  BY LenProperties DEF TypeOK, Onward
<1> QED BY <1>1 DEF Excused, Raised

(* A step of the one process at work on an unchained file. *)
LEMMA SoloStep ==
  ASSUME LogInv, ChainInv, NEW p \in Procs, ~Idle(p), ~Chained \/ Rebuilding,
         Sound(p),
         ChainedFirst', ColumnsFirst', UpgradeFits(p)', Excused(p)',
         tip' = IF Chained' /\ pc'[p] \notin ChainLabels
                THEN Anchor(events)' ELSE None
  PROVE  ChainInv'
<1>1. \A q \in Procs \ {p} : pc[q] = "idle" /\ pc'[q] = "idle"
  BY Alone DEF ChainInv, Sound, Others
<1>2. OneUpgrader' BY <1>1 DEF OneUpgrader, Idle
<1>3. Rebuilding' <=> pc'[p] \in ChainLabels
  BY <1>1 DEF Rebuilding, ChainLabels
<1>4. TipFits' BY <1>3 DEF TipFits
<1>5. ASSUME NEW q \in Procs \ {p} PROVE UpgradeFits(q)' /\ Excused(q)'
  <2>1. UpgradeFits(q)' BY <1>1 DEF UpgradeFits
  <2>2. Excused(q)' BY StillExcused DEF LogInv, ChainInv, Sound, Others
  <2> QED BY <2>1, <2>2
<1> QED BY <1>2, <1>4, <1>5 DEF ChainInv

(* A step that neither touches the file nor takes part in a rebuild. *)
LEMMA QuietStep ==
  ASSUME LogInv, ChainInv, NEW p \in Procs, Sound(p),
         UNCHANGED <<columns, events, tip>>,
         pc[p] \notin ChainLabels, pc'[p] \notin ChainLabels,
         ~Idle(p) \/ Idle(p)' \/ (Chained /\ ~Rebuilding)
           \/ \A q \in Procs : Idle(q),
         UpgradeFits(p)', Excused(p)'
  PROVE  ChainInv'
<1>1. Chained' = Chained BY DEF Chained, Unchained
<1>2. Rebuilding' <=> Rebuilding
  BY DEF Rebuilding, ChainLabels, Sound, Others
<1>3. TipFits' BY <1>1, <1>2 DEF ChainInv, TipFits
<1>4. OneUpgrader'
  BY <1>1, <1>2 DEF ChainInv, OneUpgrader, Idle, Sound, Others
<1>5. ChainedFirst' /\ ColumnsFirst' BY DEF ChainInv, ChainedFirst, ColumnsFirst
<1>6. ASSUME NEW q \in Procs \ {p} PROVE UpgradeFits(q)' /\ Excused(q)'
  <2>1. UpgradeFits(q)'
    BY DEF ChainInv, UpgradeFits, Sound, Others, Unchained
  <2>2. Excused(q)' BY StillExcused DEF LogInv, ChainInv, Sound, Others
  <2> QED BY <2>1, <2>2
<1> QED BY <1>3, <1>4, <1>5, <1>6 DEF ChainInv

(* A call that ends with another answer than an alarm, or with none. *)
LEMMA QuietReturn ==
  ASSUME LogInv, ChainInv, NEW p \in Procs, Sound(p),
         UNCHANGED <<columns, events, tip>>,
         pc[p] \notin ChainLabels, pc'[p] = "idle", ~Raised(p, Alarms)'
  PROVE  ChainInv'
<1>1. UpgradeFits(p)' BY DEF UpgradeFits
<1>2. Excused(p)' BY DEF Excused
<1> QED BY <1>1, <1>2, QuietStep DEF ChainLabels, Idle

(* A call that goes on; the answer of a call in progress is None. *)
LEMMA QuietGo ==
  ASSUME LogInv, ChainInv, NEW p \in Procs, Sound(p),
         UNCHANGED <<columns, events, tip>>,
         pc[p] \notin ChainLabels \cup {"idle"},
         pc'[p] \notin ChainLabels \cup {"idle"},
         pc'[p] = "anchor" => UpgradeFits(p)'
  PROVE  ChainInv'
<1>1. UpgradeFits(p)' BY DEF UpgradeFits, ChainLabels
<1>2. Excused(p)' BY DEF Excused, Raised, Sound, Fits
<1> QED BY <1>1, <1>2, QuietStep DEF Idle

LEMMA BeginKeepsChain ==
  ASSUME LogInv, ChainInv, Careful, NEW p \in Procs, NEW op, NEW id,
         Begin(p, op, id), Sound(p)
  PROVE  ChainInv'
<1>1. pc[p] = "idle" /\ pc'[p] = "columns" /\ reply'[p] = None
  BY DEF Begin, Idle, Goto, LogInv, TypeOK
<1>2. UpgradeFits(p)' BY <1>1 DEF UpgradeFits
<1>3. Excused(p)' BY <1>1 DEF Excused, Raised
<1> QED BY <1>1, <1>2, <1>3, QuietStep DEF ChainLabels, Begin, Careful

(* Statements that hold nothing to do with a rebuild. *)
LEMMA QuietKeepsChain ==
  ASSUME LogInv, ChainInv, NEW p \in Procs, Sound(p),
         \/ ReadColumns(p) \/ FindIdentity(p) \/ InsertIdentity(p) \/ Identify(p)
         \/ Fetch(p) \/ ContainsEvent(p) \/ RefuseDuplicate(p) \/ Scan(p)
  PROVE  ChainInv'
<1>1. TypeOK /\ Fits(p) /\ UNCHANGED <<columns, events, tip>>
  BY DEF LogInv, ReadColumns, FindIdentity, InsertIdentity, Identify, Fetch,
         ContainsEvent, RefuseDuplicate, Scan
<1>2. ASSUME NEW outcome, outcome \notin Alarms, NEW value,
             Return(p, outcome, value), pc[p] \notin ChainLabels
      PROVE  ChainInv'
  <2>1. pc'[p] = "idle" /\ reply'[p] = [outcome |-> outcome, value |-> value]
    BY <1>1, <1>2 DEF Return, Goto, TypeOK
  <2>2. ~Raised(p, Alarms)' BY <1>2, <2>1 DEF Raised
  <2> QED BY <1>1, <1>2, <2>1, <2>2, QuietReturn
<1>3. CASE ReadColumns(p)
  <2>1. pc[p] = "columns" /\ pc'[p] \in {"alter_both", "alter_entry", "count"}
    BY <1>1, <1>3 DEF ReadColumns, Goto, TypeOK
  <2> QED BY <1>1, <2>1, QuietGo DEF ChainLabels
<1>4. CASE FindIdentity(p)
  <2>1. pc[p] = "identity" /\ pc'[p] \in {"insert", Connected(p)}
    BY <1>1, <1>4 DEF FindIdentity, Goto, TypeOK
  <2> QED BY <1>1, <2>1, QuietGo, ConnectedFits DEF ChainLabels, Ready
<1>5. CASE InsertIdentity(p)
  <2>1. CASE identity = None
    <3>1. pc[p] = "insert" /\ pc'[p] = Connected(p)
      BY <1>1, <1>5, <2>1 DEF InsertIdentity, Goto, TypeOK
    <3> QED BY <1>1, <3>1, QuietGo, ConnectedFits DEF ChainLabels, Ready
  <2>2. CASE identity # None
    BY <1>2, <1>5, <2>2 DEF InsertIdentity, Alarms, ChainLabels
  <2> QED BY <2>1, <2>2
<1>6. CASE Identify(p) BY <1>2, <1>6 DEF Identify, Alarms, ChainLabels
<1>7. CASE Fetch(p) BY <1>2, <1>7 DEF Fetch, Alarms, ChainLabels
<1>8. CASE ContainsEvent(p) BY <1>2, <1>8 DEF ContainsEvent, Alarms, ChainLabels
<1>9. CASE RefuseDuplicate(p)
  BY <1>2, <1>9 DEF RefuseDuplicate, Alarms, ChainLabels
<1>10. CASE Scan(p)
  <2>1. pc[p] = "scan" /\ pc'[p] = "anchor" /\ call'[p].rows = events
    BY <1>1, <1>10 DEF Scan, Goto, TypeOK, Call
  <2>2. UpgradeFits(p)' BY <1>1, <2>1 DEF UpgradeFits
  <2> QED BY <1>1, <2>1, <2>2, QuietGo DEF ChainLabels
<1> QED BY <1>3, <1>4, <1>5, <1>6, <1>7, <1>8, <1>9, <1>10


(* An alarm is raised only when the rows it judged are not all there are.   *)
LEMMA VerifyKeepsChain ==
  ASSUME LogInv, ChainInv, NEW p \in Procs, Sound(p),
         VerifySucceeds(p) \/ VerifyFails(p)
  PROVE  ChainInv'
<1>1. /\ TypeOK /\ Fits(p) /\ UpgradeFits(p) /\ pc[p] = "anchor" /\ Chained
      /\ UNCHANGED <<columns, events, tip>>
  BY DEF LogInv, ChainInv, VerifySucceeds, VerifyFails, file, Fits, Ready
<1>2. CASE VerifySucceeds(p)
  <2>1. CASE call[p].op = "open"
    <3>1. pc'[p] = "idle" /\ reply'[p] = [outcome |-> "OPENED", value |-> None]
      BY <1>1, <1>2, <2>1 DEF VerifySucceeds, Return, Goto, TypeOK
    <3>2. ~Raised(p, Alarms)' BY <3>1 DEF Raised, Alarms
    <3> QED BY <1>1, <3>1, <3>2, QuietReturn DEF ChainLabels
  <2>2. CASE call[p].op # "open"
    <3>1. pc'[p] = "columns"
      BY <1>1, <1>2, <2>2 DEF VerifySucceeds, Goto, TypeOK
    <3> QED BY <1>1, <3>1, QuietGo DEF ChainLabels
  <2> QED BY <2>1, <2>2
<1>3. CASE VerifyFails(p)
  <2> DEFINE rows == call[p].rows
  <2>1. /\ rows \in Seq(Row) /\ events \in Seq(Row)
        /\ Len(rows) \in Nat /\ Len(events) \in Nat /\ Len(rows) <= Len(events)
        /\ DOMAIN rows = 1..Len(rows)
    BY <1>1, LenProperties DEF TypeOK, Call, Fits
  <2>2. Len(rows) < Len(events)
    <3> SUFFICES ASSUME Len(rows) = Len(events) PROVE FALSE BY <2>1
    <3>1. rows = events BY <1>1, <2>1, SeqEqual DEF UpgradeFits
    <3>2. ~Rebuilding BY <1>1 DEF ChainInv, OneUpgrader, Rebuilding, Idle
    <3>3. tip = Anchor(events) BY <1>1, <3>2 DEF ChainInv, TipFits
    <3>4. Verdict(events, tip) = "OK"
      BY <1>1, <2>1, <3>3, ChainedLinked, LinkedVerifies DEF ChainInv, Written
    <3> QED BY <1>3, <3>1, <3>4 DEF VerifyFails
  <2>3. pc'[p] = "idle" /\ reply'[p].value = Len(rows)
    BY <1>1, <1>3 DEF VerifyFails, Return, Goto, TypeOK
  <2>4. Excused(p)' BY <1>1, <2>1, <2>2, <2>3 DEF Excused
  <2>5. UpgradeFits(p)' BY <2>3 DEF UpgradeFits
  <2> QED BY <1>1, <2>3, <2>4, <2>5, QuietStep DEF ChainLabels, Idle
<1> QED BY <1>2, <1>3

(* Columns are added while no row is chained. *)
LEMMA AddColumnKeepsChain ==
  ASSUME LogInv, ChainInv, NEW p \in Procs, Sound(p),
         AlterPrev(p) \/ AlterEntry(p)
  PROVE  ChainInv'
<1> DEFINE column == IF pc[p] = "alter_both" THEN "prev_hash" ELSE "entry_hash"
           next == IF pc[p] = "alter_both" THEN "alter_entry" ELSE "rows"
<1>1. /\ TypeOK /\ Fits(p) /\ pc[p] \in {"alter_both", "alter_entry"}
      /\ AddColumn(p, column, next)
  BY DEF LogInv, AlterPrev, AlterEntry
<1>2. CASE column \in columns
  <2>1. /\ pc'[p] = "idle"
        /\ reply'[p] = [outcome |-> "OperationalError", value |-> 0]
        /\ UNCHANGED <<columns, events, tip>>
    BY <1>1, <1>2 DEF AddColumn, Return, Goto, TypeOK
  <2>2. ~Raised(p, Alarms)' BY <2>1 DEF Raised, Alarms
  <2> QED BY <1>1, <2>1, <2>2, QuietReturn DEF ChainLabels
<1>3. CASE column \notin columns
  <2>1. /\ columns' = columns \cup {column} /\ pc'[p] = next
        /\ UNCHANGED <<events, tip, reply>>
    BY <1>1, <1>3 DEF AddColumn, Goto, TypeOK
  <2>2. columns # HashColumns BY <1>3 DEF HashColumns
  <2>3. ~Chained /\ \A i \in DOMAIN events : events[i].entry_hash = Blank
    BY <2>2 DEF Chained, ChainInv, ColumnsFirst
  <2>4. ChainedFirst' /\ ColumnsFirst'
    BY <1>1, <2>1, <2>3 DEF ChainedFirst, ColumnsFirst, ChainInv, Fits
  <2>5. events # <<>> => 1 \in DOMAIN events
    <3>1. events \in Seq(Row) /\ Len(events) \in Nat /\ DOMAIN events = 1..Len(events)
      BY <1>1, LenProperties DEF TypeOK
    <3>2. events # <<>> => Len(events) # 0 BY <3>1, EmptySeq
    <3> QED BY <3>1, <3>2
  <2>6. UpgradeFits(p)' BY <2>1, <2>3, <2>5 DEF UpgradeFits, Unchained
  <2>7. reply'[p] = None BY <1>1, <2>1 DEF Fits
  <2>8. Excused(p)' BY <2>7 DEF Excused, Raised
  <2>9. tip' = None BY <2>1, <2>3 DEF ChainInv, TipFits
  <2>10. pc[p] = "alter_both" => ~Chained'
    BY <1>3, <2>1 DEF Chained, ChainInv, ColumnsFirst, HashColumns
  <2>11. ~Chained' \/ pc'[p] \in ChainLabels
    <3>1. CASE pc[p] = "alter_entry" BY <2>1, <3>1 DEF ChainLabels
    <3>2. CASE pc[p] = "alter_both" BY <2>10, <3>2
    <3> QED BY <1>1, <3>1, <3>2
  <2> QED BY <1>1, <2>3, <2>4, <2>6, <2>8, <2>9, <2>11, SoloStep DEF Idle
<1> QED BY <1>2, <1>3

LEMMA CountUnchainedKeepsChain ==
  ASSUME LogInv, ChainInv, NEW p \in Procs, Sound(p), CountUnchained(p)
  PROVE  ChainInv'
<1>1. /\ TypeOK /\ Fits(p) /\ pc[p] = "count"
      /\ pc'[p] = IF Unchained = {} THEN "identity" ELSE "rows"
      /\ UNCHANGED <<columns, events, tip, reply>>
  BY DEF LogInv, CountUnchained, Goto, TypeOK
<1>2. CASE Unchained = {} BY <1>1, <1>2, QuietGo DEF ChainLabels
<1>3. CASE Unchained # {}
  <2>1. ~Chained /\ ~Chained' BY <1>1, <1>3 DEF Chained, Unchained
  <2>2. UpgradeFits(p)' BY <1>1, <1>3 DEF UpgradeFits, Unchained
  <2>3. Excused(p)' BY <1>1 DEF Excused, Raised, Fits
  <2>4. ChainedFirst' /\ ColumnsFirst'
    BY <1>1 DEF ChainInv, ChainedFirst, ColumnsFirst
  <2>5. tip' = None BY <1>1, <2>1 DEF ChainInv, TipFits
  <2> QED BY <1>1, <2>1, <2>2, <2>3, <2>4, <2>5, SoloStep DEF Idle
<1> QED BY <1>2, <1>3

LEMMA ReadRowsKeepsChain ==
  ASSUME LogInv, ChainInv, NEW p \in Procs, Sound(p), ReadRows(p) PROVE ChainInv'
<1>1. /\ TypeOK /\ Fits(p) /\ UpgradeFits(p) /\ pc[p] = "rows" /\ Rebuilding
      /\ pc'[p] = IF events = <<>> THEN "tip" ELSE "update"
      /\ call'[p].rows = events /\ call'[p].hash = <<>>
      /\ UNCHANGED <<columns, events, tip, reply>>
  BY DEF LogInv, ChainInv, ReadRows, Goto, TypeOK, Rebuilding, Call, GENESIS
<1>2. UpgradeFits(p)'
  <2>1. Unchained' = Unchained BY <1>1 DEF Unchained
  <2>2. LastHash(events)' = LastHash(events) BY <1>1 DEF LastHash
  <2>3. Len(<<>>) = 0 BY EmptySeq
  <2>4. events = <<>> => LastHash(events) = <<>> BY DEF LastHash, GENESIS
  <2> QED BY <1>1, <2>1, <2>2, <2>3, <2>4 DEF UpgradeFits
<1>3. Excused(p)' BY <1>1 DEF Excused, Raised, Fits
<1>4. ChainedFirst' /\ ColumnsFirst'
  BY <1>1 DEF ChainInv, ChainedFirst, ColumnsFirst
<1>5. tip' = None /\ pc'[p] \in ChainLabels
  BY <1>1 DEF ChainInv, TipFits, ChainLabels
<1> QED BY <1>1, <1>2, <1>3, <1>4, <1>5, SoloStep DEF Idle

(* Writing the next row continues the chain; a row an interrupted rebuild    *)
(* had written already is written again as it was.                          *)
LEMMA UpdateRowKeepsChain ==
  ASSUME LogInv, ChainInv, NEW p \in Procs, Sound(p), UpdateRow(p)
  PROVE  ChainInv'
<1> DEFINE i == Len(call[p].hash) + 1
           hash == EntryHash(i - 1, events[i].id, call[p].hash)
           row == [id |-> events[i].id, prev_hash |-> call[p].hash,
                   entry_hash |-> hash]
           n == Len(events)
<1>1. TypeOK /\ Fits(p) /\ UpgradeFits(p) /\ pc[p] = "update" /\ Rebuilding
  BY DEF LogInv, ChainInv, UpdateRow, Rebuilding
<1>2. /\ call[p].hash \in Hash /\ events \in Seq(Row) /\ DOMAIN events = 1..n
      /\ Len(call[p].hash) \in Nat /\ n \in Nat /\ i \in 1..n
      /\ Len(call[p].rows) = n
      /\ call[p].rows[i].id = events[i].id
  <2>1. /\ call[p].hash \in Hash /\ events \in Seq(Row) /\ DOMAIN events = 1..n
        /\ Len(call[p].hash) \in Nat /\ n \in Nat
    BY <1>1, LenProperties DEF TypeOK, Call, Hash
  <2>2. i \in 1..n /\ Len(call[p].rows) = n
    BY <1>1, <2>1 DEF Fits, UpgradeFits
  <2>3. call[p].rows[i].id = events[i].id
    <3> HIDE DEF i
    <3> QED BY <1>1, <2>1, <2>2 DEF UpgradeFits
  <2> QED BY <2>1, <2>2, <2>3
<1>3. events[i] \in Row /\ events[i].id \in EventIds
  <2> HIDE DEF i
  <2>1. events[i] \in Row BY <1>2, ElementOfSeq
  <2> QED BY <2>1 DEF Row
<1>4. /\ hash \in Hash /\ hash # Blank /\ Len(hash) = i /\ row \in Row
      /\ row.id = events[i].id /\ row.prev_hash = call[p].hash
      /\ row.entry_hash = hash
  <2>1. i - 1 = Len(call[p].hash) /\ i - 1 \in Nat BY <1>2
  <2> HIDE DEF i
  <2>2. hash \in Hash /\ hash # Blank /\ Len(hash) = Len(call[p].hash) + 1
    BY <1>2, <1>3, <2>1, HashTyped
  <2> QED BY <1>2, <1>3, <2>2 DEF Row, i
<1>5. /\ events' = [events EXCEPT ![i] = row]
      /\ call'[p].rows = call[p].rows /\ call'[p].hash = hash
      /\ pc'[p] = IF i = n THEN "tip" ELSE "update"
      /\ UNCHANGED <<columns, tip, reply>>
  BY <1>1, <1>2 DEF UpdateRow, Goto, TypeOK, Call
<1>6. /\ events' \in Seq(Row) /\ Len(events') = n /\ DOMAIN events' = 1..n
      /\ events'[i] = row
      /\ \A j \in 1..n : j # i => events'[j] = events[j]
  <2> HIDE DEF row, i
  <2> QED BY <1>2, <1>4, <1>5, ExceptSeq, LenProperties
\* What is hashed next continues what is hashed already.
<1>7. call[p].hash = IF i = 1 THEN GENESIS ELSE events[i - 1].entry_hash
  <2>1. CASE i = 1 BY <1>2, <2>1, LenProperties, EmptySeq DEF GENESIS, Hash
  <2>2. CASE i # 1 BY <1>1, <1>2, <2>2 DEF UpgradeFits
  <2> QED BY <2>1, <2>2
<1>8. \A j \in 1..(i - 1) : Written(j)
  <2>1. \A j \in 1..(i - 1) : j \in Settled(p) BY <1>2 DEF Settled
  <2> QED BY <1>1, <2>1 DEF Fits
<1>9. Written(i) => events[i] = row
  <2>1. ASSUME Written(i) PROVE events[i] = row
    <3>1. Linked(events, i) BY <1>2, <2>1 DEF ChainInv, ChainedFirst, Written
    <3>2. events[i].prev_hash = call[p].hash BY <1>7, <3>1 DEF Linked
    <3>3. events[i].entry_hash = hash BY <3>1, <3>2 DEF Linked
    <3> HIDE DEF i, hash
    <3> QED BY <1>3, <3>2, <3>3 DEF Row
  <2> QED BY <2>1
<1> HIDE DEF row
<1>10. ChainedFirst'
  <2>1. CASE Written(i)
    <3>1. \A j \in 1..n : events'[j] = events[j] BY <1>6, <1>9, <2>1
    <3>2. events' = events BY <1>2, <1>6, <3>1, SeqEqual
    <3> QED BY <3>2 DEF ChainInv, ChainedFirst, Linked
  <2>2. CASE ~Written(i)
    <3> HIDE DEF i, hash
    <3>1. \A j \in 1..n : events'[j].entry_hash # Blank <=> j <= i
      <4>1. \A j \in 1..n : j > i => ~Written(j)
        BY <1>2, <2>2 DEF ChainInv, ChainedFirst, Written
      <4> QED BY <1>2, <1>4, <1>6, <1>8, <4>1 DEF Written
    <3>2. ASSUME NEW j \in 1..n, j <= i PROVE Linked(events, j)' 
      <4>1. CASE j = i
        <5>1. i # 1 => events'[i - 1] = events[i - 1] BY <1>2, <1>6
        <5>2. events'[i].prev_hash =
                IF i = 1 THEN GENESIS ELSE events'[i - 1].entry_hash
          BY <1>4, <1>6, <1>7, <5>1
        <5>3. events'[i].entry_hash
                = EntryHash(i - 1, events'[i].id, events'[i].prev_hash)
          BY <1>4, <1>6 DEF hash
        <5> QED BY <4>1, <5>2, <5>3 DEF Linked
      <4>2. CASE j # i
        <5>1. events'[j] = events[j] /\ (j # 1 => events'[j - 1] = events[j - 1])
          BY <1>2, <1>6, <3>2, <4>2
        <5>2. Written(j) BY <1>2, <1>8, <3>2, <4>2
        <5>3. Linked(events, j)
          BY <1>2, <5>2 DEF ChainInv, ChainedFirst, Written
        <5> QED BY <5>1, <5>3 DEF Linked
      <4> QED BY <4>1, <4>2
    <3> QED BY <1>2, <1>6, <3>1, <3>2 DEF ChainedFirst
  <2> QED BY <2>1, <2>2
<1>11. UpgradeFits(p)'
  <2>1. \A j \in DOMAIN events' : call'[p].rows[j].id = events'[j].id
    <3> HIDE DEF i
    <3> QED BY <1>1, <1>2, <1>4, <1>5, <1>6 DEF UpgradeFits
  <2>2. CASE i = n
    <3>1. pc'[p] = "tip" BY <1>5, <2>2
    <3>2. events' # <<>> BY <1>2, <1>6, EmptySeq
    <3>3. LastHash(events)' = hash
      <4> HIDE DEF i
      <4> QED BY <1>4, <1>6, <2>2, <3>2 DEF LastHash
    <3> QED BY <1>2, <1>5, <1>6, <3>1, <3>3 DEF UpgradeFits
  <2>3. CASE i # n
    <3>1. pc'[p] = "update" BY <1>5, <2>3
    <3>2. ~Written(n)
      <4>1. PICK k \in 1..n : ~Written(k)
        BY <1>1, <1>2 DEF UpgradeFits, Unchained, Written
      <4> QED BY <1>2, <4>1 DEF ChainInv, ChainedFirst, Written
    <3>3. n \in Unchained'
      <4> HIDE DEF i
      <4> QED BY <1>2, <1>6, <2>3, <3>2 DEF Unchained, Written
    <3>4. call'[p].hash = events'[Len(call'[p].hash)].entry_hash
      <4> HIDE DEF i, hash
      <4> QED BY <1>4, <1>5, <1>6
    <3> QED BY <1>2, <1>5, <1>6, <2>1, <3>1, <3>3, <3>4 DEF UpgradeFits
  <2> QED BY <2>2, <2>3
<1>12. ColumnsFirst' BY <1>1, <1>5 DEF Fits, ColumnsFirst, HashColumns
<1>13. Excused(p)' BY <1>1, <1>5 DEF Excused, Raised, Fits
<1>14. tip' = None /\ pc'[p] \in ChainLabels
  BY <1>1, <1>5 DEF ChainInv, TipFits, ChainLabels
<1> QED BY <1>1, <1>10, <1>11, <1>12, <1>13, <1>14, SoloStep DEF Idle

(* The anchor follows the rows when every one of them is chained. *)
LEMMA SetTipKeepsChain ==
  ASSUME LogInv, ChainInv, NEW p \in Procs, Sound(p), SetTip(p) PROVE ChainInv'
<1>1. /\ TypeOK /\ Fits(p) /\ UpgradeFits(p) /\ pc[p] = "tip" /\ Rebuilding
      /\ pc'[p] = "identity"
      /\ tip' = IF call[p].rows = <<>> THEN None
                ELSE [sequence |-> Len(call[p].rows) - 1, hash |-> call[p].hash]
      /\ UNCHANGED <<columns, events, call, reply>>
  BY DEF LogInv, ChainInv, SetTip, Goto, TypeOK, Rebuilding
<1>2. /\ Len(call[p].rows) = Len(events) /\ call[p].hash = LastHash(events)
      /\ call[p].rows \in Seq(Row) /\ events \in Seq(Row)
  BY <1>1 DEF UpgradeFits, TypeOK, Call
<1>3. call[p].rows = <<>> <=> events = <<>>
  <2>1. \A s \in Seq(Row) : s = <<>> <=> Len(s) = 0 BY EmptySeq
  <2> QED BY <1>2, <2>1
<1>4. tip' = Anchor(events)' BY <1>1, <1>2, <1>3 DEF Anchor, LastHash
<1>5. Chained' BY <1>1 DEF Fits, Chained, Unchained, Written
<1>6. ChainedFirst' /\ ColumnsFirst'
  BY <1>1 DEF ChainInv, ChainedFirst, ColumnsFirst
<1>7. UpgradeFits(p)' BY <1>1 DEF UpgradeFits
<1>8. Excused(p)' BY <1>1 DEF Excused, Raised, Fits
<1>9. pc'[p] \notin ChainLabels BY <1>1 DEF ChainLabels
<1> QED BY <1>1, <1>4, <1>5, <1>6, <1>7, <1>8, <1>9, SoloStep DEF Idle

(* An append extends a chain that is whole, and its anchor with it. *)
LEMMA AppendEventKeepsChain ==
  ASSUME LogInv, ChainInv, NEW p \in Procs, Sound(p), AppendEvent(p)
  PROVE  ChainInv'
<1> DEFINE id == call[p].id
           n == Len(events)
<1>1. TypeOK /\ Fits(p) /\ pc[p] = "append" BY DEF LogInv, AppendEvent
<1>2. id \in EventIds /\ Chained BY <1>1 DEF Fits, Ready
<1>3. ~Rebuilding BY <1>1, <1>2 DEF ChainInv, OneUpgrader, Rebuilding, Idle
<1>4. /\ events' = Append(events, NewRow(id))
      /\ tip' = [sequence |-> n, hash |-> NewRow(id).entry_hash]
      /\ pc'[p] = "idle"
      /\ reply'[p] = [outcome |-> "APPENDED", value |-> n]
      /\ UNCHANGED columns
  BY <1>1 DEF AppendEvent, Return, Goto, TypeOK
<1>5. /\ NewRow(id) \in Row /\ NewRow(id).entry_hash # Blank
      /\ NewRow(id).id = id /\ NewRow(id).prev_hash = LastHash(events)
      /\ NewRow(id).entry_hash = EntryHash(n, id, LastHash(events))
  BY <1>1, <1>2, NewRowTyped DEF NewRow
<1>6. /\ events' \in Seq(Row) /\ Len(events') = n + 1 /\ n \in Nat
      /\ events' # <<>>
      /\ \A i \in 1..n : events'[i] = events[i]
      /\ events'[n + 1] = NewRow(id)
      /\ DOMAIN events = 1..n /\ DOMAIN events' = 1..(n + 1)
      /\ (events = <<>> <=> n = 0)
  BY <1>1, <1>4, <1>5, Appended, LenProperties, EmptySeq DEF TypeOK
<1> HIDE DEF n, id
<1>7. \A i \in 1..(n + 1) : Written(i)'
  <2>1. \A i \in 1..n : Written(i)
    BY <1>2, <1>6, ChainedLinked DEF ChainInv
  <2> QED BY <1>5, <1>6, <2>1 DEF Written
<1>8. Chained' BY <1>2, <1>4, <1>6, <1>7 DEF Chained, Unchained, Written
<1>9. ASSUME NEW i \in 1..(n + 1) PROVE Linked(events, i)'
  <2>1. CASE i = n + 1
    <3>1. LastHash(events) = IF i = 1 THEN GENESIS ELSE events'[i - 1].entry_hash
      BY <1>6, <2>1 DEF LastHash, n
    <3> QED BY <1>5, <1>6, <2>1, <3>1 DEF Linked
  <2>2. CASE i # n + 1
    <3>1. Linked(events, i) BY <1>2, <1>6, <2>2, ChainedLinked DEF ChainInv
    <3>2. events'[i] = events[i] /\ (i # 1 => events'[i - 1] = events[i - 1])
      BY <1>6, <2>2
    <3> QED BY <3>1, <3>2 DEF Linked
  <2> QED BY <2>1, <2>2
<1>10. ChainedFirst' BY <1>6, <1>7, <1>9 DEF ChainedFirst, Written
<1>11. ColumnsFirst' BY <1>2, <1>4 DEF ChainInv, ColumnsFirst, Chained
<1>12. ~Rebuilding' BY <1>3, <1>4 DEF Rebuilding, Sound, Others
<1>13. tip' = Anchor(events)'
  <2>1. Anchor(events)' = [sequence |-> n, hash |-> LastHash(events)']
    BY <1>6 DEF Anchor
  <2>2. LastHash(events)' = NewRow(id).entry_hash BY <1>6 DEF LastHash
  <2> QED BY <1>4, <2>1, <2>2
<1>14. TipFits' BY <1>8, <1>12, <1>13 DEF TipFits
<1>15. OneUpgrader' BY <1>8, <1>12 DEF OneUpgrader
<1>16. UpgradeFits(p)' /\ Excused(p)'
  BY <1>4 DEF UpgradeFits, Excused, Raised, Alarms
<1>17. ASSUME NEW q \in Procs \ {p} PROVE UpgradeFits(q)' /\ Excused(q)'
  <2>1. pc'[q] \notin ChainLabels BY <1>12 DEF Rebuilding, ChainLabels
  <2>2. pc'[q] = "anchor" =>
          \A i \in DOMAIN call'[q].rows : call'[q].rows[i] = events'[i]
    <3> SUFFICES ASSUME pc'[q] = "anchor", NEW i \in DOMAIN call'[q].rows
                 PROVE  call'[q].rows[i] = events'[i]
      OBVIOUS
    <3>1. pc[q] = "anchor" /\ call'[q] = call[q] BY DEF Sound, Others
    <3>2. Len(call[q].rows) <= n BY <3>1 DEF LogInv, Fits, n
    <3>3. call[q].rows \in Seq(Row) BY <1>1 DEF TypeOK, Call
    <3>4. i \in 1..n
      <4>1. DOMAIN call[q].rows = 1..Len(call[q].rows) /\ Len(call[q].rows) \in Nat
        BY <3>3, LenProperties
      <4> QED BY <1>6, <3>1, <3>2, <4>1
    <3>5. call[q].rows[i] = events[i] BY <3>1 DEF ChainInv, UpgradeFits
    <3> QED BY <1>6, <3>1, <3>4, <3>5
  <2>3. UpgradeFits(q)' BY <2>1, <2>2 DEF UpgradeFits, ChainLabels
  <2>4. Excused(q)' BY StillExcused DEF LogInv, ChainInv, Sound, Others
  <2> QED BY <2>3, <2>4
<1> QED BY <1>10, <1>11, <1>14, <1>15, <1>16, <1>17 DEF ChainInv

(* A rebuild that is abandoned leaves a row for the next connection to find. *)
LEMMA CrashKeepsChain ==
  ASSUME LogInv, ChainInv, Careful, NEW p \in Procs, Sound(p), Crash(p)
  PROVE  ChainInv'
<1>1. /\ TypeOK /\ Fits(p) /\ UpgradeFits(p) /\ pc[p] # "tip"
      /\ pc'[p] = "idle" /\ reply'[p] = None
      /\ UNCHANGED <<columns, events, tip>>
  BY DEF LogInv, ChainInv, Careful, Crash, TypeOK, file
<1>2. UpgradeFits(p)' /\ Excused(p)' BY <1>1 DEF UpgradeFits, Excused, Raised
<1>3. CASE pc[p] \notin ChainLabels BY <1>1, <1>2, <1>3, QuietStep DEF ChainLabels, Idle
<1>4. CASE pc[p] \in ChainLabels
  <2>1. Rebuilding /\ pc[p] \in {"rows", "update"} /\ ~Idle(p)
    BY <1>1, <1>4 DEF Rebuilding, ChainLabels, Idle
  <2>2. tip' = None BY <1>1, <2>1 DEF ChainInv, TipFits
  <2>3. events = <<>> \/ ~Chained' BY <1>1, <2>1 DEF UpgradeFits, Chained, Unchained
  <2>4. events = <<>> => Anchor(events)' = None BY <1>1 DEF Anchor
  <2>5. ChainedFirst' /\ ColumnsFirst'
    BY <1>1 DEF ChainInv, ChainedFirst, ColumnsFirst
  <2> QED BY <1>2, <2>1, <2>2, <2>3, <2>4, <2>5, SoloStep
<1> QED BY <1>3, <1>4

LEMMA InitChain == Init => ChainInv
<1> SUFFICES ASSUME Init PROVE ChainInv OBVIOUS
<1>1. OneUpgrader BY DEF Init, OneUpgrader, Idle
<1>2. ~Rebuilding BY DEF Init, Rebuilding
<1>3. \A p \in Procs : UpgradeFits(p) /\ Excused(p)
  BY DEF Init, UpgradeFits, Excused, Raised
<1>4. CASE columns = HashColumns /\ events = <<>>
  BY <1>1, <1>2, <1>3, <1>4, EmptySeq
     DEF Init, ChainInv, ChainedFirst, ColumnsFirst, TipFits, Anchor, HashColumns
<1>5. ASSUME columns = {}, NEW ids \in Legacy, events = UnchainedRows(ids)
      PROVE  ChainInv
  <2>1. \A i \in DOMAIN events : events[i].entry_hash = Blank
    BY <1>5 DEF UnchainedRows
  <2>2. ~Chained BY <1>5 DEF Chained, HashColumns
  <2> QED BY <1>1, <1>2, <1>3, <1>5, <2>1, <2>2
          DEF Init, ChainInv, ChainedFirst, ColumnsFirst, TipFits
<1> QED BY <1>4, <1>5 DEF Init

LEMMA ChainInvariant == ASSUME Careful PROVE Spec => []ChainInv
<1>1. ASSUME LogInv, ChainInv, [Next]_vars PROVE ChainInv'
  <2>1. CASE UNCHANGED vars
    BY <1>1, <2>1
       DEF vars, ChainInv, OneUpgrader, ChainedFirst, ColumnsFirst, TipFits,
           UpgradeFits, Excused, Raised, Chained, Unchained, Rebuilding, Idle,
           Linked, LastHash, Anchor
  <2>2. ASSUME NEW p \in Procs, Open(p) \/ Use(p) \/ Step(p) \/ Crash(p)
        PROVE  ChainInv'
    <3>1. Sound(p) BY <1>1, <2>2, StepSound
    <3>2. CASE Open(p) \/ Use(p)
      BY <1>1, <3>1, <3>2, BeginKeepsChain DEF Open, Use
    <3>3. CASE Crash(p) BY <1>1, <3>1, <3>3, CrashKeepsChain
    <3>4. CASE Step(p)
      BY <1>1, <3>1, <3>4, QuietKeepsChain, VerifyKeepsChain, AddColumnKeepsChain,
         CountUnchainedKeepsChain, ReadRowsKeepsChain, UpdateRowKeepsChain,
         SetTipKeepsChain, AppendEventKeepsChain DEF Step
    <3> QED BY <2>2, <3>2, <3>3, <3>4
  <2> QED BY <1>1, <2>1, <2>2, NextStep
<1> QED BY <1>1, InitChain, LogInvariant, PTL DEF Spec

(* With one process at a time upgrading an old file, and not dying between   *)
(* its last UPDATE and the anchor, verify_chain accepts a chained file at    *)
(* every moment (ledger.append, ledger._rebuild_chain).                      *)
THEOREM ChainStaysIntact == ASSUME Careful PROVE Spec => []ChainIntact
<1>1. ASSUME LogInv, ChainInv, Chained, ~Rebuilding PROVE Verdict(events, tip) = "OK"
  <2>1. tip = Anchor(events) BY <1>1 DEF ChainInv, TipFits
  <2>2. \A i \in DOMAIN events : Linked(events, i) /\ events[i].entry_hash # Blank
    BY <1>1, ChainedLinked DEF ChainInv, Written
  <2> QED BY <1>1, <2>1, <2>2, LinkedVerifies DEF LogInv, TypeOK
<1>2. LogInv /\ ChainInv => ChainIntact BY <1>1 DEF ChainIntact
<1> QED BY <1>2, LogInvariant, ChainInvariant, PTL

(* Under the same conditions an alarm is raised only where an append came    *)
(* between verify_chain's reading of the rows and of the anchor.             *)
THEOREM AlarmsNeedAppends ==
  ASSUME Careful PROVE Spec => []AlarmsOnlyDuringAppends
<1>1. ChainInv => AlarmsOnlyDuringAppends
  BY DEF ChainInv, Excused, AlarmsOnlyDuringAppends
<1> QED BY <1>1, ChainInvariant, PTL

=============================================================================
