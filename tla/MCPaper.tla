------------------------------- MODULE MCPaper -------------------------------
(***************************************************************************)
(* Small instances of the paper engine for TLC.                            *)
(***************************************************************************)
EXTENDS PaperProperties

\* Every market of four observations over a few prices.
ShortPaths == [1..4 -> {2, 3, 5}]

RisingPath == {<<2, 3, 5>>}

\* Limits each of which some path reaches.
TightLimits == [position |-> 5, order |-> 4, loss |-> 2, drawdown |-> 2, leverage |-> 1]

\* What promote may find: everything in place for each target, or tests red.
Environments3 ==
  {[tests |-> TRUE, credentials |-> FALSE, adapter |-> FALSE, attested |-> FALSE],
   [tests |-> TRUE, credentials |-> TRUE, adapter |-> TRUE, attested |-> TRUE],
   [tests |-> FALSE, credentials |-> FALSE, adapter |-> FALSE, attested |-> TRUE]}

Anywhere == {"bar", "evaluate", "lookup", "risk", "decide", "act", "save_book",
             "save_session", "order"}

=============================================================================
