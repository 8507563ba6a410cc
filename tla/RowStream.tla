------------------------------ MODULE RowStream ------------------------------
(***************************************************************************)
(* What the library promises an application that keeps a checkpoint: the   *)
(* rows of the log arrive one by one, in the order of the log, none lost   *)
(* and none twice, and after a restart they go on with the row after the   *)
(* last one the application committed.                                     *)
(*                                                                         *)
(* Every hand-over counts in handed, so to hand over the row already named *)
(* by last is a step of its own, which Deliver does not allow: last moves  *)
(* on to the next row with every one, and only with one.                   *)
(***************************************************************************)
EXTENDS BinlogLog

VARIABLES
    log,        \* the binary log
    last,       \* the last row handed to the application
    committed,  \* the last row whose checkpoint the application saved
    handed      \* how many rows this session has handed over

stream == <<log, last, committed, handed>>

Init == committed = last /\ handed = 0

Deliver ==
    /\ IsNextRow(log, last, last')
    /\ handed' = handed + 1
    /\ UNCHANGED <<log, committed>>

Commit == committed' = last /\ UNCHANGED <<log, last, handed>>

\* A new session starts behind the committed row, with nothing handed over.
Resume ==
    /\ last' = committed /\ handed' = 0
    /\ UNCHANGED <<log, committed>>

Next == Deliver \/ Commit \/ Resume

Spec == Init /\ [][Next]_stream
=============================================================================
