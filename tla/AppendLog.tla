------------------------------ MODULE AppendLog ------------------------------
(***************************************************************************)
(* What a journal promises: a log that only grows, one record at a time,   *)
(* and a writer that is told a record is retained can rely on everything   *)
(* up to that record for ever.                                             *)
(***************************************************************************)
EXTENDS Naturals, Sequences

CONSTANT LogRecords

VARIABLES
  log,          \* the records retained so far
  promised      \* the logs some writer was told are retained

logVars == <<log, promised>>

LogInit == log = <<>> /\ promised = {}

Extends(new) == new = log \/ \E r \in LogRecords : new = Append(log, r)

(* A prefix of the log is a log it once was. *)
Promises(new) ==
  \/ promised' = promised
  \/ \E n \in 0..Len(new) :
       promised' = promised \cup {SubSeq(new, 1, n)}

LogNext == Extends(log') /\ Promises(log')

LogSpec == LogInit /\ [][LogNext]_logVars
=============================================================================
