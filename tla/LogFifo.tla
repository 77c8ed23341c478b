------------------------------ MODULE LogFifo ------------------------------
(***************************************************************************)
(* What the log server promises its callers: a reliable FIFO channel from  *)
(* the threads that call addLog to the writer.  `queued` is the history of *)
(* the records handed over, `consumed` the history of the records the      *)
(* writer has finished with; the writer takes them one at a time, in the   *)
(* order of the hand-over, none twice and none skipped.                    *)
(***************************************************************************)
EXTENDS Naturals, Sequences

CONSTANT Records     \* the log records

VARIABLES queued, consumed

vars == <<queued, consumed>>

TypeOK == queued \in Seq(Records) /\ consumed \in Seq(Records)

Init == queued = <<>> /\ consumed = <<>>

\* A caller hands a record over.
Put(r) ==
    /\ queued' = Append(queued, r)
    /\ UNCHANGED consumed

\* The writer finishes with the oldest record it has not finished with.
Take ==
    /\ Len(consumed) < Len(queued)
    /\ consumed' = Append(consumed, queued[Len(consumed) + 1])
    /\ UNCHANGED queued

Next == (\E r \in Records : Put(r)) \/ Take

Spec == Init /\ [][Next]_vars
=============================================================================
