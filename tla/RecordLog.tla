----------------------------- MODULE RecordLog -----------------------------
(***************************************************************************)
(* What anchoring a records file promises, without the chain, the crashes  *)
(* or the index: each record is appended to the stream's log once, in the  *)
(* order of the file.                                                      *)
(***************************************************************************)
EXTENDS Integers, Sequences

VARIABLES File, \* the records to anchor
          log   \* the records anchored so far

Init == log = <<>>

AppendNext ==
  /\ Len(log) < Len(File)
  /\ log' = Append(log, File[Len(log) + 1])
  /\ File' = File

Spec == Init /\ [][AppendNext]_<<log, File>>

FairSpec == Spec /\ WF_<<log, File>>(AppendNext)
=============================================================================
