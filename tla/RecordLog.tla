----------------------------- MODULE RecordLog -----------------------------
(***************************************************************************)
(* What a write-ahead log segment promises, without pages or fragments:    *)
(* records are appended, the writer stops, possibly with the last records  *)
(* cut off, and a reader is given the records that are still complete, in  *)
(* order and unaltered.  The first `sound` records are beyond the reach of *)
(* any damage to the file.                                                 *)
(***************************************************************************)
EXTENDS Naturals, Sequences

VARIABLES
    mode,      \* "writing", "reading" or "done"
    logged,    \* the records that are complete in the file
    returned,  \* the records given to the reader
    sound,     \* how many of the logged records no damage can reach
    damaged    \* the file holds something that no writer meant

Init ==
    /\ mode = "writing"
    /\ logged = <<>> /\ returned = <<>>
    /\ sound = 0
    /\ damaged = FALSE

\* Append one record, whatever it is.
Log ==
    /\ mode = "writing"
    /\ mode' = "writing"
    /\ Len(logged') = Len(logged) + 1
    /\ SubSeq(logged', 1, Len(logged)) = logged
    /\ UNCHANGED <<returned, sound, damaged>>

\* The writer stops; the file keeps some first part of what was logged.
Stop ==
    /\ mode = "writing"
    /\ mode' = "reading"
    /\ \E n \in 0..Len(logged) : logged' = SubSeq(logged, 1, n)
    /\ damaged' \in BOOLEAN
    /\ sound' \in 0..Len(logged')
    /\ damaged' \/ sound' = Len(logged')
    /\ UNCHANGED returned

\* Give the next record to the reader.
Return ==
    /\ mode = "reading"
    /\ Len(returned) < Len(logged)
    /\ returned' = Append(returned, logged[Len(returned) + 1])
    /\ UNCHANGED <<mode, logged, sound, damaged>>

\* Behind the sound records a damaged file may hold anything.
Garble ==
    /\ mode = "reading"
    /\ damaged
    /\ Len(returned) >= sound
    /\ Len(returned') = Len(returned) + 1
    /\ SubSeq(returned', 1, Len(returned)) = returned
    /\ UNCHANGED <<mode, logged, sound, damaged>>

\* The reader stops, with or without an error, but not before the sound
\* records have been returned.
Finish ==
    /\ mode = "reading"
    /\ Len(returned) >= sound
    /\ mode' = "done"
    /\ UNCHANGED <<logged, returned, sound, damaged>>

vars == <<mode, logged, returned, sound, damaged>>

Next == Log \/ Stop \/ Return \/ Garble \/ Finish

Spec == Init /\ [][Next]_vars
=============================================================================
