------------------------------ MODULE Journal ------------------------------
(***************************************************************************)
(* The event journal of a session (adapters/session_persistence.py): its   *)
(* lines, oldest first, each by its length in bytes.                       *)
(***************************************************************************)
EXTENDS Naturals, SequencesExt

CONSTANTS
    MaxBytes,       \* session_journal.max_bytes
    Lengths         \* how long the lines of events are, with their newlines

VARIABLE journal

Init == journal = <<>>

Bytes(lines) == FoldLeft(LAMBDA n, length : n + length, 0, lines)

\* existing[-budget:] cuts at a byte; existing[-0:] is all there is.
CutAt(budget) == IF budget = 0 THEN 0 ELSE Bytes(journal) - budget

\* The lines that start after the first newline from the cut on
LinesAfter(cut) ==
    LET begun == Cardinality({k \in DOMAIN journal : Bytes(SubSeq(journal, 1, k - 1)) <= cut})
    IN  SubSeq(journal, begun + 1, Len(journal))

\* append_session_event_journal: a line makes room for itself by dropping the
\* oldest ones; a line that is too long, or cannot be written, is left out.
AppendLine(length) ==
    LET budget == MaxBytes - length IN
    /\ length <= MaxBytes
    /\ journal' = Append(IF Bytes(journal) > budget THEN LinesAfter(CutAt(budget)) ELSE journal,
                         length)

Next == \E length \in Lengths : AppendLine(length)

Spec == Init /\ [][Next]_journal

----------------------------------------------------------------------------
\* "Append a redacted journal event while enforcing a max-size bound."
\* (append_session_event_journal)
JournalBounded == Bytes(journal) <= MaxBytes

=============================================================================
