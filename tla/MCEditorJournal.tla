--------------------------- MODULE MCEditorJournal ---------------------------
EXTENDS JournalProperties, TLC
CONSTANTS here
MCWindows == {here}
MCSpaceOf == here :> "a"
MCHoldsOf == here :> Objects
MCBudgets == {[edits |-> 2, others |-> 0, saves |-> 2, moves |-> 0, faults |-> 0],
              [edits |-> 1, others |-> 1, saves |-> 2, moves |-> 0, faults |-> 0],
              [edits |-> 1, others |-> 2, saves |-> 1, moves |-> 0, faults |-> 0]}
MCOneEdit == {[edits |-> 1, others |-> 0, saves |-> 0, moves |-> 0, faults |-> 0]}
=============================================================================
