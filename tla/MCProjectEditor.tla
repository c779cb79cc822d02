--------------------------- MODULE MCProjectEditor ---------------------------
EXTENDS EditorProperties, TLC
CONSTANTS here, there
MCWindows == {here, there}
MCSpaceOf == here :> "a" @@ there :> "b"
MCHoldsOf == here :> Objects @@ there :> {}
MCBudgets == {[edits |-> 3, others |-> 0, saves |-> 2, moves |-> 0, faults |-> 0],
              [edits |-> 2, others |-> 2, saves |-> 1, moves |-> 0, faults |-> 0],
              [edits |-> 1, others |-> 1, saves |-> 1, moves |-> 1, faults |-> 1],
              [edits |-> 2, others |-> 0, saves |-> 1, moves |-> 0, faults |-> 1]}
=============================================================================
