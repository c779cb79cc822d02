---------------------------- MODULE NestedScopes ----------------------------
(***************************************************************************)
(* What a gameplay transaction promises (gameplay, tx.rs and session.rs):  *)
(* a scope keeps a copy of everything when it begins.  While a scope is    *)
(* open anything may change; a scope that is kept leaves the changes, one  *)
(* that is undone puts its copy back, reports included.  When the          *)
(* outermost scope is kept its reports are handed over.  Outside every     *)
(* scope only another playthrough replaces the current one.                *)
(***************************************************************************)
EXTENDS Sequences, Naturals

VARIABLES
    now,            \* the state of the playthrough
    reports,        \* what the open scopes reported
    copies,         \* one for each open scope, innermost last
    playthrough     \* which one is played

scopesVars == <<now, reports, copies, playthrough>>

Copy == [now |-> now, reports |-> reports]
Innermost == copies[Len(copies)]
Left == SubSeq(copies, 1, Len(copies) - 1)

ScopesInit == copies = <<>>

Enter == copies' = Append(copies, Copy) /\ UNCHANGED <<now, reports, playthrough>>

Work == copies # <<>> /\ UNCHANGED <<copies, playthrough>>

Keep ==
    /\ copies # <<>> /\ copies' = Left
    /\ Len(copies) = 1 \/ UNCHANGED reports
    /\ UNCHANGED <<now, playthrough>>

Undo ==
    /\ copies # <<>> /\ copies' = Left
    /\ Copy' = Innermost
    /\ UNCHANGED playthrough

Replace == copies' = <<>> /\ playthrough' # playthrough

ScopesNext == Enter \/ Work \/ Keep \/ Undo \/ Replace

ScopesSpec == ScopesInit /\ [][ScopesNext]_scopesVars

=============================================================================
