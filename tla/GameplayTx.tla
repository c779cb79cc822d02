----------------------------- MODULE GameplayTx -----------------------------
(***************************************************************************)
(* One command's view of a playthrough (gameplay, tx.rs): a scope does not *)
(* copy the state, it remembers each record as it was before it first      *)
(* touched it, and puts those back.                                        *)
(*                                                                         *)
(* The record maps of the state, and the values kept whole (the party, the *)
(* floor, the timed actors, the queued work), are one function of          *)
(* `Records`; the clock and the random streams are `scalars`.              *)
(***************************************************************************)
EXTENDS Naturals, Sequences, FiniteSets

CONSTANTS
    Records,
    Values,
    None,           \* a record that is not there
    Scalars,
    Signals,        \* what a scope announces
    Events          \* what a scope reports

VARIABLES
    state,
    scalars,
    events,
    scopes,         \* the Before of each open scope and its mark, innermost last
    copies,         \* history: what there was when each scope began
    playthrough     \* history: which playthrough this is

txVars == <<state, scalars, events, scopes, copies, playthrough>>

Content == Values \cup {None}
NoRecords == [k \in {} |-> None]

Open == scopes # <<>>
Top == Len(scopes)
Inner == scopes[Top]
Outer == SubSeq(scopes, 1, Top - 1)
WithInner(scope) == [scopes EXCEPT ![Top] = scope]

\* What the open scopes announced and reported.
Announced == UNION {scopes[i].signals : i \in 1 .. Top}
Reports == [events |-> events, signals |-> Announced]

Now == [state |-> state, scalars |-> scalars]

TxInit ==
    /\ state \in [Records -> Content]
    /\ scalars \in Scalars
    /\ events = <<>>
    /\ scopes = <<>>
    /\ copies = <<>>
    /\ playthrough = 0

-----------------------------------------------------------------------------
(* Scopes.                                                                 *)

Fresh == [before |-> NoRecords, scalars |-> scalars, signals |-> {}, mark |-> Len(events)]

\* begin, and savepoint for a nested scope.
EnterScope ==
    /\ scopes' = Append(scopes, Fresh)
    /\ copies' = Append(copies, [now |-> Now, reports |-> Reports])
    /\ UNCHANGED <<state, scalars, events, playthrough>>

\* Mutant of Merged: the latest value wins.
MergedLatest(inner, outer) ==
    [outer EXCEPT
        !.before = [k \in DOMAIN inner.before \cup DOMAIN outer.before |->
                      IF k \in DOMAIN inner.before THEN inner.before[k] ELSE outer.before[k]],
        !.signals = @ \cup inner.signals]

\* merge_into: the earliest value wins.
Merged(inner, outer) ==
    [outer EXCEPT
        !.before = [k \in DOMAIN inner.before \cup DOMAIN outer.before |->
                      IF k \in DOMAIN outer.before THEN outer.before[k] ELSE inner.before[k]],
        !.signals = @ \cup inner.signals]

\* release; the outermost scope is dropped and its events handed over.
KeepScope ==
    /\ Open
    /\ scopes' = IF Top = 1 THEN <<>>
                 ELSE [Outer EXCEPT ![Top - 1] = Merged(Inner, @)]
    /\ events' = IF Top = 1 THEN <<>> ELSE events
    /\ copies' = SubSeq(copies, 1, Top - 1)
    /\ UNCHANGED <<state, scalars, playthrough>>

\* restore
RestoredState == [k \in Records |-> IF k \in DOMAIN Inner.before THEN Inner.before[k]
                                    ELSE state[k]]

\* rollback_to with the truncated events, or rollback.
UndoScope ==
    /\ Open
    /\ state' = RestoredState
    /\ scalars' = Inner.scalars
    /\ events' = SubSeq(events, 1, Inner.mark)
    /\ scopes' = Outer
    /\ copies' = SubSeq(copies, 1, Top - 1)
    /\ UNCHANGED playthrough

-----------------------------------------------------------------------------
(* Work in the innermost scope.                                            *)

\* touch_*: only the first touch counts.  Signals are kept with the scope.
Touched(records, signals) ==
    [Inner EXCEPT
        !.before = [k \in records \cup DOMAIN @ |-> IF k \in DOMAIN @ THEN @[k] ELSE state[k]],
        !.signals = @ \cup signals]

\* Writes records through their accessors, which touch them first.
Put(written) ==
    [k \in Records |-> IF k \in DOMAIN written THEN written[k] ELSE state[k]]

Work(written, clock, signals, reported) ==
    /\ Open
    /\ state' = Put(written)
    /\ scalars' = clock
    /\ scopes' = WithInner(Touched(DOMAIN written, signals))
    /\ events' = events \o reported
    /\ UNCHANGED <<copies, playthrough>>

\* Another playthrough is started or loaded in place of this one.
Resume(records, clock) ==
    /\ state' = records
    /\ scalars' = clock
    /\ events' = <<>>
    /\ scopes' = <<>>
    /\ copies' = <<>>
    /\ playthrough' = playthrough + 1

TxNext ==
    \/ EnterScope \/ KeepScope \/ UndoScope
    \/ \E records \in [Records -> Content], clock \in Scalars : Resume(records, clock)
    \/ \E records \in SUBSET Records, clock \in Scalars,
          signals \in SUBSET Signals, reported \in Seq(Events) :
          \E written \in [records -> Content] : Work(written, clock, signals, reported)

TxSpec == TxInit /\ [][TxNext]_txVars

\* A transaction refines one that copies everything.
Scopes == INSTANCE NestedScopes WITH now <- Now, reports <- Reports
ScopesAreSnapshots == Scopes!ScopesSpec

=============================================================================
