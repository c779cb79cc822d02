---------------------------- MODULE ObjectEditing ----------------------------
(***************************************************************************)
(* The editor's working set of placed objects and its history              *)
(* (app_editor, editing/objects.rs and editing/history.rs, the gizmo of    *)
(* workspaces/world/gizmo.rs): what every command does to them, whoever    *)
(* calls it.  ProjectEditor says who may.                                  *)
(*                                                                         *)
(* A record is its placement and its source revision.                      *)
(* Presentations and the history's limit in bytes are left out.            *)
(***************************************************************************)
EXTENDS Naturals, Sequences, FiniteSets, Functions

CONSTANTS
    None,
    Existing,       \* stable ids of the objects the project starts with
    Fresh,          \* ids the editor may draw for the objects it creates
    MAX_OBJECT_WRITES_PER_TRANSACTION,
    MAX_HISTORY_ENTRIES,
    Placements      \* where the user puts objects

Objects == Existing \cup Fresh

ASSUME EditingAssumption ==
    /\ Objects \subseteq Nat
    /\ Existing \cap Fresh = {}
    /\ Placements \subseteq Nat
    /\ MAX_OBJECT_WRITES_PER_TRANSACTION \in Nat \ {0}
    /\ MAX_HISTORY_ENTRIES \in Nat \ {0}

Row == [value : Nat, rev : Nat]
MayRow == Row \cup {None}

\* EditorSaveState, and an ObjectEditEntry.
SaveState == [kind : {"Idle", "Saving", "Saved", "Conflict", "Failed"}, actual : MayRow]
Entry == [base : MayRow, current : MayRow, runtime : MayRow, save : SaveState]
ActiveSave == [id : Nat, objects : SUBSET Objects]

\* Functions of some of the objects.
Some(S) == UNION {[objects -> S] : objects \in SUBSET Objects}

\* What becomes of a save, and the answer the working set hears.
ObjectSaveOutcome == [kind : {"Committed"}, rows : Some(MayRow)]
                       \cup [kind : {"Conflict"}, object : Objects, actual : MayRow]
                       \cup [kind : {"Failed"}]
SaveAnswer == [id : Nat, outcome : ObjectSaveOutcome]

ASSUME NoneIsNoRow ==
    /\ None \notin Nat /\ None \notin Row /\ None \notin Entry
    /\ None \notin ActiveSave /\ None \notin SaveAnswer
    /\ \A objects \in SUBSET Objects : None \notin [objects -> Nat]

VARIABLES
    entries,        \* the entry of each tracked object
    active_save,    \* the transaction the entries wait for, if any
    undo, redo,
    drag,           \* the placements before the gizmo drag under way, if any
    dropped,        \* history: a drag was lost away from where it began, since
                    \* undo and redo were last emptied
    edits,          \* changes the user made so far
    drawn,          \* ids drawn so far
    revised         \* edit_revision moved on since the journal last read it

editingVars == <<entries, active_save, undo, redo, drag, dropped, edits, drawn, revised>>

Idle == [kind |-> "Idle", actual |-> None]
Now(kind) == [kind |-> kind, actual |-> None]

Tracked == {o \in Objects : entries[o] # None}
Dirty(e) == e.current # e.base
DirtyObjects == {o \in Tracked : Dirty(entries[o])}
InConflict(o) == o \in Tracked /\ entries[o].save.kind = "Conflict"
AnyConflict == \E o \in Tracked : InConflict(o)
Saving == active_save # None
Present(o) == o \in Tracked /\ entries[o].current # None

\* can_edit, and what every command checks of each object it changes.
CanEdit(o) == ~Saving /\ Present(o) /\ ~InConflict(o)

EditingInit ==
    /\ entries = [o \in Objects |-> None]
    /\ active_save = None
    /\ undo = <<>> /\ redo = <<>>
    /\ drag = None /\ dropped = FALSE
    /\ edits = 0
    /\ drawn = {}
    /\ revised = TRUE

-----------------------------------------------------------------------------
(* Rows read from the project.                                             *)

FromSource(row) == [base |-> row, current |-> row, runtime |-> row, save |-> Idle]
FromCreated(row) == [base |-> None, current |-> row, runtime |-> None, save |-> Idle]

\* Mutant of Adopts: a newer row replaces what is being edited.
AdoptsOverEdits(e, row) == e.save.kind # "Saving" /\ (e.base = None \/ row.rev > e.base.rev)

Adopts(e, row) ==
    /\ ~Dirty(e) /\ e.save.kind # "Saving"
    /\ e.base = None \/ row.rev > e.base.rev

Pinned(e, row) ==
    IF e = None THEN FromSource(row)
    ELSE IF Adopts(e, row)
         THEN [e EXCEPT !.base = row, !.current = row, !.save = Idle]
         ELSE e

\* pin, for each of these rows.
Pin(rows) ==
    /\ entries' = [o \in Objects |-> IF o \in DOMAIN rows THEN Pinned(entries[o], rows[o])
                                     ELSE entries[o]]
    /\ revised' = (revised \/ entries' # entries)
    /\ UNCHANGED <<active_save, undo, redo, drag, dropped, edits, drawn>>

-----------------------------------------------------------------------------
(* Changes to several objects at once: all of them or none.                *)

Changed(changes) == [o \in Objects |-> IF o \in DOMAIN changes
                        THEN [entries[o] EXCEPT !.current = changes[o], !.save = Idle]
                        ELSE entries[o]]

Moved(places) == Changed([o \in DOMAIN places |->
                             [entries[o].current EXCEPT !.value = places[o]]])
At(places) == \A o \in DOMAIN places : Present(o) /\ entries[o].current.value = places[o]
MayMove(places) ==
    /\ DOMAIN places # {} /\ \A o \in DOMAIN places : CanEdit(o)
    /\ ~At(places)

Deleted(objects) == Changed([o \in objects |-> None])
MayDelete(objects) == objects # {} /\ \A o \in objects : CanEdit(o)

Restored(records) == Changed(records)
MayRestore(records) ==
    /\ ~Saving /\ DOMAIN records # {}
    /\ \A o \in DOMAIN records : o \in Tracked /\ ~Present(o) /\ ~InConflict(o)

Places(objects) == [o \in objects |-> entries[o].current.value]
Records(objects) == [o \in objects |-> entries[o].current]

-----------------------------------------------------------------------------
(* Commands and their history.                                             *)

Record(command) ==
    /\ undo' = Append(IF Len(undo) >= MAX_HISTORY_ENTRIES THEN Tail(undo) ELSE undo, command)
    /\ redo' = <<>>

ClearHistory == undo' = <<>> /\ redo' = <<>> /\ dropped' = FALSE

Create(o, place) ==
    /\ ~Saving /\ o \in Fresh \ drawn
    /\ edits' = edits + 1
    /\ drawn' = drawn \cup {o}
    /\ LET row == [value |-> place, rev |-> 0]
       IN  /\ entries' = [entries EXCEPT ![o] = FromCreated(row)]
           /\ Record([kind |-> "Create", records |-> [p \in {o} |-> row]])
    /\ revised' = TRUE
    /\ UNCHANGED <<active_save, drag, dropped>>

AllAt(objects, place) == [o \in objects |-> place]

\* apply_transforms
Transform(objects, place) ==
    /\ edits' = edits + 1 /\ MayMove(AllAt(objects, place))
    /\ entries' = Moved(AllAt(objects, place))
    /\ Record([kind |-> "Transform", before |-> Places(objects), after |-> AllAt(objects, place)])
    /\ revised' = TRUE
    /\ UNCHANGED <<active_save, drag, dropped, drawn>>

\* delete_many
Delete(objects) ==
    /\ MayDelete(objects)
    /\ edits' = edits + 1
    /\ entries' = Deleted(objects)
    /\ Record([kind |-> "Delete", records |-> Records(objects)])
    /\ revised' = TRUE
    /\ UNCHANGED <<active_save, drag, dropped, drawn>>

\* While the pointer drags, every frame's preview is the placement; where the
\* drag began is kept for the one command recorded when it ends.
DragMove(objects, place) ==
    /\ edits' = edits + 1 /\ MayMove(AllAt(objects, place))
    /\ drag # None => objects = DOMAIN drag
    /\ drag' = IF drag = None THEN Places(objects) ELSE drag
    /\ entries' = Moved(AllAt(objects, place))
    /\ revised' = TRUE
    /\ UNCHANGED <<active_save, undo, redo, dropped, drawn>>

DragEnd ==
    /\ drag # None
    /\ IF \A o \in DOMAIN drag : Present(o)
       THEN LET changed == {o \in DOMAIN drag : entries[o].current.value # drag[o]}
            IN  IF changed = {} THEN UNCHANGED <<undo, redo>>
                ELSE Record([kind |-> "Transform", before |-> Restrict(drag, changed),
                             after |-> Places(changed)])
       ELSE UNCHANGED <<undo, redo>>
    /\ drag' = None
    /\ UNCHANGED <<entries, active_save, dropped, edits, drawn, revised>>

\* The dragged object's proxy goes away (out of reach, past the limit of
\* proxies, with the workspace), or its selection: the drag is forgotten and
\* its last preview stays.
DragLost ==
    /\ drag # None /\ drag' = None
    /\ dropped' = (dropped \/ ~At(drag))
    /\ UNCHANGED <<entries, active_save, undo, redo, edits, drawn, revised>>

\* A command that is refused stays where it was.
MayRevert(c) == CASE c.kind = "Create" -> MayDelete(DOMAIN c.records)
                  [] c.kind = "Transform" -> MayMove(c.before)
                  [] c.kind = "Delete" -> MayRestore(c.records)
Reverted(c) == CASE c.kind = "Create" -> Deleted(DOMAIN c.records)
                 [] c.kind = "Transform" -> Moved(c.before)
                 [] c.kind = "Delete" -> Restored(c.records)
MayApply(c) == CASE c.kind = "Create" -> MayRestore(c.records)
                 [] c.kind = "Transform" -> MayMove(c.after)
                 [] c.kind = "Delete" -> MayDelete(DOMAIN c.records)
Applied(c) == CASE c.kind = "Create" -> Restored(c.records)
                [] c.kind = "Transform" -> Moved(c.after)
                [] c.kind = "Delete" -> Deleted(DOMAIN c.records)

Latest(stack) == stack[Len(stack)]
Popped(stack) == SubSeq(stack, 1, Len(stack) - 1)

Undo ==
    /\ undo # <<>> /\ MayRevert(Latest(undo))
    /\ edits' = edits + 1
    /\ entries' = Reverted(Latest(undo))
    /\ redo' = Append(redo, Latest(undo)) /\ undo' = Popped(undo)
    /\ revised' = TRUE
    /\ UNCHANGED <<active_save, drag, dropped, drawn>>

Redo ==
    /\ redo # <<>> /\ MayApply(Latest(redo))
    /\ edits' = edits + 1
    /\ entries' = Applied(Latest(redo))
    /\ undo' = Append(undo, Latest(redo)) /\ redo' = Popped(redo)
    /\ revised' = TRUE
    /\ UNCHANGED <<active_save, drag, dropped, drawn>>

\* Mutant of DiscardAll: the commands outlive the edits they made.
DiscardAllButHistory ==
    /\ ~Saving /\ DirtyObjects # {}
    /\ entries' = Changed([o \in DirtyObjects |-> entries[o].base])
    /\ revised' = TRUE
    /\ UNCHANGED <<active_save, undo, redo, drag, dropped, edits, drawn>>

DiscardAll ==
    /\ ~Saving /\ DirtyObjects # {}
    /\ entries' = Changed([o \in DirtyObjects |-> entries[o].base])
    /\ ClearHistory
    /\ revised' = TRUE
    /\ UNCHANGED <<active_save, drag, edits, drawn>>

\* The two answers to a conflict: the project's record, or this one over it.
ReloadConflict(o) ==
    /\ InConflict(o)
    /\ LET actual == entries[o].save.actual
       IN  entries' = [entries EXCEPT ![o].base = actual, ![o].current = actual, ![o].save = Idle]
    /\ ClearHistory
    /\ revised' = TRUE
    /\ UNCHANGED <<active_save, drag, edits, drawn>>

RebaseConflict(o) ==
    /\ InConflict(o)
    /\ entries' = [entries EXCEPT ![o].base = entries[o].save.actual, ![o].save = Idle]
    /\ ClearHistory
    /\ revised' = TRUE
    /\ UNCHANGED <<active_save, drag, edits, drawn>>

-----------------------------------------------------------------------------
(* Saving.                                                                 *)

\* The first dirty objects by id, as many as one transaction takes.
Batch == {o \in DirtyObjects :
            Cardinality({p \in DirtyObjects : p < o}) < MAX_OBJECT_WRITES_PER_TRANSACTION}

\* Without an expected revision the record is created, without a record the
\* object is deleted.
WriteOf(e) == [expected |-> IF e.base = None THEN None ELSE e.base.rev, to |-> e.current]

QueueSave(id) ==
    /\ active_save' = [id |-> id, objects |-> Batch]
    /\ entries' = [o \in Objects |-> IF o \in Batch
                                     THEN [entries[o] EXCEPT !.save = Now("Saving")]
                                     ELSE entries[o]]
    /\ UNCHANGED <<undo, redo, drag, dropped, edits, drawn, revised>>

\* Mutant of Saved: the edit becomes the base as it was, with its old revision.
SavedAsEdited(outcome) ==
    [o \in Objects |->
        IF outcome.kind = "Committed" /\ o \in DOMAIN outcome.rows /\ o \in Tracked
        THEN [entries[o] EXCEPT !.base = entries[o].current, !.save = Now("Saved")]
        ELSE IF o \in active_save.objects THEN [entries[o] EXCEPT !.save = Now("Failed")]
        ELSE entries[o]]

\* finish_save
Saved(outcome) ==
    [o \in Objects |->
        CASE outcome.kind = "Committed" /\ o \in DOMAIN outcome.rows /\ o \in Tracked ->
                [entries[o] EXCEPT !.base = outcome.rows[o], !.current = outcome.rows[o],
                                   !.save = Now("Saved")]
          [] outcome.kind = "Conflict" /\ o \in active_save.objects ->
                [entries[o] EXCEPT !.save = IF o = outcome.object
                                            THEN [kind |-> "Conflict", actual |-> outcome.actual]
                                            ELSE Idle]
          [] outcome.kind = "Failed" /\ o \in active_save.objects ->
                [entries[o] EXCEPT !.save = Now("Failed")]
          [] OTHER -> entries[o]]

\* Mutant of FinishSave: the journal does not hear of it.
FinishSaveUnseen(answer) ==
    IF active_save # None /\ active_save.id = answer.id
    THEN /\ entries' = Saved(answer.outcome)
         /\ active_save' = None
         /\ UNCHANGED <<undo, redo, drag, dropped, edits, drawn, revised>>
    ELSE UNCHANGED editingVars

FinishSave(answer) ==
    IF active_save # None /\ active_save.id = answer.id
    THEN /\ entries' = Saved(answer.outcome)
         /\ active_save' = None
         /\ revised' = TRUE
         /\ UNCHANGED <<undo, redo, drag, dropped, edits, drawn>>
    ELSE UNCHANGED editingVars

\* Mutant of AdoptRuntime: the edits made during the cook count as published.
AdoptRuntimeAsEdited ==
    /\ entries' = [o \in Objects |-> IF entries[o] = None THEN None
                                     ELSE [entries[o] EXCEPT !.runtime = entries[o].current]]
    /\ UNCHANGED <<active_save, undo, redo, drag, dropped, edits, drawn, revised>>

\* adopt_runtime_generation
AdoptRuntime ==
    /\ entries' = [o \in Objects |->
          IF entries[o] = None THEN None
          ELSE [entries[o] EXCEPT !.runtime = entries[o].base,
                                  !.save = IF ~Dirty(entries[o]) /\ @.kind = "Saved" THEN Idle ELSE @]]
    /\ revised' = (revised \/ \E o \in Tracked : entries[o].runtime # entries[o].base)
    /\ UNCHANGED <<active_save, undo, redo, drag, dropped, edits, drawn>>

=============================================================================
