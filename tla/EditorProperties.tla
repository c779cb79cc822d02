--------------------------- MODULE EditorProperties ---------------------------
(***************************************************************************)
(* What the editor owes the user's edits, from the first change to the     *)
(* published world, across other editors and failures.                     *)
(***************************************************************************)
EXTENDS ProjectEditor

\* A save replaces the very record its edit started from, never one another
\* editor wrote meanwhile (writer.rs, the expected revision of each write).  A
\* deleted object that is brought back goes on from the revision its writer
\* remembers (writer.rs:112), which may have been another record's: where that
\* has happened, all a save is sure of is the revision it replaces.
Revision(row) == IF row = None THEN None ELSE row.rev

NoSilentOverwrite ==
    [][others' = others => \A o \in Objects :
          rows'[o] # rows[o] =>
             /\ Revision(rows[o]) = Revision(entries[o].base)
             /\ rows[o] = entries[o].base \/ o \in reissued]_editorVars

\* While nobody else writes, the editor knows every object that is not being
\* saved exactly as the project has it, whatever was queried, saved, discarded
\* or failed in between (objects.rs, pin and finish_save).
BaseIsTheRow ==
    others = 0 =>
        \A o \in Tracked : entries[o].save.kind # "Saving" => entries[o].base = rows[o]

\* Nothing but the user's own act changes what the user made of an object:
\* not a row read again, not the answer to a save or an adoption.
Made(row) == IF row = None THEN None ELSE row.value

EditsAreKept ==
    [][\/ \A o \in DirtyObjects : Made(entries'[o].current) = Made(entries[o].current)
       \/ UserActs]_editorVars

\* While nobody else writes, the last command can be taken back and the one
\* taken back can be done again whenever the buttons are there: the history
\* follows the working set through saves, drags and discards.  A drag that was
\* lost with its proxy (gizmo.rs:151-163) is in no command: a step can then be
\* refused, but only because the objects already stand where it would take
\* them.
AlreadyAt(places) == dropped /\ At(places)

UndoIsNeverStuck ==
    others = 0 /\ CanStep /\ drag = None =>
        /\ undo # <<>> =>
              LET c == Latest(undo)
              IN  MayRevert(c) \/ (c.kind = "Transform" /\ AlreadyAt(c.before))
        /\ redo # <<>> =>
              LET c == Latest(redo)
              IN  MayApply(c) \/ (c.kind = "Transform" /\ AlreadyAt(c.after))

\* What an adoption marks as published is what was cooked (objects.rs:280,
\* adopt_runtime_generation takes each entry's base), not what was saved or
\* edited while the cook ran.
RuntimeIsWhatWasCooked ==
    [][others = 0 /\ reload = "adopted" /\ ReceiveAdopted =>
         \A o \in Tracked : entries'[o].runtime = runtime_db[o]]_editorVars

\* A save the user asked for comes to its end, committed or not, unless the
\* project thread died.
SaveEnds == intent # "Idle" ~> intent = "Idle" \/ thread = "stopped"

=============================================================================
