------------------------ MODULE ProjectEditor_proofs ------------------------
(***************************************************************************)
(* Proofs about saving and publishing the project, for any objects,        *)
(* windows, batch sizes, histories and numbers of edits, saves, failures   *)
(* and writes of another editor, which may bring back what was deleted: a  *)
(* save overwrites nothing the editor did not see, unless a revision was   *)
(* given twice; nothing but the user changes an edit; what is marked as    *)
(* published is what was cooked; and a command of the history can be       *)
(* undone or redone, unless a lost drag left its objects there already.    *)
(* And about the journal: it follows the edits.                            *)
(***************************************************************************)
EXTENDS EditorProperties, JournalProperties, WellFoundedInduction,
        SequenceTheorems, TLAPS

-----------------------------------------------------------------------------
(* Typing.                                                                 *)

Command == [kind : {"Create", "Delete"}, records : Some(Row)]
             \cup [kind : {"Transform"}, before : Some(Nat), after : Some(Nat)]

EditingTypeOK ==
    /\ entries \in [Objects -> Entry \cup {None}]
    /\ active_save \in ActiveSave \cup {None}
    /\ undo \in Seq(Command) /\ redo \in Seq(Command)
    /\ drag \in Some(Nat) \cup {None}
    /\ dropped \in BOOLEAN
    /\ edits \in Nat
    /\ drawn \subseteq Fresh

Write == [expected : Nat \cup {None}, to : MayRow]

StoreRequest == [kind : {"Save"}, id : Nat, writes : Some(Write)]
              \cup [kind : {"Query"}, window : Windows]

StoreAnswer == [kind : {"Opened"}, ok : BOOLEAN, writable : BOOLEAN]
             \cup [kind : {"Query"}, window : Windows, ok : {TRUE}, rows : Some(Row)]
             \cup [kind : {"Query"}, window : Windows, ok : {FALSE}]
             \cup [kind : {"Save"}, id : Nat, outcome : ObjectSaveOutcome]

ProjectTypeOK ==
    /\ rows \in [Objects -> MayRow]
    /\ given \in [Objects -> Nat] /\ reissued \subseteq Objects
    /\ requests \in Seq(StoreRequest) /\ results \in Seq(StoreAnswer)
    /\ shown \in Some(Row)
    /\ desired \in Windows \cup {None}
    /\ next_save \in Nat
    /\ pending # None => pending \in [id : Nat, writes : Some(Write)]
    /\ answer # None => answer \in SaveAnswer
    /\ others \in Nat

-----------------------------------------------------------------------------
(* The inductive invariant.                                                *)

\* What was read of an object is of a revision that was given, and what the
\* project has now, or of a revision it has gone beyond, unless one was given
\* again; while nobody else writes, it is what it has.
Known(row, now, last, again) ==
    \/ row = None
    \/ row.rev \in 0..last /\ (again \/ now = None \/ now = row \/ now.rev > row.rev)
Meets(row, o) ==
    /\ Known(row, rows[o], given[o], o \in reissued)
    /\ others = 0 => row = rows[o]

RowsAreGiven == \A o \in Objects : rows[o] # None => rows[o].rev \in 0..given[o]

\* A save the project thread has not served, and one it has.
Waiting(save) ==
    /\ active_save # None /\ save.id = active_save.id
    /\ DOMAIN save.writes = active_save.objects
    /\ \A o \in active_save.objects : save.writes[o] = WriteOf(entries[o])

Answered(save) ==
    /\ active_save # None /\ save.id = active_save.id
    /\ save.outcome.kind = "Committed" =>
          /\ DOMAIN save.outcome.rows = active_save.objects
          /\ \A o \in active_save.objects :
                /\ Meets(save.outcome.rows[o], o)
                /\ Made(save.outcome.rows[o]) = Made(entries[o].current)
    /\ save.outcome.kind = "Conflict" => Meets(save.outcome.actual, save.outcome.object)

IsSave(message) == message.kind = "Save"
NoRequest == \A i \in DOMAIN requests : ~IsSave(requests[i])
NoResult == \A i \in DOMAIN results : ~IsSave(results[i])

\* The save the entries wait for is in one place only.
OneSave ==
    /\ pending # None =>
          Waiting(pending) /\ NoRequest /\ NoResult /\ answer = None
    /\ \A i \in DOMAIN requests : IsSave(requests[i]) =>
          /\ Waiting(requests[i]) /\ pending = None /\ NoResult /\ answer = None
          /\ \A j \in DOMAIN requests : IsSave(requests[j]) => j = i
    /\ \A i \in DOMAIN results : IsSave(results[i]) =>
          /\ Answered(results[i]) /\ pending = None /\ NoRequest /\ answer = None
          /\ \A j \in DOMAIN results : IsSave(results[j]) => j = i
    /\ answer # None =>
          Answered(answer) /\ pending = None /\ NoRequest /\ NoResult

SavingEntries ==
    active_save # None =>
        \A o \in active_save.objects : entries[o] # None /\ entries[o].save.kind = "Saving"

Commits(save, o) == save.outcome.kind = "Committed" /\ o \in DOMAIN save.outcome.rows

\* A save of the object committed, and its result comes after result number k.
Promised(o, k) ==
    \E i \in DOMAIN results : i > k /\ IsSave(results[i]) /\ Commits(results[i], o)
Committed(o) == Promised(o, 0) \/ (answer # None /\ Commits(answer, o))

BasesMeet ==
    \A o \in Objects : entries[o] # None =>
        /\ Meets(entries[o].base, o) \/ Committed(o)
        /\ entries[o].save.kind = "Conflict" => Meets(entries[o].save.actual, o)

\* Rows read before a save committed are thrown away when its result arrives.
RowsReadMeet ==
    /\ \A o \in DOMAIN shown : Meets(shown[o], o) \/ Promised(o, 0)
    /\ \A i \in DOMAIN results : results[i].kind = "Query" /\ results[i].ok =>
          \A o \in DOMAIN results[i].rows : Meets(results[i].rows[o], o) \/ Promised(o, i)

\* An id that was never drawn is nowhere.
UndrawnAreUnused ==
    \A o \in Fresh \ drawn :
        /\ rows[o] = None /\ given[o] = 0 /\ entries[o] = None /\ o \notin DOMAIN shown
        /\ \A i \in DOMAIN results : results[i].kind = "Query" /\ results[i].ok =>
              o \notin DOMAIN results[i].rows

PublishInv ==
    /\ publication \in [phase : {"Idle", "Queued", "Cooking", "Adopting", "Published", "Failed"},
                        id : Nat, epoch : Nat]
    /\ cook \in [stage : {"resting", "asked", "done", "stopped"}, id : Nat, epoch : Nat,
                 ok : BOOLEAN]
    /\ source_epoch \in Nat
    /\ Publishing => active_save = None
    /\ cook.stage \in {"asked", "done"} => publication.phase = "Cooking"
    /\ cook.stage = "asked" => ~cook.ok
    /\ cook.stage = "done" /\ cook.ok /\ others = 0 => runtime_db = rows
    /\ publication.phase = "Adopting" /\ others = 0 => runtime_db = rows

SaveInv ==
    /\ OneSave /\ SavingEntries /\ BasesMeet /\ RowsReadMeet /\ UndrawnAreUnused
    /\ RowsAreGiven

EditorInv == EditingTypeOK /\ ProjectTypeOK /\ SaveInv /\ PublishInv

-----------------------------------------------------------------------------
(* Sequences and sets.                                                     *)

\* The request or reply a sender adds comes last.
LEMMA Appended ==
    ASSUME NEW S, NEW s \in Seq(S), NEW m \in S
    PROVE  /\ Append(s, m) \in Seq(S)
           /\ DOMAIN Append(s, m) = DOMAIN s \cup {Len(s) + 1}
           /\ Len(s) + 1 \notin DOMAIN s /\ \A i \in DOMAIN s : i < Len(s) + 1
           /\ \A i \in DOMAIN s : Append(s, m)[i] = s[i]
           /\ Append(s, m)[Len(s) + 1] = m
OBVIOUS

\* What remains after the first was taken.
LEMMA Drained ==
    ASSUME NEW S, NEW s \in Seq(S), s # <<>>
    PROVE  /\ Tail(s) \in Seq(S)
           /\ Head(s) = s[1] /\ Head(s) \in S /\ 1 \in DOMAIN s
           /\ \A i \in DOMAIN Tail(s) :
                 i \in Nat /\ i > 0 /\ i + 1 \in DOMAIN s /\ Tail(s)[i] = s[i + 1]
           /\ \A j \in DOMAIN s : j # 1 =>
                 j \in Nat /\ j > 1 /\ j - 1 \in DOMAIN Tail(s) /\ Tail(s)[j - 1] = s[j]
OBVIOUS

\* The first object by id that does not match exists.
LEMMA FirstOfSome ==
    ASSUME NEW T \in SUBSET Objects, T # {}
    PROVE  First(T) \in T
<1>1. T \subseteq Nat
  BY EditingAssumption
<1>2. IsWellFoundedOn(OpToRel(<, Nat), Nat)
  BY NatLessThanWellFounded
<1>3. PICK x \in T : \A y \in T : <<y, x>> \notin OpToRel(<, Nat)
  BY <1>1, <1>2, WFMin, Zenon
<1>4. \A y \in T : ~(y < x)
  BY <1>1, <1>3 DEF OpToRel
<1>5. \A y \in T : x <= y
  BY <1>1, <1>4, SMT
<1> QED BY <1>5 DEF First

\* A function of some of the objects.
LEMMA SomeOf ==
    ASSUME NEW S, NEW objects \in SUBSET Objects, NEW f \in [objects -> S]
    PROVE  f \in Some(S)
BY DEF Some

LEMMA SomeIs ==
    ASSUME NEW S, NEW f \in Some(S)
    PROVE  /\ DOMAIN f \in SUBSET Objects
           /\ f \in [DOMAIN f -> S]
           /\ \A o \in DOMAIN f : f[o] \in S
<1>1. PICK objects \in SUBSET Objects : f \in [objects -> S]
  BY DEF Some
<1> QED BY <1>1

-----------------------------------------------------------------------------
(* The working set: what a command does to the entries.                    *)

\* Every changed entry keeps its base, and its last save is forgotten.
KeepsBases(next) ==
    /\ next \in [Objects -> Entry \cup {None}]
    /\ \A o \in Objects :
          \/ next[o] = entries[o]
          \/ /\ entries[o] # None /\ next[o] # None
             /\ next[o].base = entries[o].base /\ next[o].save = Idle

LEMMA ChangedKeepsBases ==
    ASSUME EditingTypeOK, NEW objects \in SUBSET Objects, NEW changes \in [objects -> MayRow],
           \A o \in objects : entries[o] # None
    PROVE  KeepsBases(Changed(changes))
<1>1. /\ entries \in [Objects -> Entry \cup {None}]
      /\ \A o \in objects : entries[o] \in Entry /\ changes[o] \in MayRow
  BY DEF EditingTypeOK
<1>2. Idle \in SaveState
  BY DEF Idle, SaveState, MayRow
<1>3. ASSUME NEW o \in objects
      PROVE  LET e == [entries[o] EXCEPT !.current = changes[o], !.save = Idle]
             IN  e \in Entry /\ e # None /\ e.base = entries[o].base /\ e.save = Idle
  BY <1>1, <1>2, NoneIsNoRow DEF Entry
<1>4. /\ Changed(changes) = [o \in Objects |->
            IF o \in objects THEN [entries[o] EXCEPT !.current = changes[o], !.save = Idle]
            ELSE entries[o]]
  BY DEF Changed
<1>5. \A o \in objects : /\ Changed(changes)[o] \in Entry /\ Changed(changes)[o] # None
                         /\ Changed(changes)[o].base = entries[o].base
                         /\ Changed(changes)[o].save = Idle
  BY <1>3, <1>4
<1>6. \A o \in Objects \ objects : Changed(changes)[o] = entries[o]
  BY <1>4
<1>7. Changed(changes) \in [Objects -> Entry \cup {None}]
  BY <1>1, <1>4, <1>5, <1>6
<1> QED BY <1>1, <1>5, <1>6, <1>7 DEF KeepsBases

LEMMA PresentIs ==
    ASSUME EditingTypeOK, NEW o \in Objects, Present(o)
    PROVE  entries[o] \in Entry /\ entries[o] # None /\ entries[o].current \in Row
BY DEF EditingTypeOK, Present, Tracked, Entry, MayRow

LEMMA MovedKeepsBases ==
    ASSUME EditingTypeOK, NEW places \in Some(Nat), MayMove(places)
    PROVE  KeepsBases(Moved(places)) /\ ~Saving
<1> DEFINE changes == [o \in DOMAIN places |-> [entries[o].current EXCEPT !.value = places[o]]]
<1>1. /\ DOMAIN places \in SUBSET Objects /\ DOMAIN places # {}
      /\ \A o \in DOMAIN places : places[o] \in Nat /\ CanEdit(o)
  BY SomeIs DEF MayMove
<1>2. ~Saving
  BY <1>1 DEF CanEdit
<1>3. \A o \in DOMAIN places : entries[o] # None /\ entries[o].current \in Row
  BY <1>1, PresentIs DEF CanEdit
<1>4. changes \in [DOMAIN places -> MayRow]
  BY <1>1, <1>3 DEF Row, MayRow
<1>5. KeepsBases(Changed(changes))
  BY <1>1, <1>3, <1>4, ChangedKeepsBases
<1> QED BY <1>2, <1>5 DEF Moved

LEMMA DeletedKeepsBases ==
    ASSUME EditingTypeOK, NEW objects \in SUBSET Objects, MayDelete(objects)
    PROVE  KeepsBases(Deleted(objects)) /\ ~Saving /\ \A o \in objects : Present(o)
<1>1. ~Saving /\ \A o \in objects : Present(o) /\ entries[o] # None
  BY PresentIs DEF MayDelete, CanEdit
<1>2. [o \in objects |-> None] \in [objects -> MayRow]
  BY DEF MayRow
<1> QED BY <1>1, <1>2, ChangedKeepsBases DEF Deleted

LEMMA RestoredKeepsBases ==
    ASSUME EditingTypeOK, NEW records \in Some(Row), MayRestore(records)
    PROVE  KeepsBases(Restored(records)) /\ ~Saving
<1>1. /\ DOMAIN records \in SUBSET Objects
      /\ \A o \in DOMAIN records : records[o] \in Row /\ entries[o] # None
      /\ ~Saving
  BY SomeIs DEF MayRestore, Tracked
<1>2. records \in [DOMAIN records -> MayRow]
  BY <1>1, SomeIs DEF MayRow
<1> QED BY <1>1, <1>2, ChangedKeepsBases DEF Restored

\* A command of the history, taken back or done again.
LEMMA CommandIs ==
    ASSUME NEW c \in Command
    PROVE  \/ c.kind \in {"Create", "Delete"} /\ c.records \in Some(Row)
           \/ c.kind = "Transform" /\ c.before \in Some(Nat) /\ c.after \in Some(Nat)
BY DEF Command

LEMMA RevertedKeepsBases ==
    ASSUME EditingTypeOK, NEW c \in Command, MayRevert(c)
    PROVE  KeepsBases(Reverted(c)) /\ ~Saving
<1>1. CASE c.kind = "Create"
  <2>1. c.records \in Some(Row) /\ DOMAIN c.records \in SUBSET Objects
    BY <1>1, CommandIs, SomeIs
  <2>2. MayDelete(DOMAIN c.records) /\ Reverted(c) = Deleted(DOMAIN c.records)
    BY <1>1 DEF MayRevert, Reverted
  <2> QED BY <2>1, <2>2, DeletedKeepsBases
<1>2. CASE c.kind = "Transform"
  <2>1. c.before \in Some(Nat)
    BY <1>2, CommandIs
  <2>2. MayMove(c.before) /\ Reverted(c) = Moved(c.before)
    BY <1>2 DEF MayRevert, Reverted
  <2> QED BY <2>1, <2>2, MovedKeepsBases
<1>3. CASE c.kind = "Delete"
  <2>1. c.records \in Some(Row)
    BY <1>3, CommandIs
  <2>2. MayRestore(c.records) /\ Reverted(c) = Restored(c.records)
    BY <1>3 DEF MayRevert, Reverted
  <2> QED BY <2>1, <2>2, RestoredKeepsBases
<1> QED BY <1>1, <1>2, <1>3, CommandIs

LEMMA AppliedKeepsBases ==
    ASSUME EditingTypeOK, NEW c \in Command, MayApply(c)
    PROVE  KeepsBases(Applied(c)) /\ ~Saving
<1>1. CASE c.kind = "Create"
  <2>1. c.records \in Some(Row)
    BY <1>1, CommandIs
  <2>2. MayRestore(c.records) /\ Applied(c) = Restored(c.records)
    BY <1>1 DEF MayApply, Applied
  <2> QED BY <2>1, <2>2, RestoredKeepsBases
<1>2. CASE c.kind = "Transform"
  <2>1. c.after \in Some(Nat)
    BY <1>2, CommandIs
  <2>2. MayMove(c.after) /\ Applied(c) = Moved(c.after)
    BY <1>2 DEF MayApply, Applied
  <2> QED BY <2>1, <2>2, MovedKeepsBases
<1>3. CASE c.kind = "Delete"
  <2>1. c.records \in Some(Row) /\ DOMAIN c.records \in SUBSET Objects
    BY <1>3, CommandIs, SomeIs
  <2>2. MayDelete(DOMAIN c.records) /\ Applied(c) = Deleted(DOMAIN c.records)
    BY <1>3 DEF MayApply, Applied
  <2> QED BY <2>1, <2>2, DeletedKeepsBases
<1> QED BY <1>1, <1>2, <1>3, CommandIs

-----------------------------------------------------------------------------
(* What the user's commands do.                                            *)

\* A changed entry keeps its base, is new, or takes what a conflict found; and
\* only a conflict is answered while a save is under way.
Edited(o) ==
    \/ entries'[o] = entries[o]
    \/ /\ entries'[o] # None /\ entries'[o].save = Idle
       /\ \/ ~Saving /\ entries[o] # None /\ entries'[o].base = entries[o].base
          \/ ~Saving /\ o \in drawn' \ drawn /\ entries'[o].base = None
          \/ InConflict(o) /\ entries'[o].base = entries[o].save.actual

EditedAll ==
    /\ EditingTypeOK'
    /\ active_save' = active_save
    /\ drawn \subseteq drawn'
    /\ \A o \in Objects : Edited(o)

LEMMA KeepsBasesEdits ==
    ASSUME KeepsBases(entries'), ~Saving
    PROVE  \A o \in Objects : Edited(o)
BY DEF KeepsBases, Edited

LEMMA RecordTyped ==
    ASSUME EditingTypeOK, NEW c \in Command, Record(c)
    PROVE  undo' \in Seq(Command) /\ redo' \in Seq(Command)
<1>1. undo \in Seq(Command)
  BY DEF EditingTypeOK
<1>2. undo # <<>> => Tail(undo) \in Seq(Command)
  BY <1>1
<1>3. Len(undo) >= MAX_HISTORY_ENTRIES => undo # <<>>
  BY <1>1, EditingAssumption
<1>4. \A s \in Seq(Command) : Append(s, c) \in Seq(Command)
  OBVIOUS
<1> QED BY <1>1, <1>2, <1>3, <1>4 DEF Record

LEMMA PlacesTyped ==
    ASSUME EditingTypeOK, NEW objects \in SUBSET Objects, \A o \in objects : Present(o)
    PROVE  Places(objects) \in Some(Nat) /\ Records(objects) \in Some(Row)
<1>1. \A o \in objects : entries[o].current \in Row /\ entries[o].current.value \in Nat
  BY PresentIs DEF Row
<1>2. Places(objects) \in [objects -> Nat] /\ Records(objects) \in [objects -> Row]
  BY <1>1 DEF Places, Records
<1> QED BY <1>2, SomeOf

LEMMA AllAtTyped ==
    ASSUME EditingTypeOK, NEW objects, NEW place \in Nat, MayMove(AllAt(objects, place))
    PROVE  /\ objects \in SUBSET Objects /\ AllAt(objects, place) \in Some(Nat)
           /\ \A o \in objects : Present(o)
<1>1. DOMAIN AllAt(objects, place) = objects
  BY DEF AllAt
<1>2. \A o \in objects : CanEdit(o) /\ Present(o) /\ o \in Objects
  BY <1>1 DEF MayMove, CanEdit, Present, Tracked
<1>3. AllAt(objects, place) \in [objects -> Nat]
  BY DEF AllAt
<1> QED BY <1>2, <1>3, SomeOf

LEMMA CommandsEdit ==
    ASSUME EditingTypeOK,
           \/ \E o \in Fresh, place \in Placements : Create(o, place)
           \/ \E objects : \E place \in Placements : Transform(objects, place)
           \/ \E objects \in SUBSET Objects : Delete(objects)
    PROVE  EditedAll
<1> USE DEF EditingTypeOK
<1> USE EditingAssumption
<1>1. ASSUME NEW o \in Fresh, NEW place \in Placements, Create(o, place) PROVE EditedAll
  <2> DEFINE row == [value |-> place, rev |-> 0]
             c == [kind |-> "Create", records |-> [p \in {o} |-> row]]
  <2>1. /\ ~Saving /\ o \notin drawn /\ o \in Objects /\ edits' \in Nat
        /\ drawn' = drawn \cup {o} /\ UNCHANGED <<active_save, drag, dropped>>
        /\ entries' = [entries EXCEPT ![o] = FromCreated(row)] /\ Record(c)
    BY <1>1 DEF Create, Objects
  <2>2. row \in Row
    BY <2>1 DEF Row
  <2>3. /\ FromCreated(row) \in Entry /\ FromCreated(row).base = None
        /\ FromCreated(row).save = Idle
    BY <2>2 DEF FromCreated, Entry, Idle, SaveState, MayRow
  <2>4. FromCreated(row) # None
    BY <2>3, NoneIsNoRow
  <2>5. c \in Command
    <3>1. [p \in {o} |-> row] \in [{o} -> Row]
      BY <2>2
    <3>2. [p \in {o} |-> row] \in Some(Row)
      BY <2>1, <3>1, SomeOf
    <3> QED BY <3>2 DEF Command
  <2>6. undo' \in Seq(Command) /\ redo' \in Seq(Command)
    BY <2>1, <2>5, RecordTyped
  <2>7. entries' \in [Objects -> Entry \cup {None}]
    BY <2>1, <2>3
  <2>8. EditingTypeOK'
    BY <2>1, <2>6, <2>7
  <2>9. \A p \in Objects : Edited(p)
    BY <2>1, <2>3, <2>4 DEF Edited
  <2> QED BY <2>1, <2>8, <2>9 DEF EditedAll
<1>2. ASSUME NEW objects, NEW place \in Placements, Transform(objects, place)
      PROVE  EditedAll
  <2> DEFINE c == [kind |-> "Transform", before |-> Places(objects), after |-> AllAt(objects, place)]
  <2>1. /\ MayMove(AllAt(objects, place)) /\ edits' \in Nat
        /\ entries' = Moved(AllAt(objects, place)) /\ Record(c)
        /\ UNCHANGED <<active_save, drag, dropped, drawn>>
    BY <1>2 DEF Transform
  <2>2. /\ AllAt(objects, place) \in Some(Nat) /\ objects \in SUBSET Objects
        /\ \A o \in objects : Present(o)
    BY <2>1, AllAtTyped
  <2>3. c \in Command
    BY <2>2, PlacesTyped DEF Command
  <2>4. undo' \in Seq(Command) /\ redo' \in Seq(Command)
    BY <2>1, <2>3, RecordTyped
  <2>5. KeepsBases(entries') /\ ~Saving
    BY <2>1, <2>2, MovedKeepsBases
  <2>6. EditingTypeOK'
    BY <2>1, <2>4, <2>5 DEF KeepsBases
  <2> QED BY <2>1, <2>5, <2>6, KeepsBasesEdits DEF EditedAll
<1>3. ASSUME NEW objects \in SUBSET Objects, Delete(objects) PROVE EditedAll
  <2> DEFINE c == [kind |-> "Delete", records |-> Records(objects)]
  <2>1. /\ MayDelete(objects) /\ entries' = Deleted(objects) /\ Record(c) /\ edits' \in Nat
        /\ UNCHANGED <<active_save, drag, dropped, drawn>>
    BY <1>3 DEF Delete
  <2>2. KeepsBases(entries') /\ ~Saving /\ \A o \in objects : Present(o)
    BY <2>1, DeletedKeepsBases
  <2>3. c \in Command
    BY <2>2, PlacesTyped DEF Command
  <2>4. undo' \in Seq(Command) /\ redo' \in Seq(Command)
    BY <2>1, <2>3, RecordTyped
  <2>5. EditingTypeOK'
    BY <2>1, <2>2, <2>4 DEF KeepsBases
  <2> QED BY <2>1, <2>2, <2>5, KeepsBasesEdits DEF EditedAll
<1> QED BY <1>1, <1>2, <1>3

LEMMA DragsEdit ==
    ASSUME EditingTypeOK,
           \/ DragEnd \/ DragLost
           \/ \E objects : \E place \in Placements : DragMove(objects, place)
    PROVE  EditedAll
<1> USE EditingAssumption DEF EditingTypeOK
<1>1. CASE DragEnd
  <2>1. /\ drag \in Some(Nat) /\ drag' = None
        /\ UNCHANGED <<entries, active_save, dropped, edits, drawn>>
    BY <1>1 DEF DragEnd
  <2>2. undo' \in Seq(Command) /\ redo' \in Seq(Command)
    <3> DEFINE changed == {o \in DOMAIN drag : entries[o].current.value # drag[o]}
               c == [kind |-> "Transform", before |-> Restrict(drag, changed),
                     after |-> Places(changed)]
    <3>1. CASE UNCHANGED <<undo, redo>>
      BY <3>1
    <3>2. CASE Record(c) /\ \A o \in DOMAIN drag : Present(o)
      <4>1. DOMAIN drag \in SUBSET Objects /\ \A o \in DOMAIN drag : drag[o] \in Nat
        BY <2>1, SomeIs
      <4>2. Restrict(drag, changed) \in [changed -> Nat]
        BY <4>1 DEF Restrict
      <4>3. changed \in SUBSET Objects
        BY <4>1
      <4>4. Restrict(drag, changed) \in Some(Nat) /\ Places(changed) \in Some(Nat)
        BY <3>2, <4>2, <4>3, SomeOf, PlacesTyped
      <4>5. c \in Command
        BY <4>4 DEF Command
      <4> QED BY <3>2, <4>5, RecordTyped
    <3> QED BY <1>1, <3>1, <3>2 DEF DragEnd
  <2> QED BY <2>1, <2>2 DEF EditedAll, Edited
<1>2. ASSUME NEW objects, NEW place \in Placements, DragMove(objects, place)
      PROVE  EditedAll
  <2>1. /\ MayMove(AllAt(objects, place)) /\ edits' \in Nat
        /\ entries' = Moved(AllAt(objects, place))
        /\ drag' = IF drag = None THEN Places(objects) ELSE drag
        /\ UNCHANGED <<active_save, undo, redo, dropped, drawn>>
    BY <1>2 DEF DragMove
  <2>2. /\ AllAt(objects, place) \in Some(Nat) /\ objects \in SUBSET Objects
        /\ \A o \in objects : Present(o)
    BY <2>1, AllAtTyped
  <2>3. drag' \in Some(Nat) \cup {None}
    BY <2>1, <2>2, PlacesTyped
  <2>4. KeepsBases(entries') /\ ~Saving
    BY <2>1, <2>2, MovedKeepsBases
  <2>5. EditingTypeOK'
    BY <2>1, <2>3, <2>4 DEF KeepsBases
  <2> QED BY <2>1, <2>4, <2>5, KeepsBasesEdits DEF EditedAll
<1>3. CASE DragLost
  <2>1. /\ drag' = None /\ dropped' \in BOOLEAN
        /\ UNCHANGED <<entries, active_save, undo, redo, edits, drawn>>
    BY <1>3 DEF DragLost
  <2> QED BY <2>1 DEF EditedAll, Edited
<1> QED BY <1>1, <1>2, <1>3

LEMMA HistoryEdits ==
    ASSUME EditingTypeOK, Undo \/ Redo
    PROVE  EditedAll
<1> USE DEF EditingTypeOK
<1>1. \A s \in Seq(Command) : s # <<>> =>
         Latest(s) \in Command /\ Popped(s) \in Seq(Command)
  BY DEF Latest, Popped
<1>2. \A s \in Seq(Command), c \in Command : Append(s, c) \in Seq(Command)
  OBVIOUS
<1>3. CASE Undo
  <2>1. /\ undo # <<>> /\ MayRevert(Latest(undo)) /\ entries' = Reverted(Latest(undo))
        /\ redo' = Append(redo, Latest(undo)) /\ undo' = Popped(undo)
        /\ edits' \in Nat /\ UNCHANGED <<active_save, drag, dropped, drawn>>
    BY <1>3 DEF Undo
  <2>2. KeepsBases(entries') /\ ~Saving
    BY <1>1, <2>1, RevertedKeepsBases
  <2>3. EditingTypeOK'
    BY <1>1, <1>2, <2>1, <2>2 DEF KeepsBases
  <2> QED BY <2>1, <2>2, <2>3, KeepsBasesEdits DEF EditedAll
<1>4. CASE Redo
  <2>1. /\ redo # <<>> /\ MayApply(Latest(redo)) /\ entries' = Applied(Latest(redo))
        /\ undo' = Append(undo, Latest(redo)) /\ redo' = Popped(redo)
        /\ edits' \in Nat /\ UNCHANGED <<active_save, drag, dropped, drawn>>
    BY <1>4 DEF Redo
  <2>2. KeepsBases(entries') /\ ~Saving
    BY <1>1, <2>1, AppliedKeepsBases
  <2>3. EditingTypeOK'
    BY <1>1, <1>2, <2>1, <2>2 DEF KeepsBases
  <2> QED BY <2>1, <2>2, <2>3, KeepsBasesEdits DEF EditedAll
<1> QED BY <1>3, <1>4

LEMMA AnswersEdit ==
    ASSUME EditingTypeOK,
           \/ DiscardAll
           \/ \E o \in Objects : ReloadConflict(o) \/ RebaseConflict(o)
    PROVE  EditedAll
<1> USE DEF EditingTypeOK
<1>1. <<>> \in Seq(Command)
  OBVIOUS
<1>2. CASE DiscardAll
  <2> DEFINE changes == [o \in DirtyObjects |-> entries[o].base]
  <2>1. /\ ~Saving /\ entries' = Changed(changes)
        /\ undo' = <<>> /\ redo' = <<>> /\ dropped' = FALSE
        /\ UNCHANGED <<active_save, drag, edits, drawn>>
    BY <1>2 DEF DiscardAll, ClearHistory
  <2>2. /\ DirtyObjects \in SUBSET Objects
        /\ \A o \in DirtyObjects : entries[o] # None /\ entries[o].base \in MayRow
    BY DEF DirtyObjects, Tracked, Entry
  <2>3. changes \in [DirtyObjects -> MayRow]
    BY <2>2
  <2>4. KeepsBases(entries')
    BY <2>1, <2>2, <2>3, ChangedKeepsBases
  <2>5. EditingTypeOK'
    BY <1>1, <2>1, <2>4 DEF KeepsBases
  <2> QED BY <2>1, <2>4, <2>5, KeepsBasesEdits DEF EditedAll
<1>3. ASSUME NEW o \in Objects, ReloadConflict(o) \/ RebaseConflict(o) PROVE EditedAll
  <2>1. /\ InConflict(o) /\ undo' = <<>> /\ redo' = <<>> /\ dropped' = FALSE
        /\ UNCHANGED <<active_save, drag, edits, drawn>>
    BY <1>3 DEF ReloadConflict, RebaseConflict, ClearHistory
  <2>2. /\ entries[o] \in Entry /\ entries[o] # None
        /\ entries[o].save.actual \in MayRow /\ Idle \in SaveState
    BY <2>1 DEF InConflict, Tracked, Entry, SaveState, Idle, MayRow
  <2>3. \E e \in Entry : /\ entries' = [entries EXCEPT ![o] = e]
                         /\ e.base = entries[o].save.actual /\ e.save = Idle
    <3> DEFINE actual == entries[o].save.actual
    <3>1. CASE ReloadConflict(o)
      <4> DEFINE e == [entries[o] EXCEPT !.base = actual, !.current = actual, !.save = Idle]
      <4>1. entries' = [entries EXCEPT ![o] = e]
        BY <3>1 DEF ReloadConflict
      <4>2. e \in Entry /\ e.base = actual /\ e.save = Idle
        BY <2>2 DEF Entry
      <4> QED BY <4>1, <4>2
    <3>2. CASE RebaseConflict(o)
      <4> DEFINE e == [entries[o] EXCEPT !.base = actual, !.save = Idle]
      <4>1. entries' = [entries EXCEPT ![o] = e]
        BY <3>2 DEF RebaseConflict
      <4>2. e \in Entry /\ e.base = actual /\ e.save = Idle
        BY <2>2 DEF Entry
      <4> QED BY <4>1, <4>2
    <3> QED BY <1>3, <3>1, <3>2
  <2>4. PICK e \in Entry : /\ entries' = [entries EXCEPT ![o] = e]
                           /\ e.base = entries[o].save.actual /\ e.save = Idle
    BY <2>3
  <2>5. e # None
    BY NoneIsNoRow
  <2>6. EditingTypeOK'
    BY <1>1, <2>1, <2>4
  <2>7. \A p \in Objects : Edited(p)
    BY <2>1, <2>4, <2>5 DEF Edited
  <2> QED BY <2>1, <2>6, <2>7 DEF EditedAll
<1> QED BY <1>2, <1>3

-----------------------------------------------------------------------------
(* Steps that change the entries only.                                     *)

\* What an entry may become while channels and project stay as they are.
Settled(o) ==
    /\ entries'[o] # None /\ entries'[o].save = Idle
    /\ active_save # None => o \notin active_save.objects
    /\ o \notin Fresh \ drawn'
    /\ \/ Meets(entries'[o].base, o)
       \/ entries[o] # None /\ entries'[o].base = entries[o].base

SameEntry(o) ==
    /\ entries[o] # None /\ entries'[o] # None
    /\ entries'[o].base = entries[o].base /\ entries'[o].current = entries[o].current
    /\ entries'[o].save = entries[o].save

Mild(o) == entries'[o] = entries[o] \/ SameEntry(o) \/ Settled(o)

LEMMA RowsStayGiven ==
    ASSUME EditorInv, UNCHANGED <<rows, given>>
    PROVE  RowsAreGiven'
BY DEF EditorInv, SaveInv, RowsAreGiven

\* A committed save that is on its way is of an object that is being saved.
LEMMA PromisedIsActive ==
    ASSUME OneSave, NEW o, Committed(o) \/ \E k : Promised(o, k)
    PROVE  active_save # None /\ o \in active_save.objects
<1>1. ASSUME NEW i \in DOMAIN results, IsSave(results[i]), Commits(results[i], o)
      PROVE  active_save # None /\ o \in active_save.objects
  BY <1>1 DEF OneSave, Answered, Commits
<1>2. ASSUME answer # None, Commits(answer, o)
      PROVE  active_save # None /\ o \in active_save.objects
  BY <1>2 DEF OneSave, Answered, Commits
<1> QED BY <1>1, <1>2 DEF Committed, Promised

LEMMA MildKeeps ==
    ASSUME EditorInv, active_save' = active_save, drawn \subseteq drawn',
           UNCHANGED <<rows, given, reissued, others, requests, results, pending, answer, shown>>,
           \A o \in Objects : Mild(o)
    PROVE  SaveInv'
<1>1. /\ OneSave /\ SavingEntries /\ BasesMeet /\ RowsReadMeet /\ UndrawnAreUnused
      /\ active_save # None => active_save.objects \subseteq Objects
  BY DEF EditorInv, SaveInv, EditingTypeOK, ActiveSave
<1>3. /\ \A row, o : Known(row, rows'[o], given'[o], o \in reissued') /\ (others' = 0 => row = rows'[o]) <=> Meets(row, o)
      /\ \A o, k : Promised(o, k)' <=> Promised(o, k)
      /\ \A o : Committed(o)' <=> Committed(o)
  BY DEF Meets, Promised, Committed
<1>4. active_save # None =>
        \A o \in active_save.objects :
           /\ entries'[o] # None /\ entries'[o].base = entries[o].base
           /\ entries'[o].current = entries[o].current /\ entries'[o].save = entries[o].save
  BY <1>1 DEF Mild, SameEntry, Settled, SavingEntries
<1>5. SavingEntries'
  BY <1>1, <1>4 DEF SavingEntries
<1>6. OneSave'
  <2>1. \A save : Waiting(save) => Waiting(save)'
    BY <1>4 DEF Waiting, WriteOf
  <2>2. \A save : Answered(save) => Answered(save)'
    BY <1>4 DEF Answered, Meets
  <2> QED BY <1>1, <2>1, <2>2 DEF OneSave, NoRequest, NoResult
<1>7. BasesMeet'
  <2> SUFFICES ASSUME NEW o \in Objects, entries'[o] # None
               PROVE  /\ Meets(entries'[o].base, o) \/ Committed(o)
                      /\ entries'[o].save.kind = "Conflict" => Meets(entries'[o].save.actual, o)
    BY <1>3 DEF BasesMeet, Meets
  <2>1. CASE entries'[o] = entries[o]
    BY <1>1, <2>1 DEF BasesMeet
  <2>2. CASE SameEntry(o)
    BY <1>1, <2>2 DEF BasesMeet, SameEntry
  <2>3. CASE Settled(o)
    BY <1>1, <2>3 DEF BasesMeet, Settled, Idle
  <2> QED BY <2>1, <2>2, <2>3 DEF Mild
<1>8. RowsReadMeet'
  BY <1>1, <1>3 DEF RowsReadMeet, Meets
<1>9. UndrawnAreUnused'
  BY <1>1 DEF UndrawnAreUnused, Mild, SameEntry, Settled, Objects
<1> QED BY <1>5, <1>6, <1>7, <1>8, <1>9, RowsStayGiven DEF SaveInv

LEMMA EditedKeeps ==
    ASSUME EditorInv, EditedAll, UNCHANGED <<rows, given, reissued, others, requests, results, pending, answer, shown>>
    PROVE  SaveInv'
<1>1. /\ SavingEntries /\ BasesMeet /\ UndrawnAreUnused /\ drawn' \subseteq Fresh
      /\ drawn \subseteq drawn' /\ active_save' = active_save
      /\ active_save # None => active_save.objects \subseteq Objects
  BY DEF EditorInv, SaveInv, EditingTypeOK, ActiveSave, EditedAll
<1>2. ASSUME NEW o \in Objects PROVE Mild(o)
  <2>1. CASE entries'[o] = entries[o]
    BY <2>1 DEF Mild
  <2>2. CASE /\ entries'[o] # None /\ entries'[o].save = Idle
             /\ ~Saving /\ entries[o] # None /\ entries'[o].base = entries[o].base
    BY <1>1, <2>2 DEF Mild, Settled, Saving, UndrawnAreUnused
  <2>3. CASE /\ entries'[o] # None /\ entries'[o].save = Idle
             /\ ~Saving /\ o \in drawn' \ drawn /\ entries'[o].base = None
    <3>1. rows[o] = None
      BY <1>1, <2>3 DEF UndrawnAreUnused
    <3>2. Meets(entries'[o].base, o)
      BY <2>3, <3>1 DEF Meets, Known
    <3> QED BY <2>3, <3>2 DEF Mild, Settled, Saving
  <2>4. CASE /\ entries'[o] # None /\ entries'[o].save = Idle
             /\ InConflict(o) /\ entries'[o].base = entries[o].save.actual
    <3>1. Meets(entries'[o].base, o) /\ entries[o] # None /\ entries[o].save.kind = "Conflict"
      BY <1>1, <2>4 DEF BasesMeet, InConflict, Tracked
    <3>2. active_save # None => o \notin active_save.objects
      BY <1>1, <3>1 DEF SavingEntries
    <3> QED BY <1>1, <2>4, <3>1, <3>2 DEF Mild, Settled, UndrawnAreUnused
  <2> QED BY <2>1, <2>2, <2>3, <2>4 DEF EditedAll, Edited
<1> QED BY <1>1, <1>2, MildKeeps

\* Rows taken over from what was read last.
LEMMA PinKeeps ==
    ASSUME EditorInv, NEW rs, DOMAIN rs \subseteq DOMAIN shown,
           \A o \in DOMAIN rs : rs[o] = shown[o], Pin(rs),
           UNCHANGED <<rows, given, reissued, others, requests, results, pending, answer, shown>>
    PROVE  EditingTypeOK' /\ SaveInv'
<1>1. /\ EditingTypeOK /\ OneSave /\ SavingEntries /\ RowsReadMeet /\ UndrawnAreUnused
      /\ shown \in Some(Row)
      /\ UNCHANGED <<active_save, undo, redo, drag, dropped, edits, drawn>>
      /\ entries' = [o \in Objects |-> IF o \in DOMAIN rs THEN Pinned(entries[o], rs[o])
                                       ELSE entries[o]]
  BY DEF EditorInv, SaveInv, ProjectTypeOK, Pin
<1>2. \A o \in DOMAIN rs : o \in Objects /\ rs[o] \in Row /\ o \notin Fresh \ drawn
  BY <1>1, SomeIs DEF UndrawnAreUnused
<1>3. ASSUME NEW o \in DOMAIN rs
      PROVE  entries'[o] \in Entry \cup {None} /\ Mild(o)
  <2>1. entries'[o] = Pinned(entries[o], rs[o]) /\ entries[o] \in Entry \cup {None}
    BY <1>1, <1>2 DEF EditingTypeOK
  <2>2. Idle \in SaveState /\ Idle.kind = "Idle"
    BY DEF Idle, SaveState, MayRow
  <2>3. active_save = None \/ o \notin active_save.objects => Meets(rs[o], o)
    BY <1>1, PromisedIsActive DEF RowsReadMeet
  <2>4. CASE entries[o] = None
    <3>1. active_save = None \/ o \notin active_save.objects
      BY <1>1, <2>4 DEF SavingEntries
    <3>2. entries'[o] = FromSource(rs[o])
      BY <2>1, <2>4 DEF Pinned
    <3>3. entries'[o] \in Entry /\ entries'[o].base = rs[o] /\ entries'[o].save = Idle
      BY <1>2, <2>2, <3>2 DEF FromSource, Entry, MayRow
    <3>4. entries'[o] # None
      BY <3>3, NoneIsNoRow
    <3> QED BY <1>1, <1>2, <2>3, <3>1, <3>3, <3>4 DEF Mild, Settled
  <2>5. CASE entries[o] # None /\ Adopts(entries[o], rs[o])
    <3>1. active_save = None \/ o \notin active_save.objects
      BY <1>1, <2>5 DEF SavingEntries, Adopts
    <3>2. entries'[o] = [entries[o] EXCEPT !.base = rs[o], !.current = rs[o], !.save = Idle]
      BY <2>1, <2>5 DEF Pinned
    <3>3. entries'[o] \in Entry /\ entries'[o].base = rs[o] /\ entries'[o].save = Idle
      BY <1>2, <2>1, <2>2, <2>5, <3>2 DEF Entry, MayRow
    <3>4. entries'[o] # None
      BY <3>3, NoneIsNoRow
    <3> QED BY <1>1, <1>2, <2>3, <3>1, <3>3, <3>4 DEF Mild, Settled
  <2>6. CASE entries[o] # None /\ ~Adopts(entries[o], rs[o])
    BY <2>1, <2>6 DEF Pinned, Mild
  <2> QED BY <2>4, <2>5, <2>6
<1>4. \A o \in Objects : entries'[o] \in Entry \cup {None} /\ Mild(o)
  BY <1>1, <1>3 DEF EditingTypeOK, Mild
<1>5. entries' \in [Objects -> Entry \cup {None}]
  BY <1>1, <1>4
<1>6. EditingTypeOK'
  BY <1>1, <1>5 DEF EditingTypeOK
<1> QED BY <1>1, <1>4, <1>6, MildKeeps

\* An adoption marks what is published.
LEMMA AdoptRuntimeKeeps ==
    ASSUME EditorInv, AdoptRuntime,
           UNCHANGED <<rows, given, reissued, others, requests, results, pending, answer, shown>>
    PROVE  EditingTypeOK' /\ SaveInv'
<1>1. /\ EditingTypeOK /\ SavingEntries /\ UndrawnAreUnused
      /\ UNCHANGED <<active_save, undo, redo, drag, dropped, edits, drawn>>
  BY DEF EditorInv, SaveInv, AdoptRuntime
<1>2. ASSUME NEW o \in Objects
      PROVE  entries'[o] \in Entry \cup {None} /\ Mild(o)
  <2>1. CASE entries[o] = None
    BY <2>1 DEF AdoptRuntime, Mild
  <2>2. CASE entries[o] # None
    <3> DEFINE save == IF ~Dirty(entries[o]) /\ entries[o].save.kind = "Saved" THEN Idle
                       ELSE entries[o].save
    <3>1. entries[o] \in Entry
      BY <1>1, <2>2 DEF EditingTypeOK
    <3>2. entries'[o] = [entries[o] EXCEPT !.runtime = entries[o].base, !.save = save]
      BY <2>2, <3>1 DEF AdoptRuntime, Entry
    <3>3. save \in SaveState
      BY <3>1 DEF Entry, Idle, SaveState, MayRow
    <3>4. /\ entries'[o] \in Entry /\ entries'[o].base = entries[o].base
          /\ entries'[o].current = entries[o].current /\ entries'[o].save = save
      BY <3>1, <3>2, <3>3 DEF Entry
    <3>5. entries'[o] # None
      BY <3>4, NoneIsNoRow
    <3>6. CASE save = entries[o].save
      BY <2>2, <3>4, <3>5, <3>6 DEF Mild, SameEntry
    <3>7. CASE save = Idle /\ entries[o].save.kind = "Saved"
      <4>1. active_save # None => o \notin active_save.objects
        BY <1>1, <3>7 DEF SavingEntries
      <4> QED BY <1>1, <2>2, <3>4, <3>5, <3>7, <4>1 DEF Mild, Settled, UndrawnAreUnused
    <3> QED BY <3>4, <3>6, <3>7
  <2> QED BY <2>1, <2>2
<1>3. entries' \in [Objects -> Entry \cup {None}]
  BY <1>2 DEF AdoptRuntime
<1>4. EditingTypeOK'
  BY <1>1, <1>3 DEF EditingTypeOK
<1> QED BY <1>1, <1>2, <1>4, MildKeeps

-----------------------------------------------------------------------------
(* A save, from the working set to the project and back.                   *)

\* While no save is under way there is none anywhere.
LEMMA NothingOnItsWay ==
    ASSUME OneSave, active_save = None
    PROVE  pending = None /\ answer = None /\ NoRequest /\ NoResult
BY DEF OneSave, Waiting, Answered, NoRequest, NoResult

LEMMA EntryIs ==
    ASSUME EditingTypeOK, NEW o \in Objects, entries[o] # None
    PROVE  /\ entries[o] \in Entry /\ entries[o].base \in MayRow
           /\ entries[o].current \in MayRow /\ entries[o].save \in SaveState
BY DEF EditingTypeOK, Entry

LEMMA WriteOfTyped ==
    ASSUME EditingTypeOK, NEW o \in Objects, entries[o] # None
    PROVE  WriteOf(entries[o]) \in Write
BY EntryIs DEF WriteOf, Write, MayRow, Row

LEMMA QueueKeeps ==
    ASSUME EditorInv, DriveSaves
    PROVE  EditingTypeOK' /\ ProjectTypeOK' /\ SaveInv'
<1>1. /\ EditingTypeOK /\ ProjectTypeOK /\ OneSave /\ SavingEntries /\ BasesMeet /\ RowsReadMeet
      /\ UndrawnAreUnused
  BY DEF EditorInv, SaveInv
<1>2. /\ active_save = None /\ next_save' = next_save + 1
      /\ pending' = [id |-> next_save', writes |-> [o \in Batch |-> WriteOf(entries[o])]]
      /\ active_save' = [id |-> next_save', objects |-> Batch]
      /\ entries' = [o \in Objects |-> IF o \in Batch
                                       THEN [entries[o] EXCEPT !.save = Now("Saving")]
                                       ELSE entries[o]]
      /\ UNCHANGED <<undo, redo, drag, dropped, edits, drawn, rows, given, reissued, others, requests, results, answer,
                     shown, desired>>
  BY DEF DriveSaves, Drive, Saving, QueueSave, Save, sourceVars, threadVars, windowVars
<1>3. pending = None /\ answer = None /\ NoRequest /\ NoResult
  BY <1>1, <1>2, NothingOnItsWay
<1>4. Batch \in SUBSET Objects /\ \A o \in Batch : entries[o] # None
  BY DEF Batch, DirtyObjects, Tracked
<1>5. ASSUME NEW o \in Batch
      PROVE  /\ entries'[o] \in Entry /\ entries'[o] # None
             /\ entries'[o].base = entries[o].base /\ entries'[o].current = entries[o].current
             /\ entries'[o].save.kind = "Saving"
  <2>1. Now("Saving") \in SaveState /\ Now("Saving").kind = "Saving"
    BY DEF Now, SaveState, MayRow
  <2>2. entries[o] \in Entry /\ entries'[o] = [entries[o] EXCEPT !.save = Now("Saving")]
    BY <1>1, <1>2, <1>4, EntryIs
  <2>3. /\ entries'[o] \in Entry /\ entries'[o].base = entries[o].base
        /\ entries'[o].current = entries[o].current /\ entries'[o].save = Now("Saving")
    BY <2>1, <2>2 DEF Entry
  <2> QED BY <2>1, <2>3, NoneIsNoRow
<1>6. \A o \in Objects \ Batch : entries'[o] = entries[o]
  BY <1>2
<1>7. next_save' \in Nat /\ active_save' \in ActiveSave /\ active_save' # None
  BY <1>1, <1>2, <1>4, NoneIsNoRow DEF ProjectTypeOK, ActiveSave
<1>8. EditingTypeOK'
  <2>1. entries' \in [Objects -> Entry \cup {None}]
    BY <1>1, <1>2, <1>5, <1>6 DEF EditingTypeOK
  <2> QED BY <1>1, <1>2, <1>7, <2>1 DEF EditingTypeOK
<1>9. ProjectTypeOK'
  <2>1. \A o \in Batch : WriteOf(entries[o]) \in Write
    BY <1>1, <1>4, WriteOfTyped
  <2>2. [o \in Batch |-> WriteOf(entries[o])] \in Some(Write)
    BY <1>4, <2>1, SomeOf
  <2>3. pending' \in [id : Nat, writes : Some(Write)]
    BY <1>2, <1>7, <2>2
  <2> QED BY <1>1, <1>2, <1>7, <2>3 DEF ProjectTypeOK
<1>10. OneSave'
  <2>1. Waiting(pending)'
    BY <1>2, <1>5, <1>7 DEF Waiting, WriteOf
  <2>2. NoRequest' /\ NoResult' /\ answer' = None
    BY <1>2, <1>3 DEF NoRequest, NoResult
  <2> QED BY <2>1, <2>2 DEF OneSave, NoRequest, NoResult
<1>11. SavingEntries'
  BY <1>2, <1>5 DEF SavingEntries
<1>12. BasesMeet'
  <2>1. \A row, o : Known(row, rows'[o], given'[o], o \in reissued') /\ (others' = 0 => row = rows'[o]) <=> Meets(row, o)
    BY <1>2 DEF Meets
  <2>2. \A o : Committed(o)' <=> Committed(o)
    BY <1>2 DEF Committed, Promised
  <2> SUFFICES ASSUME NEW o \in Objects, entries'[o] # None
               PROVE  /\ Meets(entries'[o].base, o) \/ Committed(o)
                      /\ entries'[o].save.kind = "Conflict" => Meets(entries'[o].save.actual, o)
    BY <2>1, <2>2 DEF BasesMeet, Meets
  <2>3. CASE o \in Batch
    BY <1>1, <1>4, <1>5, <2>3 DEF BasesMeet
  <2>4. CASE o \notin Batch
    BY <1>1, <1>6, <2>4 DEF BasesMeet
  <2> QED BY <2>3, <2>4
<1>13. RowsReadMeet'
  BY <1>1, <1>2 DEF RowsReadMeet, Meets, Promised
<1>14. UndrawnAreUnused'
  BY <1>1, <1>2, <1>4, <1>6 DEF UndrawnAreUnused, Objects
<1> QED BY <1>2, <1>8, <1>9, <1>10, <1>11, <1>12, <1>13, <1>14, RowsStayGiven DEF SaveInv

\* What a save may replace: a record of the revision its edit started from, and
\* that very record unless a revision was given again.
Replaced(o) ==
    /\ Revision(rows[o]) = Revision(entries[o].base)
    /\ rows[o] = entries[o].base \/ o \in reissued

\* While nobody else writes, a save matches.
LEMMA ServedSave ==
    ASSUME EditorInv, requests # <<>>, IsSave(Head(requests))
    PROVE  /\ Waiting(Head(requests)) /\ NoResult /\ answer = None /\ pending = None
           /\ \A i \in DOMAIN Tail(requests) : ~IsSave(Tail(requests)[i])
           /\ active_save.objects \in SUBSET Objects
           /\ Head(requests).writes \in Some(Write) /\ Head(requests).id \in Nat
           /\ \A o \in active_save.objects :
                 /\ entries[o] # None /\ Meets(entries[o].base, o)
                 /\ Matches(o, Head(requests).writes[o]) => Replaced(o)
                 /\ others = 0 => Matches(o, Head(requests).writes[o])
<1> DEFINE save == Head(requests)
<1>1. /\ EditingTypeOK /\ ProjectTypeOK /\ OneSave /\ SavingEntries /\ BasesMeet
  BY DEF EditorInv, SaveInv
<1>2. /\ requests \in Seq(StoreRequest) /\ save = requests[1] /\ 1 \in DOMAIN requests
      /\ save \in StoreRequest
  BY <1>1, Drained DEF ProjectTypeOK
<1>3. /\ Waiting(save) /\ NoResult /\ answer = None /\ pending = None
      /\ \A j \in DOMAIN requests : IsSave(requests[j]) => j = 1
  BY <1>1, <1>2 DEF OneSave
<1>4. \A i \in DOMAIN Tail(requests) : ~IsSave(Tail(requests)[i])
  <2> SUFFICES ASSUME NEW i \in DOMAIN Tail(requests) PROVE ~IsSave(Tail(requests)[i])
    OBVIOUS
  <2>1. i \in Nat /\ i > 0 /\ i + 1 \in DOMAIN requests /\ Tail(requests)[i] = requests[i + 1]
    BY <1>2, Drained
  <2>2. i + 1 # 1
    BY <2>1
  <2> QED BY <1>3, <2>1, <2>2
<1>5. active_save # None /\ active_save.objects \in SUBSET Objects
  BY <1>1, <1>3 DEF Waiting, EditingTypeOK, ActiveSave
<1>6. save.writes \in Some(Write) /\ save.id \in Nat
  BY <1>2 DEF StoreRequest, IsSave
<1>7. ASSUME NEW o \in active_save.objects
      PROVE  /\ entries[o] # None /\ Meets(entries[o].base, o)
             /\ Matches(o, save.writes[o]) => Replaced(o)
             /\ others = 0 => Matches(o, save.writes[o])
  <2>1. entries[o] # None /\ ~Committed(o)
    BY <1>1, <1>3, <1>5 DEF SavingEntries, Committed, Promised, NoResult
  <2>2. Meets(entries[o].base, o) /\ save.writes[o] = WriteOf(entries[o])
    BY <1>1, <1>3, <1>5, <2>1 DEF BasesMeet, Waiting
  <2>3. entries[o].base \in MayRow /\ rows[o] \in MayRow
    BY <1>1, <1>5, <2>1, EntryIs DEF ProjectTypeOK
  <2>4. CASE entries[o].base = None
    <3>1. save.writes[o].expected = None
      BY <2>2, <2>4 DEF WriteOf
    <3> QED BY <2>1, <2>2, <2>4, <3>1 DEF Matches, Meets, Replaced, Revision
  <2>5. CASE entries[o].base # None
    <3>1. entries[o].base \in Row /\ entries[o].base.rev \in Nat
      BY <2>3, <2>5 DEF MayRow, Row
    <3>2. save.writes[o].expected = entries[o].base.rev /\ save.writes[o].expected # None
      BY <2>2, <2>5, <3>1, NoneIsNoRow DEF WriteOf
    <3>3. Matches(o, save.writes[o]) <=> rows[o] # None /\ rows[o].rev = entries[o].base.rev
      BY <3>2 DEF Matches
    <3>4. rows[o] # None => rows[o].rev \in Nat
      BY <2>3 DEF MayRow, Row
    <3>5. Matches(o, save.writes[o]) => Replaced(o)
      BY <2>2, <2>5, <3>1, <3>3, <3>4 DEF Meets, Known, Replaced, Revision
    <3> QED BY <2>1, <2>2, <2>5, <3>3, <3>5 DEF Meets
  <2> QED BY <2>4, <2>5
<1> QED BY <1>3, <1>4, <1>5, <1>6, <1>7

\* Meets, Promised and Committed after a step, of values before it.
KnownAfter(row, o) == Known(row, rows'[o], given'[o], o \in reissued')
MeetsAfter(row, o) == KnownAfter(row, o) /\ (others' = 0 => row = rows'[o])
PromisedAfter(o, k) ==
    \E i \in DOMAIN results' : i > k /\ IsSave(results'[i]) /\ Commits(results'[i], o)
CommittedAfter(o) == PromisedAfter(o, 0) \/ (answer' # None /\ Commits(answer', o))
AnsweredAfter(save) ==
    /\ active_save' # None /\ save.id = active_save'.id
    /\ save.outcome.kind = "Committed" =>
          /\ DOMAIN save.outcome.rows = active_save'.objects
          /\ \A o \in active_save'.objects :
                /\ MeetsAfter(save.outcome.rows[o], o)
                /\ Made(save.outcome.rows[o]) = Made(entries'[o].current)
    /\ save.outcome.kind = "Conflict" => MeetsAfter(save.outcome.actual, save.outcome.object)

LEMMA AfterAnswers ==
    /\ \A i : Answered(results[i])' <=> AnsweredAfter(results'[i])
    /\ Answered(answer)' <=> AnsweredAfter(answer')
BY DEF Answered, AnsweredAfter, Meets, MeetsAfter, KnownAfter

LEMMA After ==
    /\ BasesMeet' <=> \A o \in Objects : entries'[o] # None =>
          /\ MeetsAfter(entries'[o].base, o) \/ CommittedAfter(o)
          /\ entries'[o].save.kind = "Conflict" => MeetsAfter(entries'[o].save.actual, o)
    /\ RowsReadMeet' <=>
          /\ \A o \in DOMAIN shown' : MeetsAfter(shown'[o], o) \/ PromisedAfter(o, 0)
          /\ \A i \in DOMAIN results' : results'[i].kind = "Query" /\ results'[i].ok =>
                \A o \in DOMAIN results'[i].rows :
                   MeetsAfter(results'[i].rows[o], o) \/ PromisedAfter(o, i)
<1>1. BasesMeet' <=> \A o \in Objects : entries'[o] # None =>
          /\ MeetsAfter(entries'[o].base, o) \/ CommittedAfter(o)
          /\ entries'[o].save.kind = "Conflict" => MeetsAfter(entries'[o].save.actual, o)
  BY DEF BasesMeet, Meets, Committed, Promised, MeetsAfter, KnownAfter, CommittedAfter,
         PromisedAfter
<1>2. RowsReadMeet' <=>
          /\ \A o \in DOMAIN shown' : MeetsAfter(shown'[o], o) \/ PromisedAfter(o, 0)
          /\ \A i \in DOMAIN results' : results'[i].kind = "Query" /\ results'[i].ok =>
                \A o \in DOMAIN results'[i].rows :
                   MeetsAfter(results'[i].rows[o], o) \/ PromisedAfter(o, i)
  BY DEF RowsReadMeet, Meets, Promised, MeetsAfter, KnownAfter, PromisedAfter
<1> QED BY <1>1, <1>2

\* The project goes on: what was known of an object stays known of it.
Onward ==
    /\ rows' \in [Objects -> MayRow] /\ given' \in [Objects -> Nat] /\ reissued' \subseteq Objects
    /\ RowsAreGiven'
    /\ \A o \in Objects : rows[o] = None /\ rows'[o] = None => given'[o] = given[o]
    /\ \A o \in Objects : KnownAfter(rows'[o], o)
    /\ \A row : \A o \in Objects :
          Known(row, rows[o], given[o], o \in reissued) => KnownAfter(row, o)

LEMMA PutGoesOn ==
    ASSUME ProjectTypeOK, RowsAreGiven, NEW after \in [Objects -> MayRow], Put(after)
    PROVE  Onward
<1>1. /\ rows \in [Objects -> MayRow] /\ given \in [Objects -> Nat] /\ reissued \subseteq Objects
      /\ rows' = after
      /\ given' = [o \in Objects |-> IF after[o] # None /\ after[o].rev > given[o]
                                     THEN after[o].rev ELSE given[o]]
      /\ reissued' = reissued \cup
            {o \in Objects : after[o] \notin {None, rows[o]} /\ after[o].rev <= given[o]}
  BY DEF ProjectTypeOK, Put
<1>2. ASSUME NEW o \in Objects
      PROVE  /\ given[o] \in Nat /\ given'[o] \in Nat /\ given[o] <= given'[o]
             /\ after[o] # None => after[o].rev \in 0..given'[o]
             /\ after[o] = None => given'[o] = given[o]
             /\ after[o] \notin {None, rows[o]} => o \in reissued' \/ after[o].rev > given[o]
             /\ o \in reissued => o \in reissued'
  <2>1. after[o] # None => after[o] \in Row /\ after[o].rev \in Nat
    BY DEF MayRow, Row
  <2>2. given[o] \in Nat /\ given'[o] = IF after[o] # None /\ after[o].rev > given[o]
                                       THEN after[o].rev ELSE given[o]
    BY <1>1
  <2>3. o \in reissued => o \in reissued'
    BY <1>1
  <2>4. after[o] \notin {None, rows[o]} => o \in reissued' \/ ~(after[o].rev <= given[o])
    BY <1>1
  <2> QED BY <2>1, <2>2, <2>3, <2>4
<1>3. given' \in [Objects -> Nat] /\ reissued' \subseteq Objects
  BY <1>1, <1>2
<1>4. \A o \in Objects : rows'[o] # None => rows'[o].rev \in 0..given'[o]
  BY <1>1, <1>2
<1>5. ASSUME NEW row, NEW o \in Objects, Known(row, rows[o], given[o], o \in reissued)
      PROVE  KnownAfter(row, o)
  <2>1. CASE row = None
    BY <2>1 DEF KnownAfter, Known
  <2>2. CASE row # None
    <3>1. row.rev \in 0..given'[o]
      BY <1>2, <1>5, <2>2 DEF Known
    <3>2. \/ o \in reissued' \/ rows'[o] = None \/ rows'[o] = row \/ rows'[o].rev > row.rev
      <4>1. CASE after[o] = rows[o]
        BY <1>1, <1>2, <1>5, <2>2, <4>1 DEF Known
      <4>2. CASE after[o] # None /\ after[o] # rows[o] /\ o \notin reissued'
        <5>1. after[o].rev > given[o] /\ after[o].rev \in Nat /\ row.rev \in 0..given[o]
          BY <1>2, <1>5, <2>2, <4>2 DEF Known
        <5> QED BY <1>1, <1>2, <5>1
      <4> QED BY <1>1, <4>1, <4>2
    <3> QED BY <3>1, <3>2 DEF KnownAfter, Known
  <2> QED BY <2>1, <2>2
<1>6. \A o \in Objects : KnownAfter(rows'[o], o)
  BY <1>4 DEF KnownAfter, Known
<1> QED BY <1>1, <1>2, <1>3, <1>4, <1>5, <1>6 DEF Onward, RowsAreGiven

LEMMA StayingGoesOn ==
    ASSUME ProjectTypeOK, RowsAreGiven, UNCHANGED <<rows, given, reissued>>
    PROVE  Onward
BY DEF ProjectTypeOK, RowsAreGiven, Onward, KnownAfter, Known

LEMMA WrittenTyped ==
    ASSUME NEW w \in Write
    PROVE  Written(w) \in MayRow
BY NoneIsNoRow DEF Write, Written, MayRow, Row

\* The project thread serves the save: the rows change only where a commit is
\* on its way back.
LEMMA ServeSaveKeeps ==
    ASSUME EditorInv, ServeSave
    PROVE  /\ EditingTypeOK' /\ ProjectTypeOK' /\ SaveInv'
           /\ \A o \in Objects : rows'[o] # rows[o] =>
                 active_save # None /\ o \in active_save.objects /\ Replaced(o)
<1> DEFINE save == Head(requests)
           objects == active_save.objects
           n == Len(results) + 1
<1>1. /\ EditingTypeOK /\ ProjectTypeOK /\ OneSave /\ SavingEntries /\ BasesMeet /\ RowsReadMeet
      /\ UndrawnAreUnused
  BY DEF EditorInv, SaveInv
<1>2. /\ requests # <<>> /\ IsSave(save) /\ requests' = Tail(requests)
      /\ UNCHANGED <<entries, active_save, undo, redo, drag, dropped, edits, drawn, pending, answer,
                     next_save, shown, desired>>
  BY DEF ServeSave, Serve, Thread, IsSave, editingVars, channelVars, windowVars
<1>3. /\ Waiting(save) /\ NoResult /\ answer = None /\ pending = None /\ NoRequest'
      /\ objects \in SUBSET Objects
      /\ save.writes \in Some(Write) /\ save.id \in Nat
      /\ \A o \in objects :
            /\ entries[o] # None /\ Meets(entries[o].base, o)
            /\ Matches(o, save.writes[o]) => Replaced(o)
            /\ others = 0 => Matches(o, save.writes[o])
  BY <1>1, <1>2, ServedSave DEF NoRequest
<1>4. /\ active_save # None /\ save.id = active_save.id /\ DOMAIN save.writes = objects
      /\ \A o \in objects : save.writes[o] = WriteOf(entries[o]) /\ save.writes[o] \in Write
  BY <1>3, SomeIs DEF Waiting
<1>5. PICK out \in ObjectSaveOutcome :
         /\ results' = Append(results, [kind |-> "Save", id |-> save.id, outcome |-> out])
         /\ Onward /\ others' = others
         /\ \/ /\ out.kind = "Committed" /\ DOMAIN out.rows = objects
               /\ \A o \in objects : /\ Matches(o, save.writes[o])
                                     /\ out.rows[o] = Written(save.writes[o])
                                     /\ rows'[o] = out.rows[o]
               /\ \A o \in Objects \ objects : rows'[o] = rows[o]
            \/ /\ out.kind \in {"Conflict", "Failed"} /\ rows' = rows
               /\ out.kind = "Conflict" => out.object \in Objects /\ out.actual = rows[out.object]
  <2> DEFINE Goal(out) ==
         /\ results' = Append(results, [kind |-> "Save", id |-> save.id, outcome |-> out])
         /\ Onward /\ others' = others
         /\ \/ /\ out.kind = "Committed" /\ DOMAIN out.rows = objects
               /\ \A o \in objects : /\ Matches(o, save.writes[o])
                                     /\ out.rows[o] = Written(save.writes[o])
                                     /\ rows'[o] = out.rows[o]
               /\ \A o \in Objects \ objects : rows'[o] = rows[o]
            \/ /\ out.kind \in {"Conflict", "Failed"} /\ rows' = rows
               /\ out.kind = "Conflict" => out.object \in Objects /\ out.actual = rows[out.object]
  <2>1. rows \in [Objects -> MayRow] /\ RowsAreGiven
    BY <1>1 DEF ProjectTypeOK, EditorInv, SaveInv
  <2>2. CASE /\ Apply(save.writes)
             /\ results' = Append(results, [kind |-> "Save", id |-> save.id,
                                            outcome |-> Outcome(save.writes)])
    <3>1. CASE Missed(save.writes) = {}
      <4> DEFINE out == [kind |-> "Committed",
                         rows |-> [o \in DOMAIN save.writes |-> Written(save.writes[o])]]
      <4>1. out = Outcome(save.writes)
        BY <3>1 DEF Outcome
      <4>2. \A o \in objects : Written(save.writes[o]) \in MayRow
        BY <1>4, WrittenTyped
      <4>3. out.rows \in [objects -> MayRow]
        BY <1>4, <4>2
      <4>4. out \in ObjectSaveOutcome
        BY <1>3, <4>3, SomeOf DEF ObjectSaveOutcome
      <4> DEFINE after == [o \in Objects |-> IF o \in objects THEN Written(save.writes[o])
                                             ELSE rows[o]]
      <4>5. Put(after) /\ others' = others /\ rows' = after
        BY <1>4, <2>2, <3>1 DEF Apply, Put
      <4>6. Onward
        <5>1. after \in [Objects -> MayRow]
          BY <2>1, <4>2
        <5> QED BY <1>1, <2>1, <4>5, <5>1, PutGoesOn
      <4>7. \A o \in objects : Matches(o, save.writes[o])
        BY <1>4, <3>1 DEF Missed
      <4>8. \A o \in objects : out.rows[o] = Written(save.writes[o]) /\ rows'[o] = out.rows[o]
        BY <1>3, <1>4, <4>5
      <4>9. DOMAIN out.rows = objects /\ \A o \in Objects \ objects : rows'[o] = rows[o]
        BY <1>4, <4>5
      <4>10. Goal(out)
        BY <2>2, <4>1, <4>5, <4>6, <4>7, <4>8, <4>9
      <4> QED BY <4>4, <4>10
    <3>2. CASE Missed(save.writes) # {}
      <4> DEFINE o == First(Missed(save.writes))
                 out == [kind |-> "Conflict", object |-> o, actual |-> rows[o]]
      <4>1. out = Outcome(save.writes) /\ rows' = rows /\ others' = others /\ Onward
        BY <1>1, <2>1, <2>2, <3>2, StayingGoesOn DEF Outcome, Apply, sourceVars
      <4>2. Missed(save.writes) \in SUBSET Objects
        BY <1>3, <1>4 DEF Missed
      <4>3. o \in Objects
        BY <3>2, <4>2, FirstOfSome
      <4>4. out \in ObjectSaveOutcome
        BY <2>1, <4>3 DEF ObjectSaveOutcome
      <4>5. Goal(out)
        BY <2>1, <2>2, <4>1, <4>3
      <4> QED BY <4>4, <4>5
    <3> QED BY <3>1, <3>2
  <2>3. CASE /\ UNCHANGED sourceVars
             /\ results' = Append(results, [kind |-> "Save", id |-> save.id,
                                            outcome |-> [kind |-> "Failed"]])
    <3>1. [kind |-> "Failed"] \in ObjectSaveOutcome
      BY DEF ObjectSaveOutcome
    <3>2. Goal([kind |-> "Failed"])
      BY <1>1, <2>1, <2>3, StayingGoesOn DEF sourceVars
    <3> QED BY <3>1, <3>2
  <2>4. \E out \in ObjectSaveOutcome : Goal(out)
    BY <2>2, <2>3 DEF ServeSave
  <2> QED BY <2>4
<1> DEFINE m == [kind |-> "Save", id |-> save.id, outcome |-> out]
<1>6. m \in StoreAnswer
  BY <1>3, <1>5 DEF StoreAnswer
<1>7. results \in Seq(StoreAnswer)
  BY <1>1 DEF ProjectTypeOK
<1>8. /\ results' \in Seq(StoreAnswer) /\ DOMAIN results' = DOMAIN results \cup {n}
      /\ n \notin DOMAIN results /\ n \in Nat /\ n > 0
      /\ \A i \in DOMAIN results : i < n /\ results'[i] = results[i]
      /\ results'[n] = m
  BY <1>5, <1>6, <1>7, Appended
<1>9. IsSave(m) /\ \A i \in DOMAIN results' : IsSave(results'[i]) => i = n
  BY <1>3, <1>8 DEF NoResult, IsSave
<1>10. \A o \in Objects : rows'[o] = rows[o] \/ (o \in objects /\ Commits(m, o))
  BY <1>5 DEF Commits
<1>11. \A o, k : ~Promised(o, k) /\ ~Committed(o)
  BY <1>3 DEF Promised, Committed, NoResult
<1>12. ASSUME NEW o \in Objects, NEW row, Meets(row, o), NEW k \in Nat, k < n
       PROVE  MeetsAfter(row, o) \/ PromisedAfter(o, k)
  <2>1. CASE rows'[o] = rows[o]
    BY <1>5, <1>12, <2>1 DEF Meets, MeetsAfter, Onward
  <2>2. CASE Commits(m, o)
    BY <1>8, <1>9, <1>12, <2>2 DEF PromisedAfter
  <2> QED BY <1>10, <2>1, <2>2
<1>13. EditingTypeOK'
  BY <1>1, <1>2 DEF EditingTypeOK
<1>14. ProjectTypeOK'
  <2>1. requests' \in Seq(StoreRequest)
    BY <1>1, <1>2, Drained DEF ProjectTypeOK
  <2> QED BY <1>1, <1>2, <1>5, <1>8, <2>1 DEF ProjectTypeOK, Onward
<1>15. OneSave'
  <2>1. AnsweredAfter(m)
    <3>1. active_save' # None /\ m.id = active_save'.id /\ active_save' = active_save
      BY <1>2, <1>4
    <3>2. CASE out.kind = "Committed"
      <4>1. ASSUME NEW o \in objects
            PROVE  MeetsAfter(out.rows[o], o) /\ Made(out.rows[o]) = Made(entries[o].current)
        <5>1. rows'[o] = out.rows[o] /\ out.rows[o] = Written(save.writes[o])
          BY <1>5, <3>2
        <5>2. MeetsAfter(out.rows[o], o)
          BY <1>3, <1>5, <5>1 DEF MeetsAfter, Onward
        <5>3. save.writes[o] = WriteOf(entries[o]) /\ save.writes[o] \in Write
          BY <1>4
        <5>4. save.writes[o].to = entries[o].current
          BY <5>3 DEF WriteOf
        <5>5. Made(Written(save.writes[o])) = Made(entries[o].current)
          BY <5>3, <5>4, NoneIsNoRow DEF Made, Written, Write, MayRow, Row
        <5> QED BY <5>1, <5>2, <5>5
      <4>2. DOMAIN out.rows = objects
        BY <1>5, <3>2
      <4> QED BY <1>2, <3>1, <3>2, <4>1, <4>2 DEF AnsweredAfter
    <3>3. CASE out.kind # "Committed"
      <4>1. out.kind = "Conflict" => MeetsAfter(out.actual, out.object)
        BY <1>5, <3>3 DEF MeetsAfter, Onward
      <4> QED BY <3>1, <3>3, <4>1 DEF AnsweredAfter
    <3> QED BY <3>2, <3>3
  <2>2. pending' = None /\ answer' = None /\ NoRequest'
    BY <1>2, <1>3
  <2>3. \A i \in DOMAIN results' : IsSave(results'[i]) => i = n /\ results'[i] = m
    BY <1>8, <1>9
  <2>4. \A i \in DOMAIN results' : IsSave(results'[i]) =>
           /\ Answered(results[i])' /\ pending' = None /\ NoRequest' /\ answer' = None
           /\ \A j \in DOMAIN results' : IsSave(results'[j]) => j = i
    BY <2>1, <2>2, <2>3, AfterAnswers
  <2> QED BY <2>2, <2>4 DEF OneSave, NoRequest
<1>16. SavingEntries'
  BY <1>1, <1>2 DEF SavingEntries
<1>17. BasesMeet'
  <2> SUFFICES ASSUME NEW o \in Objects, entries[o] # None
               PROVE  /\ MeetsAfter(entries[o].base, o) \/ CommittedAfter(o)
                      /\ entries[o].save.kind = "Conflict" => MeetsAfter(entries[o].save.actual, o)
    BY <1>2, After
  <2>1. Meets(entries[o].base, o)
    BY <1>1, <1>11 DEF BasesMeet
  <2>2. MeetsAfter(entries[o].base, o) \/ PromisedAfter(o, 0)
    BY <1>8, <1>12, <2>1
  <2>3. ASSUME entries[o].save.kind = "Conflict" PROVE MeetsAfter(entries[o].save.actual, o)
    <3>1. o \notin objects
      BY <1>1, <1>4, <2>3 DEF SavingEntries
    <3>2. rows'[o] = rows[o] /\ Meets(entries[o].save.actual, o)
      BY <1>1, <1>10, <2>3, <3>1 DEF BasesMeet
    <3> QED BY <1>5, <3>2 DEF Meets, MeetsAfter, Onward
  <2> QED BY <2>2, <2>3 DEF CommittedAfter
<1>18. RowsReadMeet'
  <2>1. ASSUME NEW o \in DOMAIN shown PROVE MeetsAfter(shown[o], o) \/ PromisedAfter(o, 0)
    <3>1. o \in Objects
      BY <1>1, SomeIs DEF ProjectTypeOK
    <3>2. Meets(shown[o], o)
      BY <1>1, <1>11 DEF RowsReadMeet
    <3> QED BY <1>8, <1>12, <3>1, <3>2
  <2>2. ASSUME NEW i \in DOMAIN results', results'[i].kind = "Query", results'[i].ok,
               NEW o \in DOMAIN results'[i].rows
        PROVE  MeetsAfter(results'[i].rows[o], o) \/ PromisedAfter(o, i)
    <3>1. i \in DOMAIN results /\ results'[i] = results[i] /\ i \in Nat /\ i < n
      BY <1>7, <1>8, <1>9, <2>2 DEF IsSave
    <3>2. results[i] \in StoreAnswer
      BY <1>7, <3>1
    <3>3. results[i].rows \in Some(Row)
      BY <2>2, <3>1, <3>2 DEF StoreAnswer
    <3>4. o \in Objects /\ Meets(results[i].rows[o], o)
      BY <1>1, <1>11, <2>2, <3>1, <3>3, SomeIs DEF RowsReadMeet
    <3>5. MeetsAfter(results[i].rows[o], o) \/ PromisedAfter(o, i)
      BY <1>12, <3>1, <3>4
    <3> QED BY <3>1, <3>5
  <2> QED BY <1>2, <2>1, <2>2, After
<1>19. UndrawnAreUnused'
  <2> SUFFICES ASSUME NEW o \in Fresh \ drawn
               PROVE  /\ rows'[o] = None /\ given'[o] = 0 /\ entries[o] = None
                      /\ o \notin DOMAIN shown
                      /\ \A i \in DOMAIN results' : results'[i].kind = "Query" /\ results'[i].ok =>
                            o \notin DOMAIN results'[i].rows
    BY <1>2 DEF UndrawnAreUnused
  <2>1. /\ o \in Objects /\ entries[o] = None /\ rows[o] = None /\ given[o] = 0
        /\ o \notin objects
    BY <1>1, <1>3 DEF UndrawnAreUnused, Objects
  <2>2. rows'[o] = None /\ given'[o] = 0
    BY <1>5, <1>10, <2>1 DEF Onward
  <2> QED BY <1>1, <1>8, <1>9, <2>1, <2>2 DEF UndrawnAreUnused, IsSave
<1>20. \A o \in Objects : rows'[o] # rows[o] =>
         active_save # None /\ o \in objects /\ Replaced(o)
  BY <1>3, <1>4, <1>5
<1>21. RowsAreGiven'
  BY <1>5 DEF Onward
<1> QED BY <1>13, <1>14, <1>15, <1>16, <1>17, <1>18, <1>19, <1>20, <1>21 DEF SaveInv

\* The answer to a save settles the entries that waited for it.
LEMMA CompleteKeeps ==
    ASSUME EditorInv, CompleteSave
    PROVE  /\ EditingTypeOK' /\ ProjectTypeOK' /\ SaveInv' /\ active_save' = None
           /\ \A o \in Objects : entries[o] # None =>
                 entries'[o] # None /\ Made(entries'[o].current) = Made(entries[o].current)
<1> DEFINE out == answer.outcome
           objects == active_save.objects
<1>1. /\ EditingTypeOK /\ ProjectTypeOK /\ OneSave /\ SavingEntries /\ BasesMeet /\ RowsReadMeet
      /\ UndrawnAreUnused
  BY DEF EditorInv, SaveInv
<1>2. /\ answer # None /\ Answered(answer) /\ pending = None /\ NoRequest /\ NoResult
      /\ answer \in SaveAnswer
  BY <1>1 DEF CompleteSave, OneSave, ProjectTypeOK
<1>3. /\ active_save # None /\ active_save.id = answer.id /\ objects \in SUBSET Objects
      /\ out \in ObjectSaveOutcome
      /\ \A o \in objects : entries[o] # None
  BY <1>1, <1>2 DEF Answered, EditingTypeOK, ActiveSave, SavingEntries, SaveAnswer
<1>4. /\ entries' = Saved(out) /\ active_save' = None /\ answer' = None
      /\ UNCHANGED <<undo, redo, drag, dropped, edits, drawn, rows, given, reissued, others, requests, results, pending,
                     next_save, shown, desired>>
  BY <1>3 DEF CompleteSave, FinishSave, Save, sourceVars, threadVars, windowVars
<1>5. /\ \A row, o : MeetsAfter(row, o) <=> Meets(row, o)
      /\ \A o, k : ~Promised(o, k) /\ ~PromisedAfter(o, k)
  BY <1>2, <1>4 DEF Meets, MeetsAfter, KnownAfter, Promised, PromisedAfter, NoResult
<1>6. ASSUME NEW o \in Objects, entries[o] # None
      PROVE  /\ entries'[o] \in Entry /\ entries'[o] # None
             /\ Made(entries'[o].current) = Made(entries[o].current)
             /\ MeetsAfter(entries'[o].base, o)
             /\ entries'[o].save.kind = "Conflict" => MeetsAfter(entries'[o].save.actual, o)
  <2>1. entries[o] \in Entry /\ o \in Tracked
    BY <1>1, <1>6, EntryIs DEF Tracked
  <2>2. entries[o].save.kind = "Conflict" => Meets(entries[o].save.actual, o)
    BY <1>1, <1>6 DEF BasesMeet
  <2>3. /\ Idle \in SaveState /\ Idle.kind = "Idle"
        /\ \A kind \in {"Saved", "Failed"} : Now(kind) \in SaveState /\ Now(kind).kind = kind
    BY DEF Idle, Now, SaveState, MayRow
  <2>4. CASE out.kind = "Committed" /\ o \in DOMAIN out.rows
    <3>1. /\ o \in objects /\ Meets(out.rows[o], o)
          /\ Made(out.rows[o]) = Made(entries[o].current)
      BY <1>2, <2>4 DEF Answered
    <3>2. out.rows \in Some(MayRow)
      BY <1>3, <2>4 DEF ObjectSaveOutcome
    <3>3. out.rows[o] \in MayRow
      BY <2>4, <3>2, SomeIs
    <3>4. entries'[o] = [entries[o] EXCEPT !.base = out.rows[o], !.current = out.rows[o],
                                           !.save = Now("Saved")]
      BY <1>4, <2>1, <2>4 DEF Saved
    <3>5. /\ entries'[o] \in Entry /\ entries'[o].base = out.rows[o]
          /\ entries'[o].current = out.rows[o] /\ entries'[o].save = Now("Saved")
      BY <2>1, <2>3, <3>3, <3>4 DEF Entry
    <3> QED BY <1>5, <2>3, <3>1, <3>5, NoneIsNoRow
  <2>5. ASSUME ~(out.kind = "Committed" /\ o \in DOMAIN out.rows)
        PROVE  Meets(entries[o].base, o)
    <3>1. ~Committed(o)
      BY <1>5, <2>5 DEF Committed, Commits
    <3> QED BY <1>1, <1>6, <3>1 DEF BasesMeet
  <2>6. CASE out.kind = "Conflict" /\ o \in objects
    <3> DEFINE save == IF o = out.object THEN [kind |-> "Conflict", actual |-> out.actual]
                       ELSE Idle
    <3>1. out.actual \in MayRow /\ Meets(out.actual, out.object)
      BY <1>2, <1>3, <2>6 DEF Answered, ObjectSaveOutcome
    <3>2. entries'[o] = [entries[o] EXCEPT !.save = save]
      BY <1>4, <2>6 DEF Saved
    <3>3. save \in SaveState /\ (save.kind = "Conflict" => Meets(save.actual, o))
      BY <2>3, <3>1 DEF SaveState
    <3>4. /\ entries'[o] \in Entry /\ entries'[o].base = entries[o].base
          /\ entries'[o].current = entries[o].current /\ entries'[o].save = save
      BY <2>1, <3>2, <3>3 DEF Entry
    <3> QED BY <1>5, <2>5, <2>6, <3>3, <3>4, NoneIsNoRow
  <2>7. CASE out.kind = "Failed" /\ o \in objects
    <3>1. entries'[o] = [entries[o] EXCEPT !.save = Now("Failed")]
      BY <1>4, <2>7 DEF Saved
    <3>2. /\ entries'[o] \in Entry /\ entries'[o].base = entries[o].base
          /\ entries'[o].current = entries[o].current /\ entries'[o].save = Now("Failed")
      BY <2>1, <2>3, <3>1 DEF Entry
    <3> QED BY <1>5, <2>3, <2>5, <2>7, <3>2, NoneIsNoRow
  <2>8. CASE /\ ~(out.kind = "Committed" /\ o \in DOMAIN out.rows)
             /\ ~(out.kind = "Conflict" /\ o \in objects)
             /\ ~(out.kind = "Failed" /\ o \in objects)
    <3>1. entries'[o] = entries[o]
      BY <1>4, <2>8 DEF Saved
    <3> QED BY <1>5, <1>6, <2>1, <2>2, <2>5, <2>8, <3>1
  <2> QED BY <2>4, <2>6, <2>7, <2>8
<1>7. \A o \in Objects : entries[o] = None => entries'[o] = None
  <2> SUFFICES ASSUME NEW o \in Objects, entries[o] = None PROVE entries'[o] = None
    OBVIOUS
  <2>1. o \notin objects /\ o \notin Tracked
    BY <1>3 DEF Tracked
  <2> QED BY <1>4, <2>1 DEF Saved
<1>8. EditingTypeOK'
  <2>1. entries' \in [Objects -> Entry \cup {None}]
    <3>1. \A o \in Objects : entries'[o] \in Entry \cup {None}
      BY <1>6, <1>7
    <3> QED BY <1>4, <3>1 DEF Saved
  <2> QED BY <1>1, <1>4, <2>1 DEF EditingTypeOK
<1>9. ProjectTypeOK'
  BY <1>1, <1>4 DEF ProjectTypeOK
<1>10. OneSave'
  BY <1>2, <1>4 DEF OneSave, NoRequest, NoResult
<1>11. SavingEntries'
  BY <1>4 DEF SavingEntries
<1>12. BasesMeet'
  BY <1>6, <1>7, After
<1>13. RowsReadMeet'
  BY <1>1, <1>4, <1>5, After DEF RowsReadMeet
<1>14. UndrawnAreUnused'
  BY <1>1, <1>4, <1>7 DEF UndrawnAreUnused, Objects
<1> QED BY <1>4, <1>6, <1>8, <1>9, <1>10, <1>11, <1>12, <1>13, <1>14, RowsStayGiven DEF SaveInv

\* The store passes the result on, and forgets the rows it read before.
LEMMA ReceiveSaveKeeps ==
    ASSUME EditorInv, ReceiveSave
    PROVE  EditingTypeOK' /\ ProjectTypeOK' /\ SaveInv'
<1> DEFINE save == Head(results)
<1>1. /\ EditingTypeOK /\ ProjectTypeOK /\ OneSave /\ SavingEntries /\ BasesMeet /\ RowsReadMeet
      /\ UndrawnAreUnused
  BY DEF EditorInv, SaveInv
<1>2. /\ results # <<>> /\ IsSave(save) /\ results' = Tail(results)
      /\ answer' = [id |-> save.id, outcome |-> save.outcome]
      /\ IF save.outcome.kind = "Committed" THEN shown' = <<>> ELSE shown' = shown
      /\ UNCHANGED <<entries, active_save, undo, redo, drag, dropped, edits, drawn, rows, given, reissued, others, requests,
                     pending, next_save, desired>>
  BY DEF ReceiveSave, Receive, Store, IsSave, editingVars, sourceVars
<1>3. results \in Seq(StoreAnswer)
  BY <1>1 DEF ProjectTypeOK
<1>4. /\ Tail(results) \in Seq(StoreAnswer) /\ save = results[1] /\ save \in StoreAnswer
      /\ 1 \in DOMAIN results
      /\ \A i \in DOMAIN results' :
            i \in Nat /\ i > 0 /\ i + 1 \in DOMAIN results /\ results'[i] = results[i + 1]
  BY <1>2, <1>3, Drained
<1>5. /\ Answered(save) /\ pending = None /\ NoRequest /\ answer = None
      /\ \A j \in DOMAIN results : IsSave(results[j]) => j = 1
  BY <1>1, <1>2, <1>4 DEF OneSave
<1>6. \A i \in DOMAIN results' : ~IsSave(results'[i])
  <2> SUFFICES ASSUME NEW i \in DOMAIN results' PROVE ~IsSave(results'[i])
    OBVIOUS
  <2>1. i \in Nat /\ i > 0 /\ i + 1 \in DOMAIN results /\ results'[i] = results[i + 1]
    BY <1>4
  <2>2. i + 1 # 1
    BY <2>1
  <2> QED BY <1>5, <2>1, <2>2
<1>7. save.id \in Nat /\ save.outcome \in ObjectSaveOutcome
  BY <1>2, <1>4 DEF StoreAnswer, IsSave
<1>8. \A row, o : MeetsAfter(row, o) <=> Meets(row, o)
  BY <1>2 DEF Meets, MeetsAfter, KnownAfter
<1>9. AnsweredAfter(answer')
  BY <1>2, <1>5, <1>8 DEF Answered, AnsweredAfter
<1>10. \A o, k : Promised(o, k) => Commits(save, o) /\ (k \in Nat => k = 0)
  BY <1>3, <1>4, <1>5 DEF Promised
<1>11. \A o : Committed(o) => Commits(answer', o)
  BY <1>2, <1>5, <1>10 DEF Committed, Commits
<1>12. answer' \in SaveAnswer
  BY <1>2, <1>7 DEF SaveAnswer
<1>13. EditingTypeOK'
  BY <1>1, <1>2 DEF EditingTypeOK
<1>14. ProjectTypeOK'
  <2>1. <<>> \in Some(Row)
    <3>1. <<>> \in [{} -> Row] /\ {} \in SUBSET Objects
      OBVIOUS
    <3> QED BY <3>1, SomeOf
  <2>2. shown' \in Some(Row)
    BY <1>1, <1>2, <2>1 DEF ProjectTypeOK
  <2> QED BY <1>1, <1>2, <1>4, <1>12, <2>2 DEF ProjectTypeOK
<1>15. OneSave'
  BY <1>2, <1>5, <1>6, <1>9, AfterAnswers DEF OneSave, NoRequest, NoResult
<1>16. SavingEntries'
  BY <1>1, <1>2 DEF SavingEntries
<1>17. BasesMeet'
  <2>1. answer' # None
    BY <1>12, NoneIsNoRow
  <2>2. \A o : Committed(o) => CommittedAfter(o)
    BY <1>11, <2>1 DEF CommittedAfter
  <2> QED BY <1>1, <1>2, <1>8, <2>2, After DEF BasesMeet
<1>18. RowsReadMeet'
  <2>1. ASSUME NEW o \in DOMAIN shown' PROVE MeetsAfter(shown'[o], o)
    <3>1. save.outcome.kind # "Committed" /\ shown' = shown
      BY <1>2, <2>1
    <3> QED BY <1>1, <1>8, <1>10, <2>1, <3>1 DEF RowsReadMeet, Commits
  <2>2. ASSUME NEW i \in DOMAIN results', results'[i].kind = "Query", results'[i].ok,
               NEW o \in DOMAIN results'[i].rows
        PROVE  MeetsAfter(results'[i].rows[o], o)
    <3>1. i + 1 \in DOMAIN results /\ results'[i] = results[i + 1] /\ i + 1 \in Nat /\ i + 1 # 0
      BY <1>4
    <3>2. Meets(results[i + 1].rows[o], o)
      BY <1>1, <1>10, <2>2, <3>1 DEF RowsReadMeet
    <3> QED BY <1>8, <3>1, <3>2
  <2> QED BY <2>1, <2>2, After
<1>19. UndrawnAreUnused'
  BY <1>1, <1>2, <1>4 DEF UndrawnAreUnused
<1> QED BY <1>2, <1>13, <1>14, <1>15, <1>16, <1>17, <1>18, <1>19, RowsStayGiven DEF SaveInv

-----------------------------------------------------------------------------
(* The store's other messages.                                             *)

\* An answer of another kind is taken: what was promised after it is promised
\* still.
LEMMA DrainKeeps ==
    ASSUME EditorInv, results # <<>>, ~IsSave(Head(results)), results' = Tail(results),
           \/ shown' = shown
           \/ /\ Head(results).kind = "Query" /\ Head(results).ok
              /\ shown' = Head(results).rows,
           UNCHANGED <<editingVars, rows, given, reissued, others, requests, pending, answer, next_save, desired>>
    PROVE  EditingTypeOK' /\ ProjectTypeOK' /\ SaveInv'
<1> DEFINE first == Head(results)
<1>1. /\ EditingTypeOK /\ ProjectTypeOK /\ OneSave /\ SavingEntries /\ BasesMeet /\ RowsReadMeet
      /\ UndrawnAreUnused
  BY DEF EditorInv, SaveInv
<1>2. /\ UNCHANGED <<entries, active_save, undo, redo, drag, dropped, edits, drawn>>
      /\ results \in Seq(StoreAnswer)
  BY <1>1 DEF editingVars, ProjectTypeOK
<1>3. /\ results' \in Seq(StoreAnswer) /\ first = results[1] /\ first \in StoreAnswer
      /\ 1 \in DOMAIN results
      /\ \A i \in DOMAIN results' :
            i \in Nat /\ i > 0 /\ i + 1 \in DOMAIN results /\ results'[i] = results[i + 1]
      /\ \A j \in DOMAIN results : j # 1 =>
            j \in Nat /\ j > 1 /\ j - 1 \in DOMAIN results' /\ results'[j - 1] = results[j]
  BY <1>2, Drained
<1>4. ASSUME NEW i \in DOMAIN results PROVE i \in Nat /\ i > 0
  BY <1>2
<1>5. ASSUME NEW o, NEW k \in Nat, Promised(o, k + 1) PROVE PromisedAfter(o, k)
  <2>1. PICK i \in DOMAIN results : i > k + 1 /\ IsSave(results[i]) /\ Commits(results[i], o)
    BY <1>5 DEF Promised
  <2>2. i \in Nat /\ i # 1 /\ i - 1 > k
    BY <1>4, <2>1
  <2>3. i - 1 \in DOMAIN results' /\ results'[i - 1] = results[i]
    BY <1>3, <2>2
  <2> QED BY <2>1, <2>2, <2>3 DEF PromisedAfter
<1>6. ASSUME NEW o, Promised(o, 0) PROVE PromisedAfter(o, 0)
  <2>1. PICK i \in DOMAIN results : i > 0 /\ IsSave(results[i]) /\ Commits(results[i], o)
    BY <1>6 DEF Promised
  <2>2. i # 1
    BY <1>3, <2>1
  <2>3. i \in Nat /\ i > 0 + 1
    BY <1>4, <2>2
  <2>4. Promised(o, 0 + 1)
    BY <2>1, <2>3 DEF Promised
  <2> QED BY <1>5, <2>4
<1>7. \A row, o : MeetsAfter(row, o) <=> Meets(row, o)
  BY DEF Meets, MeetsAfter, KnownAfter
<1>8. \A o : Committed(o) => CommittedAfter(o)
  BY <1>6 DEF Committed, CommittedAfter
<1>9. \A save : Answered(save) <=> AnsweredAfter(save)
  BY <1>2, <1>7 DEF Answered, AnsweredAfter
<1>10. EditingTypeOK'
  BY <1>1, <1>2 DEF EditingTypeOK
<1>11. ProjectTypeOK'
  <2>1. first.kind = "Query" /\ first.ok => first.rows \in Some(Row)
    BY <1>3 DEF StoreAnswer
  <2> QED BY <1>1, <1>3, <2>1 DEF ProjectTypeOK
<1>12. OneSave'
  <2>1. pending' # None => Waiting(pending)' /\ NoRequest' /\ NoResult' /\ answer' = None
    BY <1>1, <1>2, <1>3 DEF OneSave, Waiting, NoRequest, NoResult
  <2>2. ASSUME NEW i \in DOMAIN requests', IsSave(requests'[i])
        PROVE  /\ Waiting(requests[i])' /\ pending' = None /\ NoResult' /\ answer' = None
               /\ \A j \in DOMAIN requests' : IsSave(requests'[j]) => j = i
    BY <1>1, <1>2, <1>3, <2>2 DEF OneSave, Waiting, NoResult
  <2>3. ASSUME NEW i \in DOMAIN results', IsSave(results'[i])
        PROVE  /\ AnsweredAfter(results'[i]) /\ pending' = None /\ NoRequest' /\ answer' = None
               /\ \A j \in DOMAIN results' : IsSave(results'[j]) => j = i
    <3>1. i + 1 \in DOMAIN results /\ IsSave(results[i + 1]) /\ results'[i] = results[i + 1]
      BY <1>3, <2>3
    <3>2. /\ Answered(results[i + 1]) /\ pending = None /\ NoRequest /\ answer = None
          /\ \A j \in DOMAIN results : IsSave(results[j]) => j = i + 1
      BY <1>1, <3>1 DEF OneSave
    <3>3. ASSUME NEW j \in DOMAIN results', IsSave(results'[j]) PROVE j = i
      <4>1. j + 1 \in DOMAIN results /\ IsSave(results[j + 1]) /\ j \in Nat /\ i \in Nat
        BY <1>3, <3>3
      <4>2. j + 1 = i + 1
        BY <3>2, <4>1
      <4> QED BY <4>1, <4>2
    <3> QED BY <1>9, <3>1, <3>2, <3>3 DEF NoRequest
  <2>4. answer' # None =>
          AnsweredAfter(answer') /\ pending' = None /\ NoRequest' /\ NoResult'
    BY <1>1, <1>3, <1>9 DEF OneSave, NoRequest, NoResult
  <2> QED BY <2>1, <2>2, <2>3, <2>4, AfterAnswers DEF OneSave
<1>13. SavingEntries'
  BY <1>1, <1>2 DEF SavingEntries
<1>14. BasesMeet'
  BY <1>1, <1>2, <1>7, <1>8, After DEF BasesMeet
<1>15. RowsReadMeet'
  <2>1. ASSUME NEW o \in DOMAIN shown'
        PROVE  MeetsAfter(shown'[o], o) \/ PromisedAfter(o, 0)
    <3>1. CASE shown' = shown
      BY <1>1, <1>6, <1>7, <2>1, <3>1 DEF RowsReadMeet
    <3>2. CASE first.kind = "Query" /\ first.ok /\ shown' = first.rows
      <4>1. Meets(shown'[o], o) \/ Promised(o, 1)
        BY <1>1, <1>3, <2>1, <3>2 DEF RowsReadMeet
      <4>2. Promised(o, 0 + 1) <=> Promised(o, 1)
        OBVIOUS
      <4> QED BY <1>5, <1>7, <4>1, <4>2
    <3> QED BY <3>1, <3>2
  <2>2. ASSUME NEW i \in DOMAIN results', results'[i].kind = "Query", results'[i].ok,
               NEW o \in DOMAIN results'[i].rows
        PROVE  MeetsAfter(results'[i].rows[o], o) \/ PromisedAfter(o, i)
    <3>1. i \in Nat /\ i + 1 \in DOMAIN results /\ results'[i] = results[i + 1]
      BY <1>3
    <3>2. Meets(results'[i].rows[o], o) \/ Promised(o, i + 1)
      BY <1>1, <2>2, <3>1 DEF RowsReadMeet
    <3> QED BY <1>5, <1>7, <3>1, <3>2
  <2> QED BY <2>1, <2>2, After
<1>16. UndrawnAreUnused'
  BY <1>1, <1>2, <1>3 DEF UndrawnAreUnused
<1> QED BY <1>10, <1>11, <1>12, <1>13, <1>14, <1>15, <1>16, RowsStayGiven DEF SaveInv

\* What the project thread answers to anything but a save is what the project
\* has; the request it took was no save either.
LEMMA ReplyKeeps ==
    ASSUME EditorInv, NEW m \in StoreAnswer, ~IsSave(m), results' = Append(results, m),
           m.kind = "Query" /\ m.ok =>
              \A o \in DOMAIN m.rows : o \in Objects /\ rows[o] # None /\ m.rows[o] = rows[o],
           \/ requests' = requests
           \/ requests # <<>> /\ requests' = Tail(requests),
           UNCHANGED <<editingVars, rows, given, reissued, others, shown, pending, answer, next_save, desired>>
    PROVE  EditingTypeOK' /\ ProjectTypeOK' /\ SaveInv'
<1> DEFINE n == Len(results) + 1
<1>1. /\ EditingTypeOK /\ ProjectTypeOK /\ OneSave /\ SavingEntries /\ BasesMeet /\ RowsReadMeet
      /\ UndrawnAreUnused
  BY DEF EditorInv, SaveInv
<1>2. /\ UNCHANGED <<entries, active_save, undo, redo, drag, dropped, edits, drawn>>
      /\ results \in Seq(StoreAnswer) /\ requests \in Seq(StoreRequest)
  BY <1>1 DEF editingVars, ProjectTypeOK
<1>3. /\ results' \in Seq(StoreAnswer) /\ DOMAIN results' = DOMAIN results \cup {n}
      /\ n \notin DOMAIN results /\ results'[n] = m
      /\ \A i \in DOMAIN results : results'[i] = results[i]
  BY <1>2, Appended
<1>4. requests' \in Seq(StoreRequest)
  <2>1. requests # <<>> => Tail(requests) \in Seq(StoreRequest)
    BY <1>2
  <2> QED BY <1>2, <2>1
<1>5. \A i \in DOMAIN requests' : IsSave(requests'[i]) =>
         \E k \in DOMAIN requests : /\ requests[k] = requests'[i] /\ IsSave(requests[k])
                                    /\ \A j \in DOMAIN requests' : IsSave(requests'[j]) =>
                                          \E l \in DOMAIN requests : /\ IsSave(requests[l])
                                                                     /\ l = k => j = i
  <2>1. CASE requests' = requests
    BY <2>1
  <2>2. CASE requests # <<>> /\ requests' = Tail(requests)
    <3>1. \A i \in DOMAIN requests' : /\ i \in Nat /\ i + 1 \in DOMAIN requests
                                      /\ requests'[i] = requests[i + 1]
      BY <1>2, <2>2, Drained
    <3>2. ASSUME NEW i \in DOMAIN requests', NEW j \in DOMAIN requests', j + 1 = i + 1
          PROVE  j = i
      BY <3>1, <3>2
    <3> SUFFICES ASSUME NEW i \in DOMAIN requests', IsSave(requests'[i])
                 PROVE  \E k \in DOMAIN requests :
                           /\ requests[k] = requests'[i] /\ IsSave(requests[k])
                           /\ \A j \in DOMAIN requests' : IsSave(requests'[j]) =>
                                 \E l \in DOMAIN requests : /\ IsSave(requests[l])
                                                            /\ l = k => j = i
      OBVIOUS
    <3>3. /\ i + 1 \in DOMAIN requests /\ requests[i + 1] = requests'[i]
          /\ IsSave(requests[i + 1])
      BY <3>1
    <3>4. \A j \in DOMAIN requests' : IsSave(requests'[j]) =>
             /\ j + 1 \in DOMAIN requests /\ IsSave(requests[j + 1])
             /\ j + 1 = i + 1 => j = i
      BY <3>1, <3>2
    <3> QED BY <3>3, <3>4
  <2> QED BY <2>1, <2>2
<1>6. \A row, o : MeetsAfter(row, o) <=> Meets(row, o)
  BY DEF Meets, MeetsAfter, KnownAfter
<1>7. \A o, k : Promised(o, k) <=> PromisedAfter(o, k)
  BY <1>3 DEF Promised, PromisedAfter
<1>8. \A o : Committed(o) => CommittedAfter(o)
  BY <1>7 DEF Committed, CommittedAfter
<1>9. \A save : Answered(save) <=> AnsweredAfter(save)
  BY <1>2, <1>6 DEF Answered, AnsweredAfter
<1>10. \A save : Waiting(save) => Waiting(save)'
  BY <1>2 DEF Waiting
<1>11. EditingTypeOK'
  BY <1>1, <1>2 DEF EditingTypeOK
<1>12. ProjectTypeOK'
  BY <1>1, <1>3, <1>4 DEF ProjectTypeOK
<1>13. /\ NoRequest => NoRequest'
       /\ NoResult => NoResult'
  BY <1>3, <1>5 DEF NoRequest, NoResult
<1>14. OneSave'
  <2>1. pending' # None => Waiting(pending)' /\ NoRequest' /\ NoResult' /\ answer' = None
    BY <1>1, <1>2, <1>13 DEF OneSave, Waiting
  <2>2. ASSUME NEW i \in DOMAIN requests', IsSave(requests'[i])
        PROVE  /\ Waiting(requests[i])' /\ pending' = None /\ NoResult' /\ answer' = None
               /\ \A j \in DOMAIN requests' : IsSave(requests'[j]) => j = i
    <3>1. PICK k \in DOMAIN requests :
             /\ requests[k] = requests'[i] /\ IsSave(requests[k])
             /\ \A j \in DOMAIN requests' : IsSave(requests'[j]) =>
                   \E l \in DOMAIN requests : IsSave(requests[l]) /\ (l = k => j = i)
      BY <1>5, <2>2
    <3>2. /\ Waiting(requests[k]) /\ pending = None /\ NoResult /\ answer = None
          /\ \A l \in DOMAIN requests : IsSave(requests[l]) => l = k
      BY <1>1, <3>1 DEF OneSave
    <3>3. Waiting(requests[i])'
      BY <1>2, <3>1, <3>2 DEF Waiting
    <3> QED BY <1>13, <3>1, <3>2, <3>3
  <2>3. ASSUME NEW i \in DOMAIN results', IsSave(results'[i])
        PROVE  /\ AnsweredAfter(results'[i]) /\ pending' = None /\ NoRequest' /\ answer' = None
               /\ \A j \in DOMAIN results' : IsSave(results'[j]) => j = i
    <3>1. i \in DOMAIN results /\ IsSave(results[i]) /\ results'[i] = results[i]
      BY <1>3, <2>3
    <3>2. /\ Answered(results[i]) /\ pending = None /\ NoRequest /\ answer = None
          /\ \A j \in DOMAIN results : IsSave(results[j]) => j = i
      BY <1>1, <3>1 DEF OneSave
    <3> QED BY <1>3, <1>9, <1>13, <3>1, <3>2
  <2>4. answer' # None =>
          AnsweredAfter(answer') /\ pending' = None /\ NoRequest' /\ NoResult'
    BY <1>1, <1>9, <1>13 DEF OneSave
  <2> QED BY <2>1, <2>2, <2>3, <2>4, AfterAnswers DEF OneSave
<1>15. SavingEntries'
  BY <1>1, <1>2 DEF SavingEntries
<1>16. BasesMeet'
  BY <1>1, <1>2, <1>6, <1>8, After DEF BasesMeet
<1>17. RowsReadMeet'
  <2>1. \A o \in DOMAIN shown' : MeetsAfter(shown'[o], o) \/ PromisedAfter(o, 0)
    BY <1>1, <1>6, <1>7 DEF RowsReadMeet
  <2>2. ASSUME NEW i \in DOMAIN results', results'[i].kind = "Query", results'[i].ok,
               NEW o \in DOMAIN results'[i].rows
        PROVE  MeetsAfter(results'[i].rows[o], o) \/ PromisedAfter(o, i)
    <3>1. CASE i \in DOMAIN results
      BY <1>1, <1>3, <1>6, <1>7, <2>2, <3>1 DEF RowsReadMeet
    <3>2. CASE i = n
      <4>1. o \in Objects /\ rows[o] # None /\ results'[i].rows[o] = rows[o]
        BY <1>3, <2>2, <3>2
      <4>2. Meets(rows[o], o)
        BY <4>1 DEF EditorInv, SaveInv, RowsAreGiven, Meets, Known
      <4> QED BY <1>6, <4>1, <4>2
    <3> QED BY <1>3, <3>1, <3>2
  <2> QED BY <2>1, <2>2, After
<1>18. UndrawnAreUnused'
  BY <1>1, <1>2, <1>3 DEF UndrawnAreUnused, Objects
<1> QED BY <1>11, <1>12, <1>14, <1>15, <1>16, <1>17, <1>18, RowsStayGiven DEF SaveInv

\* A request is sent: another one, or the save that was pending.
LEMMA AskKeeps ==
    ASSUME EditorInv, NEW m \in StoreRequest, requests' = Append(requests, m),
           \/ ~IsSave(m) /\ pending' = pending
           \/ /\ IsSave(m) /\ pending # None /\ pending' = None
              /\ m.id = pending.id /\ m.writes = pending.writes,
           UNCHANGED <<editingVars, rows, given, reissued, others, shown, results, answer, next_save, desired>>
    PROVE  EditingTypeOK' /\ ProjectTypeOK' /\ SaveInv'
<1> DEFINE n == Len(requests) + 1
<1>1. /\ EditingTypeOK /\ ProjectTypeOK /\ OneSave /\ SavingEntries /\ BasesMeet /\ RowsReadMeet
      /\ UndrawnAreUnused
  BY DEF EditorInv, SaveInv
<1>2. /\ UNCHANGED <<entries, active_save, undo, redo, drag, dropped, edits, drawn>>
      /\ requests \in Seq(StoreRequest)
  BY <1>1 DEF editingVars, ProjectTypeOK
<1>3. /\ requests' \in Seq(StoreRequest) /\ DOMAIN requests' = DOMAIN requests \cup {n}
      /\ n \notin DOMAIN requests /\ requests'[n] = m
      /\ \A i \in DOMAIN requests : requests'[i] = requests[i]
  BY <1>2, Appended
<1>4. \A row, o : MeetsAfter(row, o) <=> Meets(row, o)
  BY DEF Meets, MeetsAfter, KnownAfter
<1>5. \A o, k : Promised(o, k) <=> PromisedAfter(o, k)
  BY DEF Promised, PromisedAfter
<1>6. \A o : Committed(o) => CommittedAfter(o)
  BY <1>5 DEF Committed, CommittedAfter
<1>7. \A save : Answered(save) <=> AnsweredAfter(save)
  BY <1>2, <1>4 DEF Answered, AnsweredAfter
<1>8. EditingTypeOK'
  BY <1>1, <1>2 DEF EditingTypeOK
<1>9. ProjectTypeOK'
  BY <1>1, <1>3 DEF ProjectTypeOK
<1>10. OneSave'
  <2>1. CASE ~IsSave(m) /\ pending' = pending
    <3>1. NoRequest => NoRequest'
      BY <1>3, <2>1 DEF NoRequest
    <3>2. NoResult => NoResult'
      BY DEF NoResult
    <3>3. pending' # None => Waiting(pending)' /\ NoRequest' /\ NoResult' /\ answer' = None
      BY <1>1, <1>2, <2>1, <3>1, <3>2 DEF OneSave, Waiting
    <3>4. ASSUME NEW i \in DOMAIN requests', IsSave(requests'[i])
          PROVE  /\ Waiting(requests[i])' /\ pending' = None /\ NoResult' /\ answer' = None
                 /\ \A j \in DOMAIN requests' : IsSave(requests'[j]) => j = i
      BY <1>1, <1>2, <1>3, <2>1, <3>2, <3>4 DEF OneSave, Waiting
    <3>5. ASSUME NEW i \in DOMAIN results', IsSave(results'[i])
          PROVE  /\ AnsweredAfter(results'[i]) /\ pending' = None /\ NoRequest' /\ answer' = None
                 /\ \A j \in DOMAIN results' : IsSave(results'[j]) => j = i
      BY <1>1, <1>7, <2>1, <3>1, <3>5 DEF OneSave
    <3>6. answer' # None =>
            AnsweredAfter(answer') /\ pending' = None /\ NoRequest' /\ NoResult'
      BY <1>1, <1>7, <2>1, <3>1, <3>2 DEF OneSave
    <3> QED BY <3>3, <3>4, <3>5, <3>6, AfterAnswers DEF OneSave
  <2>2. CASE /\ IsSave(m) /\ pending # None /\ pending' = None
             /\ m.id = pending.id /\ m.writes = pending.writes
    <3>1. Waiting(pending) /\ NoRequest /\ NoResult /\ answer = None
      BY <1>1, <2>2 DEF OneSave
    <3>2. ASSUME NEW i \in DOMAIN requests', IsSave(requests'[i])
          PROVE  i = n
      BY <1>3, <3>1, <3>2 DEF NoRequest
    <3>3. ASSUME NEW i \in DOMAIN requests', IsSave(requests'[i])
          PROVE  Waiting(requests[i])'
      <4>1. requests'[i] = m
        BY <1>3, <3>2, <3>3
      <4> QED BY <1>2, <2>2, <3>1, <4>1 DEF Waiting
    <3>4. ASSUME NEW i \in DOMAIN requests', IsSave(requests'[i])
          PROVE  /\ Waiting(requests[i])' /\ pending' = None /\ NoResult' /\ answer' = None
                 /\ \A j \in DOMAIN requests' : IsSave(requests'[j]) => j = i
      <4>1. \A j \in DOMAIN requests' : IsSave(requests'[j]) => j = i
        BY <3>2, <3>4
      <4>2. NoResult' /\ answer' = None
        BY <3>1 DEF NoResult
      <4> QED BY <2>2, <3>3, <3>4, <4>1, <4>2
    <3>5. \A i \in DOMAIN results' : ~IsSave(results'[i])
      BY <3>1 DEF NoResult
    <3> QED BY <2>2, <3>1, <3>4, <3>5 DEF OneSave
  <2> QED BY <2>1, <2>2
<1>11. SavingEntries'
  BY <1>1, <1>2 DEF SavingEntries
<1>12. BasesMeet'
  BY <1>1, <1>2, <1>4, <1>6, After DEF BasesMeet
<1>13. RowsReadMeet'
  BY <1>1, <1>4, <1>5, After DEF RowsReadMeet
<1>14. UndrawnAreUnused'
  BY <1>1, <1>2 DEF UndrawnAreUnused
<1> QED BY <1>2, <1>8, <1>9, <1>10, <1>11, <1>12, <1>13, <1>14, RowsStayGiven DEF SaveInv

\* What waits is forgotten, with the thread or the window, or nothing happens
\* to it.
LEMMA QuietKeeps ==
    ASSUME EditorInv,
           requests' \in {requests, <<>>}, shown' \in {shown, <<>>},
           desired' \in Windows \cup {None},
           UNCHANGED <<editingVars, rows, given, reissued, others, results, pending, answer, next_save>>
    PROVE  EditingTypeOK' /\ ProjectTypeOK' /\ SaveInv'
<1>1. /\ EditingTypeOK /\ ProjectTypeOK /\ OneSave /\ SavingEntries /\ BasesMeet /\ RowsReadMeet
      /\ UndrawnAreUnused
  BY DEF EditorInv, SaveInv
<1>2. UNCHANGED <<entries, active_save, undo, redo, drag, dropped, edits, drawn>>
  BY DEF editingVars
<1>3. \A row, o : MeetsAfter(row, o) <=> Meets(row, o)
  BY DEF Meets, MeetsAfter, KnownAfter
<1>4. \A o, k : Promised(o, k) <=> PromisedAfter(o, k)
  BY DEF Promised, PromisedAfter
<1>5. \A o : Committed(o) => CommittedAfter(o)
  BY <1>4 DEF Committed, CommittedAfter
<1>6. \A save : Answered(save) <=> AnsweredAfter(save)
  BY <1>2, <1>3 DEF Answered, AnsweredAfter
<1>7. <<>> \in Some(Row) /\ <<>> \in Seq(StoreRequest)
  <2>1. <<>> \in [{} -> Row] /\ {} \in SUBSET Objects
    OBVIOUS
  <2>2. <<>> \in Some(Row)
    BY <2>1, SomeOf
  <2> QED BY <2>2
<1>8. EditingTypeOK'
  BY <1>1, <1>2 DEF EditingTypeOK
<1>9. ProjectTypeOK'
  BY <1>1, <1>7 DEF ProjectTypeOK
<1>10. OneSave'
  <2>1. /\ NoRequest => NoRequest'
        /\ NoResult => NoResult'
    BY DEF NoRequest, NoResult
  <2>2. pending' # None => Waiting(pending)' /\ NoRequest' /\ NoResult' /\ answer' = None
    BY <1>1, <1>2, <2>1 DEF OneSave, Waiting
  <2>3. ASSUME NEW i \in DOMAIN requests', IsSave(requests'[i])
        PROVE  /\ Waiting(requests[i])' /\ pending' = None /\ NoResult' /\ answer' = None
               /\ \A j \in DOMAIN requests' : IsSave(requests'[j]) => j = i
    <3>1. requests' = requests
      BY <2>3
    <3> QED BY <1>1, <1>2, <2>1, <2>3, <3>1 DEF OneSave, Waiting
  <2>4. ASSUME NEW i \in DOMAIN results', IsSave(results'[i])
        PROVE  /\ AnsweredAfter(results'[i]) /\ pending' = None /\ NoRequest' /\ answer' = None
               /\ \A j \in DOMAIN results' : IsSave(results'[j]) => j = i
    BY <1>1, <1>6, <2>1, <2>4 DEF OneSave
  <2>5. answer' # None =>
          AnsweredAfter(answer') /\ pending' = None /\ NoRequest' /\ NoResult'
    BY <1>1, <1>6, <2>1 DEF OneSave
  <2> QED BY <2>2, <2>3, <2>4, <2>5, AfterAnswers DEF OneSave
<1>11. SavingEntries'
  BY <1>1, <1>2 DEF SavingEntries
<1>12. BasesMeet'
  BY <1>1, <1>2, <1>3, <1>5, After DEF BasesMeet
<1>13. RowsReadMeet'
  <2>1. \A o \in DOMAIN shown' : o \in DOMAIN shown /\ shown'[o] = shown[o]
    OBVIOUS
  <2> QED BY <1>1, <1>3, <1>4, <2>1, After DEF RowsReadMeet
<1>14. UndrawnAreUnused'
  <2>1. \A o \in DOMAIN shown' : o \in DOMAIN shown
    OBVIOUS
  <2> QED BY <1>1, <1>2, <2>1 DEF UndrawnAreUnused
<1> QED BY <1>2, <1>8, <1>9, <1>10, <1>11, <1>12, <1>13, <1>14, RowsStayGiven DEF SaveInv

\* Another editor writes one object that is or once was in the project.
LEMMA OtherWrites ==
    ASSUME ProjectTypeOK, OtherEditor
    PROVE  \E o \in Objects, row \in MayRow :
              Put([rows EXCEPT ![o] = row]) /\ (rows[o] # None \/ given[o] > 0)
<1>1. \A place \in Elsewhere, rev \in Nat : [value |-> place, rev |-> rev + 1] \in MayRow
  BY EditorAssumption DEF MayRow, Row
<1>2. \A o \in Objects : /\ rows[o] # None => rows[o].rev \in Nat
                         /\ given[o] \in Nat
  BY DEF ProjectTypeOK, MayRow, Row
<1>3. PICK o \in Objects :
         \/ rows[o] # None /\ \E place \in Elsewhere :
               Put([rows EXCEPT ![o] = [value |-> place, rev |-> rows[o].rev + 1]])
         \/ rows[o] # None /\ Put([rows EXCEPT ![o] = None])
         \/ \E rev \in 1..given[o], place \in Elsewhere :
               Put([rows EXCEPT ![o] = [value |-> place, rev |-> rev + 1]])
  BY DEF OtherEditor
<1>4. \A rev \in 1..given[o] : rev \in Nat /\ given[o] > 0
  BY <1>2
<1>5. None \in MayRow
  BY DEF MayRow
<1> QED BY <1>1, <1>2, <1>3, <1>4, <1>5

\* A write of another editor leaves what was read behind.
LEMMA OtherKeeps ==
    ASSUME EditorInv, OtherEditor
    PROVE  EditingTypeOK' /\ ProjectTypeOK' /\ SaveInv' /\ others' # others /\ others' # 0
<1>1. /\ EditingTypeOK /\ ProjectTypeOK /\ OneSave /\ SavingEntries /\ BasesMeet /\ RowsReadMeet
      /\ UndrawnAreUnused
  BY DEF EditorInv, SaveInv
<1>2. /\ others' = others + 1
      /\ UNCHANGED <<entries, active_save, undo, redo, drag, dropped, edits, drawn, requests, results,
                     shown, desired, next_save, pending, answer>>
  BY DEF OtherEditor, editingVars, threadVars, windowVars, channelVars
<1>3. others' \in Nat /\ others' # others /\ others' # 0
  BY <1>1, <1>2 DEF ProjectTypeOK
<1>4. PICK o \in Objects, row \in MayRow :
         Put([rows EXCEPT ![o] = row]) /\ (rows[o] # None \/ given[o] > 0)
  BY <1>1, OtherWrites
<1>5. rows \in [Objects -> MayRow] /\ RowsAreGiven
  BY <1>1 DEF ProjectTypeOK, EditorInv, SaveInv
<1>6. Onward /\ \A p \in Objects : p # o => rows'[p] = rows[p]
  <2>1. [rows EXCEPT ![o] = row] \in [Objects -> MayRow]
    BY <1>5
  <2>2. rows' = [rows EXCEPT ![o] = row]
    BY <1>4 DEF Put
  <2> QED BY <1>1, <1>4, <1>5, <2>1, <2>2, PutGoesOn
<1>7. ASSUME NEW r \in MayRow, NEW p \in Objects, Meets(r, p)
      PROVE  MeetsAfter(r, p)
  BY <1>3, <1>6, <1>7 DEF Meets, MeetsAfter, Onward
<1>8. \A p, k : Promised(p, k) <=> PromisedAfter(p, k)
  BY <1>2 DEF Promised, PromisedAfter
<1>9. \A p : Committed(p) => CommittedAfter(p)
  BY <1>2, <1>8 DEF Committed, CommittedAfter
<1>10. ASSUME NEW save, save.outcome \in ObjectSaveOutcome, Answered(save)
       PROVE  AnsweredAfter(save)
  <2>1. /\ active_save # None /\ active_save' = active_save
        /\ active_save.objects \in SUBSET Objects
    BY <1>1, <1>2, <1>10 DEF Answered, EditingTypeOK, ActiveSave
  <2>2. CASE save.outcome.kind = "Committed"
    <3>1. save.outcome.rows \in Some(MayRow)
      BY <1>10, <2>2 DEF ObjectSaveOutcome
    <3>2. \A p \in DOMAIN save.outcome.rows : save.outcome.rows[p] \in MayRow
      BY <3>1, SomeIs
    <3> QED BY <1>2, <1>7, <1>10, <2>1, <2>2, <3>2 DEF Answered, AnsweredAfter
  <2>3. CASE save.outcome.kind = "Conflict"
    <3>1. save.outcome.object \in Objects /\ save.outcome.actual \in MayRow
      BY <1>10, <2>3 DEF ObjectSaveOutcome
    <3> QED BY <1>7, <1>10, <2>1, <2>3, <3>1 DEF Answered, AnsweredAfter
  <2>4. CASE save.outcome.kind \notin {"Committed", "Conflict"}
    BY <1>10, <2>1, <2>4 DEF Answered, AnsweredAfter
  <2> QED BY <2>2, <2>3, <2>4
<1>11. EditingTypeOK'
  BY <1>1, <1>2 DEF EditingTypeOK
<1>12. ProjectTypeOK'
  BY <1>1, <1>2, <1>3, <1>6 DEF ProjectTypeOK, Onward
<1>13. OneSave'
  <2>1. /\ NoRequest <=> NoRequest'
        /\ NoResult <=> NoResult'
    BY <1>2 DEF NoRequest, NoResult
  <2>2. pending' # None => Waiting(pending)' /\ NoRequest' /\ NoResult' /\ answer' = None
    BY <1>1, <1>2, <2>1 DEF OneSave, Waiting
  <2>3. ASSUME NEW i \in DOMAIN requests', IsSave(requests'[i])
        PROVE  /\ Waiting(requests[i])' /\ pending' = None /\ NoResult' /\ answer' = None
               /\ \A j \in DOMAIN requests' : IsSave(requests'[j]) => j = i
    BY <1>1, <1>2, <2>1, <2>3 DEF OneSave, Waiting
  <2>4. ASSUME NEW i \in DOMAIN results', IsSave(results'[i])
        PROVE  /\ AnsweredAfter(results'[i]) /\ pending' = None /\ NoRequest' /\ answer' = None
               /\ \A j \in DOMAIN results' : IsSave(results'[j]) => j = i
    <3>1. results[i] \in StoreAnswer
      BY <1>1, <1>2 DEF ProjectTypeOK
    <3>2. results[i].outcome \in ObjectSaveOutcome
      BY <1>2, <2>4, <3>1 DEF StoreAnswer, IsSave
    <3> QED BY <1>1, <1>2, <1>10, <2>1, <2>4, <3>2 DEF OneSave
  <2>5. answer' # None =>
          AnsweredAfter(answer') /\ pending' = None /\ NoRequest' /\ NoResult'
    BY <1>1, <1>2, <1>10, <2>1 DEF OneSave, ProjectTypeOK, SaveAnswer
  <2> QED BY <2>2, <2>3, <2>4, <2>5, AfterAnswers DEF OneSave
<1>14. SavingEntries'
  BY <1>1, <1>2 DEF SavingEntries
<1>15. BasesMeet'
  <2> SUFFICES ASSUME NEW p \in Objects, entries'[p] # None
               PROVE  /\ MeetsAfter(entries'[p].base, p) \/ CommittedAfter(p)
                      /\ entries'[p].save.kind = "Conflict" => MeetsAfter(entries'[p].save.actual, p)
    BY After
  <2>1. entries[p].base \in MayRow /\ entries[p].save.actual \in MayRow
    BY <1>1, <1>2, EntryIs DEF SaveState
  <2> QED BY <1>1, <1>2, <1>7, <1>9, <2>1 DEF BasesMeet
<1>16. RowsReadMeet'
  <2>1. ASSUME NEW p \in DOMAIN shown'
        PROVE  MeetsAfter(shown'[p], p) \/ PromisedAfter(p, 0)
    <3>1. shown[p] \in MayRow /\ p \in Objects
      BY <1>1, <1>2, SomeIs DEF ProjectTypeOK, MayRow
    <3> QED BY <1>1, <1>2, <1>7, <1>8, <3>1 DEF RowsReadMeet
  <2>2. ASSUME NEW i \in DOMAIN results', results'[i].kind = "Query", results'[i].ok,
               NEW p \in DOMAIN results'[i].rows
        PROVE  MeetsAfter(results'[i].rows[p], p) \/ PromisedAfter(p, i)
    <3>0. results[i] \in StoreAnswer
      BY <1>1, <1>2 DEF ProjectTypeOK
    <3>1. results[i].rows \in Some(Row)
      BY <1>2, <2>2, <3>0 DEF StoreAnswer
    <3>2. results[i].rows[p] \in MayRow /\ p \in Objects
      BY <1>2, <3>1, SomeIs DEF MayRow
    <3> QED BY <1>1, <1>2, <1>7, <1>8, <2>2, <3>2 DEF RowsReadMeet
  <2> QED BY <2>1, <2>2, After
<1>17. UndrawnAreUnused'
  <2>1. \A p \in Fresh \ drawn : p \in Objects /\ rows[p] = None /\ given[p] = 0
    BY <1>1 DEF UndrawnAreUnused, Objects
  <2>2. o \notin Fresh \ drawn
    BY <1>4, <2>1
  <2>3. \A p \in Fresh \ drawn : rows'[p] = None /\ given'[p] = 0
    BY <1>6, <2>1, <2>2 DEF Onward
  <2> QED BY <1>1, <1>2, <2>3 DEF UndrawnAreUnused
<1>18. RowsAreGiven'
  BY <1>6 DEF Onward
<1> QED BY <1>3, <1>11, <1>12, <1>13, <1>14, <1>15, <1>16, <1>17, <1>18 DEF SaveInv

-----------------------------------------------------------------------------
(* Every step.                                                             *)

\* What the steps that only edit leave alone.
LEMMA ProjectKept ==
    ASSUME ProjectTypeOK, UNCHANGED projectVars
    PROVE  /\ ProjectTypeOK'
           /\ UNCHANGED <<rows, given, reissued, others, requests, results, pending, answer, shown, next_save, desired>>
           /\ UNCHANGED <<publication, cook, source_epoch, runtime_db>>
BY DEF ProjectTypeOK, projectVars, sourceVars, threadVars, windowVars, channelVars, storeVars,
       saveVars, publishVars

LEMMA UserEdits ==
    ASSUME EditingTypeOK,
           \/ AddObject \/ ApplyFields \/ DeleteSelection \/ DragSelection \/ EndDrag
           \/ LoseDrag \/ StepBack \/ StepForward \/ Discard \/ UseDatabaseVersion \/ KeepLocal
    PROVE  EditedAll /\ UNCHANGED projectVars
<1>1. CASE AddObject \/ ApplyFields \/ DeleteSelection
  <2>1. \A objects \in SUBSET Tracked : objects \in SUBSET Objects
    BY DEF Tracked
  <2>2. EditedAll
    BY <1>1, <2>1, CommandsEdit DEF AddObject, ApplyFields, DeleteSelection
  <2> QED BY <1>1, <2>2 DEF AddObject, ApplyFields, DeleteSelection, Released, User
<1>2. CASE DragSelection \/ EndDrag \/ LoseDrag
  BY <1>2, DragsEdit DEF DragSelection, EndDrag, LoseDrag, User
<1>3. CASE StepBack \/ StepForward
  BY <1>3, HistoryEdits DEF StepBack, StepForward, Released, User
<1>4. CASE Discard \/ UseDatabaseVersion \/ KeepLocal
  BY <1>4, AnswersEdit DEF Discard, UseDatabaseVersion, KeepLocal, Released, User
<1> QED BY <1>1, <1>2, <1>3, <1>4

LEMMA PinSteps ==
    ASSUME EditorInv, SelectObject \/ Reconcile
    PROVE  EditingTypeOK' /\ ProjectTypeOK' /\ SaveInv' /\ UNCHANGED <<projectVars, active_save>>
<1>1. ProjectTypeOK
  BY DEF EditorInv
<1>2. CASE SelectObject
  <2>1. PICK o \in DOMAIN shown \ Tracked : Pin([p \in {o} |-> shown[o]])
    BY <1>2 DEF SelectObject
  <2>2. UNCHANGED projectVars
    BY <1>2 DEF SelectObject, Released, User
  <2>3. EditingTypeOK' /\ SaveInv'
    BY <1>1, <2>1, <2>2, PinKeeps, ProjectKept
  <2> QED BY <1>1, <2>1, <2>2, <2>3, ProjectKept DEF Pin
<1>3. CASE Reconcile
  <2> DEFINE rs == Restrict(shown, DOMAIN shown \cap Tracked)
  <2>1. Pin(rs) /\ UNCHANGED projectVars
    BY <1>3 DEF Reconcile
  <2>2. DOMAIN rs \subseteq DOMAIN shown /\ \A o \in DOMAIN rs : rs[o] = shown[o]
    BY DEF Restrict
  <2>3. EditingTypeOK' /\ SaveInv'
    BY <1>1, <2>1, <2>2, PinKeeps, ProjectKept
  <2> QED BY <1>1, <2>1, <2>3, ProjectKept DEF Pin
<1> QED BY <1>2, <1>3

LEMMA ThreadSteps ==
    ASSUME EditorInv, OpenProject \/ ServeQuery \/ ThreadStops
    PROVE  EditingTypeOK' /\ ProjectTypeOK' /\ SaveInv' /\ UNCHANGED <<rows, given, reissued, others>>
<1>1. ProjectTypeOK
  BY DEF EditorInv
<1>2. CASE OpenProject
  <2>1. /\ UNCHANGED <<editingVars, rows, given, reissued, others, requests, shown, pending, answer, next_save,
                       desired>>
        /\ \/ results' = Append(results, [kind |-> "Opened", ok |-> TRUE, writable |-> TRUE])
           \/ results' = Append(results, [kind |-> "Opened", ok |-> TRUE, writable |-> FALSE])
           \/ results' = Append(results, [kind |-> "Opened", ok |-> FALSE, writable |-> FALSE])
    BY <1>2 DEF OpenProject, Thread, windowVars, channelVars, sourceVars
  <2>2. PICK ok \in BOOLEAN, writable \in BOOLEAN :
           results' = Append(results, [kind |-> "Opened", ok |-> ok, writable |-> writable])
    BY <2>1
  <2> DEFINE m == [kind |-> "Opened", ok |-> ok, writable |-> writable]
  <2>3. m \in StoreAnswer /\ m.kind = "Opened"
    BY DEF StoreAnswer
  <2>4. m.kind # "Query" /\ ~IsSave(m)
    BY <2>3 DEF IsSave
  <2> HIDE DEF m
  <2>5. results' = Append(results, m)
    BY <2>2 DEF m
  <2> QED BY <2>1, <2>3, <2>4, <2>5, ReplyKeeps
<1>3. CASE ServeQuery
  <2> DEFINE window == Head(requests).window
  <2>1. /\ UNCHANGED <<editingVars, rows, given, reissued, others, shown, pending, answer, next_save, desired>>
        /\ requests # <<>> /\ requests' = Tail(requests) /\ Head(requests).kind = "Query"
    BY <1>3 DEF ServeQuery, Serve, Thread, windowVars, channelVars, sourceVars
  <2>2. window \in Windows
    <3>1. Head(requests) \in StoreRequest
      BY <1>1, <2>1, Drained DEF ProjectTypeOK
    <3> QED BY <2>1, <3>1 DEF StoreRequest
  <2>3. CASE results' = Append(results, [kind |-> "Query", window |-> window, ok |-> TRUE,
                                         rows |-> Restrict(rows, Held(window))])
    <3> DEFINE m == [kind |-> "Query", window |-> window, ok |-> TRUE,
                     rows |-> Restrict(rows, Held(window))]
    <3>1. Held(window) \in SUBSET Objects /\ \A o \in Held(window) : rows[o] # None
      BY <2>2, EditorAssumption DEF Held
    <3>2. \A o \in Held(window) : rows[o] \in Row
      BY <1>1, <3>1 DEF ProjectTypeOK, MayRow
    <3>3. m.rows = [o \in Held(window) |-> rows[o]]
      BY DEF Restrict
    <3>4. m.rows \in [Held(window) -> Row]
      BY <3>2, <3>3
    <3>5. m.rows \in Some(Row)
      BY <3>1, <3>4, SomeOf
    <3>6. m \in StoreAnswer /\ ~IsSave(m)
      BY <2>2, <3>5 DEF StoreAnswer, IsSave
    <3>7. \A o \in DOMAIN m.rows : o \in Objects /\ rows[o] # None /\ m.rows[o] = rows[o]
      BY <3>1, <3>3
    <3> HIDE DEF m
    <3>8. results' = Append(results, m)
      BY <2>3 DEF m
    <3> QED BY <2>1, <3>6, <3>7, <3>8, ReplyKeeps
  <2>4. CASE results' = Append(results, [kind |-> "Query", window |-> window, ok |-> FALSE])
    <3> DEFINE m == [kind |-> "Query", window |-> window, ok |-> FALSE]
    <3>1. m \in StoreAnswer /\ ~IsSave(m) /\ ~m.ok
      BY <2>2 DEF StoreAnswer, IsSave
    <3> HIDE DEF m
    <3>2. results' = Append(results, m)
      BY <2>4 DEF m
    <3> QED BY <2>1, <3>1, <3>2, ReplyKeeps
  <2> QED BY <1>3, <2>3, <2>4 DEF ServeQuery
<1>4. CASE ThreadStops
  <2>1. /\ UNCHANGED <<editingVars, rows, given, reissued, others, results, pending, answer, next_save>>
        /\ requests' = <<>> /\ shown' = shown /\ desired' = desired
    BY <1>4 DEF ThreadStops, Thread, windowVars, channelVars, sourceVars
  <2> QED BY <1>1, <2>1, QuietKeeps DEF ProjectTypeOK
<1> QED BY <1>2, <1>3, <1>4

LEMMA StoreSteps ==
    ASSUME EditorInv, StoreSystems \/ UpdateDemand
    PROVE  /\ EditingTypeOK' /\ ProjectTypeOK' /\ SaveInv'
           /\ UNCHANGED <<editingVars, rows, given, reissued, others, publication, cook, reload, runtime_db>>
           /\ source_epoch \in Nat => source_epoch' \in Nat
<1>1. ProjectTypeOK
  BY DEF EditorInv
<1>2. /\ UNCHANGED <<editingVars, rows, given, reissued, others, next_save, publication, cook, reload, runtime_db>>
      /\ source_epoch' \in {source_epoch, source_epoch + 1, 1}
  BY DEF StoreSystems, ReceiveOpened, ReceiveQuery, ReceiveSave, ReceiveStopped, DispatchSave,
         DispatchQuery, UpdateDemand, Receive, Store, sourceVars, publishVars, storeVars, channelVars
<1>3. source_epoch \in Nat => source_epoch' \in Nat
  BY <1>2
<1>4. CASE ReceiveOpened
  <2>1. /\ results # <<>> /\ ~IsSave(Head(results)) /\ results' = Tail(results)
        /\ UNCHANGED <<shown, requests, pending, answer, desired>>
    BY <1>4 DEF ReceiveOpened, Receive, IsSave
  <2> QED BY <1>2, <1>3, <2>1, DrainKeeps
<1>5. CASE ReceiveQuery
  <2>1. /\ results # <<>> /\ Head(results).kind = "Query" /\ results' = Tail(results)
        /\ shown' = shown \/ (Head(results).ok /\ shown' = Head(results).rows)
        /\ UNCHANGED <<requests, pending, answer, desired>>
    BY <1>5 DEF ReceiveQuery, Receive
  <2>2. ~IsSave(Head(results))
    BY <2>1 DEF IsSave
  <2> QED BY <1>2, <1>3, <2>1, <2>2, DrainKeeps
<1>6. CASE ReceiveSave
  BY <1>2, <1>3, <1>6, ReceiveSaveKeeps
<1>7. CASE ReceiveStopped \/ UpdateDemand
  <2>1. /\ requests' = requests /\ shown' \in {shown, <<>>}
        /\ desired' \in Windows \cup {desired}
        /\ UNCHANGED <<results, pending, answer>>
    BY <1>7 DEF ReceiveStopped, UpdateDemand, threadVars, channelVars
  <2> QED BY <1>1, <1>2, <1>3, <2>1, QuietKeeps DEF ProjectTypeOK
<1>8. CASE DispatchSave
  <2>1. /\ pending # None
        /\ UNCHANGED <<results, shown, answer, desired>>
        /\ \/ UNCHANGED <<requests, pending>>
           \/ /\ pending' = None
              /\ requests' = Append(requests, [kind |-> "Save", id |-> pending.id,
                                               writes |-> pending.writes])
    BY <1>8 DEF DispatchSave, Send
  <2>2. CASE UNCHANGED <<requests, pending>>
    BY <1>1, <1>2, <1>3, <2>1, <2>2, QuietKeeps DEF ProjectTypeOK
  <2>3. CASE /\ pending' = None
             /\ requests' = Append(requests, [kind |-> "Save", id |-> pending.id,
                                              writes |-> pending.writes])
    <3> DEFINE m == [kind |-> "Save", id |-> pending.id, writes |-> pending.writes]
    <3>1. m \in StoreRequest /\ IsSave(m) /\ m.id = pending.id /\ m.writes = pending.writes
      BY <1>1, <2>1 DEF ProjectTypeOK, StoreRequest, IsSave
    <3> HIDE DEF m
    <3>2. requests' = Append(requests, m)
      BY <2>3 DEF m
    <3> QED BY <1>2, <1>3, <2>1, <2>3, <3>1, <3>2, AskKeeps
  <2> QED BY <2>1, <2>2, <2>3
<1>9. CASE DispatchQuery
  <2>1. /\ desired # None /\ UNCHANGED <<results, shown, pending, answer, desired>>
        /\ \/ UNCHANGED requests
           \/ requests' = Append(requests, [kind |-> "Query", window |-> desired])
    BY <1>9 DEF DispatchQuery, Send
  <2>2. CASE UNCHANGED requests
    BY <1>1, <1>2, <1>3, <2>1, <2>2, QuietKeeps DEF ProjectTypeOK
  <2>3. CASE requests' = Append(requests, [kind |-> "Query", window |-> desired])
    <3> DEFINE m == [kind |-> "Query", window |-> desired]
    <3>1. m \in StoreRequest /\ ~IsSave(m)
      BY <1>1, <2>1 DEF ProjectTypeOK, StoreRequest, IsSave
    <3> HIDE DEF m
    <3>2. requests' = Append(requests, m)
      BY <2>3 DEF m
    <3> QED BY <1>2, <1>3, <2>1, <3>1, <3>2, AskKeeps
  <2> QED BY <2>1, <2>2, <2>3
<1> QED BY <1>4, <1>5, <1>6, <1>7, <1>8, <1>9 DEF StoreSystems

\* What a step of the drain, of a publication or of a request to save does to
\* the working set and its channels.
LEMMA DrainSteps ==
    ASSUME EditorInv, SaveSystems \/ RequestSave \/ RequestPublish
    PROVE  EditingTypeOK' /\ ProjectTypeOK' /\ SaveInv' /\ UNCHANGED <<rows, given, reissued, others>>
<1>1. ProjectTypeOK
  BY DEF EditorInv
<1>2. CASE CompleteSave
  BY <1>2, CompleteKeeps DEF CompleteSave, Save, sourceVars
<1>3. CASE DriveSaves
  BY <1>3, QueueKeeps DEF DriveSaves, Drive, Save, sourceVars
<1>4. CASE DriveEnds
  <2>1. UNCHANGED <<editingVars, rows, given, reissued, others, requests, results, pending, answer, shown,
                    next_save, desired>>
    BY <1>4 DEF DriveEnds, Drive, Save, sourceVars, threadVars, windowVars
  <2> QED BY <1>1, <2>1, QuietKeeps DEF ProjectTypeOK
<1>5. CASE RequestSave \/ RequestPublish
  <2>1. UNCHANGED <<editingVars, rows, given, reissued, others, requests, results, pending, answer, shown,
                    next_save, desired>>
    BY <1>5 DEF RequestSave, RequestPublish, Request, sourceVars, threadVars, windowVars,
                channelVars
  <2> QED BY <1>1, <2>1, QuietKeeps DEF ProjectTypeOK
<1> QED BY <1>2, <1>3, <1>4, <1>5 DEF SaveSystems

LEMMA PublishSteps ==
    ASSUME EditorInv, PublicationSystems \/ Cook \/ CookFails \/ Adopt
    PROVE  /\ EditingTypeOK' /\ ProjectTypeOK' /\ SaveInv'
           /\ UNCHANGED <<rows, given, reissued, others, active_save, source_epoch>>
<1>1. ProjectTypeOK
  BY DEF EditorInv
<1>2. UNCHANGED <<rows, given, reissued, others, requests, results, pending, answer, shown, next_save, desired,
                  source_epoch>>
  BY DEF PublicationSystems, DispatchPublication, ReceiveCooked, ReceiveCookStopped,
         ReceiveAdopted, Cook, CookFails, Adopt, Publish, sourceVars, threadVars, windowVars,
         channelVars, storeVars
<1>3. CASE UNCHANGED editingVars
  BY <1>1, <1>2, <1>3, QuietKeeps DEF ProjectTypeOK, editingVars
<1>4. CASE AdoptRuntime
  <2>1. EditingTypeOK' /\ SaveInv'
    BY <1>2, <1>4, AdoptRuntimeKeeps
  <2>2. ProjectTypeOK'
    BY <1>1, <1>2 DEF ProjectTypeOK
  <2> QED BY <1>2, <1>4, <2>1, <2>2 DEF AdoptRuntime
<1>5. UNCHANGED editingVars \/ AdoptRuntime
  BY DEF PublicationSystems, DispatchPublication, ReceiveCooked, ReceiveCookStopped,
         ReceiveAdopted, Cook, CookFails, Adopt
<1> QED BY <1>3, <1>4, <1>5

\* No row changes while what was cooked is compared with them: a save is under
\* way only when nothing is published.
LEMMA PublicationKeeps ==
    ASSUME EditorInv, PublicationSystems \/ Cook \/ CookFails \/ Adopt
    PROVE  PublishInv'
<1>1. PublishInv
  BY DEF EditorInv
<1>2. UNCHANGED <<rows, given, reissued, others, active_save, source_epoch>>
  BY PublishSteps
<1> USE DEF PublishInv, Publishing, To, NoCook
<1>3. CASE DispatchPublication
  <2>1. publication.phase = "Queued" /\ active_save = None /\ UNCHANGED runtime_db
    BY <1>1, <1>3 DEF DispatchPublication
  <2>2. CASE /\ publication' = To("Cooking")
             /\ cook' = [stage |-> "asked", id |-> publication.id, epoch |-> publication.epoch,
                         ok |-> FALSE]
    <3>1. /\ publication'.phase = "Cooking" /\ cook'.stage = "asked" /\ ~cook'.ok
      BY <1>1, <2>2
    <3>2. /\ publication' \in [phase : {"Idle", "Queued", "Cooking", "Adopting", "Published",
                                       "Failed"}, id : Nat, epoch : Nat]
          /\ cook' \in [stage : {"resting", "asked", "done", "stopped"}, id : Nat, epoch : Nat,
                         ok : BOOLEAN]
      BY <1>1, <2>2
    <3> QED BY <1>1, <1>2, <2>1, <3>1, <3>2
  <2>3. CASE publication' = To("Failed") /\ UNCHANGED cook
    BY <1>1, <1>2, <2>1, <2>3
  <2> QED BY <1>3, <2>2, <2>3 DEF DispatchPublication
<1>4. CASE ReceiveCooked
  BY <1>1, <1>2, <1>4 DEF ReceiveCooked
<1>5. CASE ReceiveCookStopped
  BY <1>1, <1>2, <1>5 DEF ReceiveCookStopped
<1>6. CASE ReceiveAdopted
  BY <1>1, <1>2, <1>6 DEF ReceiveAdopted
<1>7. CASE Cook
  BY <1>1, <1>2, <1>7 DEF Cook
<1>8. CASE CookFails
  <2>1. /\ cook.stage = "asked" /\ ~cook.ok /\ UNCHANGED <<publication, runtime_db>>
        /\ publication.phase = "Cooking"
    BY <1>1, <1>8 DEF CookFails
  <2>2. CASE cook' = [cook EXCEPT !.stage = "done"]
    <3>1. cook'.stage = "done" /\ cook'.ok = cook.ok
      BY <1>1, <2>2
    <3>2. cook' \in [stage : {"resting", "asked", "done", "stopped"}, id : Nat, epoch : Nat,
                     ok : BOOLEAN]
      BY <1>1, <2>2
    <3> QED BY <1>1, <1>2, <2>1, <3>1, <3>2
  <2>3. CASE cook' = [NoCook EXCEPT !.stage = "stopped"]
    BY <1>1, <1>2, <2>1, <2>3
  <2> QED BY <1>8, <2>2, <2>3 DEF CookFails
<1>9. CASE Adopt
  BY <1>1, <1>2, <1>9 DEF Adopt
<1> QED BY <1>3, <1>4, <1>5, <1>6, <1>7, <1>8, <1>9 DEF PublicationSystems

LEMMA SavesKeepPublications ==
    ASSUME EditorInv, SaveSystems \/ ServeSave
    PROVE  PublishInv'
<1>1. PublishInv /\ EditingTypeOK /\ OneSave
  BY DEF EditorInv, SaveInv
<1> USE DEF PublishInv, Publishing
<1>2. CASE CompleteSave
  <2>1. /\ active_save' = None
        /\ UNCHANGED <<publication, cook, source_epoch, runtime_db, rows, given, reissued, others>>
    BY <1>2, CompleteKeeps DEF CompleteSave, Save, sourceVars, storeVars
  <2> QED BY <1>1, <2>1
<1>3. CASE DriveSaves
  <2>1. ~Publishing /\ UNCHANGED <<publication, cook, source_epoch, runtime_db, rows, given, reissued, others>>
    BY <1>3 DEF DriveSaves, Drive, Save, MayDrain, sourceVars, storeVars
  <2> QED BY <1>1, <2>1
<1>4. CASE DriveEnds
  <2>1. /\ active_save = None
        /\ UNCHANGED <<active_save, cook, source_epoch, runtime_db, rows, given, reissued, others>>
        /\ \/ UNCHANGED publication
           \/ /\ ~Publishing
              /\ publication' = [phase |-> "Queued", id |-> publication.id + 1,
                                 epoch |-> source_epoch]
    BY <1>4 DEF DriveEnds, Drive, Save, MayDrain, Saving, sourceVars, storeVars, editingVars
  <2> QED BY <1>1, <2>1
<1>5. CASE ServeSave
  <2>1. active_save # None
    BY <1>5, ServedSave DEF ServeSave, Serve, IsSave, Waiting
  <2>2. UNCHANGED <<publication, cook, source_epoch, runtime_db, active_save>>
    BY <1>5 DEF ServeSave, Serve, Thread, publishVars, storeVars, editingVars
  <2> QED BY <1>1, <2>1, <2>2
<1> QED BY <1>2, <1>3, <1>4, <1>5 DEF SaveSystems

LEMMA OthersKeepPublications ==
    ASSUME PublishInv, UNCHANGED <<publication, cook, runtime_db, active_save>>,
           source_epoch' \in Nat, UNCHANGED <<rows, given, reissued, others>> \/ others' # 0
    PROVE  PublishInv'
BY DEF PublishInv, Publishing

-----------------------------------------------------------------------------
(* The invariant.                                                          *)

LEMMA NothingTyped ==
    /\ <<>> \in Seq(Command)
    /\ FALSE \in BOOLEAN /\ TRUE \in BOOLEAN
OBVIOUS

LEMMA EditorInitHolds ==
    ASSUME EditorInit
    PROVE  EditorInv
<1> USE DEF EditorInit, EditingInit, StoreInit
<1>1. EditingTypeOK
  BY NothingTyped DEF EditingTypeOK
<1>2. ProjectTypeOK
  <2>1. <<>> \in Some(Row)
    <3>1. <<>> \in [{} -> Row] /\ {} \in SUBSET Objects
      OBVIOUS
    <3> QED BY <3>1, SomeOf
  <2>2. rows \in [Objects -> MayRow]
    BY DEF MayRow, Row
  <2>3. given \in [Objects -> Nat] /\ reissued \subseteq Objects
    OBVIOUS
  <2> QED BY <2>1, <2>2, <2>3 DEF ProjectTypeOK
<1>3. SaveInv
  <2>1. OneSave /\ SavingEntries
    BY DEF OneSave, SavingEntries
  <2>2. BasesMeet /\ RowsReadMeet
    BY DEF BasesMeet, RowsReadMeet
  <2>3. UndrawnAreUnused
    <3>1. \A o \in Fresh : o \in Objects /\ o \notin Existing
      BY EditingAssumption DEF Objects
    <3>2. \A o \in Fresh : rows[o] = None /\ given[o] = 0 /\ entries[o] = None
      BY <3>1
    <3>3. DOMAIN shown = {} /\ DOMAIN results = {}
      OBVIOUS
    <3> HIDE DEF EditorInit, EditingInit, StoreInit
    <3> QED BY <3>2, <3>3 DEF UndrawnAreUnused
  <2>4. RowsAreGiven
    BY DEF RowsAreGiven
  <2> QED BY <2>1, <2>2, <2>3, <2>4 DEF SaveInv
<1>4. PublishInv
  BY DEF PublishInv, Publishing, NoJob, NoCook
<1> QED BY <1>1, <1>2, <1>3, <1>4 DEF EditorInv

LEMMA EditorStep ==
    ASSUME EditorInv, EditorNext
    PROVE  EditorInv'
<1>1. EditingTypeOK /\ ProjectTypeOK /\ SaveInv /\ PublishInv /\ source_epoch \in Nat
  BY DEF EditorInv, PublishInv
<1>2. CASE OpenProject \/ ServeQuery \/ ThreadStops
  <2>1. UNCHANGED <<publication, cook, runtime_db, active_save, source_epoch>>
    BY <1>2 DEF OpenProject, ServeQuery, ThreadStops, Serve, Thread, publishVars, storeVars,
                editingVars
  <2> QED BY <1>1, <1>2, <2>1, ThreadSteps, OthersKeepPublications DEF EditorInv
<1>3. CASE ServeSave
  BY <1>3, ServeSaveKeeps, SavesKeepPublications DEF EditorInv
<1>4. CASE PublicationSystems \/ Cook \/ CookFails \/ Adopt
  BY <1>4, PublishSteps, PublicationKeeps DEF EditorInv
<1>5. CASE StoreSystems \/ UpdateDemand
  <2>1. active_save' = active_save
    BY <1>5, StoreSteps DEF editingVars
  <2> QED BY <1>1, <1>5, <2>1, StoreSteps, OthersKeepPublications DEF EditorInv
<1>6. CASE SaveSystems
  BY <1>6, DrainSteps, SavesKeepPublications DEF EditorInv
<1>7. CASE RequestSave \/ RequestPublish
  <2>1. UNCHANGED <<publication, cook, runtime_db, active_save, source_epoch>>
    BY <1>7 DEF RequestSave, RequestPublish, Request, publishVars, storeVars, editingVars
  <2> QED BY <1>1, <1>7, <2>1, DrainSteps, OthersKeepPublications DEF EditorInv
<1>8. CASE SelectObject \/ Reconcile
  BY <1>1, <1>8, PinSteps, ProjectKept, OthersKeepPublications DEF EditorInv
<1>9. CASE \/ AddObject \/ ApplyFields \/ DeleteSelection \/ DragSelection \/ EndDrag
           \/ LoseDrag \/ StepBack \/ StepForward \/ Discard \/ UseDatabaseVersion \/ KeepLocal
  <2>1. EditedAll /\ UNCHANGED projectVars
    BY <1>1, <1>9, UserEdits
  <2>2. EditingTypeOK' /\ SaveInv' /\ ProjectTypeOK'
    BY <1>1, <2>1, EditedKeeps, ProjectKept DEF EditedAll
  <2>3. UNCHANGED <<publication, cook, runtime_db, active_save, source_epoch, rows, given, reissued, others>>
    BY <1>1, <2>1, ProjectKept DEF EditedAll
  <2> QED BY <1>1, <2>2, <2>3, OthersKeepPublications DEF EditorInv
<1>10. CASE OtherEditor
  <2>1. UNCHANGED <<publication, cook, runtime_db, active_save, source_epoch>>
    BY <1>10 DEF OtherEditor, publishVars, storeVars, editingVars
  <2> QED BY <1>1, <1>10, <2>1, OtherKeeps, OthersKeepPublications DEF EditorInv
<1> QED BY <1>2, <1>3, <1>4, <1>5, <1>6, <1>7, <1>8, <1>9, <1>10
        DEF EditorNext, EditorThreads, UserActs

LEMMA EditorStutter ==
    ASSUME EditorInv, UNCHANGED editorVars
    PROVE  EditorInv'
<1>1. EditingTypeOK /\ ProjectTypeOK /\ PublishInv
  BY DEF EditorInv
<1>2. UNCHANGED <<editingVars, projectVars>>
  BY DEF editorVars
<1>3. EditingTypeOK' /\ ProjectTypeOK' /\ SaveInv'
  BY <1>1, <1>2, ProjectKept, QuietKeeps DEF ProjectTypeOK
<1>4. PublishInv'
  BY <1>1, <1>2, ProjectKept DEF PublishInv, Publishing, editingVars
<1> QED BY <1>3, <1>4 DEF EditorInv

\* What was read of the project and what is edited over it stay related to the
\* project's rows by every step: the invariant the promises rest on.
THEOREM EditorInvariant == EditorSpec => []EditorInv
<1>1. EditorInit => EditorInv
  BY EditorInitHolds
<1>2. EditorInv /\ [EditorNext]_editorVars => EditorInv'
  BY EditorStep, EditorStutter
<1> QED BY <1>1, <1>2, PTL DEF EditorSpec

\* While nobody else writes, the editor knows every object it is not saving
\* exactly as the project has it: a base that is behind would make the next
\* save a conflict with the user's own.
THEOREM BasesAreRows == EditorSpec => []BaseIsTheRow
<1>1. EditorInv => BaseIsTheRow
  <2> SUFFICES ASSUME EditorInv, others = 0, NEW o \in Tracked, entries[o].save.kind # "Saving"
               PROVE  entries[o].base = rows[o]
    BY DEF BaseIsTheRow
  <2>1. OneSave /\ SavingEntries /\ BasesMeet /\ o \in Objects /\ entries[o] # None
    BY DEF EditorInv, SaveInv, Tracked
  <2>2. ~Committed(o)
    BY <2>1, PromisedIsActive DEF SavingEntries
  <2> QED BY <2>1, <2>2 DEF BasesMeet, Meets
<1> QED BY <1>1, EditorInvariant, PTL

\* A row is replaced only by a save whose edit started from its revision, and
\* from that very row unless a deleted object came back at a revision it had
\* before: no save undoes what another editor wrote meanwhile.
THEOREM Overwrites == EditorSpec => NoSilentOverwrite
<1>1. ASSUME EditorInv, EditorNext, others' = others, NEW o \in Objects, rows'[o] # rows[o]
      PROVE  Replaced(o)
  <2>1. CASE ServeSave
    BY <1>1, <2>1, ServeSaveKeeps
  <2>2. CASE OtherEditor
    BY <1>1, <2>2, OtherKeeps
  <2>3. CASE ~ServeSave /\ ~OtherEditor
    <3>1. ProjectTypeOK /\ EditingTypeOK
      BY <1>1 DEF EditorInv
    <3>2. CASE OpenProject \/ ServeQuery \/ ThreadStops
      BY <1>1, <3>2, ThreadSteps
    <3>3. CASE PublicationSystems \/ Cook \/ CookFails \/ Adopt
      BY <1>1, <3>3, PublishSteps
    <3>4. CASE StoreSystems \/ UpdateDemand
      BY <1>1, <3>4, StoreSteps
    <3>5. CASE SaveSystems \/ RequestSave \/ RequestPublish
      BY <1>1, <3>5, DrainSteps
    <3>6. CASE SelectObject \/ Reconcile
      BY <1>1, <3>1, <3>6, PinSteps, ProjectKept
    <3>7. CASE \/ AddObject \/ ApplyFields \/ DeleteSelection \/ DragSelection \/ EndDrag
               \/ LoseDrag \/ StepBack \/ StepForward \/ Discard \/ UseDatabaseVersion \/ KeepLocal
      BY <1>1, <3>1, <3>7, UserEdits, ProjectKept
    <3> QED BY <1>1, <2>3, <3>2, <3>3, <3>4, <3>5, <3>6, <3>7
            DEF EditorNext, EditorThreads, UserActs
  <2> QED BY <2>1, <2>2, <2>3
<1>2. EditorInv /\ [EditorNext]_editorVars =>
         [others' = others => \A o \in Objects :
             rows'[o] # rows[o] =>
                /\ Revision(rows[o]) = Revision(entries[o].base)
                /\ rows[o] = entries[o].base \/ o \in reissued]_editorVars
  BY <1>1 DEF Replaced
<1> QED BY <1>2, EditorInvariant, PTL DEF EditorSpec, NoSilentOverwrite

\* Rows read again, answers to saves and adoptions leave what the user made of
\* an object as it is.
THEOREM EditsStay == EditorSpec => EditsAreKept
<1>1. ASSUME EditorInv, EditorNext, ~UserActs, NEW o \in DirtyObjects
      PROVE  Made(entries'[o].current) = Made(entries[o].current)
  <2>1. EditingTypeOK /\ o \in Objects /\ entries[o] # None /\ Dirty(entries[o])
    BY <1>1 DEF EditorInv, DirtyObjects, Tracked
  <2>2. entries[o] \in Entry
    BY <2>1, EntryIs
  <2>3. CASE entries'[o] = entries[o]
    BY <2>3
  <2>4. CASE CompleteSave
    BY <1>1, <2>1, <2>4, CompleteKeeps
  <2>5. CASE DriveSaves
    <3>1. entries' = [p \in Objects |-> IF p \in Batch
                                        THEN [entries[p] EXCEPT !.save = Now("Saving")]
                                        ELSE entries[p]]
      BY <2>5 DEF DriveSaves, QueueSave
    <3>2. entries'[o].current = entries[o].current
      BY <2>1, <2>2, <3>1 DEF Entry
    <3> QED BY <3>2
  <2>6. CASE ReceiveAdopted
    <3>1. CASE AdoptRuntime
      <4>1. entries'[o].current = entries[o].current
        BY <2>1, <2>2, <3>1 DEF AdoptRuntime, Entry
      <4> QED BY <4>1
    <3>2. CASE UNCHANGED editingVars
      BY <3>2 DEF editingVars
    <3> QED BY <2>6, <3>1, <3>2 DEF ReceiveAdopted
  <2>7. CASE Reconcile
    <3>1. entries'[o] = entries[o] \/ \E row : entries'[o] = Pinned(entries[o], row)
      BY <2>1, <2>7 DEF Reconcile, Pin
    <3>2. \A row : Pinned(entries[o], row) = entries[o]
      BY <2>1 DEF Pinned, Adopts
    <3> QED BY <3>1, <3>2
  <2>8. CASE OpenProject \/ ServeQuery \/ ServeSave \/ ThreadStops \/ OtherEditor
    BY <2>8 DEF OpenProject, ServeQuery, ServeSave, ThreadStops, OtherEditor, Serve, Thread,
                editingVars
  <2>9. CASE StoreSystems
    BY <1>1, <2>9, StoreSteps DEF editingVars
  <2>10. CASE \/ DriveEnds \/ DispatchPublication \/ ReceiveCooked \/ ReceiveCookStopped
              \/ Cook \/ CookFails \/ Adopt
    BY <2>10 DEF DriveEnds, DispatchPublication, ReceiveCooked, ReceiveCookStopped, Cook,
                 CookFails, Adopt, editingVars
  <2> QED BY <1>1, <2>4, <2>5, <2>6, <2>7, <2>8, <2>9, <2>10
          DEF EditorNext, EditorThreads, SaveSystems, PublicationSystems
<1>2. EditorInv /\ [EditorNext]_editorVars =>
         [\/ \A o \in DirtyObjects : Made(entries'[o].current) = Made(entries[o].current)
          \/ UserActs]_editorVars
  BY <1>1
<1> QED BY <1>2, EditorInvariant, PTL DEF EditorSpec, EditsAreKept

\* While nobody else writes, what an adoption marks as published is what was
\* cooked: no save came between the cook's snapshot and the adoption.
THEOREM PublishedIsCooked == EditorSpec => RuntimeIsWhatWasCooked
<1>1. ASSUME EditorInv, others = 0, reload = "adopted", ReceiveAdopted, NEW o \in Tracked
      PROVE  entries'[o].runtime = runtime_db[o]
  <2>1. /\ publication.phase = "Adopting" /\ AdoptRuntime
    BY <1>1 DEF ReceiveAdopted
  <2>2. /\ EditingTypeOK /\ OneSave /\ BasesMeet /\ o \in Objects /\ entries[o] # None
        /\ runtime_db = rows /\ active_save = None
    BY <1>1, <2>1 DEF EditorInv, SaveInv, PublishInv, Publishing, Tracked
  <2>3. ~Committed(o)
    BY <2>2, PromisedIsActive
  <2>4. entries[o].base = rows[o]
    BY <1>1, <2>2, <2>3 DEF BasesMeet, Meets
  <2>5. entries[o] \in Entry
    BY <2>2, EntryIs
  <2>6. entries'[o].runtime = entries[o].base
    BY <2>1, <2>2, <2>5 DEF AdoptRuntime, Entry
  <2> QED BY <2>2, <2>4, <2>6
<1>2. EditorInv /\ [EditorNext]_editorVars =>
         [others = 0 /\ reload = "adopted" /\ ReceiveAdopted =>
             \A o \in Tracked : entries'[o].runtime = runtime_db[o]]_editorVars
  BY <1>1
<1> QED BY <1>2, EditorInvariant, PTL DEF EditorSpec, RuntimeIsWhatWasCooked

-----------------------------------------------------------------------------
(* The history: each command leads from one layout of the objects to the   *)
(* next, and the last of them is what is edited, or was before the drag.   *)

Layouts == [Objects -> Nat \cup {None}]

Place(o) == IF Present(o) THEN entries[o].current.value ELSE None

\* Once a drag was lost no command holds its move: of the placements only who
\* is there is followed.
Seen(lost, place) == IF lost /\ place # None THEN 0 ELSE place
View == [o \in Objects |->
            Seen(dropped, IF drag # None /\ o \in DOMAIN drag THEN drag[o] ELSE Place(o))]

Adds(lost, records, from, to) ==
    /\ DOMAIN records # {}
    /\ \A o \in DOMAIN records : from[o] = None /\ to[o] = Seen(lost, records[o].value)
    /\ \A o \in Objects \ DOMAIN records : to[o] = from[o]

Moves(lost, before, after, from, to) ==
    /\ DOMAIN before = DOMAIN after /\ \E o \in DOMAIN before : before[o] # after[o]
    /\ \A o \in DOMAIN before : from[o] = Seen(lost, before[o]) /\ to[o] = Seen(lost, after[o])
    /\ \A o \in Objects \ DOMAIN before : to[o] = from[o]

Leads(lost, c, from, to) ==
    \/ c.kind = "Create" /\ Adds(lost, c.records, from, to)
    \/ c.kind = "Transform" /\ Moves(lost, c.before, c.after, from, to)
    \/ c.kind = "Delete" /\ Adds(lost, c.records, to, from)

TouchedBy(c) == IF c.kind = "Transform" THEN DOMAIN c.before ELSE DOMAIN c.records

\* The topmost command of a stack takes the layout above it to the one below.
Link(way, lost, c, above, below) ==
    IF way = "undo" THEN Leads(lost, c, below, above) ELSE Leads(lost, c, above, below)

Linked(way, lost, stack, layout) ==
    \A i \in 1 .. Len(stack) : Link(way, lost, stack[i], layout[i], layout[i - 1])

Stacked(way, lost, stack, view) ==
    \E layout \in [0 .. Len(stack) -> Layouts] :
        layout[Len(stack)] = view /\ Linked(way, lost, stack, layout)

TouchesTracked(stack) == \A i \in 1 .. Len(stack) : TouchedBy(stack[i]) \subseteq Tracked

HistoryOK ==
    /\ Stacked("undo", dropped, undo, View) /\ TouchesTracked(undo)
    /\ Stacked("redo", dropped, redo, View) /\ TouchesTracked(redo)
    /\ drag # None => \A o \in DOMAIN drag : Present(o)

HistoryInv == EditorInv /\ (others = 0 => HistoryOK)

-----------------------------------------------------------------------------
(* Stacks.                                                                 *)

LEMMA NothingStacked ==
    ASSUME NEW way, NEW lost, NEW view \in Layouts
    PROVE  Stacked(way, lost, <<>>, view)
<1> DEFINE layout == [i \in 0 .. 0 |-> view]
<1>1. layout \in [0 .. Len(<<>>) -> Layouts] /\ layout[Len(<<>>)] = view
  OBVIOUS
<1>2. Linked(way, lost, <<>>, layout)
  BY DEF Linked
<1> QED BY <1>1, <1>2 DEF Stacked

LEMMA Pushed ==
    ASSUME NEW way, NEW lost, NEW stack \in Seq(Command), NEW c \in Command,
           NEW view, NEW next \in Layouts, Stacked(way, lost, stack, view), Link(way, lost, c, next, view)
    PROVE  Stacked(way, lost, Append(stack, c), next)
<1> DEFINE n == Len(stack)
<1>1. PICK layout \in [0 .. n -> Layouts] : layout[n] = view /\ Linked(way, lost, stack, layout)
  BY DEF Stacked
<1> DEFINE longer == [i \in 0 .. n + 1 |-> IF i = n + 1 THEN next ELSE layout[i]]
<1>2. /\ n \in Nat /\ Len(Append(stack, c)) = n + 1
      /\ \A i \in 1 .. n : Append(stack, c)[i] = stack[i]
      /\ Append(stack, c)[n + 1] = c
  OBVIOUS
<1>3. /\ longer \in [0 .. n + 1 -> Layouts] /\ longer[n + 1] = next
      /\ \A i \in 0 .. n : longer[i] = layout[i]
  BY <1>1, <1>2
<1> HIDE DEF longer, n
<1>4. \A i \in 1 .. n + 1 : i = n + 1 \/ (i \in 1 .. n /\ i \in 0 .. n /\ i - 1 \in 0 .. n)
  BY <1>2
<1>5. n + 1 - 1 = n /\ n \in 0 .. n
  BY <1>2
<1>6. ASSUME NEW i \in 1 .. n + 1
      PROVE  Link(way, lost, Append(stack, c)[i], longer[i], longer[i - 1])
  <2>1. CASE i = n + 1
    BY <1>1, <1>2, <1>3, <1>5, <2>1
  <2>2. CASE i \in 1 .. n /\ i \in 0 .. n /\ i - 1 \in 0 .. n
    BY <1>1, <1>2, <1>3, <2>2 DEF Linked, n
  <2> QED BY <1>4, <2>1, <2>2
<1>7. Linked(way, lost, Append(stack, c), longer)
  BY <1>2, <1>6 DEF Linked
<1> QED BY <1>2, <1>3, <1>7 DEF Stacked

LEMMA PoppedIs ==
    ASSUME NEW way, NEW lost, NEW stack \in Seq(Command), stack # <<>>, NEW view, Stacked(way, lost, stack, view)
    PROVE  /\ Latest(stack) \in Command /\ Popped(stack) \in Seq(Command)
           /\ \E below \in Layouts :
                 Link(way, lost, Latest(stack), view, below) /\ Stacked(way, lost, Popped(stack), below)
<1> DEFINE n == Len(stack)
<1>1. PICK layout \in [0 .. n -> Layouts] : layout[n] = view /\ Linked(way, lost, stack, layout)
  BY DEF Stacked
<1>2. n \in Nat /\ n > 0 /\ n - 1 \in 0 .. n
  <2>1. n \in Nat /\ n # 0
    BY EmptySeq
  <2> QED BY <2>1
<1>3. stack[n] \in Command
  BY <1>2
<1>4. /\ Popped(stack) \in Seq(Command) /\ Len(Popped(stack)) = n - 1
      /\ \A i \in 1 .. n - 1 : Popped(stack)[i] = stack[i]
  <2>1. \A i \in 1 .. n - 1 : stack[i] \in Command
    BY <1>2
  <2>2. n - 1 - 1 + 1 = n - 1
    BY <1>2
  <2> QED BY <1>2, <2>1, <2>2, SubSeqProperties DEF Popped
<1> DEFINE shorter == [i \in 0 .. n - 1 |-> layout[i]]
<1>5. /\ shorter \in [0 .. n - 1 -> Layouts] /\ \A i \in 0 .. n - 1 : shorter[i] = layout[i]
      /\ layout[n - 1] \in Layouts
  <2>1. \A i \in 0 .. n - 1 : i \in 0 .. n
    BY <1>2
  <2> HIDE DEF n
  <2> QED BY <1>1, <1>2, <2>1
<1> HIDE DEF shorter, n
<1>6. Link(way, lost, stack[n], view, layout[n - 1])
  <2>1. n \in 1 .. Len(stack)
    BY <1>2 DEF n
  <2> QED BY <1>1, <2>1 DEF Linked
<1>7. ASSUME NEW i \in 1 .. n - 1
      PROVE  Link(way, lost, Popped(stack)[i], shorter[i], shorter[i - 1])
  <2>1. i \in 0 .. n - 1 /\ i - 1 \in 0 .. n - 1 /\ i \in 1 .. n
    BY <1>2
  <2>2. Link(way, lost, stack[i], layout[i], layout[i - 1])
    BY <1>1, <2>1 DEF Linked, n
  <2> QED BY <1>4, <1>5, <2>1, <2>2
<1>8. Linked(way, lost, Popped(stack), shorter)
  BY <1>4, <1>7 DEF Linked
<1>9. shorter[n - 1] = layout[n - 1]
  BY <1>2, <1>5
<1>10. Stacked(way, lost, Popped(stack), layout[n - 1])
  BY <1>4, <1>5, <1>8, <1>9 DEF Stacked
<1> QED BY <1>3, <1>4, <1>5, <1>6, <1>10 DEF Latest, n

LEMMA OldestDropped ==
    ASSUME NEW way, NEW lost, NEW stack \in Seq(Command), stack # <<>>, NEW view, Stacked(way, lost, stack, view)
    PROVE  Tail(stack) \in Seq(Command) /\ Stacked(way, lost, Tail(stack), view)
<1> DEFINE n == Len(stack)
<1>1. PICK layout \in [0 .. n -> Layouts] : layout[n] = view /\ Linked(way, lost, stack, layout)
  BY DEF Stacked
<1>2. /\ n \in Nat /\ n > 0
      /\ Tail(stack) \in Seq(Command) /\ Len(Tail(stack)) = n - 1
      /\ \A i \in 1 .. n - 1 : Tail(stack)[i] = stack[i + 1]
  <2>1. n \in Nat /\ n # 0
    BY EmptySeq
  <2> QED BY <2>1
<1> DEFINE shorter == [i \in 0 .. n - 1 |-> layout[i + 1]]
<1>3. /\ shorter \in [0 .. n - 1 -> Layouts] /\ \A i \in 0 .. n - 1 : shorter[i] = layout[i + 1]
  BY <1>1, <1>2
<1> HIDE DEF shorter, n
<1>5. ASSUME NEW i \in 1 .. n - 1
      PROVE  Link(way, lost, Tail(stack)[i], shorter[i], shorter[i - 1])
  <2>1. i \in 0 .. n - 1 /\ i - 1 \in 0 .. n - 1 /\ i + 1 \in 1 .. n /\ i + 1 - 1 = i - 1 + 1
    BY <1>2
  <2>2. Link(way, lost, stack[i + 1], layout[i + 1], layout[i + 1 - 1])
    BY <1>1, <2>1 DEF Linked, n
  <2> QED BY <1>2, <1>3, <2>1, <2>2
<1>6. Linked(way, lost, Tail(stack), shorter)
  BY <1>2, <1>5 DEF Linked
<1>7. shorter[n - 1] = view
  BY <1>1, <1>2, <1>3
<1> QED BY <1>2, <1>3, <1>6, <1>7 DEF Stacked

\* An object no command touches may be there from the start.
LEMMA Untouched ==
    ASSUME NEW way, NEW lost, NEW stack \in Seq(Command), NEW view, NEW next \in Layouts,
           Stacked(way, lost, stack, view), NEW o \in Objects,
           \A i \in 1 .. Len(stack) : o \notin TouchedBy(stack[i]),
           \A p \in Objects \ {o} : next[p] = view[p]
    PROVE  Stacked(way, lost, stack, next)
<1> DEFINE n == Len(stack)
<1>1. PICK layout \in [0 .. n -> Layouts] : layout[n] = view /\ Linked(way, lost, stack, layout)
  BY DEF Stacked
<1>2. n \in Nat /\ next[o] \in Nat \cup {None}
  BY DEF Layouts
<1> DEFINE other == [i \in 0 .. n |-> [p \in Objects |-> IF p = o THEN next[o] ELSE layout[i][p]]]
<1>3. /\ other \in [0 .. n -> Layouts]
      /\ \A i \in 0 .. n : other[i][o] = next[o] /\ \A p \in Objects \ {o} : other[i][p] = layout[i][p]
  BY <1>1, <1>2 DEF Layouts
<1>4. other[n] = next
  BY <1>1, <1>2 DEF Layouts
<1> HIDE DEF other, n
<1>5. ASSUME NEW i \in 1 .. n
      PROVE  Link(way, lost, stack[i], other[i], other[i - 1])
  <2>1. i \in 0 .. n /\ i - 1 \in 0 .. n /\ stack[i] \in Command /\ o \notin TouchedBy(stack[i])
    BY <1>2 DEF n
  <2>2. Link(way, lost, stack[i], layout[i], layout[i - 1])
    BY <1>1 DEF Linked, n
  <2> DEFINE c == stack[i]
             a == layout[i]
             b == layout[i - 1]
             x == other[i]
             y == other[i - 1]
  <2>3. /\ x[o] = y[o]
        /\ \A p \in Objects \ {o} : x[p] = a[p] /\ y[p] = b[p]
    BY <1>3, <2>1
  <2>4. ASSUME NEW from, NEW to, NEW f, NEW t, Leads(lost, c, f, t),
               from[o] = to[o], \A p \in Objects \ {o} : from[p] = f[p] /\ to[p] = t[p]
        PROVE  Leads(lost, c, from, to)
    <3>1. CASE c.kind \in {"Create", "Delete"}
      <4>1. DOMAIN c.records \in SUBSET Objects /\ o \notin DOMAIN c.records
        BY <2>1, <3>1, CommandIs, SomeIs DEF TouchedBy
      <4> QED BY <2>4, <3>1, <4>1 DEF Leads, Adds
    <3>2. CASE c.kind = "Transform"
      <4>1. DOMAIN c.before \in SUBSET Objects /\ o \notin DOMAIN c.before
        BY <2>1, <3>2, CommandIs, SomeIs DEF TouchedBy
      <4> QED BY <2>4, <3>2, <4>1 DEF Leads, Moves
    <3> QED BY <2>1, <3>1, <3>2, CommandIs
  <2> HIDE DEF c, a, b, x, y
  <2>5. Link(way, lost, c, x, y)
    BY <2>2, <2>3, <2>4 DEF Link, c, a, b
  <2> QED BY <2>5 DEF c, x, y
<1>6. Linked(way, lost, stack, other)
  BY <1>5 DEF Linked, n
<1> QED BY <1>3, <1>4, <1>6 DEF Stacked, n

\* A history that led exactly still leads to who is there.
LEMMA Blurred ==
    ASSUME NEW way, NEW stack \in Seq(Command), NEW view, Stacked(way, FALSE, stack, view)
    PROVE  Stacked(way, TRUE, stack, [o \in Objects |-> Seen(TRUE, view[o])])
<1> DEFINE n == Len(stack)
           blur(v) == [o \in Objects |-> Seen(TRUE, v[o])]
<1>1. PICK layout \in [0 .. n -> Layouts] : layout[n] = view /\ Linked(way, FALSE, stack, layout)
  BY DEF Stacked
<1> DEFINE dim == [i \in 0 .. n |-> blur(layout[i])]
<1>2. n \in Nat /\ \A i \in 0 .. n : dim[i] = blur(layout[i])
  OBVIOUS
<1>3. dim \in [0 .. n -> Layouts]
  <2>1. \A v \in Layouts : blur(v) \in Layouts
    BY DEF Layouts, Seen
  <2> QED BY <1>1, <2>1
<1>4. dim[n] = blur(view)
  BY <1>1, <1>2
<1> HIDE DEF dim, n
<1>5. ASSUME NEW i \in 1 .. n
      PROVE  Link(way, TRUE, stack[i], dim[i], dim[i - 1])
  <2>1. i \in 0 .. n /\ i - 1 \in 0 .. n /\ stack[i] \in Command
    BY <1>2 DEF n
  <2>2. Link(way, FALSE, stack[i], layout[i], layout[i - 1])
    BY <1>1 DEF Linked, n
  <2> DEFINE c == stack[i]
  <2>3. ASSUME NEW f, NEW t, Leads(FALSE, c, f, t)
        PROVE  Leads(TRUE, c, blur(f), blur(t))
    <3>1. CASE c.kind \in {"Create", "Delete"}
      <4>1. DOMAIN c.records \in SUBSET Objects
        BY <2>1, <3>1, CommandIs, SomeIs
      <4> QED BY <2>3, <3>1, <4>1 DEF Leads, Adds, Seen
    <3>2. CASE c.kind = "Transform"
      <4>1. DOMAIN c.before \in SUBSET Objects
        BY <2>1, <3>2, CommandIs, SomeIs
      <4> QED BY <2>3, <3>2, <4>1 DEF Leads, Moves, Seen
    <3> QED BY <2>1, <3>1, <3>2, CommandIs
  <2> HIDE DEF c, blur
  <2>4. Link(way, TRUE, c, blur(layout[i]), blur(layout[i - 1]))
    BY <2>2, <2>3 DEF Link, c
  <2> QED BY <1>2, <2>1, <2>4 DEF c
<1>6. Linked(way, TRUE, stack, dim)
  BY <1>5 DEF Linked, n
<1> QED BY <1>3, <1>4, <1>6 DEF Stacked, n

-----------------------------------------------------------------------------
(* Layouts.                                                                *)

LEMMA PlaceIs ==
    ASSUME EditingTypeOK, NEW o \in Objects
    PROVE  /\ Place(o) \in Nat \cup {None} /\ (Present(o) <=> Place(o) # None)
           /\ Present(o) => Place(o) = entries[o].current.value
BY PresentIs, NoneIsNoRow DEF Place, Row

LEMMA ViewIs ==
    ASSUME EditingTypeOK
    PROVE  /\ View \in Layouts
           /\ drag = None => \A o \in Objects : View[o] = Seen(dropped, Place(o))
           /\ drag # None =>
                 /\ DOMAIN drag \in SUBSET Objects
                 /\ \A o \in DOMAIN drag : View[o] = Seen(dropped, drag[o]) /\ drag[o] \in Nat
                 /\ \A o \in Objects \ DOMAIN drag : View[o] = Seen(dropped, Place(o))
<1>1. drag # None => DOMAIN drag \in SUBSET Objects /\ \A o \in DOMAIN drag : drag[o] \in Nat
  BY SomeIs DEF EditingTypeOK
<1>2. \A v \in Nat \cup {None} : Seen(dropped, v) \in Nat \cup {None}
  BY DEF Seen
<1>3. View \in Layouts
  BY <1>1, <1>2, PlaceIs DEF View, Layouts
<1> QED BY <1>1, <1>3 DEF View

ViewTyped == View \in Layouts /\ \A o \in Objects : Present(o) <=> Place(o) # None

LEMMA ViewTypes == EditingTypeOK => ViewTyped
BY PlaceIs, ViewIs DEF ViewTyped

LEMMA NextView ==
    ASSUME EditingTypeOK'
    PROVE  /\ View' \in Layouts
           /\ \A o \in Objects : Present(o)' <=> Place(o)' # None
<1>1. ViewTyped'
  BY ViewTypes, PTL
<1> QED BY <1>1 DEF ViewTyped

\* What a command does to the layout.
LEMMA ChangedPlaces ==
    ASSUME EditingTypeOK, NEW objects \in SUBSET Objects, NEW changes \in [objects -> MayRow],
           \A o \in objects : entries[o] # None, entries' = Changed(changes)
    PROVE  /\ \A o \in objects : Place(o)' = Made(changes[o])
           /\ \A o \in Objects \ objects : Place(o)' = Place(o)
           /\ Tracked' = Tracked
<1>1. \A o \in Objects \ objects : entries'[o] = entries[o]
  BY DEF Changed
<1>2. ASSUME NEW o \in objects
      PROVE  entries'[o] # None /\ entries'[o].current = changes[o]
  <2>1. entries[o] \in Entry /\ changes[o] \in MayRow
    BY EntryIs
  <2>2. entries'[o] = [entries[o] EXCEPT !.current = changes[o], !.save = Idle]
    BY DEF Changed
  <2>3. entries'[o].current = changes[o] /\ entries'[o] \in Entry
    <3>1. Idle \in SaveState
      BY DEF Idle, SaveState, MayRow
    <3>2. ASSUME NEW e \in Entry, NEW r \in MayRow, NEW next,
                 next = [e EXCEPT !.current = r, !.save = Idle]
          PROVE  next.current = r /\ next \in Entry
      BY <3>1, <3>2 DEF Entry
    <3> QED BY <2>1, <2>2, <3>2
  <2>4. None \notin Entry
    BY NoneIsNoRow
  <2> QED BY <2>3, <2>4
<1>3. Tracked' = Tracked
  BY <1>1, <1>2 DEF Tracked
<1>4. \A o \in objects : o \in Tracked'
  BY <1>2 DEF Tracked
<1>5. \A o \in objects : Place(o)' = Made(changes[o])
  BY <1>2, <1>4 DEF Place, Present, Made
<1>6. \A o \in Objects \ objects : Place(o)' = Place(o)
  BY <1>1, <1>3 DEF Place, Present
<1> QED BY <1>3, <1>5, <1>6

LEMMA MovedPlaces ==
    ASSUME EditingTypeOK, NEW places \in Some(Nat), MayMove(places), entries' = Moved(places)
    PROVE  /\ \A o \in DOMAIN places : Place(o)' = places[o] /\ Present(o)
           /\ \A o \in Objects \ DOMAIN places : Place(o)' = Place(o)
           /\ Tracked' = Tracked /\ DOMAIN places \subseteq Tracked
           /\ \E o \in DOMAIN places : Place(o) # places[o]
<1> DEFINE changes == [o \in DOMAIN places |-> [entries[o].current EXCEPT !.value = places[o]]]
<1>1. /\ DOMAIN places \in SUBSET Objects
      /\ \A o \in DOMAIN places : places[o] \in Nat /\ Present(o)
      /\ \E o \in DOMAIN places : entries[o].current.value # places[o]
  BY SomeIs DEF MayMove, CanEdit, At
<1>2. \A o \in DOMAIN places :
         /\ entries[o] # None /\ entries[o].current \in Row
         /\ Place(o) = entries[o].current.value
  BY <1>1, PresentIs, PlaceIs
<1>3. /\ changes \in [DOMAIN places -> MayRow]
      /\ \A o \in DOMAIN places : Made(changes[o]) = places[o]
  <2>1. \A o \in DOMAIN places : changes[o] \in Row /\ changes[o].value = places[o]
    BY <1>1, <1>2 DEF Row
  <2>2. \A o \in DOMAIN places : changes[o] # None
    BY <2>1, NoneIsNoRow
  <2> QED BY <2>1, <2>2 DEF MayRow, Made
<1>4. entries' = Changed(changes)
  BY DEF Moved
<1> HIDE DEF changes
<1>5. /\ \A o \in DOMAIN places : Place(o)' = Made(changes[o])
      /\ \A o \in Objects \ DOMAIN places : Place(o)' = Place(o)
      /\ Tracked' = Tracked
  BY <1>1, <1>2, <1>3, <1>4, ChangedPlaces
<1> QED BY <1>1, <1>2, <1>3, <1>5 DEF Present

LEMMA DeletedPlaces ==
    ASSUME EditingTypeOK, NEW objects \in SUBSET Objects, MayDelete(objects),
           entries' = Deleted(objects)
    PROVE  /\ objects # {} /\ objects \subseteq Tracked /\ Tracked' = Tracked
           /\ \A o \in objects : Place(o)' = None /\ Present(o)
           /\ \A o \in Objects \ objects : Place(o)' = Place(o)
<1> DEFINE changes == [o \in objects |-> None]
<1>1. objects # {} /\ \A o \in objects : Present(o) /\ entries[o] # None
  BY PresentIs DEF MayDelete, CanEdit
<1>2. changes \in [objects -> MayRow] /\ \A o \in objects : Made(changes[o]) = None
  BY DEF MayRow, Made
<1>3. entries' = Changed(changes)
  BY DEF Deleted
<1> HIDE DEF changes
<1>4. /\ \A o \in objects : Place(o)' = Made(changes[o])
      /\ \A o \in Objects \ objects : Place(o)' = Place(o)
      /\ Tracked' = Tracked
  BY <1>1, <1>2, <1>3, ChangedPlaces
<1> QED BY <1>1, <1>2, <1>4 DEF Present

LEMMA RestoredPlaces ==
    ASSUME EditingTypeOK, NEW records \in Some(Row), MayRestore(records),
           entries' = Restored(records)
    PROVE  /\ DOMAIN records \subseteq Tracked /\ Tracked' = Tracked
           /\ \A o \in DOMAIN records : Place(o)' = records[o].value
           /\ \A o \in Objects \ DOMAIN records : Place(o)' = Place(o)
<1>1. /\ DOMAIN records \in SUBSET Objects
      /\ \A o \in DOMAIN records : records[o] \in Row /\ entries[o] # None /\ o \in Tracked
  BY SomeIs DEF MayRestore, Tracked
<1>2. /\ records \in [DOMAIN records -> MayRow]
      /\ \A o \in DOMAIN records : Made(records[o]) = records[o].value
  BY <1>1, SomeIs, NoneIsNoRow DEF MayRow, Made
<1>3. entries' = Changed(records)
  BY DEF Restored
<1>4. /\ \A o \in DOMAIN records : Place(o)' = Made(records[o])
      /\ \A o \in Objects \ DOMAIN records : Place(o)' = Place(o)
      /\ Tracked' = Tracked
  BY <1>1, <1>2, <1>3, ChangedPlaces
<1> QED BY <1>1, <1>2, <1>4

-----------------------------------------------------------------------------
(* What keeps the history.                                                 *)

LEMMA SameLayout ==
    ASSUME EditingTypeOK, EditingTypeOK', HistoryOK, UNCHANGED <<undo, redo, drag, dropped>>,
           \A o \in Objects : Place(o)' = Place(o), Tracked \subseteq Tracked'
    PROVE  HistoryOK'
<1>1. View' = View
  BY DEF View
<1>2. TouchesTracked(undo)' /\ TouchesTracked(redo)'
  BY DEF HistoryOK, TouchesTracked
<1>3. drag' # None => \A o \in DOMAIN drag' : Present(o)'
  <2>1. drag # None => DOMAIN drag \in SUBSET Objects
    BY ViewIs
  <2>2. \A o \in Objects : Present(o)' <=> Place(o)' # None
    BY NextView
  <2>3. \A o \in Objects : Present(o) <=> Place(o) # None
    BY PlaceIs
  <2> QED BY <2>1, <2>2, <2>3 DEF HistoryOK
<1>4. Stacked("undo", dropped, undo, View)' /\ Stacked("redo", dropped, redo, View)'
  BY <1>1 DEF HistoryOK
<1> QED BY <1>2, <1>3, <1>4 DEF HistoryOK

\* A new command.
LEMMA RecordKeepsHistory ==
    ASSUME EditingTypeOK, EditingTypeOK', HistoryOK, NEW c \in Command, Record(c),
           Leads(dropped, c, View, View'), TouchedBy(c) \subseteq Tracked', Tracked \subseteq Tracked',
           drag' = None, dropped' = dropped
    PROVE  HistoryOK'
<1> DEFINE kept == IF Len(undo) >= MAX_HISTORY_ENTRIES THEN Tail(undo) ELSE undo
<1>1. undo \in Seq(Command) /\ Len(undo) \in Nat /\ View' \in Layouts
  <2>1. View' \in Layouts
    BY NextView
  <2> QED BY <2>1 DEF EditingTypeOK
<1>2. undo' = Append(kept, c) /\ redo' = <<>>
  BY DEF Record
<1>3. Stacked("undo", dropped, undo, View) /\ \A i \in 1 .. Len(undo) : TouchedBy(undo[i]) \subseteq Tracked
  BY DEF HistoryOK, TouchesTracked
<1>4. Len(undo) >= MAX_HISTORY_ENTRIES => undo # <<>>
  BY <1>1, EditingAssumption
<1>5. kept \in Seq(Command) /\ Stacked("undo", dropped, kept, View)
  BY <1>1, <1>3, <1>4, OldestDropped
<1>6. \A i \in 1 .. Len(kept) : TouchedBy(kept[i]) \subseteq Tracked
  <2>1. CASE Len(undo) >= MAX_HISTORY_ENTRIES
    <3>1. \A i \in 1 .. Len(Tail(undo)) : i + 1 \in 1 .. Len(undo) /\ Tail(undo)[i] = undo[i + 1]
      BY <1>1, <1>4, <2>1
    <3> QED BY <1>3, <2>1, <3>1
  <2> QED BY <1>3, <2>1
<1> HIDE DEF kept
<1>7. Link("undo", dropped, c, View', View)
  BY DEF Link
<1>8. Stacked("undo", dropped, Append(kept, c), View')
  BY <1>1, <1>5, <1>7, Pushed
<1>9. Stacked("undo", dropped, undo, View)'
  BY <1>2, <1>8
<1>10. Stacked("redo", dropped, <<>>, View')
  BY <1>1, NothingStacked
<1>11. Stacked("redo", dropped, redo, View)'
  BY <1>2, <1>10
<1>12. TouchesTracked(undo)'
  <2>1. \A i \in 1 .. Len(Append(kept, c)) :
           Append(kept, c)[i] = c \/ (i \in 1 .. Len(kept) /\ Append(kept, c)[i] = kept[i])
    BY <1>5
  <2> QED BY <1>2, <1>6, <2>1 DEF TouchesTracked, TouchedBy
<1>13. TouchesTracked(redo)'
  BY <1>2 DEF TouchesTracked
<1> QED BY <1>9, <1>11, <1>12, <1>13 DEF HistoryOK

\* A history thrown away.
LEMMA ClearKeepsHistory ==
    ASSUME EditingTypeOK', undo' = <<>>, redo' = <<>>, drag' = None
    PROVE  HistoryOK'
<1>1. View' \in Layouts
  BY NextView
<1>2. Stacked("undo", dropped', <<>>, View') /\ Stacked("redo", dropped', <<>>, View')
  BY <1>1, NothingStacked
<1>3. Stacked("undo", dropped, undo, View)' /\ Stacked("redo", dropped, redo, View)'
  BY <1>2
<1>4. TouchesTracked(undo)' /\ TouchesTracked(redo)'
  BY DEF TouchesTracked
<1> QED BY <1>3, <1>4 DEF HistoryOK

-----------------------------------------------------------------------------
(* The user's commands.                                                    *)

LEMMA CreateKeepsHistory ==
    ASSUME EditorInv, EditingTypeOK', HistoryOK, drag = None, NEW o \in Fresh,
           NEW place \in Placements, Create(o, place)
    PROVE  HistoryOK'
<1> DEFINE row == [value |-> place, rev |-> 0]
           c == [kind |-> "Create", records |-> [p \in {o} |-> row]]
<1>1. /\ EditingTypeOK /\ o \in Objects /\ drag' = None /\ dropped' = dropped /\ entries[o] = None
      /\ entries' = [entries EXCEPT ![o] = FromCreated(row)] /\ Record(c)
  BY DEF Create, Objects, EditorInv, EditingTypeOK, SaveInv, UndrawnAreUnused
<1>2. row \in Row /\ row.value \in Nat /\ row # None
  <2>1. row.value \in Nat /\ row.rev = 0
    BY EditingAssumption
  <2>2. row \in Row
    BY <2>1 DEF Row
  <2> QED BY <2>1, <2>2, NoneIsNoRow
<1>3. c \in Command
  <2>1. [p \in {o} |-> row] \in [{o} -> Row]
    BY <1>2
  <2>2. [p \in {o} |-> row] \in Some(Row)
    BY <1>1, <2>1, SomeOf
  <2> QED BY <2>2 DEF Command
<1> HIDE DEF row
<1>4. FromCreated(row) \in Entry /\ FromCreated(row).current = row
  BY <1>2 DEF FromCreated, Entry, Idle, SaveState, MayRow
<1>5. FromCreated(row) # None
  BY <1>4, NoneIsNoRow
<1>6. /\ entries'[o] = FromCreated(row) /\ \A p \in Objects \ {o} : entries'[p] = entries[p]
  BY <1>1 DEF EditingTypeOK
<1>7. Tracked' = Tracked \cup {o} /\ o \notin Tracked
  BY <1>1, <1>5, <1>6 DEF Tracked
<1>8. /\ Place(o) = None /\ Place(o)' = row.value
      /\ \A p \in Objects \ {o} : Place(p)' = Place(p)
  BY <1>1, <1>2, <1>4, <1>6, <1>7 DEF Place, Present
<1>9. \A p \in Objects : /\ View[p] = Seen(dropped, Place(p))
                 /\ View'[p] = Seen(dropped, Place(p)')
  BY <1>1 DEF View
<1>10. Leads(dropped, c, View, View')
  BY <1>1, <1>8, <1>9 DEF Leads, Adds, Seen
<1>11. TouchedBy(c) \subseteq Tracked'
  BY <1>7 DEF TouchedBy
<1> QED BY <1>1, <1>3, <1>7, <1>10, <1>11, RecordKeepsHistory

LEMMA TransformKeepsHistory ==
    ASSUME EditingTypeOK, EditingTypeOK', HistoryOK, drag = None, NEW objects,
           NEW place \in Placements, Transform(objects, place)
    PROVE  HistoryOK'
<1> DEFINE places == AllAt(objects, place)
           c == [kind |-> "Transform", before |-> Places(objects), after |-> places]
<1>1. /\ MayMove(places) /\ entries' = Moved(places) /\ Record(c) /\ drag' = None
      /\ dropped' = dropped /\ place \in Nat
  BY EditingAssumption DEF Transform
<1>2. /\ places \in Some(Nat) /\ objects \in SUBSET Objects /\ DOMAIN places = objects
      /\ \A o \in objects : Present(o)
  BY <1>1, AllAtTyped DEF AllAt
<1>3. c \in Command
  BY <1>2, PlacesTyped DEF Command
<1> HIDE DEF places
<1>4. /\ \A o \in objects : Place(o)' = places[o]
      /\ \A o \in Objects \ objects : Place(o)' = Place(o)
      /\ Tracked' = Tracked /\ objects \subseteq Tracked
      /\ \E o \in objects : Place(o) # places[o]
  BY <1>1, <1>2, MovedPlaces
<1>5. DOMAIN Places(objects) = objects /\ \A o \in objects : Places(objects)[o] = Place(o)
  BY <1>2, PlaceIs DEF Places
<1>6. \A o \in Objects : /\ View[o] = Seen(dropped, Place(o))
                 /\ View'[o] = Seen(dropped, Place(o)')
  BY <1>1 DEF View
<1>7. Leads(dropped, c, View, View')
  BY <1>2, <1>4, <1>5, <1>6 DEF Leads, Moves
<1>8. TouchedBy(c) \subseteq Tracked'
  BY <1>4, <1>5 DEF TouchedBy
<1> QED BY <1>1, <1>3, <1>4, <1>7, <1>8, RecordKeepsHistory

LEMMA DeleteKeepsHistory ==
    ASSUME EditingTypeOK, EditingTypeOK', HistoryOK, drag = None,
           NEW objects \in SUBSET Objects, Delete(objects)
    PROVE  HistoryOK'
<1> DEFINE c == [kind |-> "Delete", records |-> Records(objects)]
<1>1. /\ MayDelete(objects) /\ entries' = Deleted(objects) /\ Record(c) /\ drag' = None
      /\ dropped' = dropped
  BY DEF Delete
<1>2. /\ objects # {} /\ objects \subseteq Tracked /\ Tracked' = Tracked
      /\ \A o \in objects : Place(o)' = None /\ Present(o)
      /\ \A o \in Objects \ objects : Place(o)' = Place(o)
  BY <1>1, DeletedPlaces
<1>3. c \in Command
  BY <1>2, PlacesTyped DEF Command
<1>4. DOMAIN Records(objects) = objects /\ \A o \in objects : Records(objects)[o].value = Place(o)
  BY <1>2, PlaceIs DEF Records
<1>5. \A o \in Objects : /\ View[o] = Seen(dropped, Place(o))
                 /\ View'[o] = Seen(dropped, Place(o)')
  BY <1>1 DEF View
<1>6. Leads(dropped, c, View, View')
  BY <1>2, <1>4, <1>5 DEF Leads, Adds, Seen
<1>7. TouchedBy(c) \subseteq Tracked'
  BY <1>2, <1>4 DEF TouchedBy
<1> QED BY <1>1, <1>2, <1>3, <1>6, <1>7, RecordKeepsHistory

LEMMA DragKeepsHistory ==
    ASSUME EditingTypeOK, EditingTypeOK', HistoryOK, NEW objects,
           NEW place \in Placements, DragMove(objects, place)
    PROVE  HistoryOK'
<1> DEFINE places == AllAt(objects, place)
<1>1. /\ MayMove(places) /\ entries' = Moved(places) /\ UNCHANGED <<undo, redo, dropped>>
      /\ place \in Nat
      /\ drag # None => objects = DOMAIN drag
      /\ drag' = IF drag = None THEN Places(objects) ELSE drag
  BY EditingAssumption DEF DragMove
<1>2. /\ places \in Some(Nat) /\ objects \in SUBSET Objects /\ DOMAIN places = objects
      /\ \A o \in objects : Present(o)
  BY <1>1, AllAtTyped DEF AllAt
<1>3. /\ \A o \in objects : Place(o)' = places[o] /\ places[o] \in Nat
      /\ \A o \in Objects \ objects : Place(o)' = Place(o)
      /\ Tracked' = Tracked
  BY <1>1, <1>2, MovedPlaces, SomeIs
<1>4. DOMAIN Places(objects) = objects /\ \A o \in objects : Places(objects)[o] = Place(o)
  BY <1>2, PlaceIs DEF Places
<1>5. drag' # None /\ DOMAIN drag' = objects
  <2>1. Places(objects) # None
    BY <1>2, PlacesTyped, NoneIsNoRow DEF Some
  <2> QED BY <1>1, <1>4, <2>1
<1>6. \A o \in Objects : View'[o] = View[o]
  BY <1>1, <1>3, <1>4, <1>5 DEF View
<1>7. View' = View
  BY <1>6 DEF View
<1>8. \A o \in objects : Present(o)'
  BY <1>2, <1>3, NextView, NoneIsNoRow
<1>9. TouchesTracked(undo)' /\ TouchesTracked(redo)'
  BY <1>1, <1>3 DEF HistoryOK, TouchesTracked
<1> QED BY <1>1, <1>5, <1>7, <1>8, <1>9 DEF HistoryOK

LEMMA DragEndKeepsHistory ==
    ASSUME EditingTypeOK, EditingTypeOK', HistoryOK, DragEnd
    PROVE  HistoryOK'
<1> DEFINE changed == {o \in DOMAIN drag : entries[o].current.value # drag[o]}
           c == [kind |-> "Transform", before |-> Restrict(drag, changed),
                 after |-> Places(changed)]
<1>1. /\ drag # None /\ drag' = None /\ entries' = entries /\ dropped' = dropped
      /\ DOMAIN drag \in SUBSET Objects /\ drag \in Some(Nat)
      /\ \A o \in DOMAIN drag : Present(o) /\ drag[o] \in Nat
      /\ Tracked' = Tracked /\ changed \in SUBSET Objects
  BY ViewIs DEF DragEnd, HistoryOK, Tracked, EditingTypeOK
<1>2. /\ \A o \in Objects : View'[o] = Seen(dropped, Place(o))
      /\ \A o \in DOMAIN drag : /\ View[o] = Seen(dropped, drag[o])
                                /\ Place(o) = entries[o].current.value
      /\ \A o \in Objects \ DOMAIN drag : View[o] = Seen(dropped, Place(o))
      /\ \A o \in DOMAIN drag : o \in Tracked
  BY <1>1, ViewIs, PlaceIs DEF View, Place, Present, Tracked
<1>3. CASE changed = {}
  <2>1. \A o \in Objects : View'[o] = View[o]
    BY <1>2, <1>3
  <2>2. View' = View
    BY <2>1 DEF View
  <2>3. UNCHANGED <<undo, redo>>
    BY <1>1, <1>3 DEF DragEnd
  <2>4. TouchesTracked(undo)' /\ TouchesTracked(redo)'
    BY <1>1, <2>3 DEF HistoryOK, TouchesTracked
  <2> QED BY <1>1, <2>2, <2>3, <2>4 DEF HistoryOK
<1>4. CASE changed # {}
  <2>1. Record(c)
    BY <1>1, <1>4 DEF DragEnd
  <2>2. /\ DOMAIN Restrict(drag, changed) = changed /\ DOMAIN Places(changed) = changed
        /\ \A o \in changed : Restrict(drag, changed)[o] = drag[o]
        /\ \A o \in changed : Places(changed)[o] = Place(o)
    BY <1>1, <1>2 DEF Restrict, Places
  <2>3. Restrict(drag, changed) \in [changed -> Nat]
    BY <1>1 DEF Restrict
  <2>4. Restrict(drag, changed) \in Some(Nat) /\ Places(changed) \in Some(Nat)
    BY <1>1, <2>3, SomeOf, PlacesTyped
  <2>5. c \in Command
    BY <2>4 DEF Command
  <2>6. \A o \in changed : /\ drag[o] # Place(o) /\ View[o] = Seen(dropped, drag[o])
                            /\ View'[o] = Seen(dropped, Place(o))
    BY <1>1, <1>2
  <2>7. \A o \in Objects \ changed : View'[o] = View[o]
    BY <1>2
  <2> HIDE DEF changed
  <2>8. Leads(dropped, c, View, View')
    BY <1>1, <1>4, <2>2, <2>6, <2>7 DEF Leads, Moves
  <2>9. TouchedBy(c) \subseteq Tracked'
    BY <1>1, <1>2, <2>2 DEF TouchedBy, changed
  <2> QED BY <1>1, <2>1, <2>5, <2>8, <2>9, RecordKeepsHistory
<1> QED BY <1>3, <1>4

\* A lost drag leaves a preview no command holds.
LEMMA DragLostKeepsHistory ==
    ASSUME EditingTypeOK, EditingTypeOK', HistoryOK, DragLost
    PROVE  HistoryOK'
<1>1. /\ drag # None /\ drag' = None /\ dropped' = (dropped \/ ~At(drag))
      /\ UNCHANGED <<entries, undo, redo>> /\ dropped \in BOOLEAN
      /\ undo \in Seq(Command) /\ redo \in Seq(Command)
      /\ DOMAIN drag \in SUBSET Objects
      /\ \A o \in DOMAIN drag : Present(o) /\ drag[o] \in Nat
      /\ Tracked' = Tracked
  BY ViewIs DEF DragLost, HistoryOK, Tracked, EditingTypeOK
<1>2. /\ \A o \in Objects : View'[o] = Seen(dropped', Place(o))
      /\ \A o \in DOMAIN drag : /\ View[o] = Seen(dropped, drag[o])
                                /\ Place(o) = entries[o].current.value /\ Place(o) # None
      /\ \A o \in Objects \ DOMAIN drag : View[o] = Seen(dropped, Place(o))
  BY <1>1, ViewIs, PlaceIs DEF View, Place, Present, Tracked
<1>3. \A o \in DOMAIN drag : drag[o] # None
  BY <1>1, NoneIsNoRow
<1>4. Stacked("undo", dropped', undo, View') /\ Stacked("redo", dropped', redo, View')
  <2>1. CASE dropped' = dropped
    <3>1. \A o \in DOMAIN drag : Seen(dropped, drag[o]) = Seen(dropped, Place(o))
      BY <1>1, <1>2, <1>3, <2>1 DEF Seen, At
    <3>2. \A o \in Objects : View'[o] = View[o]
      BY <1>2, <2>1, <3>1
    <3>3. View' = View
      BY <3>2 DEF View
    <3> QED BY <2>1, <3>3 DEF HistoryOK
  <2>2. CASE dropped' # dropped
    <3>1. dropped = FALSE /\ dropped' = TRUE
      BY <1>1, <2>2
    <3>2. \A o \in Objects : View'[o] = Seen(TRUE, View[o])
      BY <1>2, <1>3, <3>1 DEF Seen
    <3>3. View' = [o \in Objects |-> Seen(TRUE, View[o])]
      BY <3>2 DEF View
    <3> QED BY <1>1, <3>1, <3>3, Blurred DEF HistoryOK
  <2> QED BY <2>1, <2>2
<1>5. TouchesTracked(undo)' /\ TouchesTracked(redo)'
  BY <1>1 DEF HistoryOK, TouchesTracked
<1> QED BY <1>1, <1>4, <1>5 DEF HistoryOK

LEMMA UndoKeepsHistory ==
    ASSUME EditingTypeOK, EditingTypeOK', HistoryOK, drag = None, Undo
    PROVE  HistoryOK'
<1> DEFINE c == Latest(undo)
<1>1. /\ undo # <<>> /\ MayRevert(c) /\ entries' = Reverted(c) /\ drag' = None /\ dropped' = dropped
      /\ redo' = Append(redo, c) /\ undo' = Popped(undo)
      /\ undo \in Seq(Command) /\ redo \in Seq(Command)
  BY DEF Undo, EditingTypeOK
<1>2. PICK below \in Layouts :
         Link("undo", dropped, c, View, below) /\ Stacked("undo", dropped, Popped(undo), below)
  BY <1>1, PoppedIs DEF HistoryOK
<1>3. c \in Command /\ Popped(undo) \in Seq(Command)
  BY <1>1, PoppedIs DEF HistoryOK
<1>4. TouchedBy(c) \subseteq Tracked /\ TouchesTracked(Popped(undo)) /\ TouchesTracked(redo)
  <2>1. /\ Len(undo) \in 1 .. Len(undo)
        /\ \A i \in 1 .. Len(Popped(undo)) : i \in 1 .. Len(undo) /\ Popped(undo)[i] = undo[i]
    BY <1>1 DEF Popped
  <2> QED BY <2>1 DEF HistoryOK, TouchesTracked, Latest
<1> HIDE DEF c
<1>5. Leads(dropped, c, below, View)
  BY <1>2 DEF Link
<1>6. /\ \A o \in Objects : /\ View[o] = Seen(dropped, Place(o))
                            /\ View'[o] = Seen(dropped, Place(o)')
      /\ View' \in Layouts
  <2>1. \A o \in Objects : /\ View[o] = Seen(dropped, Place(o))
                   /\ View'[o] = Seen(dropped, Place(o)')
    BY <1>1 DEF View
  <2> QED BY <2>1, NextView
<1>7. Tracked' = Tracked /\ \A o \in Objects : Seen(dropped, Place(o)') = below[o]
  <2>1. CASE c.kind = "Create"
    <3>1. c.records \in Some(Row) /\ DOMAIN c.records \in SUBSET Objects
      BY <1>3, <2>1, CommandIs, SomeIs
    <3>2. MayDelete(DOMAIN c.records) /\ entries' = Deleted(DOMAIN c.records)
      BY <1>1, <2>1 DEF MayRevert, Reverted
    <3>3. /\ Tracked' = Tracked /\ \A o \in DOMAIN c.records : Place(o)' = None
          /\ \A o \in Objects \ DOMAIN c.records : Place(o)' = Place(o)
      BY <3>1, <3>2, DeletedPlaces
    <3> QED BY <1>5, <1>6, <2>1, <3>1, <3>3 DEF Leads, Adds, Seen
  <2>2. CASE c.kind = "Transform"
    <3>1. c.before \in Some(Nat) /\ DOMAIN c.before \in SUBSET Objects
      BY <1>3, <2>2, CommandIs, SomeIs
    <3>2. MayMove(c.before) /\ entries' = Moved(c.before)
      BY <1>1, <2>2 DEF MayRevert, Reverted
    <3>3. /\ Tracked' = Tracked /\ \A o \in DOMAIN c.before : Place(o)' = c.before[o]
          /\ \A o \in Objects \ DOMAIN c.before : Place(o)' = Place(o)
      BY <3>1, <3>2, MovedPlaces
    <3> QED BY <1>5, <1>6, <2>2, <3>1, <3>3 DEF Leads, Moves
  <2>3. CASE c.kind = "Delete"
    <3>1. c.records \in Some(Row) /\ DOMAIN c.records \in SUBSET Objects
      BY <1>3, <2>3, CommandIs, SomeIs
    <3>2. MayRestore(c.records) /\ entries' = Restored(c.records)
      BY <1>1, <2>3 DEF MayRevert, Reverted
    <3>3. /\ Tracked' = Tracked /\ \A o \in DOMAIN c.records : Place(o)' = c.records[o].value
          /\ \A o \in Objects \ DOMAIN c.records : Place(o)' = Place(o)
      BY <3>1, <3>2, RestoredPlaces
    <3> QED BY <1>5, <1>6, <2>3, <3>1, <3>3 DEF Leads, Adds, Seen
  <2> QED BY <1>3, <2>1, <2>2, <2>3, CommandIs
<1>8. View' = below
  BY <1>6, <1>7 DEF Layouts
<1>9. Link("redo", dropped, c, View', View)
  BY <1>5, <1>8 DEF Link
<1>10. Stacked("redo", dropped, Append(redo, c), View')
  BY <1>1, <1>3, <1>6, <1>9, Pushed DEF HistoryOK
<1>11. TouchesTracked(undo)' /\ TouchesTracked(redo)'
  <2>1. \A i \in 1 .. Len(Append(redo, c)) :
           Append(redo, c)[i] = c \/ (i \in 1 .. Len(redo) /\ Append(redo, c)[i] = redo[i])
    BY <1>1, <1>3
  <2> QED BY <1>1, <1>4, <1>7, <2>1 DEF TouchesTracked, TouchedBy
<1> QED BY <1>1, <1>2, <1>8, <1>10, <1>11 DEF HistoryOK

LEMMA RedoKeepsHistory ==
    ASSUME EditingTypeOK, EditingTypeOK', HistoryOK, drag = None, Redo
    PROVE  HistoryOK'
<1> DEFINE c == Latest(redo)
<1>1. /\ redo # <<>> /\ MayApply(c) /\ entries' = Applied(c) /\ drag' = None /\ dropped' = dropped
      /\ undo' = Append(undo, c) /\ redo' = Popped(redo)
      /\ undo \in Seq(Command) /\ redo \in Seq(Command)
  BY DEF Redo, EditingTypeOK
<1>2. PICK below \in Layouts :
         Link("redo", dropped, c, View, below) /\ Stacked("redo", dropped, Popped(redo), below)
  BY <1>1, PoppedIs DEF HistoryOK
<1>3. c \in Command /\ Popped(redo) \in Seq(Command)
  BY <1>1, PoppedIs DEF HistoryOK
<1>4. TouchedBy(c) \subseteq Tracked /\ TouchesTracked(Popped(redo)) /\ TouchesTracked(undo)
  <2>1. /\ Len(redo) \in 1 .. Len(redo)
        /\ \A i \in 1 .. Len(Popped(redo)) : i \in 1 .. Len(redo) /\ Popped(redo)[i] = redo[i]
    BY <1>1 DEF Popped
  <2> QED BY <2>1 DEF HistoryOK, TouchesTracked, Latest
<1> HIDE DEF c
<1>5. Leads(dropped, c, View, below)
  BY <1>2 DEF Link
<1>6. /\ \A o \in Objects : /\ View[o] = Seen(dropped, Place(o))
                            /\ View'[o] = Seen(dropped, Place(o)')
      /\ View' \in Layouts
  <2>1. \A o \in Objects : /\ View[o] = Seen(dropped, Place(o))
                   /\ View'[o] = Seen(dropped, Place(o)')
    BY <1>1 DEF View
  <2> QED BY <2>1, NextView
<1>7. Tracked' = Tracked /\ \A o \in Objects : Seen(dropped, Place(o)') = below[o]
  <2>1. CASE c.kind = "Create"
    <3>1. c.records \in Some(Row) /\ DOMAIN c.records \in SUBSET Objects
      BY <1>3, <2>1, CommandIs, SomeIs
    <3>2. MayRestore(c.records) /\ entries' = Restored(c.records)
      BY <1>1, <2>1 DEF MayApply, Applied
    <3>3. /\ Tracked' = Tracked /\ \A o \in DOMAIN c.records : Place(o)' = c.records[o].value
          /\ \A o \in Objects \ DOMAIN c.records : Place(o)' = Place(o)
      BY <3>1, <3>2, RestoredPlaces
    <3> QED BY <1>5, <1>6, <2>1, <3>1, <3>3 DEF Leads, Adds, Seen
  <2>2. CASE c.kind = "Transform"
    <3>1. c.after \in Some(Nat) /\ DOMAIN c.after \in SUBSET Objects
      BY <1>3, <2>2, CommandIs, SomeIs
    <3>2. MayMove(c.after) /\ entries' = Moved(c.after)
      BY <1>1, <2>2 DEF MayApply, Applied
    <3>3. /\ Tracked' = Tracked /\ \A o \in DOMAIN c.after : Place(o)' = c.after[o]
          /\ \A o \in Objects \ DOMAIN c.after : Place(o)' = Place(o)
      BY <3>1, <3>2, MovedPlaces
    <3> QED BY <1>5, <1>6, <2>2, <3>1, <3>3 DEF Leads, Moves
  <2>3. CASE c.kind = "Delete"
    <3>1. c.records \in Some(Row) /\ DOMAIN c.records \in SUBSET Objects
      BY <1>3, <2>3, CommandIs, SomeIs
    <3>2. MayDelete(DOMAIN c.records) /\ entries' = Deleted(DOMAIN c.records)
      BY <1>1, <2>3 DEF MayApply, Applied
    <3>3. /\ Tracked' = Tracked /\ \A o \in DOMAIN c.records : Place(o)' = None
          /\ \A o \in Objects \ DOMAIN c.records : Place(o)' = Place(o)
      BY <3>1, <3>2, DeletedPlaces
    <3> QED BY <1>5, <1>6, <2>3, <3>1, <3>3 DEF Leads, Adds, Seen
  <2> QED BY <1>3, <2>1, <2>2, <2>3, CommandIs
<1>8. View' = below
  BY <1>6, <1>7 DEF Layouts
<1>9. Link("undo", dropped, c, View', View)
  BY <1>5, <1>8 DEF Link
<1>10. Stacked("undo", dropped, Append(undo, c), View')
  BY <1>1, <1>3, <1>6, <1>9, Pushed DEF HistoryOK
<1>11. TouchesTracked(undo)' /\ TouchesTracked(redo)'
  <2>1. \A i \in 1 .. Len(Append(undo, c)) :
           Append(undo, c)[i] = c \/ (i \in 1 .. Len(undo) /\ Append(undo, c)[i] = undo[i])
    BY <1>1, <1>3
  <2> QED BY <1>1, <1>4, <1>7, <2>1 DEF TouchesTracked, TouchedBy
<1> QED BY <1>1, <1>2, <1>8, <1>10, <1>11 DEF HistoryOK

-----------------------------------------------------------------------------
(* Every step.                                                             *)

\* Rows read again: an object tracked for the first time is there from the
\* start, one known already stays as it is.
LEMMA SelectKeepsHistory ==
    ASSUME EditorInv, EditingTypeOK', HistoryOK, SelectObject
    PROVE  HistoryOK'
<1>1. PICK o \in DOMAIN shown \ Tracked : Pin([p \in {o} |-> shown[o]])
  BY DEF SelectObject
<1>2. /\ EditingTypeOK /\ drag = None /\ drag' = None /\ UNCHANGED <<undo, redo, dropped>>
      /\ undo \in Seq(Command) /\ redo \in Seq(Command)
  BY <1>1 DEF SelectObject, Released, Pin, EditorInv, EditingTypeOK
<1>3. o \in Objects /\ shown[o] \in Row
  BY SomeIs DEF EditorInv, ProjectTypeOK
<1>4. /\ entries'[o] = FromSource(shown[o])
      /\ \A p \in Objects \ {o} : entries'[p] = entries[p]
  BY <1>1, <1>3 DEF Pin, Pinned, Tracked
<1>5. entries'[o] # None
  <2>1. FromSource(shown[o]) \in Entry
    BY <1>3 DEF FromSource, Entry, Idle, SaveState, MayRow
  <2> QED BY <1>4, <2>1, NoneIsNoRow
<1>6. Tracked' = Tracked \cup {o}
  BY <1>3, <1>4, <1>5 DEF Tracked
<1>7. \A p \in Objects \ {o} : Place(p)' = Place(p)
  BY <1>4, <1>6 DEF Place, Present
<1>8. View' \in Layouts /\ \A p \in Objects \ {o} : View'[p] = View[p]
  <2>1. \A p \in Objects \ {o} : View'[p] = View[p]
    BY <1>2, <1>7 DEF View
  <2> QED BY <2>1, NextView
<1>9. /\ \A i \in 1 .. Len(undo) : o \notin TouchedBy(undo[i])
      /\ \A i \in 1 .. Len(redo) : o \notin TouchedBy(redo[i])
  BY <1>1 DEF HistoryOK, TouchesTracked
<1>10. Stacked("undo", dropped, undo, View') /\ Stacked("redo", dropped, redo, View')
  BY <1>2, <1>3, <1>8, <1>9, Untouched DEF HistoryOK
<1>11. TouchesTracked(undo)' /\ TouchesTracked(redo)'
  BY <1>2, <1>6 DEF HistoryOK, TouchesTracked
<1> QED BY <1>2, <1>10, <1>11 DEF HistoryOK

LEMMA ReconcileKeepsPlaces ==
    ASSUME EditorInv, others = 0, Reconcile, NEW o \in Objects
    PROVE  entries'[o] = entries[o]
<1>1. /\ EditingTypeOK /\ OneSave /\ SavingEntries /\ BasesMeet /\ RowsReadMeet
      /\ shown \in Some(Row)
  BY DEF EditorInv, SaveInv, ProjectTypeOK
<1>2. CASE o \notin DOMAIN shown \cap Tracked
  BY <1>2 DEF Reconcile, Pin, Restrict
<1>3. CASE o \in DOMAIN shown \cap Tracked
  <2>1. entries'[o] = Pinned(entries[o], shown[o]) /\ entries[o] # None /\ shown[o] \in Row
    BY <1>1, <1>3, SomeIs DEF Reconcile, Pin, Restrict, Tracked
  <2>2. ~Adopts(entries[o], shown[o])
    <3>1. SUFFICES ASSUME Adopts(entries[o], shown[o]) PROVE FALSE
      OBVIOUS
    <3>2. ~Committed(o) /\ ~Promised(o, 0)
      BY <1>1, <3>1, PromisedIsActive DEF Adopts, SavingEntries
    <3>3. shown[o] = rows[o] /\ entries[o].base = rows[o]
      BY <1>1, <1>3, <2>1, <3>2 DEF RowsReadMeet, BasesMeet, Meets
    <3>4. shown[o] # None /\ shown[o].rev \in Nat
      BY <2>1, NoneIsNoRow DEF Row
    <3> QED BY <3>1, <3>3, <3>4 DEF Adopts
  <2> QED BY <2>1, <2>2 DEF Pinned
<1> QED BY <1>2, <1>3

LEMMA NobodyElse ==
    ASSUME EditorInv, [EditorNext]_editorVars, others' = 0
    PROVE  others = 0 /\ ~OtherEditor
<1>1. ProjectTypeOK
  BY DEF EditorInv
<1>2. ~OtherEditor
  BY OtherKeeps
<1>3. CASE ServeSave
  BY <1>2, <1>3 DEF ServeSave, Apply, sourceVars
<1>4. CASE OpenProject \/ ServeQuery \/ ThreadStops
  BY <1>2, <1>4, ThreadSteps
<1>5. CASE PublicationSystems \/ Cook \/ CookFails \/ Adopt
  BY <1>2, <1>5, PublishSteps
<1>6. CASE StoreSystems \/ UpdateDemand
  BY <1>2, <1>6, StoreSteps
<1>7. CASE SaveSystems \/ RequestSave \/ RequestPublish
  BY <1>2, <1>7, DrainSteps
<1>8. CASE SelectObject \/ Reconcile
  BY <1>1, <1>2, <1>8, PinSteps, ProjectKept
<1>9. CASE \/ AddObject \/ ApplyFields \/ DeleteSelection \/ DragSelection \/ EndDrag
           \/ LoseDrag \/ StepBack \/ StepForward \/ Discard \/ UseDatabaseVersion \/ KeepLocal
  <2>1. EditingTypeOK
    BY DEF EditorInv
  <2> QED BY <1>1, <1>2, <1>9, <2>1, UserEdits, ProjectKept
<1>10. CASE UNCHANGED editorVars
  BY <1>1, <1>2, <1>10, ProjectKept DEF editorVars
<1> QED BY <1>2, <1>3, <1>4, <1>5, <1>6, <1>7, <1>8, <1>9, <1>10
        DEF EditorNext, EditorThreads, UserActs

\* What the systems do to the entries leaves every placement as it is.
LEMMA SystemsKeepPlaces ==
    ASSUME EditorInv, EditorInv', others = 0,
           \/ CompleteSave \/ DriveSaves \/ ReceiveAdopted \/ Reconcile \/ UNCHANGED editingVars
    PROVE  /\ UNCHANGED <<undo, redo, drag, dropped>>
           /\ \A o \in Objects : Place(o)' = Place(o)
           /\ Tracked \subseteq Tracked'
<1>1. EditingTypeOK /\ EditingTypeOK'
  BY DEF EditorInv
<1>2. ASSUME \A o \in Objects : entries[o] = None => entries'[o] = None,
             \A o \in Objects : entries[o] # None =>
                 entries'[o] # None /\ Made(entries'[o].current) = Made(entries[o].current)
      PROVE  /\ \A o \in Objects : Place(o)' = Place(o)
             /\ Tracked \subseteq Tracked'
  <2>1. Tracked' = Tracked
    BY <1>2 DEF Tracked
  <2>2. \A o \in Objects : o \in Tracked =>
           Place(o) = Made(entries[o].current) /\ Place(o)' = Made(entries'[o].current)
    BY <2>1 DEF Place, Present, Made
  <2>3. \A o \in Objects : o \notin Tracked => Place(o) = None /\ Place(o)' = None
    BY <2>1 DEF Place, Present
  <2>4. \A o \in Objects : o \in Tracked =>
           Made(entries'[o].current) = Made(entries[o].current)
    BY <1>2 DEF Tracked
  <2> QED BY <2>1, <2>2, <2>3, <2>4
<1>3. CASE CompleteSave
  <2>1. /\ answer # None /\ Answered(answer)
        /\ active_save # None /\ active_save.id = answer.id /\ SavingEntries
    BY <1>3 DEF CompleteSave, EditorInv, SaveInv, OneSave, Answered
  <2>2. entries' = Saved(answer.outcome) /\ UNCHANGED <<undo, redo, drag, dropped>>
    BY <1>3, <2>1 DEF CompleteSave, FinishSave
  <2>3. \A o \in Objects : entries[o] = None => entries'[o] = None
    BY <2>1, <2>2 DEF Saved, Tracked, SavingEntries
  <2> QED BY <1>2, <1>3, <2>2, <2>3, CompleteKeeps
<1>4. CASE DriveSaves
  <2>1. /\ UNCHANGED <<undo, redo, drag, dropped>>
        /\ entries' = [p \in Objects |-> IF p \in Batch
                                        THEN [entries[p] EXCEPT !.save = Now("Saving")]
                                        ELSE entries[p]]
    BY <1>4 DEF DriveSaves, QueueSave
  <2>2. Batch \subseteq Tracked
    BY DEF Batch, DirtyObjects
  <2>3. \A e \in Entry : [e EXCEPT !.save = Now("Saving")].current = e.current
    BY DEF Entry
  <2>4. \A o \in Batch : [entries[o] EXCEPT !.save = Now("Saving")].current = entries[o].current
    BY <1>1, <2>2, <2>3, EntryIs DEF Tracked
  <2>5. \A o \in Batch : entries'[o] # None
    <3>1. \A e \in Entry : [e EXCEPT !.save = Now("Saving")] \in Entry
      BY DEF Entry, SaveState, Now, MayRow
    <3>2. \A o \in Batch : [entries[o] EXCEPT !.save = Now("Saving")] \in Entry
      BY <1>1, <2>2, <3>1, EntryIs DEF Tracked
    <3> QED BY <2>1, <2>2, <3>2, NoneIsNoRow DEF Tracked
  <2> QED BY <1>2, <2>1, <2>2, <2>4, <2>5 DEF Tracked
<1>5. CASE ReceiveAdopted
  <2>1. CASE UNCHANGED editingVars
    BY <1>2, <2>1 DEF editingVars
  <2>2. CASE AdoptRuntime
    <3>1. UNCHANGED <<undo, redo, drag, dropped>>
      BY <2>2 DEF AdoptRuntime
    <3>2. \A o \in Objects : entries[o] = None => entries'[o] = None
      BY <2>2 DEF AdoptRuntime
    <3>3. ASSUME NEW o \in Objects, entries[o] # None
          PROVE  entries'[o] # None /\ entries'[o].current = entries[o].current
      <4>1. PICK e \in Entry : e = entries[o]
        BY <1>1, <3>3, EntryIs
      <4> DEFINE kept == IF ~Dirty(e) /\ e.save.kind = "Saved" THEN Idle ELSE e.save
                 next == [e EXCEPT !.runtime = e.base, !.save = kept]
      <4>2. entries'[o] = next
        BY <2>2, <3>3, <4>1 DEF AdoptRuntime, Entry
      <4>3. kept \in SaveState
        BY DEF Idle, SaveState, MayRow, Entry
      <4>4. next \in Entry /\ next.current = e.current
        BY <4>3 DEF Entry
      <4> QED BY <4>1, <4>2, <4>4, NoneIsNoRow
    <3> QED BY <1>2, <3>1, <3>2, <3>3
  <2> QED BY <1>5, <2>1, <2>2 DEF ReceiveAdopted
<1>6. CASE Reconcile
  <2>1. UNCHANGED <<undo, redo, drag, dropped>>
    BY <1>6 DEF Reconcile, Pin
  <2> QED BY <1>2, <1>6, <2>1, ReconcileKeepsPlaces
<1>7. CASE UNCHANGED editingVars
  BY <1>2, <1>7 DEF editingVars
<1> QED BY <1>3, <1>4, <1>5, <1>6, <1>7

LEMMA HistoryStep ==
    ASSUME HistoryInv, [EditorNext]_editorVars
    PROVE  HistoryInv'
<1>1. EditorInv /\ EditorInv'
  BY EditorStep, EditorStutter DEF HistoryInv
<1>2. SUFFICES ASSUME others' = 0 PROVE HistoryOK'
  BY <1>1 DEF HistoryInv
<1>3. others = 0 /\ ~OtherEditor /\ HistoryOK /\ EditingTypeOK /\ EditingTypeOK'
  BY <1>1, <1>2, NobodyElse DEF HistoryInv, EditorInv
<1>4. CASE SaveSystems \/ PublicationSystems \/ Reconcile \/ EditorThreads \/ StoreSystems
           \/ ThreadStops \/ CookFails \/ RequestSave \/ RequestPublish \/ UpdateDemand
           \/ UNCHANGED editorVars
  <2>1. CompleteSave \/ DriveSaves \/ ReceiveAdopted \/ Reconcile \/ UNCHANGED editingVars
    <3>1. CASE StoreSystems \/ UpdateDemand
      BY <1>1, <3>1, StoreSteps
    <3>2. CASE \/ OpenProject \/ ServeQuery \/ ServeSave \/ ThreadStops
               \/ RequestSave \/ RequestPublish \/ UNCHANGED editorVars
      BY <3>2 DEF OpenProject, ServeQuery, ServeSave, ThreadStops, Serve, Thread,
                  RequestSave, RequestPublish, Request, editorVars
    <3>3. CASE \/ DriveEnds \/ DispatchPublication \/ ReceiveCooked \/ ReceiveCookStopped
               \/ Cook \/ CookFails \/ Adopt
      BY <3>3 DEF DriveEnds, DispatchPublication, ReceiveCooked, ReceiveCookStopped, Cook,
                  CookFails, Adopt
    <3> QED BY <1>4, <3>1, <3>2, <3>3 DEF SaveSystems, PublicationSystems, EditorThreads
  <2> QED BY <1>1, <1>3, <2>1, SystemsKeepPlaces, SameLayout
<1>5. CASE SelectObject
  BY <1>1, <1>3, <1>5, SelectKeepsHistory
<1>6. CASE AddObject \/ ApplyFields \/ DeleteSelection
  <2>1. drag = None /\ \A objects \in SUBSET Tracked : objects \in SUBSET Objects
    BY <1>6 DEF AddObject, ApplyFields, DeleteSelection, Released, Tracked
  <2>2. \/ \E o \in Fresh, place \in Placements : Create(o, place)
        \/ \E o \in Objects, place \in Placements : Transform({o}, place)
        \/ \E objects \in SUBSET Tracked : Delete(objects)
    BY <1>6 DEF AddObject, ApplyFields, DeleteSelection
  <2> QED BY <1>1, <1>3, <2>1, <2>2, CreateKeepsHistory, TransformKeepsHistory,
             DeleteKeepsHistory
<1>7. CASE DragSelection \/ EndDrag \/ LoseDrag
  BY <1>3, <1>7, DragKeepsHistory, DragEndKeepsHistory, DragLostKeepsHistory
     DEF DragSelection, EndDrag, LoseDrag
<1>8. CASE StepBack \/ StepForward
  BY <1>3, <1>8, UndoKeepsHistory, RedoKeepsHistory DEF StepBack, StepForward, Released
<1>9. CASE Discard \/ UseDatabaseVersion \/ KeepLocal
  <2>1. undo' = <<>> /\ redo' = <<>> /\ drag' = None
    BY <1>9 DEF Discard, UseDatabaseVersion, KeepLocal, Released, DiscardAll, ReloadConflict,
                RebaseConflict, ClearHistory
  <2> QED BY <1>3, <2>1, ClearKeepsHistory
<1> QED BY <1>3, <1>4, <1>5, <1>6, <1>7, <1>8, <1>9 DEF EditorNext, UserActs

LEMMA HistoryInitHolds ==
    ASSUME EditorInit
    PROVE  HistoryInv
<1>1. EditorInv /\ EditingTypeOK
  BY EditorInitHolds DEF EditorInv
<1>2. undo = <<>> /\ redo = <<>> /\ drag = None
  BY DEF EditorInit, EditingInit
<1>3. View \in Layouts
  BY <1>1, ViewIs
<1> QED BY <1>1, <1>2, <1>3, NothingStacked DEF HistoryInv, HistoryOK, TouchesTracked

\* While nobody else writes, the history leads command by command from layout
\* to layout up to what is edited, through saves, drags, adoptions and what is
\* read again; after a drag was lost, to who is there though not to where.
THEOREM HistoryLeadsHere == EditorSpec => []HistoryInv
<1>1. EditorInit => HistoryInv
  BY HistoryInitHolds
<1>2. HistoryInv /\ [EditorNext]_editorVars => HistoryInv'
  BY HistoryStep
<1> QED BY <1>1, <1>2, PTL DEF EditorSpec

\* So the last command can be taken back, and the one taken back done again,
\* whenever the buttons are there: all that can stop one is a lost drag that
\* left the objects where it would take them.
THEOREM UndoWorks == EditorSpec => []UndoIsNeverStuck
<1> DEFINE Reverts(c) == MayRevert(c) \/ (c.kind = "Transform" /\ AlreadyAt(c.before))
           Applies(c) == MayApply(c) \/ (c.kind = "Transform" /\ AlreadyAt(c.after))
<1>1. HistoryInv => UndoIsNeverStuck
  <2> SUFFICES ASSUME HistoryInv, others = 0, CanStep, drag = None
               PROVE  /\ undo # <<>> => Reverts(Latest(undo))
                      /\ redo # <<>> => Applies(Latest(redo))
    BY DEF UndoIsNeverStuck
  <2>1. /\ EditingTypeOK /\ HistoryOK /\ ~Saving /\ ~AnyConflict
        /\ undo \in Seq(Command) /\ redo \in Seq(Command)
    BY DEF HistoryInv, EditorInv, CanStep, Writing, EditingTypeOK
  <2>2. \A o \in Objects : /\ ~dropped => View[o] = Place(o)
                           /\ Present(o) <=> View[o] # None
    BY <2>1, ViewIs, PlaceIs, NoneIsNoRow DEF Seen
  <2>3. \A o \in Objects : Present(o) => CanEdit(o) /\ entries[o].current.value = Place(o)
    BY <2>1, PlaceIs DEF CanEdit, InConflict, AnyConflict
  <2>4. ASSUME NEW records \in Some(Row), NEW from, Adds(dropped, records, from, View)
        PROVE  MayDelete(DOMAIN records)
    <3>1. DOMAIN records \in SUBSET Objects /\ \A o \in DOMAIN records : records[o].value \in Nat
      <4>1. DOMAIN records \in SUBSET Objects /\ \A o \in DOMAIN records : records[o] \in Row
        BY SomeIs
      <4> QED BY <4>1 DEF Row
    <3>2. \A o \in DOMAIN records : Present(o)
      BY <2>2, <2>4, <3>1, NoneIsNoRow DEF Adds, Seen
    <3> QED BY <2>3, <2>4, <3>1, <3>2 DEF Adds, MayDelete
  <2>5. ASSUME NEW records \in Some(Row), NEW to, Adds(dropped, records, View, to),
               DOMAIN records \subseteq Tracked
        PROVE  MayRestore(records)
    <3>1. DOMAIN records \in SUBSET Objects
      BY SomeIs
    <3>2. \A o \in DOMAIN records : ~Present(o) /\ ~InConflict(o)
      BY <2>1, <2>2, <2>5, <3>1 DEF Adds, AnyConflict
    <3> QED BY <2>1, <2>5, <3>1, <3>2 DEF Adds, MayRestore
  <2>6. ASSUME NEW places \in Some(Nat), DOMAIN places # {},
               \A o \in DOMAIN places : View[o] # None,
               \/ dropped
               \/ \E o \in DOMAIN places : View[o] # places[o]
        PROVE  MayMove(places) \/ AlreadyAt(places)
    <3>1. DOMAIN places \in SUBSET Objects
      BY SomeIs
    <3>2. \A o \in DOMAIN places : CanEdit(o) /\ entries[o].current.value = Place(o)
      BY <2>2, <2>3, <2>6, <3>1
    <3>3. dropped \/ ~At(places)
      BY <2>2, <2>6, <3>1, <3>2 DEF At
    <3> QED BY <2>6, <3>2, <3>3 DEF MayMove, AlreadyAt
  <2>7. ASSUME NEW c \in Command, NEW below, Leads(dropped, c, below, View), TouchedBy(c) \subseteq Tracked
        PROVE  Reverts(c)
    <3>1. CASE c.kind = "Create"
      BY <2>4, <2>7, <3>1, CommandIs DEF Leads, MayRevert
    <3>2. CASE c.kind = "Transform"
      <4>1. c.before \in Some(Nat) /\ c.after \in Some(Nat) /\ Moves(dropped, c.before, c.after, below, View)
        BY <2>7, <3>2, CommandIs DEF Leads
      <4>2. \A o \in DOMAIN c.after : c.after[o] \in Nat
        BY <4>1, SomeIs
      <4>3. MayMove(c.before) \/ AlreadyAt(c.before)
        BY <2>6, <4>1, <4>2, NoneIsNoRow DEF Moves, Seen
      <4> QED BY <3>2, <4>3 DEF MayRevert
    <3>3. CASE c.kind = "Delete"
      BY <2>5, <2>7, <3>3, CommandIs DEF Leads, MayRevert, TouchedBy
    <3> QED BY <2>7, <3>1, <3>2, <3>3, CommandIs
  <2>8. ASSUME NEW c \in Command, NEW next, Leads(dropped, c, View, next), TouchedBy(c) \subseteq Tracked
        PROVE  Applies(c)
    <3>1. CASE c.kind = "Create"
      BY <2>5, <2>8, <3>1, CommandIs DEF Leads, MayApply, TouchedBy
    <3>2. CASE c.kind = "Transform"
      <4>1. c.before \in Some(Nat) /\ c.after \in Some(Nat) /\ Moves(dropped, c.before, c.after, View, next)
        BY <2>8, <3>2, CommandIs DEF Leads
      <4>2. \A o \in DOMAIN c.before : c.before[o] \in Nat
        BY <4>1, SomeIs
      <4>3. MayMove(c.after) \/ AlreadyAt(c.after)
        BY <2>6, <4>1, <4>2, NoneIsNoRow DEF Moves, Seen
      <4> QED BY <3>2, <4>3 DEF MayApply
    <3>3. CASE c.kind = "Delete"
      BY <2>4, <2>8, <3>3, CommandIs DEF Leads, MayApply
    <3> QED BY <2>8, <3>1, <3>2, <3>3, CommandIs
  <2>9. undo # <<>> => Reverts(Latest(undo))
    <3>1. SUFFICES ASSUME undo # <<>> PROVE Reverts(Latest(undo))
      OBVIOUS
    <3>2. PICK below : Link("undo", dropped, Latest(undo), View, below) /\ Latest(undo) \in Command
      BY <2>1, <3>1, PoppedIs DEF HistoryOK
    <3>3. Leads(dropped, Latest(undo), below, View) /\ TouchedBy(Latest(undo)) \subseteq Tracked
      BY <2>1, <3>1, <3>2 DEF Link, HistoryOK, TouchesTracked, Latest
    <3> QED BY <2>7, <3>2, <3>3
  <2>10. redo # <<>> => Applies(Latest(redo))
    <3>1. SUFFICES ASSUME redo # <<>> PROVE Applies(Latest(redo))
      OBVIOUS
    <3>2. PICK below : Link("redo", dropped, Latest(redo), View, below) /\ Latest(redo) \in Command
      BY <2>1, <3>1, PoppedIs DEF HistoryOK
    <3>3. Leads(dropped, Latest(redo), View, below) /\ TouchedBy(Latest(redo)) \subseteq Tracked
      BY <2>1, <3>1, <3>2 DEF Link, HistoryOK, TouchesTracked, Latest
    <3> QED BY <2>8, <3>2, <3>3
  <2> QED BY <2>9, <2>10
<1> QED BY <1>1, HistoryLeadsHere, PTL

-----------------------------------------------------------------------------
(* Typing across crashes: a journal brings back bases the project has gone *)
(* beyond, so only the types survive of the invariant above.               *)

SavedAreTracked ==
    active_save # None => \A o \in active_save.objects : entries[o] # None

EditorTypes == EditingTypeOK /\ ProjectTypeOK /\ SavedAreTracked

\* No entry is dropped.
LEMMA StillTracked ==
    ASSUME EditingTypeOK, SavedAreTracked, active_save' \in {active_save, None},
           \A o \in Objects : entries[o] # None => entries'[o] # None
    PROVE  SavedAreTracked'
BY DEF SavedAreTracked, EditingTypeOK, ActiveSave

LEMMA PinTyped ==
    ASSUME EditingTypeOK, SavedAreTracked, shown \in Some(Row),
           NEW rs, DOMAIN rs \subseteq DOMAIN shown, \A o \in DOMAIN rs : rs[o] = shown[o], Pin(rs)
    PROVE  EditingTypeOK' /\ SavedAreTracked'
<1>1. \A o \in DOMAIN rs : o \in Objects /\ rs[o] \in Row
  BY SomeIs
<1>2. Idle \in SaveState
  BY DEF Idle, SaveState, MayRow
<1>3. ASSUME NEW o \in DOMAIN rs
      PROVE  Pinned(entries[o], rs[o]) \in Entry
  <2>1. entries[o] \in Entry \cup {None}
    BY <1>1 DEF EditingTypeOK
  <2>2. FromSource(rs[o]) \in Entry
    BY <1>1, <1>2 DEF FromSource, Entry, MayRow
  <2>3. entries[o] \in Entry =>
          [entries[o] EXCEPT !.base = rs[o], !.current = rs[o], !.save = Idle] \in Entry
    BY <1>1, <1>2 DEF Entry, MayRow
  <2> QED BY <2>1, <2>2, <2>3 DEF Pinned
<1>4. entries' \in [Objects -> Entry \cup {None}]
  BY <1>3 DEF Pin, EditingTypeOK
<1>5. \A o \in Objects : entries[o] # None => entries'[o] # None
  BY <1>3, NoneIsNoRow DEF Pin
<1>6. EditingTypeOK'
  BY <1>4 DEF Pin, EditingTypeOK
<1> QED BY <1>5, <1>6, StillTracked DEF Pin

LEMMA FinishTyped ==
    ASSUME EditingTypeOK, SavedAreTracked, NEW reply \in SaveAnswer, FinishSave(reply)
    PROVE  EditingTypeOK' /\ SavedAreTracked'
<1>1. CASE UNCHANGED editingVars
  BY <1>1 DEF EditingTypeOK, SavedAreTracked, editingVars
<1>2. CASE /\ active_save # None /\ entries' = Saved(reply.outcome) /\ active_save' = None
           /\ UNCHANGED <<undo, redo, drag, dropped, edits, drawn>>
  <2> DEFINE out == reply.outcome
             outcomeSaved(o) == Saved(out)[o]
  <2>1. out \in ObjectSaveOutcome
    BY DEF SaveAnswer
  <2>2. Idle \in SaveState /\ Now("Saved") \in SaveState /\ Now("Failed") \in SaveState
    BY DEF Idle, Now, SaveState, MayRow
  <2>3. ASSUME NEW o \in Objects
        PROVE  outcomeSaved(o) \in Entry \/ outcomeSaved(o) = entries[o]
    <3>1. o \in Tracked \/ o \in active_save.objects => entries[o] \in Entry
      BY <1>2 DEF EditingTypeOK, SavedAreTracked, Tracked
    <3>2. CASE out.kind = "Committed" /\ o \in DOMAIN out.rows /\ o \in Tracked
      <4>1. out.rows \in Some(MayRow)
        BY <2>1, <3>2 DEF ObjectSaveOutcome
      <4>2. out.rows[o] \in MayRow
        BY <3>2, <4>1, SomeIs
      <4>3. outcomeSaved(o) = [entries[o] EXCEPT !.base = out.rows[o], !.current = out.rows[o],
                                                 !.save = Now("Saved")]
        BY <3>2 DEF Saved
      <4> QED BY <2>2, <3>1, <3>2, <4>2, <4>3 DEF Entry
    <3>3. CASE out.kind = "Conflict" /\ o \in active_save.objects
      <4> DEFINE save == IF o = out.object THEN [kind |-> "Conflict", actual |-> out.actual]
                         ELSE Idle
      <4>1. out.actual \in MayRow
        BY <2>1, <3>3 DEF ObjectSaveOutcome
      <4>2. save \in SaveState
        BY <2>2, <4>1 DEF SaveState
      <4>3. outcomeSaved(o) = [entries[o] EXCEPT !.save = save]
        BY <3>3 DEF Saved
      <4> QED BY <3>1, <3>3, <4>2, <4>3 DEF Entry
    <3>4. CASE out.kind = "Failed" /\ o \in active_save.objects
      <4>1. outcomeSaved(o) = [entries[o] EXCEPT !.save = Now("Failed")]
        BY <3>4 DEF Saved
      <4> QED BY <2>2, <3>1, <3>4, <4>1 DEF Entry
    <3>5. CASE /\ ~(out.kind = "Committed" /\ o \in DOMAIN out.rows /\ o \in Tracked)
               /\ ~(out.kind = "Conflict" /\ o \in active_save.objects)
               /\ ~(out.kind = "Failed" /\ o \in active_save.objects)
      BY <3>5 DEF Saved
    <3> QED BY <3>2, <3>3, <3>4, <3>5
  <2>4. entries' = [o \in Objects |-> entries'[o]]
    BY <1>2 DEF Saved
  <2>5. \A o \in Objects : entries'[o] \in Entry \/ entries'[o] = entries[o]
    BY <1>2, <2>3
  <2>6. entries' \in [Objects -> Entry \cup {None}]
    BY <2>4, <2>5 DEF EditingTypeOK
  <2>7. EditingTypeOK'
    BY <1>2, <2>6 DEF EditingTypeOK
  <2> QED BY <1>2, <2>5, <2>7, NoneIsNoRow, StillTracked
<1> QED BY <1>1, <1>2 DEF FinishSave

LEMMA QueueTyped ==
    ASSUME EditorTypes, DriveSaves
    PROVE  EditorTypes'
<1>1. Batch \in SUBSET Objects /\ \A o \in Batch : entries[o] # None
  BY DEF Batch, DirtyObjects, Tracked
<1>2. /\ active_save' = [id |-> next_save', objects |-> Batch]
      /\ next_save' = next_save + 1
      /\ pending' = [id |-> next_save', writes |-> [o \in Batch |-> WriteOf(entries[o])]]
      /\ entries' = [o \in Objects |-> IF o \in Batch
                                       THEN [entries[o] EXCEPT !.save = Now("Saving")]
                                       ELSE entries[o]]
      /\ UNCHANGED <<undo, redo, drag, dropped, edits, drawn, rows, given, reissued, others, requests, results, answer,
                     shown, desired>>
  BY DEF DriveSaves, Drive, QueueSave, Save, sourceVars, threadVars, windowVars
<1>3. EditingTypeOK /\ ProjectTypeOK
  BY DEF EditorTypes
<1>4. \A o \in Batch : entries'[o] \in Entry
  <2>1. Now("Saving") \in SaveState
    BY DEF Now, SaveState, MayRow
  <2>2. \A o \in Batch : /\ entries[o] \in Entry
                         /\ entries'[o] = [entries[o] EXCEPT !.save = Now("Saving")]
    BY <1>1, <1>2, <1>3, EntryIs
  <2> QED BY <2>1, <2>2 DEF Entry
<1>5. entries' \in [Objects -> Entry \cup {None}]
  BY <1>2, <1>3, <1>4 DEF EditingTypeOK
<1>6. next_save' \in Nat /\ active_save' \in ActiveSave
  BY <1>1, <1>2, <1>3 DEF ProjectTypeOK, ActiveSave
<1>7. EditingTypeOK'
  BY <1>2, <1>3, <1>5, <1>6 DEF EditingTypeOK
<1>8. ProjectTypeOK'
  <2>1. \A o \in Batch : WriteOf(entries[o]) \in Write
    BY <1>1, <1>3, WriteOfTyped
  <2>2. [o \in Batch |-> WriteOf(entries[o])] \in Some(Write)
    BY <1>1, <2>1, SomeOf
  <2>3. pending' \in [id : Nat, writes : Some(Write)]
    BY <1>2, <1>6, <2>2
  <2> QED BY <1>2, <1>3, <1>6, <2>3 DEF ProjectTypeOK
<1>9. SavedAreTracked'
  <2>1. \A o \in active_save'.objects : o \in Batch
    BY <1>2
  <2> QED BY <1>4, <2>1, NoneIsNoRow DEF SavedAreTracked
<1> QED BY <1>7, <1>8, <1>9 DEF EditorTypes

LEMMA AdoptTyped ==
    ASSUME EditingTypeOK, SavedAreTracked, AdoptRuntime
    PROVE  EditingTypeOK' /\ SavedAreTracked'
<1>1. ASSUME NEW o \in Objects, entries[o] # None
      PROVE  entries'[o] \in Entry
  <2> DEFINE save == IF ~Dirty(entries[o]) /\ entries[o].save.kind = "Saved" THEN Idle
                     ELSE entries[o].save
  <2>1. entries[o] \in Entry
    BY <1>1, EntryIs
  <2>2. entries'[o] = [entries[o] EXCEPT !.runtime = entries[o].base, !.save = save]
    BY <1>1, <2>1 DEF AdoptRuntime, Entry
  <2>3. save \in SaveState
    BY <2>1 DEF Entry, Idle, SaveState, MayRow
  <2> QED BY <2>1, <2>2, <2>3 DEF Entry
<1>2. entries' \in [Objects -> Entry \cup {None}]
  BY <1>1 DEF AdoptRuntime
<1>3. EditingTypeOK'
  BY <1>2 DEF AdoptRuntime, EditingTypeOK
<1> QED BY <1>1, <1>3, NoneIsNoRow, StillTracked DEF AdoptRuntime

LEMMA PutTyped ==
    ASSUME ProjectTypeOK, NEW after \in [Objects -> MayRow], Put(after)
    PROVE  /\ rows' \in [Objects -> MayRow]
           /\ given' \in [Objects -> Nat] /\ reissued' \subseteq Objects
<1>1. \A o \in Objects : after[o] # None => after[o].rev \in Nat
  BY DEF MayRow, Row
<1> QED BY <1>1 DEF ProjectTypeOK, Put

\* Rows and answers after a transaction.
LEMMA OutcomeTyped ==
    ASSUME ProjectTypeOK, NEW writes \in Some(Write)
    PROVE  /\ Outcome(writes) \in ObjectSaveOutcome
           /\ Apply(writes) => /\ rows' \in [Objects -> MayRow] /\ others' = others
                               /\ given' \in [Objects -> Nat] /\ reissued' \subseteq Objects
<1>1. DOMAIN writes \in SUBSET Objects /\ \A o \in DOMAIN writes : Written(writes[o]) \in MayRow
  BY SomeIs, WrittenTyped
<1>2. [o \in DOMAIN writes |-> Written(writes[o])] \in Some(MayRow)
  BY <1>1, SomeOf
<1>3. Missed(writes) # {} => First(Missed(writes)) \in Objects
  <2>1. Missed(writes) \in SUBSET Objects
    BY <1>1 DEF Missed
  <2> QED BY <2>1, FirstOfSome
<1>4. rows \in [Objects -> MayRow]
  BY DEF ProjectTypeOK
<1>5. Outcome(writes) \in ObjectSaveOutcome
  BY <1>2, <1>3, <1>4 DEF Outcome, ObjectSaveOutcome
<1>6. ASSUME Apply(writes)
      PROVE  /\ rows' \in [Objects -> MayRow] /\ others' = others
             /\ given' \in [Objects -> Nat] /\ reissued' \subseteq Objects
  <2> DEFINE after == [o \in Objects |-> IF o \in DOMAIN writes THEN Written(writes[o])
                                         ELSE rows[o]]
  <2>1. after \in [Objects -> MayRow]
    BY <1>1, <1>4
  <2>2. CASE Put(after) /\ others' = others
    BY <2>1, <2>2, PutTyped
  <2>3. CASE UNCHANGED <<rows, given, reissued, others>>
    BY <2>3 DEF ProjectTypeOK
  <2> QED BY <1>6, <2>2, <2>3 DEF Apply, sourceVars
<1> QED BY <1>5, <1>6

LEMMA ThreadTyped ==
    ASSUME ProjectTypeOK, OpenProject \/ ServeQuery \/ ServeSave \/ ThreadStops
    PROVE  ProjectTypeOK' /\ UNCHANGED editingVars
<1>1. /\ UNCHANGED <<editingVars, shown, desired, next_save, pending, answer>>
  BY DEF OpenProject, ServeQuery, ServeSave, ThreadStops, Serve, Thread, windowVars, channelVars
<1>2. results \in Seq(StoreAnswer) /\ requests \in Seq(StoreRequest) /\ others \in Nat
  BY DEF ProjectTypeOK
<1>3. \A m \in StoreAnswer : Append(results, m) \in Seq(StoreAnswer)
  BY <1>2
<1>4. requests # <<>> => Tail(requests) \in Seq(StoreRequest) /\ Head(requests) \in StoreRequest
  BY <1>2, Drained
<1>5. CASE OpenProject
  <2>1. /\ UNCHANGED <<rows, given, reissued, others, requests>>
        /\ \/ results' = Append(results, [kind |-> "Opened", ok |-> TRUE, writable |-> TRUE])
           \/ results' = Append(results, [kind |-> "Opened", ok |-> TRUE, writable |-> FALSE])
           \/ results' = Append(results, [kind |-> "Opened", ok |-> FALSE, writable |-> FALSE])
    BY <1>5 DEF OpenProject, sourceVars
  <2>2. \A ok \in BOOLEAN, writable \in BOOLEAN :
           [kind |-> "Opened", ok |-> ok, writable |-> writable] \in StoreAnswer
    BY DEF StoreAnswer
  <2>3. results' \in Seq(StoreAnswer)
    BY <1>3, <2>1, <2>2
  <2> QED BY <1>1, <2>1, <2>3 DEF ProjectTypeOK
<1>6. CASE ServeQuery
  <2> DEFINE window == Head(requests).window
             held == Restrict(rows, Held(window))
  <2>1. /\ requests # <<>> /\ requests' = Tail(requests) /\ Head(requests).kind = "Query"
        /\ UNCHANGED <<rows, given, reissued, others>>
        /\ \/ results' = Append(results, [kind |-> "Query", window |-> window, ok |-> TRUE,
                                          rows |-> held])
           \/ results' = Append(results, [kind |-> "Query", window |-> window, ok |-> FALSE])
    BY <1>6 DEF ServeQuery, Serve, sourceVars
  <2>2. window \in Windows
    BY <1>4, <2>1 DEF StoreRequest
  <2>3. Held(window) \in SUBSET Objects /\ \A o \in Held(window) : rows[o] # None
    BY <2>2, EditorAssumption DEF Held
  <2>4. \A o \in Held(window) : rows[o] \in Row
    BY <2>3 DEF ProjectTypeOK, MayRow
  <2>5. held = [o \in Held(window) |-> rows[o]]
    BY DEF Restrict
  <2>6. held \in Some(Row)
    BY <2>3, <2>4, <2>5, SomeOf
  <2>7. /\ [kind |-> "Query", window |-> window, ok |-> TRUE, rows |-> held] \in StoreAnswer
        /\ [kind |-> "Query", window |-> window, ok |-> FALSE] \in StoreAnswer
    BY <2>2, <2>6 DEF StoreAnswer
  <2>8. results' \in Seq(StoreAnswer) /\ requests' \in Seq(StoreRequest)
    BY <1>3, <1>4, <2>1, <2>7
  <2> QED BY <1>1, <2>1, <2>8 DEF ProjectTypeOK
<1>7. CASE ServeSave
  <2> DEFINE save == Head(requests)
  <2>1. /\ requests # <<>> /\ requests' = Tail(requests) /\ save.kind = "Save"
        /\ \/ /\ Apply(save.writes)
              /\ results' = Append(results, [kind |-> "Save", id |-> save.id,
                                             outcome |-> Outcome(save.writes)])
           \/ /\ results' = Append(results, [kind |-> "Save", id |-> save.id,
                                             outcome |-> [kind |-> "Failed"]])
              /\ UNCHANGED <<rows, given, reissued, others>>
    BY <1>7 DEF ServeSave, Serve, sourceVars
  <2>2. save.writes \in Some(Write) /\ save.id \in Nat
    BY <1>4, <2>1 DEF StoreRequest
  <2>3. UNCHANGED <<rows, given, reissued, others>> =>
           /\ rows' \in [Objects -> MayRow] /\ others' = others
           /\ given' \in [Objects -> Nat] /\ reissued' \subseteq Objects
    BY DEF ProjectTypeOK
  <2>4. [kind |-> "Failed"] \in ObjectSaveOutcome
    BY DEF ObjectSaveOutcome
  <2>5. \A out \in ObjectSaveOutcome :
           [kind |-> "Save", id |-> save.id, outcome |-> out] \in StoreAnswer
    BY <2>2 DEF StoreAnswer
  <2>6. /\ rows' \in [Objects -> MayRow] /\ others' = others
        /\ given' \in [Objects -> Nat] /\ reissued' \subseteq Objects
    BY <2>1, <2>2, <2>3, OutcomeTyped
  <2>7. results' \in Seq(StoreAnswer) /\ requests' \in Seq(StoreRequest)
    BY <1>3, <1>4, <2>1, <2>2, <2>4, <2>5, OutcomeTyped
  <2> QED BY <1>1, <1>2, <2>6, <2>7 DEF ProjectTypeOK
<1>8. CASE ThreadStops
  BY <1>1, <1>8 DEF ThreadStops, ProjectTypeOK, sourceVars
<1> QED BY <1>1, <1>5, <1>6, <1>7, <1>8

LEMMA StoreTyped ==
    ASSUME ProjectTypeOK, StoreSystems \/ UpdateDemand
    PROVE  ProjectTypeOK' /\ UNCHANGED editingVars
<1>1. UNCHANGED <<editingVars, rows, given, reissued, others, next_save>>
  BY DEF StoreSystems, ReceiveOpened, ReceiveQuery, ReceiveSave, ReceiveStopped, DispatchSave,
         DispatchQuery, UpdateDemand, Receive, Store, sourceVars, channelVars
<1>2. results \in Seq(StoreAnswer) /\ requests \in Seq(StoreRequest) /\ shown \in Some(Row)
  BY DEF ProjectTypeOK
<1>3. <<>> \in Some(Row)
  <2>1. <<>> \in [{} -> Row] /\ {} \in SUBSET Objects
    OBVIOUS
  <2> QED BY <2>1, SomeOf
<1>4. results # <<>> => Tail(results) \in Seq(StoreAnswer) /\ Head(results) \in StoreAnswer
  BY <1>2, Drained
<1>5. \A m \in StoreRequest : Append(requests, m) \in Seq(StoreRequest)
  BY <1>2
<1>6. CASE ReceiveOpened \/ ReceiveQuery \/ ReceiveSave
  <2>1. /\ results # <<>> /\ results' = Tail(results) /\ UNCHANGED <<requests, desired, pending>>
    BY <1>6 DEF ReceiveOpened, ReceiveQuery, ReceiveSave, Receive
  <2>2. CASE ReceiveOpened
    BY <1>1, <1>4, <2>1, <2>2 DEF ReceiveOpened, ProjectTypeOK
  <2>3. CASE ReceiveQuery
    <3>1. /\ answer' = answer
          /\ \/ shown' = shown
             \/ /\ Head(results).kind = "Query" /\ Head(results).ok
                /\ shown' = Head(results).rows
      BY <2>3 DEF ReceiveQuery, Receive
    <3>2. shown' \in Some(Row)
      BY <1>2, <1>4, <2>1, <3>1 DEF StoreAnswer
    <3> QED BY <1>1, <1>4, <2>1, <3>1, <3>2 DEF ProjectTypeOK
  <2>4. CASE ReceiveSave
    <3>1. /\ shown' \in {shown, <<>>} /\ Head(results).kind = "Save"
          /\ answer' = [id |-> Head(results).id, outcome |-> Head(results).outcome]
      BY <2>4 DEF ReceiveSave, Receive
    <3>2. Head(results).id \in Nat /\ Head(results).outcome \in ObjectSaveOutcome
      BY <1>4, <2>1, <3>1 DEF StoreAnswer
    <3>3. answer' \in SaveAnswer /\ shown' \in Some(Row)
      BY <1>2, <1>3, <3>1, <3>2 DEF SaveAnswer
    <3> QED BY <1>1, <1>4, <2>1, <3>3 DEF ProjectTypeOK
  <2> QED BY <1>6, <2>2, <2>3, <2>4
<1>7. CASE ReceiveStopped \/ UpdateDemand
  <2>1. /\ UNCHANGED <<requests, results, pending, answer>> /\ shown' \in {shown, <<>>}
        /\ desired' \in Windows \cup {desired}
    BY <1>7 DEF ReceiveStopped, UpdateDemand, threadVars, channelVars
  <2> QED BY <1>1, <1>2, <1>3, <2>1 DEF ProjectTypeOK
<1>8. CASE DispatchSave
  <2>1. /\ UNCHANGED <<results, shown, answer, desired>> /\ pending # None
        /\ pending' \in {pending, None}
        /\ requests' \in {requests, Append(requests, [kind |-> "Save", id |-> pending.id,
                                                      writes |-> pending.writes])}
    BY <1>8 DEF DispatchSave, Send
  <2>2. [kind |-> "Save", id |-> pending.id, writes |-> pending.writes] \in StoreRequest
    BY <2>1 DEF ProjectTypeOK, StoreRequest
  <2>3. requests' \in Seq(StoreRequest)
    BY <1>2, <1>5, <2>1, <2>2
  <2> QED BY <1>1, <2>1, <2>3 DEF ProjectTypeOK
<1>9. CASE DispatchQuery
  <2>1. /\ UNCHANGED <<results, shown, answer, desired, pending>> /\ desired # None
        /\ requests' \in {requests, Append(requests, [kind |-> "Query", window |-> desired])}
    BY <1>9 DEF DispatchQuery, Send
  <2>2. [kind |-> "Query", window |-> desired] \in StoreRequest
    BY <2>1 DEF ProjectTypeOK, StoreRequest
  <2>3. requests' \in Seq(StoreRequest)
    BY <1>2, <1>5, <2>1, <2>2
  <2> QED BY <1>1, <2>1, <2>3 DEF ProjectTypeOK
<1> QED BY <1>1, <1>6, <1>7, <1>8, <1>9 DEF StoreSystems

LEMMA OtherTyped ==
    ASSUME ProjectTypeOK, OtherEditor
    PROVE  ProjectTypeOK' /\ UNCHANGED editingVars
<1>1. /\ others' = others + 1
      /\ UNCHANGED <<editingVars, requests, results, shown, desired, next_save, pending, answer>>
  BY DEF OtherEditor, threadVars, windowVars, channelVars
<1>2. PICK o \in Objects, row \in MayRow : Put([rows EXCEPT ![o] = row])
  BY OtherWrites
<1>3. [rows EXCEPT ![o] = row] \in [Objects -> MayRow]
  BY DEF ProjectTypeOK
<1>4. rows' \in [Objects -> MayRow] /\ given' \in [Objects -> Nat] /\ reissued' \subseteq Objects
  BY <1>2, <1>3, PutTyped
<1> QED BY <1>1, <1>4 DEF ProjectTypeOK

LEMMA EditorTypesStep ==
    ASSUME EditorTypes, EditorNext
    PROVE  EditorTypes'
<1>1. EditingTypeOK /\ ProjectTypeOK /\ SavedAreTracked /\ shown \in Some(Row)
  BY DEF EditorTypes, ProjectTypeOK
<1>2. CASE UNCHANGED editingVars /\ ProjectTypeOK'
  BY <1>1, <1>2 DEF EditorTypes, EditingTypeOK, SavedAreTracked, editingVars
<1>3. CASE \/ AddObject \/ ApplyFields \/ DeleteSelection \/ DragSelection \/ EndDrag
           \/ LoseDrag \/ StepBack \/ StepForward \/ Discard \/ UseDatabaseVersion \/ KeepLocal
  <2>1. EditedAll /\ ProjectTypeOK'
    BY <1>1, <1>3, UserEdits, ProjectKept
  <2>2. \A o \in Objects : entries[o] # None => entries'[o] # None
    BY <2>1 DEF EditedAll, Edited
  <2> QED BY <1>1, <2>1, <2>2, StillTracked DEF EditedAll, EditorTypes
<1>4. CASE SelectObject
  <2>1. PICK o \in DOMAIN shown \ Tracked : Pin([p \in {o} |-> shown[o]])
    BY <1>4 DEF SelectObject
  <2>2. EditingTypeOK' /\ SavedAreTracked'
    BY <1>1, <2>1, PinTyped
  <2> QED BY <1>1, <1>4, <2>2, ProjectKept DEF SelectObject, Released, User, EditorTypes
<1>5. CASE Reconcile
  <2> DEFINE rs == Restrict(shown, DOMAIN shown \cap Tracked)
  <2>1. /\ Pin(rs) /\ DOMAIN rs \subseteq DOMAIN shown /\ \A o \in DOMAIN rs : rs[o] = shown[o]
    BY <1>5 DEF Reconcile, Restrict
  <2>2. EditingTypeOK' /\ SavedAreTracked'
    BY <1>1, <2>1, PinTyped
  <2> QED BY <1>1, <1>5, <2>2, ProjectKept DEF Reconcile, EditorTypes
<1>6. CASE CompleteSave
  <2>1. /\ answer \in SaveAnswer /\ FinishSave(answer) /\ answer' = None
        /\ UNCHANGED <<rows, given, reissued, others, requests, results, shown, desired, next_save, pending>>
    BY <1>1, <1>6 DEF CompleteSave, Save, ProjectTypeOK, sourceVars, threadVars, windowVars
  <2>2. EditingTypeOK' /\ SavedAreTracked'
    BY <1>1, <2>1, FinishTyped
  <2> QED BY <1>1, <2>1, <2>2 DEF ProjectTypeOK, EditorTypes
<1>7. CASE DriveSaves
  BY <1>7, QueueTyped
<1>8. CASE ReceiveAdopted
  <2>1. ProjectTypeOK'
    BY <1>1, <1>8 DEF ReceiveAdopted, Publish, ProjectTypeOK, sourceVars, threadVars, windowVars,
                      channelVars
  <2>2. CASE AdoptRuntime
    BY <1>1, <2>1, <2>2, AdoptTyped DEF EditorTypes
  <2>3. CASE UNCHANGED editingVars
    BY <1>2, <2>1, <2>3
  <2> QED BY <1>8, <2>2, <2>3 DEF ReceiveAdopted
<1>9. CASE OpenProject \/ ServeQuery \/ ServeSave \/ ThreadStops
  BY <1>1, <1>2, <1>9, ThreadTyped
<1>10. CASE StoreSystems \/ UpdateDemand
  BY <1>1, <1>2, <1>10, StoreTyped
<1>11. CASE OtherEditor
  BY <1>1, <1>2, <1>11, OtherTyped
<1>12. CASE DriveEnds \/ RequestSave \/ RequestPublish
  <2>1. UNCHANGED editingVars /\ ProjectTypeOK'
    BY <1>1, <1>12 DEF DriveEnds, Drive, Save, RequestSave, RequestPublish, Request, ProjectTypeOK,
                       sourceVars, threadVars, windowVars, channelVars
  <2> QED BY <1>2, <2>1
<1>13. CASE \/ DispatchPublication \/ ReceiveCooked \/ ReceiveCookStopped
            \/ Cook \/ CookFails \/ Adopt
  <2>1. UNCHANGED editingVars /\ ProjectTypeOK'
    BY <1>1, <1>13 DEF DispatchPublication, ReceiveCooked, ReceiveCookStopped, Cook, CookFails,
                       Adopt, Publish, ProjectTypeOK, sourceVars, threadVars, windowVars, channelVars
  <2> QED BY <1>2, <2>1
<1> QED BY <1>3, <1>4, <1>5, <1>6, <1>7, <1>8, <1>9, <1>10, <1>11, <1>12, <1>13
        DEF EditorNext, EditorThreads, SaveSystems, PublicationSystems, UserActs

LEMMA EditorTypesInit ==
    ASSUME EditorInit
    PROVE  EditorTypes
BY EditorInitHolds DEF EditorInv, EditorTypes, SavedAreTracked, EditorInit, EditingInit

-----------------------------------------------------------------------------
(* The journal.                                                            *)

Snapshot == [base : MayRow, current : MayRow]
MaySnapshots == Some(Snapshot) \cup {None}
JournalAnswer == [kind : {"Loaded"}, snapshots : MaySnapshots]
                   \cup [kind : {"Written"}, ok : BOOLEAN]

JournalTypeOK ==
    /\ journal \in MaySnapshots /\ pending_restore \in MaySnapshots
    /\ journal_requests \in Seq(MaySnapshots)
    /\ journal_results \in Seq(JournalAnswer)

\* What was loaded is told before anything is written.
LoadedFirst ==
    /\ journal_thread \in {"loading", "serving"}
    /\ journal_thread = "loading" => journal_results = <<>>
    /\ \A i \in DOMAIN journal_results : journal_results[i].kind = "Loaded" => i = 1

\* The last write succeeded, as far as its result was not taken yet.
Wrote ==
    journal_results # <<>> =>
        \/ journal_results[Len(journal_results)].kind = "Loaded"
        \/ journal_results[Len(journal_results)].ok

\* The newest of what was asked to be written, or was written, is what is
\* unsaved now.
NewestIsUnsaved ==
    ~revised =>
        /\ journal_requests # <<>> => journal_requests[Len(journal_requests)] = Unsaved
        /\ journal_requests = <<>> /\ Wrote => journal = Unsaved

JournalInv == EditorTypes /\ JournalTypeOK /\ LoadedFirst /\ NewestIsUnsaved

LEMMA UnsavedTyped ==
    ASSUME EditingTypeOK
    PROVE  Unsaved \in MaySnapshots
<1>1. DirtyObjects \in SUBSET Objects /\ \A o \in DirtyObjects : entries[o] # None
  BY DEF DirtyObjects, Tracked
<1>2. \A o \in DirtyObjects :
         [base |-> entries[o].base, current |-> entries[o].current] \in Snapshot
  BY <1>1, EntryIs DEF Snapshot
<1>3. Snapshots \in Some(Snapshot)
  BY <1>1, <1>2, SomeOf DEF Snapshots
<1> QED BY <1>3 DEF Unsaved, MaySnapshots

\* What is unsaved is the bases and currents of the entries.
LEMMA SameUnsaved ==
    ASSUME \A o \in Objects :
              /\ entries'[o] = None <=> entries[o] = None
              /\ entries[o] # None => /\ entries'[o].base = entries[o].base
                                      /\ entries'[o].current = entries[o].current
    PROVE  Unsaved' = Unsaved
<1>1. DirtyObjects' = DirtyObjects
  BY DEF DirtyObjects, Tracked, Dirty
<1>2. \A o \in DirtyObjects : o \in Objects /\ entries[o] # None
  BY DEF DirtyObjects, Tracked
<1>3. Snapshots' = Snapshots
  BY <1>1, <1>2 DEF Snapshots
<1> QED BY <1>1, <1>3 DEF Unsaved

LEMMA UnchangedUnsaved ==
    ASSUME entries' = entries
    PROVE  Unsaved' = Unsaved
BY SameUnsaved

\* Every step that changes what is unsaved tells the journal.
LEMMA EditsRevise ==
    ASSUME EditorTypes, EditorNext, ~revised'
    PROVE  ~revised /\ Unsaved' = Unsaved
<1>1. EditingTypeOK /\ ProjectTypeOK
  BY DEF EditorTypes
<1>2. CASE UNCHANGED <<entries, revised>>
  BY <1>2, UnchangedUnsaved
<1>3. CASE UNCHANGED editingVars
  BY <1>2, <1>3 DEF editingVars
<1>4. CASE \/ AddObject \/ ApplyFields \/ DeleteSelection \/ DragSelection \/ EndDrag
           \/ LoseDrag \/ StepBack \/ StepForward \/ Discard \/ UseDatabaseVersion \/ KeepLocal
  <2>1. revised' = TRUE \/ UNCHANGED <<entries, revised>>
    BY <1>4 DEF AddObject, ApplyFields, DeleteSelection, DragSelection, EndDrag, StepBack,
                StepForward, Discard, UseDatabaseVersion, KeepLocal, LoseDrag, DragLost,
                Create, Transform, Delete, DragMove, DragEnd, Undo, Redo, DiscardAll, ReloadConflict, RebaseConflict
  <2> QED BY <1>2, <2>1
<1>5. CASE SelectObject \/ Reconcile
  <2>1. \E rs : Pin(rs)
    BY <1>5 DEF SelectObject, Reconcile
  <2>2. ~revised /\ entries' = entries
    BY <2>1 DEF Pin
  <2> QED BY <2>2, UnchangedUnsaved
<1>6. CASE CompleteSave
  BY <1>3, <1>6 DEF CompleteSave, FinishSave
<1>7. CASE DriveSaves
  <2>1. /\ revised' = revised
        /\ entries' = [o \in Objects |-> IF o \in Batch
                                         THEN [entries[o] EXCEPT !.save = Now("Saving")]
                                         ELSE entries[o]]
    BY <1>7 DEF DriveSaves, QueueSave
  <2>2. ASSUME NEW o \in Objects
        PROVE  /\ entries'[o] = None <=> entries[o] = None
               /\ entries[o] # None => /\ entries'[o].base = entries[o].base
                                       /\ entries'[o].current = entries[o].current
    <3>1. CASE o \in Batch
      <4>1. entries[o] \in Entry /\ entries[o] # None
        BY <1>1, <3>1, EntryIs DEF Batch, DirtyObjects, Tracked
      <4>2. entries'[o] = [entries[o] EXCEPT !.save = Now("Saving")]
        BY <2>1, <3>1
      <4>3. Now("Saving") \in SaveState
        BY DEF Now, SaveState, MayRow
      <4>4. /\ entries'[o] \in Entry /\ entries'[o].base = entries[o].base
            /\ entries'[o].current = entries[o].current
        BY <4>1, <4>2, <4>3 DEF Entry
      <4> QED BY <4>1, <4>4, NoneIsNoRow
    <3>2. CASE o \notin Batch
      BY <2>1, <3>2
    <3> QED BY <3>1, <3>2
  <2> QED BY <2>1, <2>2, SameUnsaved
<1>8. CASE ReceiveAdopted
  <2>1. CASE AdoptRuntime
    <3>1. ASSUME NEW o \in Objects
          PROVE  /\ entries'[o] = None <=> entries[o] = None
                 /\ entries[o] # None => /\ entries'[o].base = entries[o].base
                                         /\ entries'[o].current = entries[o].current
      <4>1. CASE entries[o] = None
        BY <2>1, <4>1 DEF AdoptRuntime
      <4>2. CASE entries[o] # None
        <5> DEFINE save == IF ~Dirty(entries[o]) /\ entries[o].save.kind = "Saved" THEN Idle
                           ELSE entries[o].save
        <5>1. entries[o] \in Entry
          BY <1>1, <4>2, EntryIs
        <5>2. entries'[o] = [entries[o] EXCEPT !.runtime = entries[o].base, !.save = save]
          BY <2>1, <4>2, <5>1 DEF AdoptRuntime, Entry
        <5>3. save \in SaveState
          BY <5>1 DEF Entry, Idle, SaveState, MayRow
        <5>4. /\ entries'[o] \in Entry /\ entries'[o].base = entries[o].base
              /\ entries'[o].current = entries[o].current
          BY <5>1, <5>2, <5>3 DEF Entry
        <5> QED BY <4>2, <5>4, NoneIsNoRow
      <4> QED BY <4>1, <4>2
    <3> QED BY <2>1, <3>1, SameUnsaved DEF AdoptRuntime
  <2> QED BY <1>3, <1>8, <2>1 DEF ReceiveAdopted
<1>9. CASE OpenProject \/ ServeQuery \/ ServeSave \/ ThreadStops
  BY <1>1, <1>3, <1>9, ThreadTyped
<1>10. CASE StoreSystems \/ UpdateDemand
  BY <1>1, <1>3, <1>10, StoreTyped
<1>11. CASE OtherEditor
  BY <1>1, <1>3, <1>11, OtherTyped
<1>12. CASE \/ DriveEnds \/ RequestSave \/ RequestPublish
            \/ DispatchPublication \/ ReceiveCooked \/ ReceiveCookStopped
            \/ Cook \/ CookFails \/ Adopt
  BY <1>3, <1>12 DEF DriveEnds, RequestSave, RequestPublish, Request, DispatchPublication,
                     ReceiveCooked, ReceiveCookStopped, Cook, CookFails, Adopt
<1> QED BY <1>4, <1>5, <1>6, <1>7, <1>8, <1>9, <1>10, <1>11, <1>12
        DEF EditorNext, EditorThreads, SaveSystems, PublicationSystems, UserActs

\* The journal keeps its invariant while it does not move and nothing unsaved
\* changes unseen.
LEMMA EditingKeepsJournal ==
    ASSUME JournalInv, EditorTypes', UNCHANGED journalVars,
           ~revised' => ~revised /\ Unsaved' = Unsaved
    PROVE  JournalInv'
<1>1. UNCHANGED <<journal, journal_thread, journal_requests, journal_results, pending_restore>>
  BY DEF journalVars
<1>2. JournalTypeOK' /\ LoadedFirst' /\ (Wrote' <=> Wrote)
  BY <1>1 DEF JournalInv, JournalTypeOK, LoadedFirst, Wrote
<1>3. NewestIsUnsaved'
  BY <1>1, <1>2 DEF JournalInv, NewestIsUnsaved
<1> QED BY <1>2, <1>3 DEF JournalInv

\* The editor's own variables and what they are typed by.
LEMMA TypesKept ==
    ASSUME EditorTypes, EditingTypeOK', UNCHANGED projectVars,
           active_save' = active_save, \A o \in Objects : entries[o] # None => entries'[o] # None
    PROVE  EditorTypes'
BY ProjectKept, StillTracked DEF EditorTypes

\* Taking the head off a queue leaves its newest element where it was, unless
\* the head was that element.
LEMMA NewestStays ==
    ASSUME NEW S, NEW s \in Seq(S), s # <<>>
    PROVE  /\ Tail(s) \in Seq(S) /\ Head(s) \in S
           /\ Tail(s) = <<>> => Head(s) = s[Len(s)]
           /\ Tail(s) # <<>> => Tail(s)[Len(Tail(s))] = s[Len(s)]
<1>1. Len(s) \in Nat /\ Len(s) > 0
  OBVIOUS
<1>2. /\ Tail(s) \in Seq(S) /\ Head(s) = s[1] /\ Head(s) \in S
      /\ Len(Tail(s)) = Len(s) - 1
  BY HeadTailProperties
<1>3. \A i \in 1 .. Len(Tail(s)) : Tail(s)[i] = s[i + 1]
  BY HeadTailProperties
<1>4. CASE Len(s) = 1
  <2>1. Len(Tail(s)) = 0
    BY <1>2, <1>4
  <2>2. Tail(s) = <<>>
    BY <1>2, <2>1, EmptySeq
  <2> QED BY <1>2, <1>4, <2>2
<1>5. CASE Len(s) # 1
  <2>1. Len(Tail(s)) \in 1 .. Len(Tail(s)) /\ Len(Tail(s)) + 1 = Len(s)
    BY <1>1, <1>2, <1>5
  <2>2. Tail(s)[Len(Tail(s))] = s[Len(s)]
    BY <1>3, <2>1
  <2>3. Tail(s) # <<>>
    <3>1. Len(<<>>) = 0
      OBVIOUS
    <3>2. Len(Tail(s)) # 0
      BY <2>1
    <3> QED BY <3>1, <3>2
  <2> QED BY <1>2, <2>2, <2>3
<1> QED BY <1>4, <1>5

LEMMA JournalThreadKeeps ==
    ASSUME JournalInv, LoadJournal \/ WriteJournal
    PROVE  JournalInv'
<1>1. /\ EditorTypes /\ JournalTypeOK /\ LoadedFirst /\ NewestIsUnsaved
      /\ journal_results \in Seq(JournalAnswer) /\ journal_requests \in Seq(MaySnapshots)
  BY DEF JournalInv, JournalTypeOK
<1>2. UNCHANGED <<editingVars, rows, given, reissued, others, thread, requests, results, desired, shown, next_save,
                  pending, answer, pending_restore>>
  BY DEF LoadJournal, WriteJournal, JournalThread, sourceVars, threadVars, windowVars, channelVars
<1>3. EditorTypes' /\ Unsaved' = Unsaved /\ revised' = revised
  <2>1. entries' = entries /\ revised' = revised
    BY <1>2 DEF editingVars
  <2>2. EditorTypes'
    BY <1>1, <1>2 DEF EditorTypes, EditingTypeOK, ProjectTypeOK, SavedAreTracked, editingVars
  <2> QED BY <2>1, <2>2, UnchangedUnsaved
<1>4. CASE LoadJournal
  <2>1. PICK m \in JournalAnswer : m.kind = "Loaded" /\ journal_results' = Append(journal_results, m)
    <3>1. \A snapshots \in MaySnapshots : [kind |-> "Loaded", snapshots |-> snapshots] \in JournalAnswer
      BY DEF JournalAnswer
    <3>2. journal \in MaySnapshots /\ None \in MaySnapshots
      BY <1>1 DEF JournalTypeOK, MaySnapshots
    <3> QED BY <1>4, <3>1, <3>2 DEF LoadJournal, Answer
  <2>2. /\ journal_results = <<>> /\ journal_thread' = "serving"
        /\ UNCHANGED <<journal, journal_requests>>
    BY <1>1, <1>4 DEF LoadJournal, LoadedFirst
  <2>3. journal_results' = <<m>> /\ journal_results' \in Seq(JournalAnswer)
    BY <2>1, <2>2
  <2>4. JournalTypeOK'
    BY <1>1, <1>2, <2>2, <2>3 DEF JournalTypeOK
  <2>5. LoadedFirst'
    BY <2>2, <2>3 DEF LoadedFirst
  <2>6. NewestIsUnsaved'
    BY <1>1, <1>3, <2>2 DEF NewestIsUnsaved, Wrote
  <2> QED BY <1>3, <2>4, <2>5, <2>6 DEF JournalInv
<1>5. CASE WriteJournal
  <2>1. /\ journal_thread = "serving" /\ journal_thread' = journal_thread
        /\ journal_requests # <<>> /\ journal_requests' = Tail(journal_requests)
        /\ \/ /\ journal' = Head(journal_requests)
              /\ journal_results' = Append(journal_results, [kind |-> "Written", ok |-> TRUE])
           \/ /\ journal' = journal
              /\ journal_results' = Append(journal_results, [kind |-> "Written", ok |-> FALSE])
    BY <1>5 DEF WriteJournal, Answer
  <2>2. PICK ok \in BOOLEAN :
           /\ journal_results' = Append(journal_results, [kind |-> "Written", ok |-> ok])
           /\ IF ok THEN journal' = Head(journal_requests) ELSE journal' = journal
    BY <2>1
  <2> DEFINE m == [kind |-> "Written", ok |-> ok]
  <2>3. m \in JournalAnswer /\ m.kind = "Written" /\ m.ok = ok
    BY DEF JournalAnswer
  <2> HIDE DEF m
  <2>4. /\ journal_results' \in Seq(JournalAnswer)
        /\ DOMAIN journal_results' = DOMAIN journal_results \cup {Len(journal_results) + 1}
        /\ \A i \in DOMAIN journal_results : journal_results'[i] = journal_results[i]
        /\ journal_results'[Len(journal_results) + 1] = m
        /\ Len(journal_results') = Len(journal_results) + 1
    <3>1. journal_results' = Append(journal_results, m)
      BY <2>2 DEF m
    <3> QED BY <1>1, <2>3, <3>1
  <2>5. /\ journal_requests' \in Seq(MaySnapshots) /\ Head(journal_requests) \in MaySnapshots
        /\ journal_requests' = <<>> =>
              Head(journal_requests) = journal_requests[Len(journal_requests)]
        /\ journal_requests' # <<>> =>
              journal_requests'[Len(journal_requests')] = journal_requests[Len(journal_requests)]
    <3>1. journal_requests \in Seq(MaySnapshots)
      BY <1>1 DEF JournalTypeOK
    <3> QED BY <2>1, <3>1, NewestStays
  <2>6. JournalTypeOK'
    BY <1>1, <1>2, <2>1, <2>4, <2>5 DEF JournalTypeOK
  <2>7. LoadedFirst'
    BY <1>1, <2>1, <2>3, <2>4 DEF LoadedFirst
  <2>8. Wrote' => ok
    <3>1. journal_results' # <<>>
      BY <2>2, <1>1
    <3> QED BY <2>3, <2>4, <3>1 DEF Wrote
  <2>9. NewestIsUnsaved'
    BY <1>1, <1>3, <2>1, <2>2, <2>5, <2>8 DEF NewestIsUnsaved
  <2> QED BY <1>3, <2>6, <2>7, <2>9 DEF JournalInv
<1> QED BY <1>4, <1>5

LEMMA ReceiveJournalKeeps ==
    ASSUME JournalInv, ReceiveLoaded \/ ReceiveWritten
    PROVE  JournalInv'
<1> DEFINE first == Head(journal_results)
<1>1. /\ EditorTypes /\ JournalTypeOK /\ LoadedFirst /\ NewestIsUnsaved
      /\ journal_results \in Seq(JournalAnswer)
  BY DEF JournalInv, JournalTypeOK
<1>2. /\ journal_results # <<>> /\ journal_results' = Tail(journal_results)
      /\ UNCHANGED <<entries, active_save, undo, redo, drag, dropped, edits, drawn, projectVars, journal,
                     journal_thread, journal_requests>>
  BY DEF ReceiveLoaded, ReceiveWritten, Journal, editingVars
<1>3. /\ journal_results' \in Seq(JournalAnswer) /\ first \in JournalAnswer
      /\ first = journal_results[1]
      /\ \A i \in DOMAIN journal_results' :
            i \in Nat /\ i > 0 /\ i + 1 \in DOMAIN journal_results
            /\ journal_results'[i] = journal_results[i + 1]
  BY <1>1, <1>2, Drained
<1>4. /\ journal_results' = <<>> => first = journal_results[Len(journal_results)]
      /\ journal_results' # <<>> =>
            journal_results'[Len(journal_results')] = journal_results[Len(journal_results)]
  BY <1>1, <1>2
<1>5. EditorTypes' /\ Unsaved' = Unsaved
  <2>1. EditingTypeOK'
    BY <1>1, <1>2 DEF EditorTypes, EditingTypeOK
  <2> QED BY <1>1, <1>2, <2>1, TypesKept, UnchangedUnsaved
<1>6. LoadedFirst'
  <2>1. journal_thread' # "loading"
    BY <1>1, <1>2 DEF LoadedFirst
  <2>2. ASSUME NEW i \in DOMAIN journal_results', journal_results'[i].kind = "Loaded"
        PROVE  FALSE
    <3>1. i + 1 = 1 /\ i \in Nat /\ i > 0
      BY <1>1, <1>3, <2>2 DEF LoadedFirst
    <3> QED BY <3>1
  <2> QED BY <1>1, <1>2, <2>1, <2>2 DEF LoadedFirst
<1>7. CASE ReceiveLoaded
  <2>1. /\ first.kind = "Loaded" /\ revised' = revised
        /\ pending_restore' \in {pending_restore, first.snapshots}
    BY <1>7 DEF ReceiveLoaded, editingVars
  <2>2. first.snapshots \in MaySnapshots
    BY <1>3, <2>1 DEF JournalAnswer
  <2>3. JournalTypeOK'
    BY <1>1, <1>2, <1>3, <2>1, <2>2 DEF JournalTypeOK
  <2>4. Wrote' => Wrote
    BY <1>4, <2>1 DEF Wrote
  <2>5. NewestIsUnsaved'
    BY <1>1, <1>2, <1>5, <2>1, <2>4 DEF NewestIsUnsaved
  <2> QED BY <1>5, <1>6, <2>3, <2>5 DEF JournalInv
<1>8. CASE ReceiveWritten
  <2>1. /\ first.kind = "Written" /\ pending_restore' = pending_restore
        /\ revised' = (revised \/ /\ ~first.ok
                                  /\ journal_results' = <<>> /\ journal_requests = <<>>)
    BY <1>8 DEF ReceiveWritten
  <2>2. JournalTypeOK'
    BY <1>1, <1>2, <1>3, <2>1 DEF JournalTypeOK
  <2>3. ASSUME ~revised', journal_requests = <<>>, Wrote' PROVE Wrote
    <3>1. CASE journal_results' = <<>>
      <4>1. first.ok
        BY <2>1, <2>3, <3>1
      <4> QED BY <1>2, <1>4, <2>1, <3>1, <4>1 DEF Wrote
    <3>2. CASE journal_results' # <<>>
      BY <1>2, <1>4, <2>3, <3>2 DEF Wrote
    <3> QED BY <3>1, <3>2
  <2>4. NewestIsUnsaved'
    BY <1>1, <1>2, <1>5, <2>1, <2>3 DEF NewestIsUnsaved
  <2> QED BY <1>5, <1>6, <2>2, <2>4 DEF JournalInv
<1> QED BY <1>7, <1>8

LEMMA DispatchJournalKeeps ==
    ASSUME JournalInv, DispatchJournal
    PROVE  JournalInv'
<1>1. /\ EditorTypes /\ JournalTypeOK /\ LoadedFirst /\ EditingTypeOK
      /\ journal_requests \in Seq(MaySnapshots)
  BY DEF JournalInv, JournalTypeOK, EditorTypes
<1>2. /\ journal_requests' = Append(journal_requests, Unsaved)
      /\ UNCHANGED <<entries, active_save, undo, redo, drag, dropped, edits, drawn, projectVars, journal,
                     journal_thread, journal_results, pending_restore>>
  BY DEF DispatchJournal, Journal
<1>3. EditorTypes' /\ Unsaved' = Unsaved
  <2>1. EditingTypeOK'
    BY <1>1, <1>2 DEF EditingTypeOK
  <2> QED BY <1>1, <1>2, <2>1, TypesKept, UnchangedUnsaved
<1>4. Unsaved \in MaySnapshots
  BY <1>1, UnsavedTyped
<1>5. /\ journal_requests' \in Seq(MaySnapshots) /\ journal_requests' # <<>>
      /\ journal_requests'[Len(journal_requests')] = Unsaved
  <2> HIDE DEF Unsaved
  <2> QED BY <1>1, <1>2, <1>4
<1>6. JournalTypeOK' /\ LoadedFirst'
  BY <1>1, <1>2, <1>5 DEF JournalTypeOK, LoadedFirst
<1>7. NewestIsUnsaved'
  BY <1>3, <1>5 DEF NewestIsUnsaved
<1> QED BY <1>3, <1>6, <1>7 DEF JournalInv

LEMMA RestoreKeeps ==
    ASSUME JournalInv, RestoreJournal
    PROVE  JournalInv'
<1>1. /\ EditorTypes /\ JournalTypeOK /\ LoadedFirst /\ NewestIsUnsaved /\ EditingTypeOK
  BY DEF JournalInv, EditorTypes
<1>2. /\ pending_restore # None /\ pending_restore' = None
      /\ entries' = [o \in Objects |-> IF o \in Restorable THEN FromJournal(pending_restore[o])
                                       ELSE entries[o]]
      /\ IF Restorable = {} THEN UNCHANGED <<undo, redo, dropped, revised>>
         ELSE undo' = <<>> /\ redo' = <<>> /\ dropped' = FALSE /\ revised' = TRUE
      /\ UNCHANGED <<active_save, drag, edits, drawn, projectVars, journal, journal_thread,
                     journal_requests, journal_results>>
  BY DEF RestoreJournal, ClearHistory, Journal
<1>3. pending_restore \in Some(Snapshot)
  BY <1>1, <1>2 DEF JournalTypeOK, MaySnapshots
<1>4. ASSUME NEW o \in Restorable
      PROVE  FromJournal(pending_restore[o]) \in Entry
  <2>1. pending_restore[o] \in Snapshot
    BY <1>3, SomeIs DEF Restorable
  <2>2. Idle \in SaveState
    BY DEF Idle, SaveState, MayRow
  <2> QED BY <2>1, <2>2 DEF FromJournal, Snapshot, Entry
<1>5. entries' \in [Objects -> Entry \cup {None}]
  BY <1>1, <1>2, <1>4 DEF EditingTypeOK
<1>6. EditingTypeOK'
  <2>1. <<>> \in Seq(Command)
    OBVIOUS
  <2>2. undo' \in Seq(Command) /\ redo' \in Seq(Command)
    BY <1>1, <1>2, <2>1 DEF EditingTypeOK
  <2> QED BY <1>1, <1>2, <1>5, <2>2 DEF EditingTypeOK
<1>7. \A o \in Objects : entries[o] # None => entries'[o] # None
  BY <1>2, <1>4, NoneIsNoRow
<1>8. EditorTypes'
  BY <1>1, <1>2, <1>6, <1>7, TypesKept
<1>9. JournalTypeOK' /\ LoadedFirst' /\ (Wrote' <=> Wrote)
  BY <1>1, <1>2 DEF JournalTypeOK, LoadedFirst, MaySnapshots, Wrote
<1>10. ~revised' => ~revised /\ Unsaved' = Unsaved
  <2>1. Restorable = {} => \A o \in Objects : entries'[o] = entries[o]
    BY <1>2
  <2> QED BY <1>2, <2>1, SameUnsaved
<1>11. NewestIsUnsaved'
  BY <1>1, <1>2, <1>9, <1>10 DEF NewestIsUnsaved
<1> QED BY <1>8, <1>9, <1>11 DEF JournalInv

LEMMA CrashKeeps ==
    ASSUME JournalInv, Crash
    PROVE  JournalInv'
<1>1. EditingTypeOK /\ ProjectTypeOK /\ JournalTypeOK
  BY DEF JournalInv, EditorTypes
<1>2. <<>> \in Some(Row)
  <2>1. <<>> \in [{} -> Row] /\ {} \in SUBSET Objects
    OBVIOUS
  <2> QED BY <2>1, SomeOf
<1>3. EditingTypeOK'
  <2>1. /\ entries' = [o \in Objects |-> None] /\ active_save' = None /\ drag' = None
        /\ undo' = <<>> /\ redo' = <<>> /\ dropped' = FALSE /\ UNCHANGED <<edits, drawn>>
    BY DEF Crash, ClearHistory
  <2> QED BY <1>1, <2>1, NothingTyped DEF EditingTypeOK
<1>4. ProjectTypeOK'
  BY <1>1, <1>2 DEF Crash, ProjectTypeOK, sourceVars
<1>5. SavedAreTracked'
  BY DEF Crash, SavedAreTracked
<1>6. JournalTypeOK'
  BY <1>1 DEF Crash, JournalTypeOK, MaySnapshots
<1>7. LoadedFirst' /\ NewestIsUnsaved'
  BY DEF Crash, LoadedFirst, NewestIsUnsaved
<1> QED BY <1>3, <1>4, <1>5, <1>6, <1>7 DEF JournalInv, EditorTypes

LEMMA JournalInitHolds ==
    ASSUME AllInit
    PROVE  JournalInv
<1>1. EditorTypes
  BY EditorTypesInit DEF AllInit
<1>2. JournalTypeOK
  BY DEF AllInit, JournalInit, JournalTypeOK, MaySnapshots
<1>3. LoadedFirst
  BY DEF AllInit, JournalInit, LoadedFirst
<1>4. revised = TRUE
  BY DEF AllInit, EditorInit, EditingInit
<1> QED BY <1>1, <1>2, <1>3, <1>4 DEF JournalInv, NewestIsUnsaved

\* The journal that was last written without a failure holds exactly what is
\* dirty, across crashes, restored edits and failed writes.
THEOREM JournalFollows == JournalSpec => []JournalIsCurrent
<1>1. AllInit => JournalInv
  BY JournalInitHolds
<1>2. JournalInv /\ [AllNext]_allVars => JournalInv'
  <2> SUFFICES ASSUME JournalInv, [AllNext]_allVars PROVE JournalInv'
    OBVIOUS
  <2>1. CASE EditorNext /\ UNCHANGED journalVars
    <3>1. EditorTypes'
      BY <2>1, EditorTypesStep DEF JournalInv
    <3> QED BY <2>1, <3>1, EditsRevise, EditingKeepsJournal DEF JournalInv
  <2>2. CASE LoadJournal \/ WriteJournal
    BY <2>2, JournalThreadKeeps
  <2>3. CASE JournalSystems
    BY <2>3, ReceiveJournalKeeps, RestoreKeeps, DispatchJournalKeeps DEF JournalSystems
  <2>4. CASE Crash
    BY <2>4, CrashKeeps
  <2>5. CASE UNCHANGED allVars
    <3>1. UNCHANGED <<editingVars, projectVars, journalVars>>
      BY <2>5 DEF allVars, editorVars
    <3>2. entries' = entries /\ revised' = revised /\ active_save' = active_save
      BY <3>1 DEF editingVars
    <3>3. EditorTypes /\ EditingTypeOK'
      BY <3>1 DEF JournalInv, EditorTypes, EditingTypeOK, editingVars
    <3>4. EditorTypes'
      BY <3>1, <3>2, <3>3, TypesKept
    <3> QED BY <3>1, <3>2, <3>4, UnchangedUnsaved, EditingKeepsJournal
  <2> QED BY <2>1, <2>2, <2>3, <2>4, <2>5 DEF AllNext
<1>3. JournalInv => JournalIsCurrent
  <2> SUFFICES ASSUME JournalInv, ~revised, journal_requests = <<>>,
                      \A i \in DOMAIN journal_results :
                         journal_results[i].kind = "Written" => journal_results[i].ok
               PROVE  journal = Unsaved
    BY DEF JournalIsCurrent
  <2>1. journal_results \in Seq(JournalAnswer) /\ NewestIsUnsaved
    BY DEF JournalInv, JournalTypeOK
  <2>2. \A m \in JournalAnswer : m.kind \in {"Loaded", "Written"}
    BY DEF JournalAnswer
  <2>3. journal_results # <<>> => /\ Len(journal_results) \in DOMAIN journal_results
                                  /\ journal_results[Len(journal_results)] \in JournalAnswer
    BY <2>1
  <2>4. Wrote
    BY <2>2, <2>3 DEF Wrote
  <2> QED BY <2>1, <2>4 DEF NewestIsUnsaved
<1> QED BY <1>1, <1>2, <1>3, PTL DEF JournalSpec

=============================================================================
