----------------------------- MODULE SaveSlots -----------------------------
(***************************************************************************)
(* Save slots on disk (save, slots.rs): a save is staged beside its slot,  *)
(* synced, renamed over it, and the directory synced.  Any of these steps  *)
(* may fail, and the machine may stop between two of them; what a slot     *)
(* holds afterwards is what was last made durable or anything renamed over *)
(* it since.  Manual slots behave as the quick one.                        *)
(***************************************************************************)
EXTENDS Integers, FiniteSets, FiniteSetsExt

CONSTANTS
    AUTO_SLOTS,     \* rotated autosaves
    Empty,          \* no save
    Contents,       \* what may be saved
    MaxSaves,       \* bound on saves
    MaxSaveFaults,  \* bound on failed steps
    MaxStops        \* bound on stops of the machine

ASSUME SavesAssumption == AUTO_SLOTS \in 1 .. 32
ASSUME EmptyIsNoSave == Empty \notin [sequence : Nat, synced : BOOLEAN, content : Contents]

VARIABLES
    files,          \* what each slot shows
    disk,           \* what each slot may hold after a stop
    staged,         \* the save under way and its next step
    promised,       \* history: the sequence last reported saved, by kind
    saves, save_faults, stops

savesVars == <<files, disk, staged, promised, saves, save_faults, stops>>

Kinds == {"quick", "auto"}
QuickSlot == <<"quick", 0>>
SlotsOf(kind) == IF kind = "quick" THEN {QuickSlot}
                 ELSE {"auto"} \X (0 .. AUTO_SLOTS - 1)
Slots == UNION {SlotsOf(kind) : kind \in Kinds}

\* A file that is not a save of this build: cut short, or of an older format.
Unusable == [sequence |-> 0, synced |-> TRUE, content |-> Empty]

\* info
Usable(slot) == files[slot] # Empty /\ files[slot] # Unusable

SavesInit ==
    /\ files \in [Slots -> {Empty, Unusable}]
    /\ disk = [s \in Slots |-> {files[s]}]
    /\ staged = Empty
    /\ promised = [kind \in Kinds |-> 0]
    /\ saves = 0 /\ save_faults = 0 /\ stops = 0

-----------------------------------------------------------------------------
(* Saving.                                                                 *)

\* next_sequence: autosaves share one.
NextSequence(kind) == 1 + Max({0} \cup {files[s].sequence : s \in {s \in SlotsOf(kind) : Usable(s)}})

\* Mutant of SaveInto: the stage is renamed without being synced.
SaveIntoUnsynced(slot, content) ==
    /\ saves < MaxSaves
    /\ staged' = [slot |-> slot, next |-> "rename",
                  save |-> [sequence |-> NextSequence(slot[1]), synced |-> FALSE,
                            content |-> content]]
    /\ saves' = saves + 1
    /\ UNCHANGED <<files, disk, promised, save_faults, stops>>

\* save, up to the stage being written
SaveInto(slot, content) ==
    /\ saves < MaxSaves
    /\ staged' = [slot |-> slot, next |-> "sync",
                  save |-> [sequence |-> NextSequence(slot[1]), synced |-> FALSE,
                            content |-> content]]
    /\ saves' = saves + 1
    /\ UNCHANGED <<files, disk, promised, save_faults, stops>>

Quicksave(content) == staged = Empty /\ SaveInto(QuickSlot, content)

\* autosave: the first slot that is empty, else the oldest.
AutosaveSlot ==
    LET empty == {s \in SlotsOf("auto") : ~Usable(s)}
    IN  IF empty # {}
        THEN CHOOSE s \in empty : \A other \in empty : s[2] <= other[2]
        ELSE CHOOSE s \in SlotsOf("auto") :
                \A other \in SlotsOf("auto") : files[s].sequence <= files[other].sequence

Autosave(content) == staged = Empty /\ SaveInto(AutosaveSlot, content)

At(step) == staged # Empty /\ staged.next = step

SyncStage ==
    /\ At("sync")
    /\ staged' = [staged EXCEPT !.next = "rename", !.save.synced = TRUE]
    /\ UNCHANGED <<files, disk, promised, saves, save_faults, stops>>

RenameStage ==
    /\ At("rename")
    /\ files' = [files EXCEPT ![staged.slot] = staged.save]
    /\ disk' = [disk EXCEPT ![staged.slot] = @ \cup {staged.save}]
    /\ staged' = [staged EXCEPT !.next = "sync directory"]
    /\ UNCHANGED <<promised, saves, save_faults, stops>>

\* The directory is durable now, the save is reported.
SyncDirectory ==
    /\ At("sync directory")
    /\ disk' = [s \in Slots |-> {files[s]}]
    /\ staged' = Empty
    /\ promised' = [promised EXCEPT ![staged.slot[1]] = staged.save.sequence]
    /\ UNCHANGED <<files, saves, save_faults, stops>>

\* A step fails: the stage is removed, a slot already renamed stays.
SaveFails ==
    /\ staged # Empty /\ save_faults < MaxSaveFaults
    /\ staged' = Empty
    /\ save_faults' = save_faults + 1
    /\ UNCHANGED <<files, disk, promised, saves, stops>>

-----------------------------------------------------------------------------
(* The machine stops.  A stage left behind is no slot.                     *)

AfterStop(slot) == {IF save # Empty /\ ~save.synced THEN Unusable ELSE save : save \in disk[slot]}

Stop ==
    /\ stops < MaxStops
    /\ \E left \in [Slots -> UNION {AfterStop(s) : s \in Slots}] :
          /\ \A s \in Slots : left[s] \in AfterStop(s)
          /\ files' = left
          /\ disk' = [s \in Slots |-> {left[s]}]
    /\ staged' = Empty
    /\ stops' = stops + 1
    /\ UNCHANGED <<promised, saves, save_faults>>

SaveSteps == SyncStage \/ RenameStage \/ SyncDirectory \/ SaveFails

SavesNext ==
    \/ \E content \in Contents : Quicksave(content) \/ Autosave(content)
    \/ SaveSteps
    \/ Stop

SavesSpec == SavesInit /\ [][SavesNext]_savesVars

\* A save that was reported is never lost: its slot, or for autosaves one of
\* the rotated ones, holds that save or a later one, whatever failed or
\* stopped since.
ReportedSavesStay ==
    \A kind \in Kinds :
        promised[kind] > 0 =>
            \E s \in SlotsOf(kind) : Usable(s) /\ files[s].sequence >= promised[kind]

=============================================================================
