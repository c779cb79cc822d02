---------------------------- MODULE EditorJournal ----------------------------
(***************************************************************************)
(* The editor with its recovery journal (app_editor, journal.rs) and       *)
(* crashes: what is dirty is written beside the project by a thread of its *)
(* own, and read back at the next start.  A crash takes the editor's       *)
(* memory and both threads; the project, the journal and the published     *)
(* runtime stay.                                                           *)
(***************************************************************************)
EXTENDS ProjectEditor

CONSTANTS
    JOURNAL_CHANNEL_CAPACITY,
    MaxJournalFaults,   \* bound: reads and writes of the journal that fail
    MaxCrashes          \* bound

ASSUME JournalAssumption ==
    JOURNAL_CHANNEL_CAPACITY \in Nat \ {0} /\ MaxJournalFaults \in Nat /\ MaxCrashes \in Nat

VARIABLES
    journal,            \* the file: the dirty snapshots it holds, or None
    journal_thread,     \* loading or serving
    journal_requests,   \* snapshots to write; None to clear
    journal_results,
    pending_restore,
    journal_faults, crashes

journalVars == <<journal, journal_thread, journal_requests, journal_results,
                 pending_restore, journal_faults, crashes>>
allVars == <<editorVars, journalVars>>

Snapshots == [o \in DirtyObjects |-> [base |-> entries[o].base, current |-> entries[o].current]]
Unsaved == IF DirtyObjects = {} THEN None ELSE Snapshots

JournalInit ==
    /\ journal_thread = "loading"
    /\ journal_requests = <<>> /\ journal_results = <<>>
    /\ pending_restore = None

AllInit == EditorInit /\ JournalInit /\ journal = None /\ journal_faults = 0 /\ crashes = 0

-----------------------------------------------------------------------------
(* The journal thread.                                                     *)

JournalThread == UNCHANGED <<editingVars, sourceVars, threadVars, windowVars, channelVars,
                             storeVars, saveVars, publishVars, faults, pending_restore, crashes>>

JournalFault == journal_faults < MaxJournalFaults /\ journal_faults' = journal_faults + 1

Answer(result) ==
    /\ Len(journal_results) < JOURNAL_CHANNEL_CAPACITY + 1
    /\ journal_results' = Append(journal_results, result)

\* A journal that cannot be read, or is of another project or schema, is
\* refused.
LoadJournal ==
    /\ journal_thread = "loading" /\ journal_thread' = "serving"
    /\ \/ Answer([kind |-> "Loaded", snapshots |-> journal]) /\ UNCHANGED journal_faults
       \/ Answer([kind |-> "Loaded", snapshots |-> None]) /\ journal # None /\ JournalFault
    /\ UNCHANGED <<journal, journal_requests>> /\ JournalThread

\* Written beside, synced and renamed: the file is the old or the new one.
WriteJournal ==
    /\ journal_thread = "serving" /\ journal_requests # <<>>
    /\ journal_requests' = Tail(journal_requests)
    /\ \/ /\ journal' = Head(journal_requests)
          /\ Answer([kind |-> "Written", ok |-> TRUE])
          /\ UNCHANGED journal_faults
       \/ /\ Answer([kind |-> "Written", ok |-> FALSE])
          /\ JournalFault
          /\ UNCHANGED journal
    /\ UNCHANGED journal_thread /\ JournalThread

-----------------------------------------------------------------------------
(* receive_journal_results, restore_loaded_journal, dispatch_dirty_journal *)

Journal == UNCHANGED <<projectVars, journal, journal_thread, journal_faults, crashes>>

ReceiveLoaded ==
    /\ journal_results # <<>> /\ Head(journal_results).kind = "Loaded"
    /\ journal_results' = Tail(journal_results)
    /\ pending_restore' = IF Head(journal_results).snapshots = None THEN pending_restore
                          ELSE Head(journal_results).snapshots
    /\ UNCHANGED <<editingVars, journal_requests>> /\ Journal

\* Mutant of ReceiveWritten: a failed write is forgotten.
ReceiveWrittenOrNot ==
    /\ journal_results # <<>> /\ Head(journal_results).kind = "Written"
    /\ journal_results' = Tail(journal_results)
    /\ UNCHANGED <<editingVars, journal_requests, pending_restore>> /\ Journal

\* Only the failure of the last request is written again: a later one has
\* the edits of the earlier.
ReceiveWritten ==
    /\ journal_results # <<>> /\ Head(journal_results).kind = "Written"
    /\ journal_results' = Tail(journal_results)
    /\ revised' = (revised \/ /\ ~Head(journal_results).ok
                              /\ journal_results' = <<>> /\ journal_requests = <<>>)
    /\ UNCHANGED <<entries, active_save, undo, redo, drag, dropped, edits, drawn,
                   journal_requests, pending_restore>> /\ Journal

Restorable == {o \in DOMAIN pending_restore :
                 ~Saving /\ (o \in Tracked => ~Dirty(entries[o]) /\ entries[o].save.kind # "Saving")}

FromJournal(snapshot) == [base |-> snapshot.base, current |-> snapshot.current,
                          runtime |-> snapshot.base, save |-> Idle]

RestoreJournal ==
    /\ source_epoch > 0 /\ pending_restore # None
    /\ pending_restore' = None
    /\ entries' = [o \in Objects |-> IF o \in Restorable THEN FromJournal(pending_restore[o])
                                     ELSE entries[o]]
    /\ IF Restorable = {} THEN UNCHANGED <<undo, redo, dropped, revised>>
       ELSE ClearHistory /\ revised' = TRUE
    /\ UNCHANGED <<active_save, drag, edits, drawn, journal_requests, journal_results>> /\ Journal

DispatchJournal ==
    /\ pending_restore = None /\ revised
    /\ Len(journal_requests) < JOURNAL_CHANNEL_CAPACITY
    /\ journal_requests' = Append(journal_requests, Unsaved)
    /\ revised' = FALSE
    /\ UNCHANGED <<entries, active_save, undo, redo, drag, dropped, edits, drawn,
                   journal_results, pending_restore>> /\ Journal

-----------------------------------------------------------------------------

Crash ==
    /\ crashes < MaxCrashes /\ crashes' = crashes + 1
    /\ entries' = [o \in Objects |-> None]
    /\ active_save' = None /\ ClearHistory /\ drag' = None
    /\ revised' = TRUE
    /\ thread' = "opening" /\ requests' = <<>> /\ results' = <<>>
    /\ phase' = "Opening" /\ write_error' = FALSE /\ source_epoch' = 0
    /\ desired' = None /\ loaded' = None /\ failed' = None /\ in_flight' = None
    /\ shown' = <<>>
    /\ next_save' = 0 /\ pending' = None /\ sent' = None /\ answer' = None
    /\ intent' = "Idle" /\ driven' = TRUE
    /\ publication' = NoJob /\ cook' = NoCook /\ reload' = None
    /\ journal_thread' = "loading"
    /\ journal_requests' = <<>> /\ journal_results' = <<>>
    /\ pending_restore' = None
    /\ UNCHANGED <<edits, drawn, sourceVars, runtime_db, saves, moves, faults,
                   journal_faults, journal>>

JournalSystems == ReceiveLoaded \/ ReceiveWritten \/ RestoreJournal \/ DispatchJournal

AllNext ==
    \/ EditorNext /\ UNCHANGED journalVars
    \/ LoadJournal \/ WriteJournal
    \/ JournalSystems
    \/ Crash

AllWork ==
    \/ EditorWork /\ UNCHANGED journalVars
    \/ LoadJournal \/ WriteJournal \/ JournalSystems

JournalSpec == AllInit /\ [][AllNext]_allVars /\ WF_allVars(AllWork)

=============================================================================
