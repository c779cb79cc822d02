--------------------------- MODULE JournalProperties ---------------------------
(***************************************************************************)
(* What the journal owes the user's edits, across crashes.                 *)
(***************************************************************************)
EXTENDS EditorJournal, EditorProperties

\* The journal that was last written without a failure holds exactly what is
\* dirty, unless it is about to be written again.
JournalIsCurrent ==
    ~revised /\ journal_requests = <<>>
        /\ (\A i \in DOMAIN journal_results :
              journal_results[i].kind = "Written" => journal_results[i].ok)
    => journal = Unsaved

\* Unless the edits change forever, the journal on disk has exactly the unsaved
\* ones in the end, whatever write failed and whatever was saved meanwhile
\* (journal.rs, dispatch_dirty_journal and the Written arm of
\* receive_journal_results).
UnsavedWorkIsJournalled ==
    \/ []<><<entries' # entries>>_allVars
    \/ <>[](journal = Unsaved \/ pending_restore # None)

\* Edits brought back after a crash replace the record they were made from, and
\* no other: a save that did commit before the crash, or another editor's, is a
\* conflict (journal.rs:462 restores the base with the edit).  Where a revision
\* was given twice (NoSilentOverwrite), the record may be the other one that
\* had it.
RestoredEditsDoNotOverwrite ==
    [][others' = others => \A o \in Objects :
          rows'[o] # rows[o] =>
             /\ Revision(rows[o]) = Revision(entries[o].base)
             /\ rows[o] = entries[o].base \/ o \in reissued]_allVars

\* docs/WORKFLOWS.md:165-167: "unsaved edits are journalled [...] After a
\* crash the next launch restores them": until they are restored, the file
\* still has them.
JournalKeptUntilRestored ==
    /\ pending_restore # None => journal = pending_restore
    /\ \A i \in DOMAIN journal_results :
         journal_results[i].kind = "Loaded" /\ journal_results[i].snapshots # None
           => journal = journal_results[i].snapshots

=============================================================================
