---------------------------- MODULE ProjectEditor ----------------------------
(***************************************************************************)
(* Saving and publishing the project (app_editor: saving.rs,               *)
(* project_store.rs and its parts, publication.rs, activity.rs; world_db,  *)
(* project/writer.rs): the editor's frame, the thread that owns the        *)
(* project database, the thread that cooks, and another editor of the same *)
(* project.                                                                *)
(*                                                                         *)
(* Each Bevy system is one action; systems of different chains come in any *)
(* order.  The user acts after the frame's Update, which `driven` tells.   *)
(* The windows are of one tool; areas, atmospheres and environment source, *)
(* which save through channels of their own, are left out.                 *)
(***************************************************************************)
EXTENDS ObjectEditing

CONSTANTS
    Windows,        \* query windows, with their space and the objects they hold
    SpaceOf, HoldsOf,
    PROJECT_REQUEST_CAPACITY,
    Elsewhere,      \* where another editor puts objects
    MaxPublishes,   \* bound: publications
    Budgets         \* bound: how often each of these may happen, one of these ways
                    \* in a behaviour

\* The user's changes, writes of another editor, saves asked for,
\* moves of the viewpoint, failures.
Events == {"edits", "others", "saves", "moves", "faults"}

ASSUME EditorAssumption ==
    /\ \A w \in Windows : HoldsOf[w] \subseteq Objects
    /\ PROJECT_REQUEST_CAPACITY \in Nat \ {0}
    /\ Elsewhere \subseteq Nat
    /\ MaxPublishes \in Nat /\ Budgets \subseteq [Events -> Nat]

VARIABLES
    rows,           \* object_placements: the record of each object, if any
    given,          \* the last revision each object's record was given
    reissued,       \* history: objects given a revision a second time
    thread,         \* the project thread: opening, serving or stopped
    requests, results,
    phase,          \* ProjectStorePhase
    write_error,
    source_epoch,
    desired, loaded, failed, in_flight,     \* windows
    shown,          \* the store's objects: the rows last read
    next_save, pending, sent, answer,       \* the object save channel
    intent,         \* the coordinator's
    driven,         \* drive_editor_save ran after the last completion
    publication,
    cook,           \* the publication thread's work, or stopped
    reload,         \* the engine's answer to the generation it was asked to adopt
    runtime_db,     \* what the published runtime database was cooked from
    others, saves, moves, faults

sourceVars == <<rows, given, reissued, others>>
threadVars == <<thread, requests, results>>
windowVars == <<desired, loaded, failed, in_flight, shown, moves>>
channelVars == <<next_save, pending, sent, answer>>
storeVars == <<phase, write_error, source_epoch>>
saveVars == <<intent, driven, saves>>
publishVars == <<publication, cook, reload, runtime_db>>
projectVars == <<sourceVars, threadVars, windowVars, channelVars, storeVars,
                 saveVars, publishVars, faults>>
editorVars == <<editingVars, projectVars>>

NoJob == [phase |-> "Idle", id |-> 0, epoch |-> 0]
NoCook == [stage |-> "resting", id |-> 0, epoch |-> 0, ok |-> FALSE]

StoreInit ==
    /\ thread = "opening" /\ requests = <<>> /\ results = <<>>
    /\ phase = "Opening" /\ write_error = FALSE /\ source_epoch = 0
    /\ desired = None /\ loaded = None /\ failed = None /\ in_flight = None
    /\ shown = <<>>
    /\ next_save = 0 /\ pending = None /\ sent = None /\ answer = None
    /\ intent = "Idle" /\ driven = TRUE
    /\ publication = NoJob /\ cook = NoCook /\ reload = None

\* The objects of the project were moved once before.
EditorInit ==
    /\ EditingInit
    /\ StoreInit
    /\ rows = [o \in Objects |-> IF o \in Existing THEN [value |-> 0, rev |-> 2] ELSE None]
    /\ given = [o \in Objects |-> IF o \in Existing THEN 2 ELSE 0]
    /\ reissued = {}
    /\ runtime_db = rows
    /\ others = 0 /\ saves = 0 /\ moves = 0 /\ faults = 0

Counts == [edits |-> edits, others |-> others, saves |-> saves, moves |-> moves,
           faults |-> faults]
MayHappen(event) ==
    \E budget \in Budgets : /\ \A e \in Events : Counts[e] <= budget[e]
                            /\ Counts[event] < budget[event]

Fault == MayHappen("faults") /\ faults' = faults + 1

-----------------------------------------------------------------------------
(* The project database.                                                   *)

\* Mutant of Matches: any record of the object will do.
MatchesAny(o, write) == (write.expected = None) = (rows[o] = None)

Matches(o, write) ==
    IF write.expected = None THEN rows[o] = None
    ELSE rows[o] # None /\ rows[o].rev = write.expected

Written(write) ==
    IF write.to = None THEN None
    ELSE [value |-> write.to.value,
          rev |-> 1 + IF write.expected = None THEN write.to.rev ELSE write.expected]

\* The records after a write. One that is created anew goes on from the revision
\* its writer remembers: nothing in the project does once it is deleted.
Put(after) ==
    /\ rows' = after
    /\ given' = [o \in Objects |-> IF after[o] # None /\ after[o].rev > given[o]
                                   THEN after[o].rev ELSE given[o]]
    /\ reissued' = reissued \cup
          {o \in Objects : after[o] \notin {None, rows[o]} /\ after[o].rev <= given[o]}

Missed(writes) == {o \in DOMAIN writes : ~Matches(o, writes[o])}
First(objects) == CHOOSE o \in objects : \A p \in objects : o <= p

\* apply_object_transaction: all of the writes, or the first that no longer
\* matches with the record that is there.
Apply(writes) ==
    IF Missed(writes) = {}
    THEN /\ Put([o \in Objects |-> IF o \in DOMAIN writes THEN Written(writes[o])
                                   ELSE rows[o]])
         /\ UNCHANGED others
    ELSE UNCHANGED sourceVars

Outcome(writes) ==
    IF Missed(writes) = {}
    THEN [kind |-> "Committed", rows |-> [o \in DOMAIN writes |-> Written(writes[o])]]
    ELSE [kind |-> "Conflict", object |-> First(Missed(writes)),
          actual |-> rows[First(Missed(writes))]]

\* Another editor of the same project moves or deletes an object, or brings one
\* back that was deleted, from any revision it may have seen.
OtherEditor ==
    /\ MayHappen("others") /\ others' = others + 1
    /\ \E o \in Objects :
         LET Becomes(row) == Put([rows EXCEPT ![o] = row])
             After(rev) == \E place \in Elsewhere : Becomes([value |-> place, rev |-> rev + 1])
         IN  \/ rows[o] # None /\ (After(rows[o].rev) \/ Becomes(None))
             \/ rows[o] = None /\ \E rev \in 1..given[o] : After(rev)
    /\ UNCHANGED <<editingVars, threadVars, windowVars, channelVars, storeVars,
                   saveVars, publishVars, faults>>

-----------------------------------------------------------------------------
(* The project thread.                                                     *)

Thread == UNCHANGED <<editingVars, windowVars, channelVars, storeVars, saveVars, publishVars>>

OpenProject ==
    /\ thread = "opening"
    /\ \/ thread' = "serving" /\ UNCHANGED faults
          /\ results' = Append(results, [kind |-> "Opened", ok |-> TRUE, writable |-> TRUE])
       \/ thread' = "serving" /\ Fault
          /\ results' = Append(results, [kind |-> "Opened", ok |-> TRUE, writable |-> FALSE])
       \/ thread' = "stopped" /\ Fault
          /\ results' = Append(results, [kind |-> "Opened", ok |-> FALSE, writable |-> FALSE])
    /\ UNCHANGED <<sourceVars, requests>> /\ Thread

\* Every answer fits the results: at most one query and one save are asked.
Serve(kind) ==
    /\ thread = "serving" /\ requests # <<>> /\ Head(requests).kind = kind
    /\ Len(results) < PROJECT_REQUEST_CAPACITY + 1
    /\ requests' = Tail(requests)
    /\ UNCHANGED thread /\ Thread

Held(window) == {o \in HoldsOf[window] : rows[o] # None}

ServeQuery ==
    /\ Serve("Query")
    /\ LET window == Head(requests).window IN
       \/ /\ results' = Append(results, [kind |-> "Query", window |-> window, ok |-> TRUE,
                                         rows |-> Restrict(rows, Held(window))])
          /\ UNCHANGED faults
       \/ /\ results' = Append(results, [kind |-> "Query", window |-> window, ok |-> FALSE])
          /\ Fault
    /\ UNCHANGED sourceVars

ServeSave ==
    /\ Serve("Save")
    /\ LET save == Head(requests) IN
       \/ /\ Apply(save.writes)
          /\ results' = Append(results, [kind |-> "Save", id |-> save.id,
                                         outcome |-> Outcome(save.writes)])
          /\ UNCHANGED faults
       \/ /\ results' = Append(results, [kind |-> "Save", id |-> save.id,
                                         outcome |-> [kind |-> "Failed"]])
          /\ Fault
          /\ UNCHANGED sourceVars

ThreadStops ==
    /\ thread = "serving" /\ thread' = "stopped"
    /\ requests' = <<>>
    /\ Fault
    /\ UNCHANGED <<sourceVars, results>> /\ Thread

-----------------------------------------------------------------------------
(* The store's systems: receive_project_results, update_project_query_     *)
(* demand, dispatch_project_save and dispatch_project_query.               *)

Store == UNCHANGED <<editingVars, sourceVars, saveVars, publishVars, faults, moves, next_save>>

Receive(kind) ==
    /\ results # <<>> /\ Head(results).kind = kind
    /\ results' = Tail(results)
    /\ UNCHANGED <<thread, requests, desired>> /\ Store

ReceiveOpened ==
    /\ Receive("Opened")
    /\ phase' = IF Head(results).ok THEN "Ready" ELSE "Failed"
    /\ write_error' = IF Head(results).ok THEN ~Head(results).writable ELSE write_error
    /\ source_epoch' = IF Head(results).ok /\ source_epoch = 0 THEN 1 ELSE source_epoch
    /\ UNCHANGED <<loaded, failed, in_flight, shown, pending, sent, answer>>

\* One query is in flight at a time, so an answer is always of that one.
ReceiveQuery ==
    /\ Receive("Query")
    /\ LET query == Head(results) IN
       /\ in_flight' = IF in_flight = query.window THEN None ELSE in_flight
       /\ IF desired # query.window
          THEN UNCHANGED <<loaded, failed, shown>>
          ELSE IF query.ok
          THEN loaded' = query.window /\ failed' = None /\ shown' = query.rows
          ELSE failed' = query.window /\ UNCHANGED <<loaded, shown>>
    /\ UNCHANGED <<pending, sent, answer, storeVars>>

\* Mutant of ReceiveSave: a commit does not give the channel free.
ReceiveSaveStillSent ==
    /\ Receive("Save")
    /\ LET save == Head(results) IN
       /\ sent' = IF save.outcome.kind = "Committed" THEN sent ELSE None
       /\ answer' = [id |-> save.id, outcome |-> save.outcome]
       /\ IF save.outcome.kind = "Committed"
          THEN source_epoch' = source_epoch + 1 /\ loaded' = None /\ shown' = <<>>
          ELSE UNCHANGED <<source_epoch, loaded, shown>>
    /\ UNCHANGED <<pending, phase, write_error, failed, in_flight>>

ReceiveSave ==
    /\ Receive("Save")
    /\ LET save == Head(results) IN
       /\ sent' = IF sent = save.id THEN None ELSE sent
       /\ answer' = [id |-> save.id, outcome |-> save.outcome]
       /\ IF save.outcome.kind = "Committed"
          THEN source_epoch' = source_epoch + 1 /\ loaded' = None /\ shown' = <<>>
          ELSE UNCHANGED <<source_epoch, loaded, shown>>
    /\ UNCHANGED <<pending, phase, write_error, failed, in_flight>>

ReceiveStopped ==
    /\ thread = "stopped" /\ results = <<>> /\ phase # "Failed"
    /\ phase' = "Failed"
    /\ UNCHANGED <<write_error, source_epoch, threadVars, desired, loaded, failed,
                   in_flight, shown, pending, sent, answer>> /\ Store

\* The viewpoint's window, and another when it moves on.
UpdateDemand ==
    /\ phase = "Ready"
    /\ IF desired = None THEN UNCHANGED moves
       ELSE MayHappen("moves") /\ moves' = moves + 1
    /\ \E window \in Windows \ {desired} :
         /\ desired' = window
         /\ IF loaded # None /\ SpaceOf[loaded] # SpaceOf[window]
            THEN loaded' = None /\ shown' = <<>>
            ELSE UNCHANGED <<loaded, shown>>
         /\ failed' = IF failed = window THEN failed ELSE None
    /\ UNCHANGED <<editingVars, sourceVars, threadVars, in_flight, channelVars, storeVars,
                   saveVars, publishVars, faults>>

\* A full queue tries again next frame.
Send(request) ==
    IF thread = "stopped"
    THEN phase' = "Failed" /\ UNCHANGED requests
    ELSE /\ Len(requests) < PROJECT_REQUEST_CAPACITY
         /\ requests' = Append(requests, request) /\ UNCHANGED phase

DispatchSave ==
    /\ phase = "Ready" /\ sent = None /\ pending # None
    /\ Send([kind |-> "Save", id |-> pending.id, writes |-> pending.writes])
    /\ IF thread = "stopped" THEN UNCHANGED <<pending, sent>>
       ELSE pending' = None /\ sent' = pending.id
    /\ UNCHANGED <<thread, results, write_error, source_epoch, desired, loaded, failed,
                   in_flight, shown, answer>> /\ Store

DispatchQuery ==
    /\ phase = "Ready" /\ in_flight = None
    /\ desired \notin {None, loaded, failed}
    /\ Send([kind |-> "Query", window |-> desired])
    /\ in_flight' = IF thread = "stopped" THEN None ELSE desired
    /\ UNCHANGED <<thread, results, write_error, source_epoch, desired, loaded, failed,
                   shown, pending, sent, answer>> /\ Store

-----------------------------------------------------------------------------
(* reconcile_editor_selection                                              *)

Reconcile ==
    /\ Pin(Restrict(shown, DOMAIN shown \cap Tracked))
    /\ entries' # entries
    /\ UNCHANGED projectVars

-----------------------------------------------------------------------------
(* process_project_save_completion and drive_editor_save                   *)

InFlight == pending # None \/ sent # None
Publishing == publication.phase \in {"Queued", "Cooking", "Adopting"}

Save == UNCHANGED <<sourceVars, threadVars, windowVars, storeVars, cook, reload,
                    runtime_db, faults, saves>>

CompleteSave ==
    /\ answer # None
    /\ FinishSave(answer)
    /\ answer' = None
    /\ intent' = IF answer.outcome.kind = "Committed" THEN intent ELSE "Idle"
    /\ driven' = (intent' = "Idle")
    /\ UNCHANGED <<next_save, pending, sent, publication>> /\ Save

Drive ==
    /\ intent # "Idle" /\ ~InFlight /\ ~Saving
    /\ driven' = TRUE
    /\ UNCHANGED <<sent, answer>> /\ Save

\* A conflict, a project that cannot be written or a publication stops the drain.
MayDrain == ~(write_error \/ AnyConflict \/ Publishing)

DriveSaves ==
    /\ Drive
    /\ MayDrain /\ DirtyObjects # {}
    /\ next_save' = next_save + 1
    /\ pending' = [id |-> next_save', writes |-> [o \in Batch |-> WriteOf(entries[o])]]
    /\ QueueSave(next_save')
    /\ UNCHANGED <<intent, publication>>

DriveEnds ==
    /\ Drive
    /\ MayDrain => DirtyObjects = {}
    /\ intent' = "Idle"
    /\ publication' = IF MayDrain /\ intent = "SaveAndPublish" /\ source_epoch # 0
                      THEN [phase |-> "Queued", id |-> publication.id + 1, epoch |-> source_epoch]
                      ELSE publication
    /\ UNCHANGED <<editingVars, next_save, pending>>

-----------------------------------------------------------------------------
(* Publication: dispatch_publication, the cook, the engine's adoption and  *)
(* receive_publication_result.                                             *)

Publish == UNCHANGED <<sourceVars, threadVars, windowVars, channelVars, storeVars, saveVars>>

To(phaseName) == [publication EXCEPT !.phase = phaseName]

DispatchPublication ==
    /\ publication.phase = "Queued" /\ cook.stage \in {"resting", "stopped"}
    /\ IF cook.stage = "resting"
       THEN /\ publication' = To("Cooking")
            /\ cook' = [stage |-> "asked", id |-> publication.id, epoch |-> publication.epoch,
                        ok |-> FALSE]
       ELSE publication' = To("Failed") /\ UNCHANGED cook
    /\ UNCHANGED <<editingVars, reload, runtime_db, faults>> /\ Publish

\* cook_project reads one snapshot of the project, writes a staging database
\* and renames it over the runtime database.
Cook ==
    /\ cook.stage = "asked"
    /\ runtime_db' = rows
    /\ cook' = [cook EXCEPT !.stage = "done", !.ok = TRUE]
    /\ UNCHANGED <<editingVars, publication, reload, faults>> /\ Publish

CookFails ==
    /\ cook.stage = "asked" /\ Fault
    /\ \/ cook' = [cook EXCEPT !.stage = "done"]
       \/ cook' = [NoCook EXCEPT !.stage = "stopped"]
    /\ UNCHANGED <<editingVars, publication, reload, runtime_db>> /\ Publish

ReceiveCooked ==
    /\ cook.stage = "done" /\ cook' = NoCook
    /\ IF publication.phase = "Cooking" /\ publication.id = cook.id
            /\ publication.epoch = cook.epoch
       THEN IF cook.ok /\ source_epoch = cook.epoch /\ reload = None
            THEN publication' = To("Adopting") /\ reload' = "asked"
            ELSE publication' = To("Failed") /\ UNCHANGED reload
       ELSE UNCHANGED <<publication, reload>>
    /\ UNCHANGED <<editingVars, runtime_db, faults>> /\ Publish

ReceiveCookStopped ==
    /\ cook.stage = "stopped" /\ Publishing
    /\ publication' = To("Failed")
    /\ UNCHANGED <<editingVars, cook, reload, runtime_db, faults>> /\ Publish

\* The engine's side of the adoption is WorldStreaming's.
Adopt ==
    /\ reload = "asked"
    /\ \/ reload' = "adopted" /\ UNCHANGED faults
       \/ reload' = "refused" /\ Fault
    /\ UNCHANGED <<editingVars, publication, cook, runtime_db>> /\ Publish

ReceiveAdopted ==
    /\ publication.phase = "Adopting" /\ reload \in {"adopted", "refused"}
    /\ reload' = None
    /\ IF reload = "adopted" THEN publication' = To("Published") /\ AdoptRuntime
       ELSE publication' = To("Failed") /\ UNCHANGED editingVars
    /\ UNCHANGED <<cook, runtime_db, faults>> /\ Publish

-----------------------------------------------------------------------------
(* The user, by the rules of SourceActivity.                               *)

Writing == intent # "Idle" \/ Publishing \/ InFlight \/ Saving
CanStep == ~Writing /\ ~AnyConflict
CanSave == CanStep /\ ~write_error

User == driven /\ UNCHANGED projectVars
Released == User /\ drag = None

SelectObject == Released /\ ~Saving /\ \E o \in DOMAIN shown \ Tracked :
                    Pin([p \in {o} |-> shown[o]])
AddObject ==
    /\ Released /\ MayHappen("edits") /\ loaded # None /\ ~AnyConflict
    /\ \E o \in Fresh, place \in Placements : Create(o, place)
ApplyFields ==
    /\ Released /\ MayHappen("edits")
    /\ \E o \in Objects, place \in Placements : Transform({o}, place)
DeleteSelection == Released /\ MayHappen("edits") /\ \E objects \in SUBSET Tracked : Delete(objects)
DragSelection ==
    /\ User /\ MayHappen("edits")
    /\ \E objects \in SUBSET Tracked, place \in Placements : DragMove(objects, place)
EndDrag == User /\ DragEnd
LoseDrag == User /\ DragLost
StepBack == Released /\ MayHappen("edits") /\ CanStep /\ Undo
StepForward == Released /\ MayHappen("edits") /\ CanStep /\ Redo
Discard == Released /\ intent = "Idle" /\ ~InFlight /\ DiscardAll

\* The inspector shows a conflict only of an object that is there.
UseDatabaseVersion == Released /\ \E o \in Objects : Present(o) /\ ReloadConflict(o)
KeepLocal == Released /\ \E o \in Objects : Present(o) /\ RebaseConflict(o)

Request(wanted) ==
    /\ driven /\ drag = None
    /\ CanSave /\ MayHappen("saves") /\ saves' = saves + 1
    /\ intent' = wanted
    /\ UNCHANGED <<editingVars, sourceVars, threadVars, windowVars, channelVars, storeVars,
                   driven, publishVars, faults>>

RequestSave == DirtyObjects # {} /\ Request("Save")
RequestPublish ==
    /\ publication.id < MaxPublishes
    /\ DirtyObjects # {} \/ source_epoch > 0
    /\ Request("SaveAndPublish")

-----------------------------------------------------------------------------

EditorThreads == OpenProject \/ ServeQuery \/ ServeSave \/ Cook \/ Adopt

StoreSystems == ReceiveOpened \/ ReceiveQuery \/ ReceiveSave \/ ReceiveStopped
                  \/ DispatchSave \/ DispatchQuery

SaveSystems == CompleteSave \/ DriveSaves \/ DriveEnds

PublicationSystems == DispatchPublication \/ ReceiveCooked \/ ReceiveCookStopped
                        \/ ReceiveAdopted

UserActs == \/ SelectObject \/ AddObject \/ ApplyFields \/ DeleteSelection
            \/ DragSelection \/ EndDrag \/ LoseDrag \/ StepBack \/ StepForward \/ Discard
            \/ UseDatabaseVersion \/ KeepLocal \/ RequestSave \/ RequestPublish
            \/ UpdateDemand

EditorNext ==
    \/ EditorThreads \/ StoreSystems \/ SaveSystems \/ PublicationSystems \/ Reconcile
    \/ UserActs
    \/ OtherEditor \/ ThreadStops \/ CookFails

\* Threads that live run, and every frame runs every system: as long as one of
\* them has something to do, one of them does it.
EditorWork == EditorThreads \/ StoreSystems \/ SaveSystems \/ PublicationSystems \/ Reconcile

EditorSpec == EditorInit /\ [][EditorNext]_editorVars /\ WF_editorVars(EditorWork)

=============================================================================
