--------------------------- MODULE WorldStreaming ---------------------------
(***************************************************************************)
(* The streaming coordinator: which world generation and which space the   *)
(* game runs on, the two-phase adoption of a newly published generation,   *)
(* and the source index of the active space (engine, world_streaming.rs,   *)
(* generation.rs, replies.rs, world_space.rs, catalog.rs, origin.rs,       *)
(* source_demand.rs).                                                      *)
(*                                                                         *)
(* The systems of a frame run one after another on the main thread; `pc`   *)
(* names the next one.  The database worker runs beside them and may act   *)
(* between any two channel operations.  Between frames (pc = "idle") other *)
(* systems ask for a reload, for another space, or take a completion.      *)
(*                                                                         *)
(* A cell window around the viewpoint is a member of Views; the windows of *)
(* Unindexable need more cells than one index query may return.            *)
(***************************************************************************)
EXTENDS WorldDatabase

CONSTANTS
    Spaces,         \* world space ids
    Views,          \* cell windows around the viewpoint
    Unindexable,    \* windows over the descriptor query limit
    SpacesOf,       \* the spaces of each generation
    CellSizeOf,     \* the cell size of each space in each generation
    DefaultSpace,   \* each generation's default space
    MaxInputs       \* bound: reloads, transitions and moves asked for

Windows == [space : Spaces, view : Views]

ASSUME WorldAssumption ==
    /\ None \notin Spaces \cup Views
    /\ Unindexable \subseteq Views
    /\ Windows \subseteq Topics
    /\ SpacesOf \in [Generations -> SUBSET Spaces]
    /\ DefaultSpace \in [Generations -> Spaces]
    /\ \A g \in Generations : DefaultSpace[g] \in SpacesOf[g]
    /\ DOMAIN CellSizeOf = Generations
    /\ MaxInputs \in Nat

VARIABLES
    pc,             \* the next system of the frame
    reload,         \* WorldGenerationReload
    active,         \* ActiveWorldSpace.current
    transition,     \* ActiveWorldSpace.requested
    viewpoint,      \* WorldViewpoint.position: its space and cell window
    origin,         \* WorldOrigin.space
    manifest,       \* the open generation: WorldStream.manifest, WorldCatalog
    phase,          \* WorldStream.phase
    demand_error,   \* WorldStream.demand_error
    index_windows,  \* WorldStream.index_windows
    requested_index,\* WorldStream.requested_index
    descriptors,    \* WorldStream.descriptors: what they were read as
    inputs          \* inputs so far, for the bound

streamVars == <<demand_error, index_windows, requested_index, descriptors>>
spaceVars == <<active, transition, viewpoint, origin>>
coreVars == <<reload, spaceVars, manifest, phase, streamVars>>
vars == <<dbVars, pc, coreVars, inputs>>

Systems == {"idle", "receive", "request_reload", "advance_reload",
            "transition", "viewpoint", "origin", "index", "render"}

Completion == [ok : BOOLEAN, generation : Generations \cup {None}]

\* WorldGenerationReload.  `commit` is 0 until the commit is sent; errors are
\* only known to have happened.
Reload ==
    [queued : Generations \cup {None},
     in_flight : Candidate \cup {None},
     completion : Completion \cup {None},
     candidate : Generations \cup {None},
     commit : Nat,
     committed : BOOLEAN,
     failure : BOOLEAN]

\* A transition's destination; a view of None is a non-finite position.
Transition == [space : Spaces, view : Views \cup {None}]

\* WorldStream.requested_index and what descriptors were read as.
IndexRequest == [id : Nat, space : Spaces]
Descriptors == [generation : Generations, about : Topics]

ASSUME NoneIsNoStreamingRecord ==
    /\ None \notin Windows /\ None \notin Transition
    /\ None \notin IndexRequest /\ None \notin Descriptors
    /\ None \notin Completion

StreamingTypeOK ==
    /\ DbTypeOK
    /\ pc \in Systems
    /\ reload \in Reload
    /\ active \in Spaces \cup {None}
    /\ transition \in Transition \cup {None}
    /\ viewpoint \in Windows \cup {None}
    /\ origin \in Spaces \cup {None}
    /\ manifest \in Generations \cup {None}
    /\ phase \in {"Opening", "Ready", "Failed"}
    /\ demand_error \in BOOLEAN
    /\ index_windows \in Views \cup {None}
    /\ requested_index \in IndexRequest \cup {None}
    /\ descriptors \in Descriptors \cup {None}
    /\ inputs \in 0..MaxInputs

NoReload ==
    [queued |-> None, in_flight |-> None, completion |-> None,
     candidate |-> None, commit |-> 0, committed |-> FALSE, failure |-> FALSE]

Init ==
    /\ DbInit
    /\ pc = "idle"
    /\ reload = NoReload
    /\ active = None /\ transition = None /\ viewpoint = None /\ origin = None
    /\ manifest = None
    /\ phase = "Opening"
    /\ demand_error = FALSE /\ index_windows = None
    /\ requested_index = None /\ descriptors = None
    /\ inputs = 0

Input == inputs < MaxInputs /\ inputs' = inputs + 1

-----------------------------------------------------------------------------
(* Between frames: what other systems ask of the streamer.                 *)

\* WorldGenerationReload::active
ReloadActive == reload.queued # None \/ reload.in_flight # None

\* Mutant of RequestReload: only one request is queued, in flight or not.
RequestReloadInFlight(g) ==
    /\ pc = "idle" /\ Input
    /\ reload.queued = None
    /\ reload' = [reload EXCEPT !.queued = g, !.completion = None]
    /\ UNCHANGED <<dbVars, pc, spaceVars, manifest, phase, streamVars>>

\* WorldGenerationReload::request, accepted; otherwise nothing changes.
RequestReload(g) ==
    /\ pc = "idle" /\ Input
    /\ ~ReloadActive
    /\ reload' = [reload EXCEPT !.queued = g, !.completion = None]
    /\ UNCHANGED <<dbVars, pc, spaceVars, manifest, phase, streamVars>>

\* WorldGenerationReload::take_completion
TakeCompletion ==
    /\ pc = "idle"
    /\ reload.completion # None
    /\ reload' = [reload EXCEPT !.completion = None]
    /\ UNCHANGED <<dbVars, pc, spaceVars, manifest, phase, streamVars, inputs>>

\* ActiveWorldSpace::request
RequestSpace(t) ==
    /\ pc = "idle" /\ Input
    /\ transition' = t
    /\ UNCHANGED <<dbVars, pc, reload, active, viewpoint, origin, manifest,
                   phase, streamVars>>

StartFrame ==
    /\ pc = "idle" /\ pc' = "receive"
    /\ UNCHANGED <<dbVars, coreVars, inputs>>

-----------------------------------------------------------------------------
(* receive_database_results: drains the reply channel, one reply a step.   *)

Receive(kind) == pc = "receive" /\ Received /\ Head(results).kind = kind
ReceiveUnchanged == UNCHANGED <<file, requests, last_id, workerVars, cancelled,
                                pc, transition, inputs>>

\* Opening::adopt.  The first view is the world's start view, in the default
\* space; it and the origin are set only the first time.
ReceiveOpened ==
    /\ Receive("Opened")
    /\ LET g == Head(results).generation IN
         \/ /\ Head(results).ok
            /\ active' = IF active = None THEN DefaultSpace[g] ELSE active
            /\ IF viewpoint = None
               THEN \E v \in Views :
                       viewpoint' = [space |-> DefaultSpace[g], view |-> v]
               ELSE UNCHANGED viewpoint
            /\ origin' = IF origin = None THEN DefaultSpace[g] ELSE origin
            /\ manifest' = g
            /\ phase' = "Ready"
         \/ /\ ~Head(results).ok
            /\ phase' = "Failed"
            /\ UNCHANGED <<active, viewpoint, origin, manifest>>
    /\ UNCHANGED <<reload, streamVars>>
    /\ ReceiveUnchanged

ReceiveReloaded ==
    /\ Receive("Reloaded")
    /\ LET r == Head(results) IN
         reload' =
           IF reload.in_flight = None \/ reload.in_flight.id # r.id THEN reload
           ELSE IF r.ok THEN [reload EXCEPT !.candidate = r.generation]
           ELSE [reload EXCEPT !.failure = TRUE]
    /\ UNCHANGED <<active, viewpoint, origin, manifest, phase, streamVars>>
    /\ ReceiveUnchanged

ReceiveCommitted ==
    /\ Receive("ReloadCommitted")
    /\ LET r == Head(results) IN
         reload' =
           IF reload.commit # r.id THEN reload
           ELSE IF r.ok THEN [reload EXCEPT !.committed = TRUE]
           ELSE [reload EXCEPT !.failure = TRUE]
    /\ UNCHANGED <<active, viewpoint, origin, manifest, phase, streamVars>>
    /\ ReceiveUnchanged

\* Mutant of IndexIsAwaited: any index reply will do.
AnyIndexIsAwaited(id) ==
    requested_index # None /\ requested_index.space = active

IndexIsAwaited(id) ==
    /\ requested_index # None
    /\ requested_index.id = id
    /\ requested_index.space = active

\* A reply to another request than the awaited one, or for another space than
\* the active one, is passed over; the latter leaves requested_index set.
ReceiveIndex ==
    /\ Receive("ReadIndex")
    /\ LET r == Head(results) IN
         \/ /\ IndexIsAwaited(r.id)
            /\ requested_index' = None
            /\ \/ /\ r.ok
                  /\ descriptors' = [generation |-> r.generation, about |-> r.about]
                  /\ UNCHANGED phase
               \/ /\ ~r.ok
                  /\ phase' = "Failed"
                  /\ UNCHANGED descriptors
         \/ /\ ~IndexIsAwaited(r.id)
            /\ UNCHANGED <<requested_index, descriptors, phase>>
    /\ UNCHANGED <<reload, active, viewpoint, origin, manifest, demand_error,
                   index_windows>>
    /\ ReceiveUnchanged

ReceiveNothing ==
    /\ pc = "receive" /\ NothingReceived
    /\ pc' = "request_reload"
    /\ UNCHANGED <<dbVars, coreVars, inputs>>

\* Mutant of ReceiveDisconnected: the reload is not told.
ReceiveDisconnectedSilently ==
    /\ pc = "receive" /\ Disconnected
    /\ phase' = "Failed"
    /\ pc' = "request_reload"
    /\ UNCHANGED <<dbVars, reload, spaceVars, manifest, streamVars, inputs>>

ReceiveDisconnected ==
    /\ pc = "receive" /\ Disconnected
    /\ reload' = IF ReloadActive THEN [reload EXCEPT !.failure = TRUE] ELSE reload
    /\ phase' = "Failed"
    /\ pc' = "request_reload"
    /\ UNCHANGED <<dbVars, spaceVars, manifest, streamVars, inputs>>

-----------------------------------------------------------------------------
(* generation.rs                                                           *)

\* compatible_candidate
Compatible(g) ==
    active # None =>
        /\ active \in SpacesOf[g]
        /\ (manifest # None /\ active \in SpacesOf[manifest])
               => CellSizeOf[manifest][active] = CellSizeOf[g][active]

\* request_reload: checks the candidate every frame, then sends what is
\* queued unless a reload is in flight.
RequestReloadSystem ==
    LET failure == \/ reload.failure
                   \/ reload.candidate # None /\ ~Compatible(reload.candidate)
        checked == [reload EXCEPT !.failure = failure]
    IN
    /\ pc = "request_reload" /\ pc' = "advance_reload"
    /\ \/ /\ reload.in_flight # None \/ reload.queued = None
          /\ reload' = checked
          /\ UNCHANGED <<requests, last_id>>
       \/ /\ reload.in_flight = None /\ reload.queued # None
          /\ \/ /\ Sent("Reload", reload.queued, 0, None)
                /\ reload' = [reload EXCEPT
                        !.queued = None,
                        !.in_flight = [id |-> last_id', generation |-> reload.queued],
                        !.candidate = None, !.commit = 0,
                        !.committed = FALSE, !.failure = FALSE]
             \/ /\ NotSentFull
                /\ reload' = checked
                /\ UNCHANGED <<requests, last_id>>
             \/ /\ NotSentStopped
                /\ reload' = [checked EXCEPT
                        !.queued = None,
                        !.completion = [ok |-> FALSE, generation |-> None]]
                /\ UNCHANGED <<requests, last_id>>
    /\ UNCHANGED <<file, results, workerVars, cancelled, spaceVars, manifest,
                   phase, streamVars, inputs>>

AtAdvance == pc = "advance_reload" /\ pc' = "transition"

\* Mutant of ClearStream: the awaited request is not forgotten.
ClearStreamKeepsRequest ==
    /\ demand_error' = FALSE /\ index_windows' = None /\ descriptors' = None
    /\ UNCHANGED requested_index

\* The part of clear_streamed_pages the index owns.
ClearStream ==
    /\ demand_error' = FALSE
    /\ index_windows' = None
    /\ requested_index' = None
    /\ descriptors' = None

DiscardNotQueued == NotSentFull /\ UNCHANGED <<requests, last_id>>

\* Mutant of DiscardQueued: a failed reload is only forgotten.
DiscardForgotten == UNCHANGED <<requests, last_id>>

DiscardQueued ==
    \/ Sent("DiscardReload", None, reload.in_flight.id, None)
    \/ NotSentStopped /\ UNCHANGED <<requests, last_id>>

\* The reload is no longer in flight, and has this outcome.
Ended(outcome) ==
    [NoReload EXCEPT !.queued = reload.queued, !.completion = outcome]

\* A failed reload stays in flight until its discard is queued.
DiscardReload ==
    /\ AtAdvance
    /\ reload.in_flight # None /\ reload.failure
    /\ \/ /\ DiscardQueued
          /\ reload' = Ended([ok |-> FALSE, generation |-> None])
       \/ DiscardNotQueued /\ UNCHANGED reload
    /\ UNCHANGED <<file, results, workerVars, cancelled, spaceVars, manifest,
                   phase, streamVars, inputs>>

CommitReload ==
    /\ AtAdvance
    /\ reload.in_flight # None /\ ~reload.failure
    /\ reload.candidate # None /\ reload.commit = 0
    /\ \/ /\ Sent("CommitReload", reload.in_flight.generation,
                  reload.in_flight.id, None)
          /\ reload' = [reload EXCEPT !.commit = last_id']
       \/ NotSentFull /\ UNCHANGED <<reload, requests, last_id>>
       \/ /\ NotSentStopped
          /\ reload' = [reload EXCEPT !.failure = TRUE]
          /\ UNCHANGED <<requests, last_id>>
    /\ UNCHANGED <<file, results, workerVars, cancelled, spaceVars, manifest,
                   phase, streamVars, inputs>>

\* adopt_runtime_manifest: the active space stays if the generation has it.
AdoptSpace(g) ==
    LET space == IF active \in SpacesOf[g] THEN active ELSE DefaultSpace[g]
    IN  /\ active' = space
        /\ IF viewpoint # None /\ viewpoint.space = space
           THEN UNCHANGED viewpoint
           ELSE \E v \in Views : viewpoint' = [space |-> space, view |-> v]
        /\ origin' = space

\* Mutant of AdoptManifest: streaming stays as it was.
AdoptManifestKeepsPhase(g) ==
    /\ AdoptSpace(g)
    /\ manifest' = g
    /\ UNCHANGED phase

AdoptManifest(g) ==
    /\ AdoptSpace(g)
    /\ manifest' = g
    /\ phase' = "Ready"

\* The committed candidate becomes the open generation.
AdoptGeneration ==
    /\ AtAdvance
    /\ reload.in_flight # None /\ ~reload.failure
    /\ reload.candidate # None /\ reload.commit # 0 /\ reload.committed
    /\ AdoptManifest(reload.candidate)
    /\ ClearStream
    /\ reload' = Ended([ok |-> TRUE, generation |-> reload.in_flight.generation])
    /\ UNCHANGED <<dbVars, transition, inputs>>

\* Nothing in flight, or a reply is still awaited.
AwaitReload ==
    /\ AtAdvance
    /\ \/ reload.in_flight = None
       \/ /\ ~reload.failure
          /\ \/ reload.candidate = None
             \/ reload.commit # 0 /\ ~reload.committed
    /\ UNCHANGED <<dbVars, coreVars, inputs>>

-----------------------------------------------------------------------------
(* world_space.rs and origin.rs                                            *)

\* manifest.world_space(space).is_some()
InManifest(space) == manifest # None /\ space \in SpacesOf[manifest]

AtTransition == pc = "transition" /\ pc' = "viewpoint"

\* Mutant of TransitionDue: a failed stream never lets one through.
TransitionDueWhenReady ==
    ~ReloadActive /\ transition # None /\ phase = "Ready"

\* Blocked during a reload, and until a world is open.
TransitionDue ==
    /\ ~ReloadActive
    /\ transition # None
    /\ transition.space = active \/ manifest # None

TransitionWaits ==
    /\ AtTransition
    /\ ~TransitionDue
    /\ UNCHANGED <<dbVars, coreVars, inputs>>

\* Mutant of EnterSpace: the viewpoint stays behind.
EnterSpaceWithoutViewpoint(space, view) ==
    /\ active' = space
    /\ UNCHANGED viewpoint
    /\ IF space # active
       THEN origin' = space /\ ClearStream
       ELSE UNCHANGED <<origin, streamVars>>

EnterSpace(space, view) ==
    /\ active' = space
    /\ viewpoint' = [space |-> space, view |-> view]
    /\ IF space # active
       THEN origin' = space /\ ClearStream
       ELSE UNCHANGED <<origin, streamVars>>

TransitionTaken ==
    /\ AtTransition
    /\ TransitionDue
    /\ transition' = None
    /\ \/ \* Not finite, or a space the open generation does not have.
          /\ \/ transition.view = None
             \/ ~InManifest(transition.space)
          /\ UNCHANGED <<active, viewpoint, origin, streamVars>>
       \/ /\ transition.view # None
          /\ InManifest(transition.space)
          /\ EnterSpace(transition.space, transition.view)
    /\ UNCHANGED <<dbVars, reload, manifest, phase, inputs>>

\* sync_stream_focus_to_viewpoint: a focus carries the viewpoint with it.
SyncFocus ==
    /\ pc = "viewpoint" /\ pc' = "origin"
    /\ \/ /\ active # None /\ manifest # None
          /\ active \in SpacesOf[manifest]
          /\ \E v \in Views :
                /\ viewpoint' = [space |-> active, view |-> v]
                /\ IF viewpoint # None /\ viewpoint.view = v
                   THEN UNCHANGED inputs ELSE Input
       \/ UNCHANGED <<viewpoint, inputs>>
    /\ UNCHANGED <<dbVars, reload, active, transition, origin, manifest, phase,
                   streamVars>>

\* update_world_origin, as far as its space goes: a rebase within the space
\* only moves render roots.
UpdateOrigin ==
    /\ pc = "origin" /\ pc' = "index"
    /\ IF viewpoint # None /\ origin # viewpoint.space
       THEN origin' = viewpoint.space /\ ClearStream
       ELSE UNCHANGED <<origin, streamVars>>
    /\ UNCHANGED <<dbVars, reload, active, transition, viewpoint, manifest,
                   phase, inputs>>

-----------------------------------------------------------------------------
(* source_demand.rs                                                        *)

AtIndex == pc = "index" /\ pc' = "render"
IndexUnchanged == UNCHANGED <<file, results, workerVars, cancelled, reload,
                              spaceVars, manifest, descriptors, inputs>>

IndexWanted ==
    /\ phase = "Ready" /\ requested_index = None
    /\ manifest # None /\ active # None

ViewpointIsHere == viewpoint # None /\ viewpoint.space = active

\* Nothing to ask for. A space the open generation does not have fails the
\* stream; OneSpace says it never comes to that.
IndexNotWanted ==
    /\ AtIndex
    /\ ~(IndexWanted /\ InManifest(active) /\ ViewpointIsHere)
    /\ phase' = IF IndexWanted /\ ~InManifest(active) THEN "Failed" ELSE phase
    /\ UNCHANGED <<requests, last_id, demand_error, index_windows,
                   requested_index>>
    /\ IndexUnchanged

\* request_cell_index: asks for the windows around the viewpoint unless they
\* are the ones last asked for.
RequestCellIndex ==
    /\ AtIndex /\ IndexWanted
    /\ InManifest(active) /\ ViewpointIsHere
    /\ \/ /\ viewpoint.view \in Unindexable
          /\ demand_error' = TRUE
          /\ UNCHANGED <<requests, last_id, phase, index_windows, requested_index>>
       \/ /\ viewpoint.view \notin Unindexable
          /\ demand_error' = FALSE
          /\ \/ /\ index_windows = viewpoint.view
                /\ UNCHANGED <<requests, last_id, phase, index_windows,
                               requested_index>>
             \/ /\ index_windows # viewpoint.view
                /\ \/ /\ Sent("ReadIndex", manifest, 0,
                              [space |-> active, view |-> viewpoint.view])
                      /\ index_windows' = viewpoint.view
                      /\ requested_index' = [id |-> last_id', space |-> active]
                      /\ UNCHANGED phase
                   \/ /\ NotSentFull
                      /\ UNCHANGED <<requests, last_id, phase, index_windows,
                                     requested_index>>
                   \/ /\ NotSentStopped
                      /\ phase' = "Failed"
                      /\ UNCHANGED <<requests, last_id, index_windows,
                                     requested_index>>
    /\ IndexUnchanged

\* PostUpdate: nothing of the coordinator's changes.
EndFrame ==
    /\ pc = "render" /\ pc' = "idle"
    /\ UNCHANGED <<dbVars, coreVars, inputs>>

-----------------------------------------------------------------------------

Main ==
    \/ StartFrame
    \/ ReceiveOpened \/ ReceiveReloaded \/ ReceiveCommitted \/ ReceiveIndex
    \/ ReceiveNothing \/ ReceiveDisconnected
    \/ RequestReloadSystem
    \/ DiscardReload \/ CommitReload \/ AdoptGeneration \/ AwaitReload
    \/ TransitionWaits \/ TransitionTaken
    \/ SyncFocus \/ UpdateOrigin
    \/ IndexNotWanted \/ RequestCellIndex

WorkerStep == Worker /\ UNCHANGED <<pc, coreVars, inputs>>
WorkerPanics == Panic /\ UNCHANGED <<pc, coreVars, inputs>>
PublishFile(g) == Publish(g) /\ UNCHANGED <<pc, coreVars, inputs>>

Next ==
    \/ Main
    \/ EndFrame
    \/ \E g \in Generations : RequestReload(g)
    \/ TakeCompletion
    \/ \E t \in Transition : RequestSpace(t)
    \/ WorkerStep
    \/ WorkerPanics
    \/ \E g \in Generations : PublishFile(g)

\* Bevy runs the frame's systems one after another, forever, and the worker
\* thread is scheduled.
Fairness == WF_vars(Main \/ EndFrame) /\ WF_vars(WorkerStep)

Spec == Init /\ [][Next]_vars /\ Fairness

=============================================================================
