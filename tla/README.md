# Yarra, verified

Yarra is a Bevy game with an editor. Its world is cooked from a project database into an
immutable SQLite *generation*; the engine streams that generation around the player, the editor
edits the project and publishes new generations under a running game, and the gameplay session
runs the story on top. This directory holds TLA+ models of the streamer, of the editor's way from
an edit to a published world, and of the playthrough and its saves; the TLC configurations that
check them on small instances; and proofs of the central results for every instance.

- [The system](#the-system)
- [The modules](#the-modules)
- [What each run checks](#what-each-run-checks)
- [Fairness](#fairness)
- [Proofs](#proofs)
- [Disagreements with the documentation](#disagreements-with-the-documentation)
- [Not modelled, and the plan](#not-modelled-and-the-plan)

Check a module with `tlc -workers 2 -config MCReload.cfg MCWorldStreaming.tla`, a proof with
`tlapm WorldStreaming_proofs.tla`. `PROJECT.json` maps every definition to its source lines.

## The system

| Component | State it keeps | Operations | Talks to |
|---|---|---|---|
| World database worker (`engine/src/world_streaming/database*`) | a thread with the live reader and a candidate reader; a request channel (16) and a reply channel (32); the last request id | send, try_recv, drop; open, read terrain/index/page/far objects, reload, commit, discard | every streaming system, by request ids |
| Streaming coordinator (`replies`, `generation`, `world_space`, `catalog`, `origin`) | the open manifest, phase, active space, requested transition, viewpoint, origin, the reload handshake | drain replies, request/advance a reload, take a transition, follow the focus, move the origin | worker; asked by editor publication and gameplay between frames |
| Source demand (`source_demand`) | index windows, the awaited index, descriptors | ask for an index, calculate demand | worker, residency |
| Source page residency (`residency`) | each page's stage, decode tasks, demand, the byte and attachment budgets | request, receive, decode, admit, attach, cool, revive, remove, clear | worker, decode pool, page attachment |
| Terrain clipmap (`terrain_clipmap`, `terrain_requests`) | identity drawn, windows, resident / requested / absent / stale nodes, requests in flight or dropped, received and decoding batches, failure | receive, follow a publication, request metadata and nodes, take decodes, draw | worker, decode pool, coordinator's catalog |
| Live terrain preview, far objects, valley mist | an overlay; blocks; a height field | apply, request, attach | worker, clipmap |
| Editor: working set and history (`app_editor/src/editing`) | base, current and runtime record of each object and its save state; undo and redo; a drag | create, move, delete, undo, redo, discard, reload or keep a conflict, batch a save, finish it, adopt | save pipeline, publication, journal |
| Editor: save pipeline (`saving`, `project_store`) | what the user asked for, the save channel, query windows, the source epoch; the project thread and its channels | open, query, reconcile, save, complete, drive | project writer, working set, publication |
| Editor: publication (`publication`) | a phase with its epoch; the cook thread | queue, cook, adopt, fail | save pipeline, cook, streamer's reload |
| Editor: journal (`journal`) | a file of unsaved edits; a thread; edits to restore | load, write, clear, restore, retry | working set |
| Editor: dense domains, workspaces | environment cells, presets, roads, areas, atmospheres; the user interface | the same life as the objects'; widgets | save pipeline |
| World cook and databases (`world_cook`, `world_db`) | staged runtime file, incremental fingerprints, source revisions | cook, continue, publish by rename; optimistic source transactions | editor, streamer (through the file) |
| Gameplay session (`gameplay`) | the playthrough's records, clock and random streams; a transaction of nested scopes; queued work; conversations and the floor; walks | commands, triggers, fixed steps, settling | game application, content |
| Save slots (`save`) | a directory of slots, staged files, a sequence per kind | save, quicksave, autosave, list, load | game application |
| Game application (`app_game/src/story.rs`) | the session and its save directory | run commands, save, load, autosave | session, slots, streamer |
| Content and scripting; renderers, environment compilation, tools | graphs and expressions; GPU and numeric data | | |

How they interact: one frame runs the streaming systems one after another on the main thread
(`world_streaming.rs:126`), the clipmap in PostUpdate. The worker thread runs beside them and may
act between any two channel operations. All reads are asynchronous: a system sends with an id,
forgets nothing, and recognises the reply by its id on some later frame. Decoding runs on a task
pool. Another process or thread may replace the published file at any time, atomically; the
editor then asks the streamer to adopt exactly that generation. The worker opens it as a
candidate beside the live reader, the game commits, the worker swaps, and on its acknowledgement
the game swaps too.

What is hard, and what must hold:

- *Worker and channels*: both channels are bounded and the worker blocks; requests of several
  systems are queued when readers are swapped under them. Replies must stay in order, data must
  be of the generation asked for, shutdown must end, nothing may be lost.
- *Reload handshake*: failure, a full queue or a dead worker at any step. The swap must look
  atomic, a commit must find its candidate, no reader may leak, every reload must be answered.
- *Spaces and index*: four systems and two protocols write space, viewpoint and origin. A late
  index reply must not be taken for the new space, nor wedge the index.
- *Pages*: replies, decodes and cooling pages outlive their demand, space and generation;
  budgets are enforced against last frame's count.
- *Ground*: drawn nodes are kept across a publication while everything in flight is superseded;
  windows move under requests; failures start over after a delay.
- *Edits and saves*: an answer may be read frames after it was given, a row may be read again
  before or after the save that changes it, another editor may write between any two steps, and
  undo has to survive all of it. A window may be left and come back with its entries pinned.
- *Publication*: a cook reads the project at some moment; by the time it is adopted the source
  may have moved on.
- *Journal*: written by another thread, behind the edits, by steps that fail; a crash may fall
  between a save's commit and its answer.
- *Transactions*: any deed of a command may fail after others changed parts of the playthrough.
  A scope remembers only what it first touches and hands that on when it is kept.
- *Settling*: triggers set each other off, conversations wait for the floor, walks run out of
  time while the work they cause is queued.
- *Saves*: a rename may be lost or come back after a stop of the machine; the slot to rotate is
  chosen from what can be read.

In the game, commands and saves run one after another on the main thread; the hazards there are
of order and of partial failure, not of interleaving. The editor has four threads (its frame, the
project thread, the cook, the journal), and another editor may have the project open.

The hazards are listed line by line in `PROJECT.json`, each with the properties that would catch
it going wrong.

## The modules

```
WorldDatabase ── WorldDatabaseClient ── MCWorldDatabase
      │
WorldStreaming ── StreamingProperties ── MCWorldStreaming
      │   │              └ INSTANCE Publication (abstract)
      │   └── TerrainClipmap ── ClipmapProperties ── MCTerrainClipmap
      └────── SourceResidency ── ResidencyProperties ── MCSourceResidency

ObjectEditing ── ProjectEditor ── EditorProperties ── MCProjectEditor
                      └── EditorJournal ── JournalProperties ── MCEditorJournal

GameplayTx ── GameSession ──┬── Story ── MCStory
      │       SaveSlots ────┘
      └ INSTANCE NestedScopes (abstract)

WorldDatabase_proofs ──┬── WorldDatabaseClient_proofs
                       └── WorldStreaming_proofs ──┬── Clipmap_proofs
                                                   └── Residency_proofs
ProjectEditor_proofs (with the journal's)    SaveSlots_proofs    Story_proofs
```

### Streaming

**WorldDatabase** is the worker: `requests` and `results` are the channels, `reader` and
`candidate` the two SQLite readers, `worker` where the thread is. `Open`, `Serve`, `SendReply`
and `Cancelled` are the thread's steps, `Sent`, `NotSentFull`, `Received`... the outcomes of
`send` and `try_recv` that the other modules build their actions from. A reply carries the
generation it was read from in place of the data. A reply that does not fit the channel blocks
the thread (`"replying"`). Ids of requests that were not queued are not given out, which nobody
can see. `Publish` replaces the file.

**WorldDatabaseClient** drives it with any request at any time.

**WorldStreaming** is the coordinator; `pc` is the next system of the frame, and each system is
one action per outcome: `ReceiveOpened` to `ReceiveDisconnected` drain replies one at a time,
`RequestReloadSystem`, `DiscardReload`, `CommitReload`, `AdoptGeneration` and `AwaitReload` are
`generation.rs`, `TransitionWaits` and `TransitionTaken` `world_space.rs`, and so on to
`RequestCellIndex`. Between frames `RequestReload`, `TakeCompletion` and `RequestSpace` are what
the rest of the program calls. Errors are known only to have happened; a position is a cell
window (`Views`); cell sizes matter only in comparison.

**Publication** is the abstract specification: a generation is open, one is wanted, and in one
step the wanted one opens and the request is answered, or it is refused and nothing changes.

**TerrainClipmap** adds the ground: the clipmap's part of reply routing and its PostUpdate
system, in its order (`at` names the next part). A node's contents are the generation they came
from. Layouts and surfaces are compared only. An active view camera is assumed. The editor
overlay, patches, wear and the level hierarchy are left out.

**SourceResidency** adds the pages: `step` names the next of its systems. The order in which
pages are requested and admitted is left open, so it holds for every priority. Budgets, byte
sizes and shared asset variants are explicit.

### Editor

**ObjectEditing** is the working set and its history. An entry is `base` (the row the edit started
from), `current`, `runtime` (what the open generation has) and `save`, as in `objects.rs`; a
record is a placement, one of `Placements`, and a revision. `FromSource`, `Adopts` and `Pinned`
are what a row that is read does to an entry, `Batch` and `WriteOf` what a save sends, `Saved`
what its outcome does; `Create` to `Redo` are the user's commands with what they record, a drag
included, which previews on every move and records once. A drag may also be lost (`DragLost`): when
the dragged proxy goes away, the selection changes or the workspace is left (`gizmo.rs:151-163`,
`input.rs:36`), the drag is forgotten without a command and its last preview stays. `dropped`
remembers that this happened since the history was last emptied, for the properties only. The
history is bounded in entries; its bound in bytes (`history.rs:388`) is left out. Who may call
these is the next module's.

**ProjectEditor** is everything around it. The project is `rows`; `Matches` and `Apply` are the
writer's optimistic transaction: all writes, or the first conflict. Each Bevy system is one action
per outcome: `Receive*`, `UpdateDemand`, `DispatchSave`, `DispatchQuery` and `Reconcile` of the
store, `CompleteSave`, `DriveSaves` and `DriveEnds` of `saving.rs`, `DispatchPublication` to
`ReceiveAdopted` of `publication.rs`. Systems of one chain run in their order, systems of
different chains in any order. The user acts after the frame's Update (`driven` is set by the
drive and read by every user's action). `OpenProject`, `ServeQuery`, `ServeSave` and
`ThreadStops` are the project thread, which answers every request, or stops; `Cook` and
`CookFails` the cook, which reads the project at one moment between its request and its answer;
`OtherEditor` is the same program over the same database: at any time it moves or deletes an
object, or creates one anew that was deleted. A creation inserts the record at the revision its
writer remembers plus one (`writer.rs:112`), which for an undone deletion is one the object may
have had before; the other editor may remember any revision that was given. `given` and `reissued`
keep, for the properties only, the last revision each object's record was given and the objects
for which one was given twice. Objects start at revision 2, so that there is one to
come back to. `Adopt` is the outcome of the streamer's
reload, whose handshake is `WorldStreaming`'s. Two simplifications: one tool's windows, and the
condition on unsaved drafts of the workspaces in `drive_editor_save` is left out (a draft is only
known to that interface).

**EditorJournal** adds the journal: its file, its thread, `DispatchJournal` and the retry of a
write that failed, `RestoreJournal` at the next start. `Crash` may happen at any step: memory,
channels and threads are gone; the project, the journal and the runtime database stay.

### Game

**GameplayTx** is `tx.rs`. `state` is the playthrough as one function of `Records` and `scalars`
its clock and streams. A scope is its `before` map (what each record it touched first held), its
`scalars`, its signals and its mark in the reports. `EnterScope`, `Put`, `KeepScope` (merge into
the outer scope, where the older memory wins) and `UndoScope` (put everything back) are the
operations; `copies` and `playthrough` are history variables for the refinement below.

**NestedScopes** is the abstract specification: a scope copies everything when it begins; keeping
it drops the copy, undoing it restores the copy, and another playthrough takes over with no scope
open.

**GameSession** runs commands in it. A command is one transaction, and so is each piece of queued
work it leaves behind, up to `SETTLE_STEPS`. `agenda` holds the steps a transaction has left, each
of them a deed of the source (`SetVariable`, `RequestMove`, `QueueStart`, `BeginTalk`,
`InterruptTalk`, `ObserveAreas`, ...), then whose turn it is to speak (`TakeTurns`) and what the
changes announce (`Announce`). A deed that content may refuse may be refused at any time;
`UndoAttempt`, `UndoAttemptInName` and `RollBack` are the three ways the source deals with that.
`TryTrigger` and `StartTalk` open an attempt of their own inside the work; a trigger that fails is
undone alone.

**SaveSlots** is `slots.rs`: `SaveInto` stages and checks, `SyncStage`, `RenameStage` and
`SyncDirectory` are the steps of a save, `SaveFails` ends it at any of them, `Stop` loses what was
not made durable. `files` is what the directory shows, `disk` everything each slot may show after
a stop. Manual slots behave as the quick one.

**Story** composes the two as `story.rs` does: saves and loads happen between commands, a load
takes over from the session, a stopped machine comes back with a new game and the saves it left.

`*Properties` modules state what must hold; definitions named after a mutation next to the operator
they vary (`SentWithOldId`, `AttachPageUncounted`, ...) are plausible bugs. `PROJECT.json` pairs
each property with the one it catches; no specification uses them.

## What each run checks

Every capacity, fault, input and id is bounded by a named constant. In the streaming modules
`FaultsUntil` lets opens, reads, decodes and the thread fail only while fewer requests have been
sent; 100 means always. `MaxInputs` bounds reloads, transitions and moves asked for. Two
generations suffice for one swap over another; three inputs allow a reload after a failed one with
a transition between. Queues of one or two are full often, which larger ones only are rarely.

| Run | Question | Bounds |
|---|---|---|
| `database` | the worker under any client: order, generations, only commits swap, shutdown, no lost request | 3 requests, queues 2/1, faults always |
| `reload` | one generation and one space through publications, reloads, transitions, moves, worker faults; the handshake refines `Publication` | 2 generations (one drops a space), 2 spaces, 2 views, queues 2/2, 3 inputs |
| `reload_liveness` | every reload answered, every transition taken, the index catches up | the same with queues 1/1, 2 inputs |
| `clipmap` | ground across a publication, faults and retries: nothing old lands, no node is forgotten, nothing disappears without a reason, failures are retried, the ground catches up | 2 generations (one lacks a node), 2 nodes in batches of 1, 2 views, one batch in flight, 1 input, faults during the first 2 requests |
| `residency` | budgets, no page of an old generation, no page lost on its way, demanded pages stay | 3 pages that share an asset, of which one pair fits the budgets and the other two each exceed one, a backlog of 2 and 2 attachments a frame, 2 spaces, a generation without one of the pages, 2 inputs, faults during the first request |
| `residency_liveness` | demand is served, or waits for room in the budgets; an overtaken index request heals | 3 pages, all around one view, a backlog of 2, 1 attachment a frame, a reload |
| `editor` | no write lost or overwritten, undo never stuck, adoption marks what was cooked, saves end | 1 existing and 1 new object, 1 write per transaction (so that a save of two takes two), history 2, 2 windows in 2 spaces, queue 2, 2 placements and 1 of the other's, 1 publication; one of four budgets of edits, writes of another, saves, moves and faults: 3 0 2 0 0, 2 2 1 0 0, 1 1 1 1 1, 2 0 1 0 1 |
| `journal` | the journal follows the edits across failed writes and a crash; what it restores overwrites nothing | 1 object, history 1, 1 journal fault, 1 crash; edits, writes of another and saves within 2 0 2, 1 1 2 or 1 2 1 |
| `story` | undone whole, announced and marked together, one speaker; scopes of first touches refine scopes that copy | 2 conversations (one blocking, one ambient), 2 triggers (one fires once, one sets itself off forever), 2 variables, 1 actor, 4 commands, 2 refusals, 3 settling steps, a quicksave, a load, a stop |
| `saves` | a save once reported is never lost | 2 rotated slots and the quick slot, each empty or unusable at first, 5 saves, 2 failed steps, 2 stops |
| `clipmap_republish`, `journal_restore` | violations, see below | as `clipmap` without faults; as `journal` |

The editor's events (`Events`) are bounded together: each behaviour keeps within one of the
`Budgets`. Each of these leaves room for one family of races: two saves with edits before, between
and after them; two writes of another, which may delete an object and bring it back, against an
edit and its save; one of everything, the views included; and edits, a drag that is lost among
them, with a failure. The journal's budgets are two edits each saved, one before and one after the
crash, and writes of another between; two of them again bring a deleted object back. The mutants of
all properties are found within these bounds, and so are the cases the properties except: an undo
refused after a lost drag, and a save over a revision given twice. Five saves into two slots rotate
twice and leave room for a failure between. Three settling steps let a trigger that sets itself off
forever reach the limit, with a second trigger's work behind it. With one conversation of each mode
no two wait for the same place on the floor; that queues of any length are kept right is what
`FloorFollows` proves.

What they show that a unit test would hardly reach:

- Once the worker commits, the live reader runs ahead of the game's manifest until the
  acknowledgement is drained (`ReaderFollowsManifest` says this and no more). Requests sent in
  between are refused. For an index request this marks streaming failed, but adoption is certain
  to follow and clears it (`DemandIsServed` depends on that); for the ground it is not harmless
  (below).
- A discard may be queued behind anything: the next reload's candidate survives because
  candidates are named by request id (`CommitIsNeverRefused`), and single-flight plus
  "discard before done" keeps readers from leaking (`CandidateIsOwned`).
- `IndexRequestIsOfTheActiveSpace` is what keeps `replies.rs:138` from wedging the index.
- Admission by stale statistics is safe (`BudgetHolds`): nothing attaches between the count and
  the next admission, and what leaves only makes room.
- A row read before a save committed cannot be reconciled after its answer: one thread answers
  both in order, and the answer of a commit drops the rows shown. A row read after the commit may
  be reconciled before the answer is; `pin` leaves it until the entry is no longer saving
  (`BaseIsTheRow`), and never adopts one over an edit (`EditsAreKept`).
- An edit restored after a crash keeps the base it was made from. If its save had committed
  before the crash, saving again is a conflict and not a silent overwrite
  (`RestoredEditsDoNotOverwrite`), as long as no revision was given out twice (see below). The
  `journal` run has that case whole: a save that commits, a crash before the journal hears of it,
  the edit restored and saved again.
- A save's expectation is a revision number and no more. Against another editor that moves and
  deletes this names one row; against one that brings deleted objects back it may name two
  (`NoSilentOverwrite` says which part is left).
- Undo is never stuck but for one case: a drag that is lost leaves a placement that no command
  knows of, and when the objects happen to stand where a command would take them, it is refused
  and with it all below it (`UndoIsNeverStuck`).
- `adopt_runtime_generation` marks each entry's *base* as published although the cook read
  the project earlier. This is right only because nothing is saved from the moment a publication
  is queued until it ends (`RuntimeIsWhatWasCooked`), and only against writes of this editor.
- An attempt that is kept hands its memory to the scope outside, and the older memory has to win
  (`ScopesAreSnapshots`): it shows when a trigger touches a record its work already touched, is
  kept, and the work is undone after all.
- A quicksave is only ever of a settled playthrough, so loading it never resumes half a command.
- A file cut short counts as an empty slot and its sequence as never given out; even so, whatever
  steps fail and whenever the machine stops, the rotation never replaces the newest save that was
  reported before one that supersedes it is durable (`ReportedSavesStay`).

## Fairness

The frame's systems are weakly fair (Bevy runs the schedule forever) and so is the worker's step
(the OS schedules the thread). Decode tasks finish, the retry delay passes and cooling ends: each
is enabled only at its place in the frame, so it is strongly fair. `database` also assumes that
the client keeps draining, which `receive_database_results` does every frame; `DropTerminates`
does not need it. In the editor one weak condition covers the frame's systems and the threads
together (`EditorWork`, `AllWork`): as long as one of them has something to do, one does.
It assumes less than a condition for each, and the properties need no more. Nothing is assumed of
the user, the other editor, the file, faults or crashes. The game's modules state no liveness: a
command runs to its end on the calling thread.

## Proofs

Every safety invariant and action property of the runs `database`, `reload`, `clipmap`,
`residency`, `saves` and `story` is proved for all generations, spaces, nodes, pages, slots,
capacities, budgets, contents of a game and numbers of faults, and so are most of the editor's; one
of them has a condition on the content (`TriggersFireWhole`). What is assumed of the constants is
named in the modules: `None` is no value (`NoneIsNoValue`, `NoneIsNoRecord`,
`NoneIsNoStreamingRecord`, `NoneIsNoRow`, `EmptyIsNoSave`), capacities are positive
(`CapacityAssumption`), generations have their default space (`WorldAssumption`), pages and nodes
are named by topics of the worker and pages weigh whole bytes and are finitely many
(`PageAssumption`, `ClipmapAssumption`), the counts and the object and slot limits of the editor
and the saves (`MaxIdAssumption`, `EditingAssumption`, `EditorAssumption`, `JournalAssumption`,
`SavesAssumption`), and a game's records are among those a transaction knows (`SessionAssumption`)
and its content is finite and well-formed (`ContentAssumption`). TLC checks the invariants below on
the runs' instances too, the typings apart that speak of all numbers.

### The worker

`WorldDatabase_proofs` has the lemmas that every user of the worker needs: what sending, draining
and each of the thread's steps do to the channels (`SendStep`, `ReceiveStep`, `QuietStep`), and
`InOrder`: ids increase along the reply channel, the reply in hand and the request channel,
wherever an id is not zero. From it follows that one id travels at most once.

- `WorldDatabaseClient_proofs!ClientInvariant`: `InOrder` with `AskedInv`, which says that what
  travels under an id is what that id asked for, and that a candidate is of the reload it is named
  after. `Ordered`, `NoMixedGenerations` and `TheReaderIsCommitted` follow.

### The coordinator (`WorldStreaming_proofs`)

- `Typing`, `IndexIsNeverWedged`: an awaited index is of the active space. It is inductive with
  the typing: opening a world finds no active space and so no request.
- `Handshake`: `HandshakeInv`. `ReloadIds`: nothing on its way has an id yet to be given, so a
  fresh reload's id is unused. `OneReload`: what travels under the id in flight is of the
  generation in flight, and only a reload in flight has a candidate. `OpensFirst`: the opening
  reply is first and only once, so that `ReceiveOpened` never replaces an open generation.
- `Atomicity`: each step maps to a step of `Publication` or a stutter. Without `OneReload`,
  adoption could install a generation other than the one answered; without `OpensFirst`, a late
  opening could.
- `TwoPhase`: `StreamInv`, which adds `InOrder` and `CommitInv`. A queued commit finds its
  candidate prepared, or the reload that prepares it is queued before it; whatever else carries a
  reload's name names an earlier one; once a reload was answered nothing of it travels; the live
  reader is of the open generation until the worker has served the commit, and of the one in
  flight from then on. None of these holds alone: that a commit is not refused
  (`NoRefusedCommit`) needs that the discard of a failed reload cannot name the next one's
  candidate, which needs the order of ids; that no reader leaks (`NoLeakedCandidate`) needs that
  a discard is queued before the reload is answered; that the reader is of the manifest
  (`ReaderFollows`) needs all of it.
- `Together`: the open generation has the active space, and the viewpoint and origin are in it
  (`SpaceInv`; before a world is open there is none of the three).
- `CurrentIndex`: what travels under the awaited index's id is about its space and of the open
  generation (`IndexInv`). It needs `StreamInv` for a commit that is served while the request
  waits: the worker then refuses it.

### Ground and pages

The clipmap and the pages share the worker with the coordinator, so their proofs need that the
coordinator's steps do not disturb what they wait for, and theirs not what it waits for. That is
where `WorldDatabase_proofs` is used: every step of theirs on a channel is a `SendStep` or
`ReceiveStep` of their own kind.

- `Clipmap_proofs!GroundInvariant`: `ClipInv`. Each pending id is of a read of the publication
  drawn, and of one only (`PendingIsRead`, `PendingIsOne`), what was received or is decoding is of
  it too (`BatchesAreCurrent`), and ground is drawn within the windows (`GroundIsWindowed`).
  `CurrentGround`, `NoForgottenNode` and `GroundLeaves` follow. The last of these says that
  resident ground leaves only for a reason, and it needs `GroundIsWindowed`: without it a node
  outside the windows could be resident and be dropped by a step that has no reason.
- `Residency_proofs!Accounting`: `ResidencyInv`. A loading page is read for the open generation and
  is on its way (`LoadingIsRead`, `LoadingArrives`), each decode task is its page's and of the open
  generation, and each decoding page has one (`TasksAreDecoding`), what is prepared, drawn or
  cooling is of the open generation (`ShownIsCurrent`). `CurrentPages`, `NoLostPage` and
  `DemandedStay` follow.
- `Residency_proofs!Budgets`: `BudgetInv`, what is attached was counted and what was counted fits.
  Admission compares a page with what was *counted*, not with what is attached, and the inclusion
  is what makes this safe. The rest is about sums over finite sets, which the model writes with
  `MapThenSumSet`: adding an element adds its weight (`SumOf`), a part weighs no more
  (`SumOfPart`), a union weighs no more than both (`SumOfUnion`, where shared variants are counted
  once). A fold picks its elements in an order of its own, so that even `SumOf` is no mere
  unfolding; these lemmas go by a least counterexample (`MinimalSet`).

### Editor (`ProjectEditor_proofs`)

- `EditorInvariant`: `EditorInv`. At most one save is under way, in the request channel, served, in
  the reply channel or about to be completed (`OneSave`), and the objects it is of have entries
  that are saving (`SavingEntries`). Every row the editor holds is of a revision that was given,
  and the project's or of a smaller revision than the project's, unless the object has been deleted
  or one of its revisions was given twice (`Known`); while nobody else writes it is just the
  project's (`Meets`). This is said of the row a window read and shows, unless the answer of a
  commit of that object is still behind it and will drop it (`RowsReadMeet`), and the base of an
  entry, unless a commit of it is answered and not yet completed (`BasesMeet`). Ids not yet drawn
  are nowhere (`UndrawnAreUnused`), and the project has no revision that was not given
  (`RowsAreGiven`), without which nothing could be said of an object that comes back. Every step
  that writes is the same step to what is known (`PutGoesOn`, `Onward`), this editor's save or
  another's. And nothing is saved from the time a publication is queued until it ends, so that what
  was cooked is still there when it is adopted (`PublishInv`).
- `BasesAreRows` and `PublishedIsCooked` (while nobody else writes), `Overwrites` and `EditsStay`
  follow. For the first, the order of the result channel matters, position by
  position: what a row read says about the project depends on the answers that come after it.
- `HistoryLeadsHere` and `UndoWorks`: `UndoIsNeverStuck`, for histories of any length. A layout says
  of every object where it is, or that it is not there. The invariant (`HistoryInv`, while nobody
  else writes) is that there is a layout below each command of the undo stack such that
  the command leads from it to the one above, and that the topmost layout is what is edited, or was
  before the drag (`View`); the redo stack likewise, led backwards. Once a drag was lost away from
  where it began (`dropped`), placements no longer follow from the commands, and a layout says only
  which objects are there (`Seen`, `Blurred`). That is enough: a creation or deletion can
  then still be taken back, and a move is refused only if it would change nothing
  (`AlreadyAt`). It cannot speak of the top
  alone: `Undo` uncovers the command below, and that this one can be taken back is only known from
  the layout under the one taken back. It rests on `EditorInv`: an object a command touches must
  still be tracked (`TouchesTracked`, kept because what is retained includes the history), and a
  row read again must not move an object (`ReconcileKeepsPlaces`, from the bases meeting the rows).
- `JournalFollows`: the journal last written without a failure holds exactly what is dirty
  (`JournalInv`: until an edit is revised again, the last journal request holds what is unsaved,
  and after the last write so does the file). It holds across crashes, restored edits and retries
  of failed writes, for the journal's own specification.

### Saves (`SaveSlots_proofs`)

- `DurablePromises`: `SavesInv`. For each kind of save, some slot holds a whole save at least as
  new as the one last reported *in every state that a stop of the machine may leave*
  (`PromiseIsDurable`), a save that is being staged is newer than all promises (`StagedIsNewer`),
  and sequences in use are counted (`SequencesAreCounted`). A rotation may replace the slot that
  holds the promise, when it is the only one that can be read; this is safe because what replaces
  it is newer and was synced before it is renamed. `SavesStay` follows, for any number of slots.

### Transactions and the game (`Story_proofs`)

For any depth of nesting and any sequence of commands. What is said of transactions assumes nothing
of the constants; the floor needs `SessionAssumption` and `ContentAssumption`.

- `TransactionRemembers`: `TxSpec => []TxInv(TxTypes)`, the inductive invariant of a transaction
  over all records, values, scalars, signals and events. For each open scope, what it remembers
  laid over the state when the next inner scope began (over the present state for the innermost)
  is the state when it began itself; the same for its scalars, and its mark and signals say what
  was reported since. It has to be stated for every scope: keeping one hands its memory to the
  scope outside, about which the innermost clause alone says nothing.
- `TransactionIsASnapshot`: `TxSpec => ScopesAreSnapshots`. Entering, working in, keeping and
  undoing a scope, and another playthrough taking over, map to the steps of `NestedScopes` of
  those names.
- `StoryRemembers`: `StorySpec => []StoryInv`, the same for a whole game. What content writes is
  of no type fixed in advance, so the types are a parameter: the invariant says that there are
  some the transaction keeps to, and each step takes wider ones (`WiderHolds`). `FloorInv` and
  `TriggersInv` are about the floor and the triggers, below. `SavesHoldStates` is what a load
  needs: every save shown, on disk or being staged is empty, unusable, or holds a record for every
  name, a floor that is right and triggers that are whole, also after a stop left any of what the
  disk may hold.
- `StoryIsASnapshot`: `StorySpec => ScopesAreSnapshots`, the property of the `story` run. Each
  action of `GameSession` is a step of its transaction (`CommandsAreSteps`, `SessionWorkIsAStep`),
  a quickload and a stop are another playthrough taking over.
- `FloorFollows`: `StorySpec => []FloorIsTheActive`. Between transactions the floor is right;
  within one it is not, and `FloorInv` says why it will be. Until turns are taken (`Ahead`) the
  floor, and that of every copy, is the one the transaction began with. The agenda then ends with
  taking turns and announcing, and before them has exactly one step that keeps each scope opened
  within (`Ready`), so turns are taken in the outermost scope alone. Afterwards (`Behind`) only the
  announcement is left, and the floor is right. Taking turns looks only at the conversations the
  transaction touched; by `TransactionRemembers` the others are as they were when it began, when
  the floor was right for them. Several may start or end in one transaction: that each of them is
  queued or taken out once is shown over the recursive functions `TurnsOfAll` and `Retained` by
  well-founded induction, in place of the induction theorems that take an operator. An attempt
  undone in its middle leaves the steps after its end (`AttemptUndone`, `ScopeDone`).
- `TriggersFireWhole`: `OwnDeeds => (StorySpec => []TriggersAreWhole)`. A trigger that fires once
  has taken effect exactly when it counts as fired. The code does not require `OwnDeeds` of
  content: that nothing but the trigger writes what it sets, and that this is not set from the
  start. Without it the property says nothing of the code (another trigger may set the same
  variable); TLC checks that the run's content is of this kind (`MCContent`). `TriggersInv` is
  inductive: of each such trigger either no step left concerns it (`Foreign`) and it is whole, or
  an attempt is carrying it out (`RunsTo`): its deeds come first, then its mark, then the end of
  the attempt, and what is not set yet is still to be set. Every copy is whole, so an attempt
  undone or a command rolled back makes it whole again.

### Model-checked only

- Liveness, which is out of the prover's reach: `DropTerminates`, `EveryRequestIsServed`,
  `ReloadIsAnswered`, `TransitionIsTaken`, `IndexCatchesUp`, `GroundCatchesUp`,
  `FailureIsRetried`, `DemandIsServed`, `SaveEnds`, `UnsavedWorkIsJournalled`.
- `RestoredEditsDoNotOverwrite`. A journal brings back bases the project has gone beyond, so
  `EditorInv` does not hold across crashes, only its typing does (`EditorTypes`).
- The two violation runs.

## Disagreements with the documentation

- `clipmap_republish`: `terrain_clipmap.rs:10` promises that the old ground of a space stays
  drawn through a publication until each node's new version replaces it. A batch sent after the
  commit was sent but before its acknowledgement was drained is served by the new reader and
  answered "stale generation"; reply and acknowledgement may arrive in the same frame, and
  `follow_publication` (`:851`) then starts over because a failure is set. The drawn ground is
  cleared.
- `journal_restore`: `docs/WORKFLOWS.md:165` says that unsaved edits are journalled and that the
  next launch restores them after a crash. `dispatch_dirty_journal` (`journal.rs:549`) holds back
  only while `pending_restore` is set. In the first frames of a launch the journal is still being
  loaded, nothing is dirty and nothing was dispatched, so it sends a clear, and the thread deletes
  the file it has just read. A second crash before the restored edits are written again loses
  them.

Met while modelling, without a run of their own:

- `generation.rs:9` says that a complete uploaded terrain cover must be ready before a generation
  is adopted. `advance_reload` waits for no terrain; the clipmap reads the new generation after
  the adoption (`generation.rs:131` says so).
- `world_runtime.rs:146` says that a newer request gets a larger number. Two walks asked for in
  one command get the same one. The models leave these numbers out.
- `slots.rs:57` calls a sequence monotonic within a slot. Two games that share a directory each
  read it before they write, so both may give out the same number. The models have one game.
- A revision may be given out twice, while `docs/ARCHITECTURE.md:149` says that a stale write is a
  conflict (and `:532` that stale revisions come back as conflicts). Undoing a deletion that was
  saved brings the record back at the revision its writer remembers, and inserting it gives the
  next one (`writer.rs:112`), whatever was given meanwhile. An object read at revision 2 and edited
  here, deleted by another editor and brought back there from revision 1 with another placement,
  has revision 2 again; the save of the edit expects 2, matches and replaces a record it never saw.
  The same may happen within one editor and its journal. This is what `reissued` excepts in
  `NoSilentOverwrite` and `RestoredEditsDoNotOverwrite`; without the exception TLC finds both
  violated.
- A lost drag can block the history. An object is moved from A to B, dragged back to A, and the
  drag is lost (`gizmo.rs:151`): the undo of the move asks `set_transforms` for the placement the
  object already has, which is refused (`objects.rs:352`), and `undo` puts the command back.
  Every older command stays behind it until the object is moved again. This is what
  `AlreadyAt` excepts in `UndoIsNeverStuck`; without it TLC finds it violated.
- A conflict over a deletion has no buttons: the inspector offers them for a selected object that
  is present (`inspector.rs:289`), and until all edits are discarded nothing can be saved or
  undone. The model keeps that condition in `UseDatabaseVersion` and `KeepLocal`.

## Not modelled, and the plan

Modelled so far: the streamer's worker, coordinator and two largest consumers; the editor from an
edit to its publication, with its journal; transactions, settling, conversations, walks and saves
of the game. What is left, in order:

1. **Streaming, completed.** `LiveTerrainPreview` and the overlay beside `TerrainClipmap` (a
   retry clears the overlay while `applied` keeps its revision); `FarObjects` and the valley mist
   on the same worker; a generation without terrain.
2. **Dense domains.** Environment cells, presets, roads, areas and atmospheres with their save
   channels, drained in order after the objects', and the drafts that hold a save back. Abstract
   specification: what is marked published is what the open generation holds.
3. **Cook.** Staged publication and incremental continuation by fingerprints; today `Cook` reads
   the whole project at once.
4. **Session, completed.** Trigger conditions and cooldowns, choices, walk numbers, the rules over
   quantities (combat, inventory, quests, experience), random streams; manual slots; two games
   that share a save directory.

Left out for good: geometry, codecs, GPU work, entity contents, page attachment, renderers,
workspaces, script evaluation, wording, and third-party code. They hold data the properties do not
tell apart, or numeric results a checker of small instances says little about.
