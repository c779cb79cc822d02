------------------------ MODULE WorldStreaming_proofs ------------------------
(***************************************************************************)
(* Proofs about the streaming coordinator, for every value of the          *)
(* constants: its typing, that the index is never wedged, that the reload  *)
(* handshake implements an atomic swap of the open generation (the         *)
(* inductive invariant HandshakeInv and the refinement of Publication),    *)
(* that a commit is never refused and the worker's reader follows the open *)
(* generation (CommitInv), and the safety of its spaces and of its index.  *)
(***************************************************************************)
EXTENDS StreamingProperties, WorldDatabase_proofs

-----------------------------------------------------------------------------
(* Typing of the coordinator.                                              *)

\* The initial states are well-typed.
LEMMA InitTyped == Init => StreamingTypeOK
<1>1. NoReload \in Reload
  BY DEF NoReload, Reload
<1>2. DbInit => DbTypeOK
  BY DbInitTyped
<1>3. 0 \in 0..MaxInputs
  BY WorldAssumption
<1> SUFFICES ASSUME Init PROVE StreamingTypeOK
  OBVIOUS
<1>4. DbTypeOK /\ reload \in Reload /\ inputs \in 0..MaxInputs
  BY <1>1, <1>2, <1>3 DEF Init
<1>5. pc \in Systems /\ demand_error \in BOOLEAN /\ phase \in {"Opening", "Ready", "Failed"}
  BY DEF Init, Systems
<1> QED
  BY <1>4, <1>5 DEF Init, StreamingTypeOK

\* Draining one reply leaves the channels well-typed, and the reply is one.
LEMMA ReceiveTyped ==
    ASSUME StreamingTypeOK, NEW kind, Receive(kind), ReceiveUnchanged
    PROVE  /\ DbTypeOK'
           /\ Head(results) \in Result /\ Head(results).kind = kind
           /\ pc' \in Systems
           /\ transition' \in Transition \cup {None}
           /\ inputs' \in 0..MaxInputs
<1>1. /\ results \in Seq(Result) /\ results # <<>>
      /\ results' = Tail(results)
  BY DEF StreamingTypeOK, DbTypeOK, Receive, Received
<1>2. results' \in Seq(Result) /\ Len(results') <= RESULT_CAPACITY
  BY <1>1, CapacityAssumption DEF StreamingTypeOK, DbTypeOK
<1> QED
  BY <1>1, <1>2 DEF StreamingTypeOK, DbTypeOK, Receive, ReceiveUnchanged, workerVars

\* Every system that drains a reply keeps the coordinator well-typed.
LEMMA RepliesTyped ==
    ASSUME StreamingTypeOK,
           ReceiveOpened \/ ReceiveReloaded \/ ReceiveCommitted \/ ReceiveIndex
    PROVE  StreamingTypeOK'
<1> DEFINE r == Head(results)
<1>1. CASE ReceiveOpened
  <2>1. Receive("Opened") /\ ReceiveUnchanged
    BY <1>1 DEF ReceiveOpened
  <2>2. /\ DbTypeOK' /\ r \in Result /\ r.kind = "Opened" /\ pc' \in Systems
        /\ transition' \in Transition \cup {None} /\ inputs' \in 0..MaxInputs
    BY <2>1, ReceiveTyped
  <2>3. CASE r.ok
    <3>1. r.generation \in Generations
      BY <2>2, <2>3 DEF Result
    <3>2. DefaultSpace[r.generation] \in Spaces
      BY <3>1, WorldAssumption
    <3>3. viewpoint' \in Windows \cup {None}
      <4>1. CASE viewpoint = None
        BY <1>1, <2>3, <3>2, <4>1 DEF ReceiveOpened, Windows
      <4>2. CASE viewpoint # None
        BY <1>1, <2>3, <4>2 DEF ReceiveOpened, StreamingTypeOK
      <4> QED BY <4>1, <4>2
    <3> QED
      BY <1>1, <2>2, <2>3, <3>1, <3>2, <3>3 DEF ReceiveOpened, StreamingTypeOK, streamVars
  <2>4. CASE ~r.ok
    BY <1>1, <2>2, <2>4 DEF ReceiveOpened, StreamingTypeOK, streamVars
  <2> QED BY <2>3, <2>4
<1>2. CASE ReceiveReloaded
  <2>1. Receive("Reloaded") /\ ReceiveUnchanged
    BY <1>2 DEF ReceiveReloaded
  <2>2. /\ DbTypeOK' /\ r \in Result /\ r.kind = "Reloaded" /\ pc' \in Systems
        /\ transition' \in Transition \cup {None} /\ inputs' \in 0..MaxInputs
    BY <2>1, ReceiveTyped
  <2>3. reload' \in Reload
    BY <1>2, <2>2 DEF ReceiveReloaded, StreamingTypeOK, Reload, Result
  <2> QED
    BY <1>2, <2>2, <2>3 DEF ReceiveReloaded, StreamingTypeOK, streamVars
<1>3. CASE ReceiveCommitted
  <2>1. Receive("ReloadCommitted") /\ ReceiveUnchanged
    BY <1>3 DEF ReceiveCommitted
  <2>2. /\ DbTypeOK' /\ r \in Result /\ pc' \in Systems
        /\ transition' \in Transition \cup {None} /\ inputs' \in 0..MaxInputs
    BY <2>1, ReceiveTyped
  <2>3. reload' \in Reload
    BY <1>3 DEF ReceiveCommitted, StreamingTypeOK, Reload
  <2> QED
    BY <1>3, <2>2, <2>3 DEF ReceiveCommitted, StreamingTypeOK, streamVars
<1>4. CASE ReceiveIndex
  <2>1. Receive("ReadIndex") /\ ReceiveUnchanged
    BY <1>4 DEF ReceiveIndex
  <2>2. /\ DbTypeOK' /\ r \in Result /\ r.kind = "ReadIndex" /\ pc' \in Systems
        /\ transition' \in Transition \cup {None} /\ inputs' \in 0..MaxInputs
    BY <2>1, ReceiveTyped
  <2>3. r.ok => [generation |-> r.generation, about |-> r.about] \in Descriptors
    BY <2>2 DEF Result, Reads, LiveReads, Descriptors
  <2> QED
    BY <1>4, <2>2, <2>3 DEF ReceiveIndex, StreamingTypeOK, streamVars
<1> QED
  BY <1>1, <1>2, <1>3, <1>4

\* A reload that has ended is a well-formed one.
LEMMA EndedTyped ==
    ASSUME reload \in Reload, NEW outcome \in Completion
    PROVE  Ended(outcome) \in Reload
BY DEF Ended, NoReload, Reload

\* The systems of the reload handshake keep the coordinator well-typed.
LEMMA HandshakeTyped ==
    ASSUME StreamingTypeOK,
           RequestReloadSystem \/ DiscardReload \/ CommitReload \/ AwaitReload
    PROVE  StreamingTypeOK'
<1> USE DEF StreamingTypeOK
<1>1. /\ reload.queued \in Generations \cup {None}
      /\ reload.in_flight \in Candidate \cup {None}
      /\ reload.candidate \in Generations \cup {None}
      /\ reload.completion \in Completion \cup {None}
      /\ reload.commit \in Nat
      /\ reload.committed \in BOOLEAN /\ reload.failure \in BOOLEAN
  BY DEF Reload
<1>2. [ok |-> FALSE, generation |-> None] \in Completion
  BY DEF Completion
<1>3. reload.in_flight # None =>
        reload.in_flight.id \in Nat /\ reload.in_flight.generation \in Generations
  BY <1>1 DEF Candidate
<1> DEFINE DbUnsent == UNCHANGED <<file, results, workerVars, cancelled>>
<1>4. ASSUME requests' \in Seq(Request), Len(requests') <= REQUEST_CAPACITY,
             last_id' \in Nat, DbUnsent
      PROVE  DbTypeOK'
  BY <1>4 DEF DbTypeOK, workerVars
<1>5. ASSUME UNCHANGED <<requests, last_id>>, DbUnsent
      PROVE  DbTypeOK'
  BY <1>5 DEF DbTypeOK, workerVars
<1>6. CASE RequestReloadSystem
  <2> DEFINE failure == \/ reload.failure
                        \/ reload.candidate # None /\ ~Compatible(reload.candidate)
             checked == [reload EXCEPT !.failure = failure]
  <2>1. failure \in BOOLEAN
    BY <1>1
  <2> HIDE DEF failure
  <2>2. checked \in Reload
    BY <2>1 DEF Reload
  <2>3. CASE Sent("Reload", reload.queued, 0, None) /\ reload.queued # None
             /\ reload' = [reload EXCEPT
                        !.queued = None,
                        !.in_flight = [id |-> last_id', generation |-> reload.queued],
                        !.candidate = None, !.commit = 0,
                        !.committed = FALSE, !.failure = FALSE]
    <3>1. /\ requests' \in Seq(Request) /\ Len(requests') <= REQUEST_CAPACITY
          /\ last_id' \in Nat
      BY <1>1, <2>3, SentTyped DEF ReloadRequests, Reads, LiveReads
    <3>2. [id |-> last_id', generation |-> reload.queued] \in Candidate
      BY <1>1, <2>3, <3>1 DEF Candidate
    <3>3. reload' \in Reload
      BY <2>3, <3>2 DEF Reload
    <3> QED
      BY <1>4, <1>6, <3>1, <3>3 DEF RequestReloadSystem, spaceVars, streamVars, Systems
  <2>4. CASE UNCHANGED <<requests, last_id>> /\
             (reload' = checked \/
              reload' = [checked EXCEPT
                        !.queued = None,
                        !.completion = [ok |-> FALSE, generation |-> None]])
    <3>1. reload' \in Reload
      BY <1>2, <2>2, <2>4 DEF Reload
    <3> QED
      BY <1>5, <1>6, <2>4, <3>1 DEF RequestReloadSystem, spaceVars, streamVars, Systems
  <2> QED
    BY <1>6, <2>3, <2>4 DEF RequestReloadSystem, failure
<1>7. CASE DiscardReload
  <2>1. reload' \in Reload
    BY <1>1, <1>2, <1>7, EndedTyped DEF DiscardReload
  <2>2. DbTypeOK'
    <3>1. CASE Sent("DiscardReload", None, reload.in_flight.id, None)
      <4>1. /\ requests' \in Seq(Request) /\ Len(requests') <= REQUEST_CAPACITY
            /\ last_id' \in Nat
        BY <1>3, <1>7, <3>1, SentTyped DEF DiscardReload, ReloadRequests, Reads, LiveReads
      <4> QED BY <1>4, <1>7, <4>1 DEF DiscardReload
    <3>2. CASE UNCHANGED <<requests, last_id>>
      BY <1>5, <1>7, <3>2 DEF DiscardReload
    <3> QED BY <1>7, <3>1, <3>2 DEF DiscardReload, DiscardQueued, DiscardNotQueued
  <2> QED
    BY <1>7, <2>1, <2>2 DEF DiscardReload, AtAdvance, spaceVars, streamVars, Systems
<1>8. CASE CommitReload
  <2>1. CASE Sent("CommitReload", reload.in_flight.generation, reload.in_flight.id, None)
             /\ reload' = [reload EXCEPT !.commit = last_id']
    <3>1. /\ requests' \in Seq(Request) /\ Len(requests') <= REQUEST_CAPACITY
          /\ last_id' \in Nat
      BY <1>3, <1>8, <2>1, NoneIsNoValue, SentTyped
      DEF CommitReload, ReloadRequests, Reads, LiveReads
    <3>2. reload' \in Reload
      BY <2>1, <3>1 DEF Reload
    <3> QED
      BY <1>4, <1>8, <3>1, <3>2 DEF CommitReload, AtAdvance, spaceVars, streamVars, Systems
  <2>2. CASE UNCHANGED <<requests, last_id>> /\
             (UNCHANGED reload \/ reload' = [reload EXCEPT !.failure = TRUE])
    <3>1. reload' \in Reload
      BY <2>2 DEF Reload
    <3> QED
      BY <1>5, <1>8, <2>2, <3>1 DEF CommitReload, AtAdvance, spaceVars, streamVars, Systems
  <2> QED BY <1>8, <2>1, <2>2 DEF CommitReload
<1>9. CASE AwaitReload
  BY <1>9 DEF AwaitReload, AtAdvance, dbVars, coreVars, spaceVars, streamVars, DbTypeOK, Systems
<1> QED
  BY <1>6, <1>7, <1>8, <1>9

\* Nothing of the database's state changes: it stays well-typed.
LEMMA DbUnchangedTyped ==
    ASSUME DbTypeOK, UNCHANGED dbVars
    PROVE  DbTypeOK'
BY DEF DbTypeOK, dbVars

\* Adopting a generation keeps the coordinator well-typed.
LEMMA AdoptTyped ==
    ASSUME StreamingTypeOK, AdoptGeneration
    PROVE  StreamingTypeOK'
<1> USE DEF StreamingTypeOK
<1>1. /\ reload.candidate \in Generations
      /\ reload.in_flight.generation \in Generations
      /\ reload \in Reload
  BY DEF AdoptGeneration, Reload, Candidate
<1>2. reload' \in Reload
  <2>1. [ok |-> TRUE, generation |-> reload.in_flight.generation] \in Completion
    BY <1>1 DEF Completion
  <2> QED BY <1>1, <2>1, EndedTyped DEF AdoptGeneration
<1>3. /\ active' \in Spaces /\ origin' \in Spaces
      /\ viewpoint' \in Windows
      /\ manifest' = reload.candidate /\ phase' = "Ready"
  <2> DEFINE g == reload.candidate
             space == IF active \in SpacesOf[g] THEN active ELSE DefaultSpace[g]
  <2>1. space \in Spaces
    BY <1>1, WorldAssumption
  <2>2. AdoptManifest(g)
    BY DEF AdoptGeneration
  <2>3. active' = space /\ origin' = space
    BY <2>2 DEF AdoptManifest, AdoptSpace
  <2>4. viewpoint' \in Windows
    <3>1. CASE viewpoint # None /\ viewpoint.space = space
      BY <2>2, <3>1 DEF AdoptManifest, AdoptSpace
    <3>2. CASE ~(viewpoint # None /\ viewpoint.space = space)
      BY <2>1, <2>2, <3>2 DEF AdoptManifest, AdoptSpace, Windows
    <3> QED BY <3>1, <3>2
  <2> QED BY <2>1, <2>2, <2>3, <2>4 DEF AdoptManifest
<1>4. DbTypeOK'
  BY DbUnchangedTyped DEF AdoptGeneration
<1> QED
  BY <1>1, <1>2, <1>3, <1>4 DEF AdoptGeneration, AtAdvance, ClearStream, Systems

\* The systems that move between and within spaces keep the coordinator
\* well-typed.
LEMMA SpacesTyped ==
    ASSUME StreamingTypeOK, TransitionWaits \/ TransitionTaken \/ SyncFocus \/ UpdateOrigin
    PROVE  StreamingTypeOK'
<1> USE DEF StreamingTypeOK
<1>1. CASE TransitionWaits
  BY <1>1, DbUnchangedTyped
  DEF TransitionWaits, AtTransition, coreVars, spaceVars, streamVars, Systems
<1>2. CASE TransitionTaken
  <2>1. DbTypeOK'
    BY <1>2, DbUnchangedTyped DEF TransitionTaken
  <2>2. CASE UNCHANGED <<active, viewpoint, origin, streamVars>>
    BY <1>2, <2>1, <2>2 DEF TransitionTaken, AtTransition, streamVars, Systems
  <2>3. CASE /\ transition.view # None
             /\ InManifest(transition.space)
             /\ EnterSpace(transition.space, transition.view)
    <3>1. transition.space \in Spaces /\ transition.view \in Views
      BY <1>2, <2>3 DEF TransitionTaken, TransitionDue, Transition
    <3>2. [space |-> transition.space, view |-> transition.view] \in Windows
      BY <3>1 DEF Windows
    <3>3. /\ active' \in Spaces \cup {None} /\ viewpoint' \in Windows \cup {None}
          /\ origin' \in Spaces \cup {None}
          /\ demand_error' \in BOOLEAN /\ index_windows' \in Views \cup {None}
          /\ requested_index' \in IndexRequest \cup {None}
          /\ descriptors' \in Descriptors \cup {None}
      BY <2>3, <3>1, <3>2 DEF EnterSpace, ClearStream, streamVars
    <3> QED
      BY <1>2, <2>1, <3>3 DEF TransitionTaken, AtTransition, Systems
  <2> QED BY <1>2, <2>2, <2>3 DEF TransitionTaken
<1>3. CASE SyncFocus
  <2>1. viewpoint' \in Windows \cup {None}
    BY <1>3 DEF SyncFocus, Windows
  <2>2. inputs' \in 0..MaxInputs
    BY <1>3, WorldAssumption DEF SyncFocus, Input
  <2> QED
    BY <1>3, <2>1, <2>2, DbUnchangedTyped DEF SyncFocus, streamVars, Systems
<1>4. CASE UpdateOrigin
  <2>1. /\ origin' \in Spaces \cup {None}
        /\ demand_error' \in BOOLEAN /\ index_windows' \in Views \cup {None}
        /\ requested_index' \in IndexRequest \cup {None}
        /\ descriptors' \in Descriptors \cup {None}
    BY <1>4 DEF UpdateOrigin, ClearStream, streamVars, Windows
  <2> QED
    BY <1>4, <2>1, DbUnchangedTyped DEF UpdateOrigin, Systems
<1> QED
  BY <1>1, <1>2, <1>3, <1>4

\* Asking for the source index keeps the coordinator well-typed.
LEMMA IndexTyped ==
    ASSUME StreamingTypeOK, IndexNotWanted \/ RequestCellIndex
    PROVE  StreamingTypeOK'
<1> USE DEF StreamingTypeOK
<1>1. pc' \in Systems
  BY DEF IndexNotWanted, RequestCellIndex, AtIndex, Systems
<1>2. IndexUnchanged
  BY DEF IndexNotWanted, RequestCellIndex
<1>3. CASE UNCHANGED <<requests, last_id, index_windows, requested_index>>
           /\ phase' \in {phase, "Failed"} /\ demand_error' \in BOOLEAN
  <2>1. DbTypeOK'
    BY <1>2, <1>3 DEF IndexUnchanged, DbTypeOK, workerVars
  <2> QED BY <1>1, <1>2, <1>3, <2>1 DEF IndexUnchanged, spaceVars
<1>4. CASE /\ RequestCellIndex
           /\ Sent("ReadIndex", manifest, 0, [space |-> active, view |-> viewpoint.view])
           /\ index_windows' = viewpoint.view
           /\ requested_index' = [id |-> last_id', space |-> active]
           /\ UNCHANGED phase /\ demand_error' = FALSE
  <2>1. /\ manifest \in Generations /\ active \in Spaces
        /\ viewpoint \in Windows /\ viewpoint.view \in Views
    BY <1>4 DEF RequestCellIndex, IndexWanted, ViewpointIsHere, Windows
  <2>2. /\ [space |-> active, view |-> viewpoint.view] \in Topics
        /\ [space |-> active, view |-> viewpoint.view] # None
    BY <2>1, WorldAssumption, NoneIsNoStreamingRecord DEF Windows
  <2>3. /\ requests' \in Seq(Request) /\ Len(requests') <= REQUEST_CAPACITY
        /\ last_id' \in Nat
    BY <1>4, <2>1, <2>2, NoneIsNoValue, SentTyped DEF Reads, LiveReads
  <2>4. DbTypeOK'
    BY <1>2, <2>3 DEF IndexUnchanged, DbTypeOK, workerVars
  <2>5. [id |-> last_id', space |-> active] \in IndexRequest
    BY <2>1, <2>3 DEF IndexRequest
  <2> QED
    BY <1>1, <1>2, <1>4, <2>1, <2>4, <2>5 DEF IndexUnchanged, spaceVars
<1> QED
  BY <1>3, <1>4 DEF IndexNotWanted, RequestCellIndex

\* Inputs are counted within their bound.
LEMMA InputTyped ==
    ASSUME inputs \in 0..MaxInputs, Input
    PROVE  inputs' \in 0..MaxInputs
BY WorldAssumption DEF Input

\* What other systems ask for between frames keeps the coordinator well-typed.
LEMMA InputsTyped ==
    ASSUME StreamingTypeOK,
           \/ \E g \in Generations : RequestReload(g)
           \/ TakeCompletion
           \/ \E t \in Transition : RequestSpace(t)
    PROVE  StreamingTypeOK'
<1> USE DEF StreamingTypeOK
<1>1. ASSUME NEW g \in Generations, RequestReload(g)
      PROVE  StreamingTypeOK'
  <2>1. reload' \in Reload
    BY <1>1 DEF RequestReload, Reload
  <2>2. inputs' \in 0..MaxInputs
    BY <1>1, InputTyped DEF RequestReload
  <2> QED
    BY <1>1, <2>1, <2>2, DbUnchangedTyped DEF RequestReload, spaceVars, streamVars
<1>2. CASE TakeCompletion
  <2>1. reload' \in Reload
    BY <1>2 DEF TakeCompletion, Reload
  <2> QED
    BY <1>2, <2>1, DbUnchangedTyped DEF TakeCompletion, spaceVars, streamVars
<1>3. ASSUME NEW t \in Transition, RequestSpace(t)
      PROVE  StreamingTypeOK'
  <2>1. inputs' \in 0..MaxInputs
    BY <1>3, InputTyped DEF RequestSpace
  <2> QED
    BY <1>3, <2>1, DbUnchangedTyped DEF RequestSpace, streamVars
<1> QED
  BY <1>1, <1>2, <1>3

\* Every step keeps the coordinator and its worker well-typed.
LEMMA NextTyped == StreamingTypeOK /\ [Next]_vars => StreamingTypeOK'
<1> SUFFICES ASSUME StreamingTypeOK, [Next]_vars PROVE StreamingTypeOK'
  OBVIOUS
<1>1. CASE ReceiveOpened \/ ReceiveReloaded \/ ReceiveCommitted \/ ReceiveIndex
  BY <1>1, RepliesTyped
<1>2. CASE RequestReloadSystem \/ DiscardReload \/ CommitReload \/ AwaitReload
  BY <1>2, HandshakeTyped
<1>3. CASE AdoptGeneration
  BY <1>3, AdoptTyped
<1>4. CASE TransitionWaits \/ TransitionTaken \/ SyncFocus \/ UpdateOrigin
  BY <1>4, SpacesTyped
<1>5. CASE IndexNotWanted \/ RequestCellIndex
  BY <1>5, IndexTyped
<1>6. CASE \/ \E g \in Generations : RequestReload(g)
           \/ TakeCompletion
           \/ \E t \in Transition : RequestSpace(t)
  BY <1>6, InputsTyped
<1>7. CASE StartFrame \/ ReceiveNothing \/ EndFrame
  BY <1>7, DbUnchangedTyped
  DEF StartFrame, ReceiveNothing, EndFrame, coreVars, spaceVars, streamVars,
      StreamingTypeOK, Systems
<1>8. CASE ReceiveDisconnected
  <2>1. reload' \in Reload
    BY <1>8 DEF ReceiveDisconnected, StreamingTypeOK, Reload
  <2> QED
    BY <1>8, <2>1, DbUnchangedTyped
    DEF ReceiveDisconnected, spaceVars, streamVars, StreamingTypeOK, Systems
<1>9. CASE WorkerStep \/ WorkerPanics
  <2>1. DbTypeOK'
    BY <1>9, WorkerTyped DEF WorkerStep, WorkerPanics, StreamingTypeOK
  <2> QED
    BY <1>9, <2>1
    DEF WorkerStep, WorkerPanics, coreVars, spaceVars, streamVars, StreamingTypeOK
<1>10. CASE \E g \in Generations : PublishFile(g)
  <2>1. DbTypeOK'
    BY <1>10 DEF PublishFile, Publish, workerVars, StreamingTypeOK, DbTypeOK
  <2> QED
    BY <1>10, <2>1 DEF PublishFile, coreVars, spaceVars, streamVars, StreamingTypeOK
<1>11. CASE UNCHANGED vars
  BY <1>11, DbUnchangedTyped DEF vars, coreVars, spaceVars, streamVars, StreamingTypeOK
<1> QED
  BY <1>1, <1>2, <1>3, <1>4, <1>5, <1>6, <1>7, <1>8, <1>9, <1>10, <1>11 DEF Next, Main

\* Type correctness of the coordinator and its worker, with both channels
\* within their capacities.
THEOREM Typing == Spec => []StreamingTypeOK
<1>1. Init => StreamingTypeOK
  BY InitTyped
<1>2. StreamingTypeOK /\ [Next]_vars => StreamingTypeOK'
  BY NextTyped
<1> QED
  BY <1>1, <1>2, PTL DEF Spec

\* No step leaves an index request awaited for another space: whatever changes
\* the active space forgets it, and opening a world finds none.
LEMMA IndexRequestStep ==
  ASSUME StreamingTypeOK, IndexRequestIsOfTheActiveSpace, [Next]_vars
  PROVE  IndexRequestIsOfTheActiveSpace'
<1> DEFINE Same == UNCHANGED <<requested_index, active>>
           Ok == requested_index # None => requested_index.space = active
<1> USE DEF IndexRequestIsOfTheActiveSpace
<1>1. Same => Ok'
  OBVIOUS
<1>2. CASE ReceiveOpened
  <2>1. active # None => active' = active
    BY <1>2 DEF ReceiveOpened
  <2>2. UNCHANGED requested_index
    BY <1>2 DEF ReceiveOpened, streamVars
  <2>3. active = None => requested_index = None
    BY WorldAssumption DEF StreamingTypeOK, IndexRequest
  <2> QED BY <2>1, <2>2, <2>3
<1>3. CASE ReceiveIndex
  BY <1>3 DEF ReceiveIndex
<1>4. CASE AdoptGeneration
  BY <1>4 DEF AdoptGeneration, ClearStream
<1>5. CASE TransitionTaken
  BY <1>5 DEF TransitionTaken, EnterSpace, ClearStream, streamVars
<1>6. CASE UpdateOrigin
  BY <1>6 DEF UpdateOrigin, ClearStream, streamVars
<1>7. CASE RequestCellIndex
  BY <1>7 DEF RequestCellIndex, IndexUnchanged, spaceVars, Windows
<1>8. CASE ReceiveReloaded \/ ReceiveCommitted
  BY <1>1, <1>8 DEF ReceiveReloaded, ReceiveCommitted, streamVars
<1>9. CASE \/ StartFrame \/ ReceiveNothing \/ ReceiveDisconnected
           \/ AwaitReload \/ TransitionWaits \/ EndFrame
  BY <1>1, <1>9 DEF StartFrame, ReceiveNothing, ReceiveDisconnected, AwaitReload,
     TransitionWaits, EndFrame, coreVars, spaceVars, streamVars
<1>10. CASE RequestReloadSystem \/ DiscardReload \/ CommitReload
  <2>1. CASE RequestReloadSystem
    BY <1>1, <2>1 DEF RequestReloadSystem, spaceVars, streamVars
  <2>2. CASE DiscardReload \/ CommitReload
    BY <1>1, <2>2 DEF DiscardReload, CommitReload, spaceVars, streamVars
  <2> QED BY <1>10, <2>1, <2>2
<1>11. CASE SyncFocus \/ IndexNotWanted
  BY <1>1, <1>11 DEF SyncFocus, IndexNotWanted,
     IndexUnchanged, spaceVars, streamVars
<1>12. CASE WorkerStep \/ WorkerPanics \/ \E g \in Generations : PublishFile(g)
  BY <1>1, <1>12 DEF WorkerStep, WorkerPanics, PublishFile, coreVars, spaceVars,
     streamVars
<1>13. CASE \/ \E g \in Generations : RequestReload(g)
            \/ TakeCompletion
            \/ \E t \in Transition : RequestSpace(t)
  BY <1>1, <1>13 DEF RequestReload, TakeCompletion, RequestSpace, spaceVars,
     streamVars
<1>14. CASE UNCHANGED vars
  BY <1>1, <1>14 DEF vars, coreVars, spaceVars, streamVars
<1> QED
  BY <1>2, <1>3, <1>4, <1>5, <1>6, <1>7, <1>8, <1>9, <1>10, <1>11, <1>12, <1>13,
     <1>14 DEF Next, Main

\* The index is never wedged behind a request of a space left behind.
THEOREM IndexIsNeverWedged == Spec => []IndexRequestIsOfTheActiveSpace
<1>1. Init => StreamingTypeOK /\ IndexRequestIsOfTheActiveSpace
  BY InitTyped DEF Init, IndexRequestIsOfTheActiveSpace
<1>2. StreamingTypeOK /\ IndexRequestIsOfTheActiveSpace /\ [Next]_vars
      => IndexRequestIsOfTheActiveSpace'
  BY IndexRequestStep
<1> QED
  BY <1>1, <1>2, Typing, PTL DEF Spec

-----------------------------------------------------------------------------
(* What a step does to the channels.                                       *)

\* Only RequestReloadSystem, DiscardReload, CommitReload and RequestCellIndex
\* send, only the four receivers drain a reply, and only the worker does the
\* worker's part.
LEMMA ChannelSteps ==
    ASSUME StreamingTypeOK, [Next]_vars
    PROVE  \/ SendStep /\ UNCHANGED <<results, workerVars>>
           \/ ReceiveStep
           \/ WorkerStep \/ WorkerPanics
           \/ QuietStep
<1> USE DEF SendStep, ReceiveStep, QuietStep, StreamingTypeOK
<1>1. CASE ReceiveOpened \/ ReceiveReloaded \/ ReceiveCommitted \/ ReceiveIndex
  BY <1>1 DEF ReceiveOpened, ReceiveReloaded, ReceiveCommitted, ReceiveIndex,
              Receive, ReceiveUnchanged
<1>2. /\ reload.queued \in Generations \cup {None}
      /\ reload.in_flight \in Candidate \cup {None}
      /\ reload.in_flight # None =>
            reload.in_flight.id \in Nat /\ reload.in_flight.generation \in Generations
  BY DEF Reload, Candidate
<1>3. CASE RequestReloadSystem
  BY <1>2, <1>3 DEF RequestReloadSystem, ReloadRequests, Reads, LiveReads
<1>4. CASE DiscardReload
  <2>1. UNCHANGED <<results, workerVars>>
    BY <1>4 DEF DiscardReload
  <2>2. CASE Sent("DiscardReload", None, reload.in_flight.id, None)
    BY <1>2, <1>4, <2>1, <2>2 DEF DiscardReload, ReloadRequests, Reads, LiveReads
  <2>3. CASE UNCHANGED <<requests, last_id>>
    BY <2>1, <2>3
  <2> QED BY <1>4, <2>2, <2>3 DEF DiscardReload, DiscardQueued, DiscardNotQueued
<1>5. CASE CommitReload
  <2>1. UNCHANGED <<results, workerVars>>
    BY <1>5 DEF CommitReload
  <2>2. CASE Sent("CommitReload", reload.in_flight.generation, reload.in_flight.id, None)
    BY <1>2, <1>5, <2>1, <2>2, NoneIsNoValue DEF CommitReload, ReloadRequests, Reads, LiveReads
  <2>3. CASE UNCHANGED <<requests, last_id>>
    BY <2>1, <2>3
  <2> QED BY <1>5, <2>2, <2>3 DEF CommitReload
<1>6. CASE RequestCellIndex
  <2>1. UNCHANGED <<results, workerVars>>
    BY <1>6 DEF RequestCellIndex, IndexUnchanged
  <2>2. CASE Sent("ReadIndex", manifest, 0, [space |-> active, view |-> viewpoint.view])
    <3>1. /\ manifest \in Generations /\ active \in Spaces /\ viewpoint.view \in Views
      BY <1>6 DEF RequestCellIndex, IndexWanted, ViewpointIsHere, Windows
    <3>2. /\ [space |-> active, view |-> viewpoint.view] \in Topics
          /\ [space |-> active, view |-> viewpoint.view] # None
      BY <3>1, WorldAssumption, NoneIsNoStreamingRecord DEF Windows
    <3> QED BY <2>1, <2>2, <3>1, <3>2, NoneIsNoValue DEF Reads, LiveReads
  <2>3. CASE UNCHANGED <<requests, last_id>>
    BY <2>1, <2>3
  <2> QED BY <1>6, <2>2, <2>3 DEF RequestCellIndex
<1>7. CASE UNCHANGED dbVars \/ \E g \in Generations : PublishFile(g)
  BY <1>7 DEF dbVars, PublishFile, Publish, workerVars
<1>8. CASE IndexNotWanted
  BY <1>8 DEF IndexNotWanted, IndexUnchanged
<1>9. CASE \/ StartFrame \/ ReceiveNothing \/ ReceiveDisconnected
           \/ AdoptGeneration \/ AwaitReload
           \/ TransitionWaits \/ TransitionTaken \/ SyncFocus \/ UpdateOrigin
           \/ EndFrame \/ TakeCompletion
           \/ \E g \in Generations : RequestReload(g)
           \/ \E t \in Transition : RequestSpace(t)
           \/ UNCHANGED vars
  <2>1. UNCHANGED dbVars
    BY <1>9 DEF StartFrame, ReceiveNothing, ReceiveDisconnected, AdoptGeneration,
       AwaitReload, TransitionWaits, TransitionTaken, SyncFocus, UpdateOrigin,
       EndFrame, TakeCompletion, RequestReload, RequestSpace, vars
  <2> QED BY <1>7, <2>1
<1> QED
  BY <1>1, <1>3, <1>4, <1>5, <1>6, <1>7, <1>8, <1>9 DEF Next, Main

-----------------------------------------------------------------------------
(* Ids.                                                                    *)

\* No step puts anything on its way under an id yet to be given.
LEMMA ReloadIdsStep ==
    ASSUME StreamingTypeOK, ReloadIds, [Next]_vars
    PROVE  ReloadIds'
<1> USE DEF ReloadIds
<1>1. /\ requests \in Seq(Request) /\ results \in Seq(Result) /\ last_id \in Nat
      /\ reply \in Result \cup {None}
      /\ \A i \in DOMAIN requests : requests[i].id \in Nat
      /\ \A i \in DOMAIN results : results[i].id \in Nat
      /\ reply # None => reply.id \in Nat
  BY DEF StreamingTypeOK, DbTypeOK, Request, Result
<1>2. CASE SendStep /\ UNCHANGED <<results, workerVars>>
  <2>1. PICK r \in Request : /\ r.id = last_id + 1 /\ last_id' = last_id + 1
                            /\ requests' = Append(requests, r)
    <3>1. PICK kind \in Reads \cup ReloadRequests, generation \in Generations \cup {None},
               named \in Nat, about \in Topics \cup {None} :
               /\ Sent(kind, generation, named, about)
               /\ kind # "DiscardReload" => generation # None
               /\ kind \in Reads => about # None
      BY <1>2 DEF SendStep
    <3> DEFINE new == [id |-> last_id + 1, kind |-> kind, generation |-> generation,
                       reload |-> named, about |-> about]
    <3>2. new \in Request
      BY <1>1, <3>1 DEF Request
    <3> QED BY <3>1, <3>2 DEF Sent
  <2>2. \A i \in DOMAIN requests' : requests'[i].id <= last_id'
    BY <1>1, <2>1, AppendElements
  <2>3. UNCHANGED <<results, reply>>
    BY <1>2 DEF workerVars
  <2>4. \A i \in DOMAIN results : results[i].id <= last_id + 1
    BY <1>1
  <2>5. reply # None => reply.id <= last_id + 1
    BY <1>1
  <2> QED BY <2>1, <2>2, <2>3, <2>4, <2>5
<1>3. CASE ReceiveStep
  <2>1. results # <<>> /\ results' = Tail(results)
    BY <1>3 DEF ReceiveStep, Received
  <2>2. \A i \in DOMAIN results' : results'[i].id <= last_id
    BY <1>1, <2>1, TailElements
  <2> QED BY <1>3, <2>2 DEF ReceiveStep, workerVars
<1>4. CASE WorkerStep \/ WorkerPanics
  <2>1. last_id' = last_id
    BY <1>4, WorkerSteps DEF WorkerStep, WorkerPanics, StreamingTypeOK
  <2>2. CASE Open
    BY <1>1, <2>1, <2>2 DEF Open, Opened
  <2>3. CASE /\ SendReply
             /\ results' = Append(results, reply) /\ reply' = None
             /\ requests' = requests \/ requests' = <<>>
    <3>1. reply \in Result /\ reply # None
      BY <2>3 DEF SendReply, StreamingTypeOK, DbTypeOK
    <3>2. \A i \in DOMAIN results' : results'[i].id <= last_id
      BY <1>1, <2>3, <3>1, AppendElements
    <3> QED BY <2>1, <2>3, <3>2
  <2>4. CASE /\ Serve /\ results' = results
             /\ requests # <<>> /\ requests' = Tail(requests)
    <3>1. \A i \in DOMAIN requests' : requests'[i].id <= last_id
      BY <1>1, <2>4, TailElements
    <3>2. requests[1].id <= last_id
      BY <1>1, <2>4, TailElements
    <3> QED BY <2>1, <2>4, <3>1, <3>2, ServedReply DEF StreamingTypeOK
  <2>5. CASE requests' = <<>> /\ reply' = None /\ results' = results
    BY <2>1, <2>5
  <2> QED BY <1>4, <2>2, <2>3, <2>4, <2>5, WorkerSteps DEF WorkerStep, WorkerPanics, StreamingTypeOK
<1>5. CASE QuietStep
  BY <1>5 DEF QuietStep, workerVars
<1> QED
  BY <1>2, <1>3, <1>4, <1>5, ChannelSteps

-----------------------------------------------------------------------------
(* The opening of the world.                                               *)

OpenPending ==
    \/ worker = "opening"
    \/ reply # None /\ reply.kind = "Opened"
    \/ \E i \in DOMAIN results : results[i].kind = "Opened"

\* The open generation changes when the world opens and when a reload is
\* adopted; a reload gets its candidate from a reply, and it alone.
LEMMA CoordinatorSteps ==
    ASSUME StreamingTypeOK, [Next]_vars
    PROVE  /\ manifest' = manifest \/ ReceiveOpened \/ AdoptGeneration
           /\ reload'.candidate \in {reload.candidate, None} \/ ReceiveReloaded
<1>1. reload \in Reload
  BY DEF StreamingTypeOK
<1>2. CASE ReceiveOpened \/ ReceiveReloaded \/ ReceiveIndex
  BY <1>2 DEF ReceiveOpened, ReceiveReloaded, ReceiveIndex
<1>3. CASE ReceiveCommitted
  BY <1>1, <1>3 DEF ReceiveCommitted, Reload
<1>4. CASE ReceiveDisconnected
  BY <1>1, <1>4 DEF ReceiveDisconnected, Reload
<1>5. CASE RequestReloadSystem
  <2>1. UNCHANGED manifest
    BY <1>5 DEF RequestReloadSystem
  <2> DEFINE failure == \/ reload.failure
                        \/ reload.candidate # None /\ ~Compatible(reload.candidate)
             checked == [reload EXCEPT !.failure = failure]
  <2>2. checked.candidate = reload.candidate
    BY <1>1 DEF Reload
  <2>3. \/ reload' = checked
        \/ reload' = [reload EXCEPT
                        !.queued = None,
                        !.in_flight = [id |-> last_id', generation |-> reload.queued],
                        !.candidate = None, !.commit = 0,
                        !.committed = FALSE, !.failure = FALSE]
        \/ reload' = [checked EXCEPT
                        !.queued = None,
                        !.completion = [ok |-> FALSE, generation |-> None]]
    BY <1>5 DEF RequestReloadSystem
  <2>4. reload'.candidate \in {reload.candidate, None}
    BY <1>1, <2>2, <2>3 DEF Reload
  <2> QED BY <2>1, <2>4
<1>6. CASE DiscardReload \/ AdoptGeneration
  <2>1. \A outcome : Ended(outcome).candidate = None
    BY DEF Ended, NoReload
  <2> QED BY <1>1, <1>6, <2>1 DEF DiscardReload, AdoptGeneration
<1>7. CASE CommitReload
  BY <1>1, <1>7 DEF CommitReload, Reload
<1>8. CASE TakeCompletion
  BY <1>1, <1>8 DEF TakeCompletion, Reload
<1>9. CASE \E g \in Generations : RequestReload(g)
  BY <1>1, <1>9 DEF RequestReload, Reload
<1>10. CASE \/ StartFrame \/ ReceiveNothing \/ AwaitReload
            \/ TransitionWaits \/ TransitionTaken \/ SyncFocus \/ UpdateOrigin
            \/ IndexNotWanted \/ RequestCellIndex
            \/ EndFrame \/ WorkerStep \/ WorkerPanics
            \/ \E t \in Transition : RequestSpace(t)
            \/ \E g \in Generations : PublishFile(g)
            \/ UNCHANGED vars
  BY <1>10 DEF StartFrame, ReceiveNothing, AwaitReload, TransitionWaits,
     TransitionTaken, SyncFocus, UpdateOrigin, IndexNotWanted,
     RequestCellIndex, IndexUnchanged, EndFrame, WorkerStep, WorkerPanics,
     RequestSpace, PublishFile, vars, coreVars
<1> QED
  BY <1>2, <1>3, <1>4, <1>5, <1>6, <1>7, <1>8, <1>9, <1>10 DEF Next, Main

\* The opening reply stays the first, and nothing opens the world again.
LEMMA OpensFirstKept ==
    ASSUME StreamingTypeOK, OpensFirst, ChannelStep,
           manifest' = manifest \/ ReceiveOpened \/ AdoptGeneration,
           reload'.candidate \in {reload.candidate, None} \/ ReceiveReloaded
    PROVE  OpensFirst'
<1>1. /\ requests \in Seq(Request) /\ results \in Seq(Result)
      /\ reply \in Result \cup {None}
      /\ (worker = "replying") = (reply # None)
  BY DEF StreamingTypeOK, DbTypeOK
<1> DEFINE First == /\ worker = "opening" => results = <<>>
                    /\ reply # None /\ reply.kind = "Opened" => results = <<>>
                    /\ \A i \in DOMAIN results : results[i].kind = "Opened" => i = 1
<1>2. First
  BY DEF OpensFirst
<1>3. First' /\ (OpenPending' => OpenPending)
  <2>1. CASE (SendStep /\ UNCHANGED <<results, workerVars>>) \/ QuietStep
    BY <1>2, <2>1 DEF QuietStep, workerVars, OpenPending
  <2>2. CASE ReceiveStep
    <3>1. /\ results # <<>> /\ results' = Tail(results)
          /\ UNCHANGED <<worker, reply>>
      BY <2>2 DEF ReceiveStep, Received, workerVars
    <3>2. \A i \in DOMAIN results' :
             i \in Nat \ {0} /\ i + 1 \in DOMAIN results /\ results'[i] = results[i + 1]
      BY <1>1, <3>1, TailElements
    <3>3. \A i \in DOMAIN results' : results'[i].kind # "Opened"
      BY <1>2, <3>2
    <3> QED BY <1>2, <3>1, <3>3 DEF OpenPending
  <2>3. CASE Worker \/ Panic
    <3>1. CASE Open
      BY <1>2, <3>1 DEF Open, OpenPending
    <3>2. CASE /\ SendReply
               /\ results' = Append(results, reply)
               /\ reply' = None /\ worker' \in {"stopped", "receiving"}
      <4>1. reply \in Result /\ reply # None
        BY <1>1, <3>2 DEF SendReply
      <4>2. \A i \in DOMAIN results' :
               \/ i \in DOMAIN results /\ results'[i] = results[i]
               \/ i = Len(results) + 1 /\ results'[i] = reply
        BY <1>1, <3>2, <4>1, AppendElements
      <4>3. \A i \in DOMAIN results' : results'[i].kind = "Opened" => i = 1
        <5>1. CASE reply.kind = "Opened"
          <6>1. results = <<>>
            BY <1>2, <4>1, <5>1
          <6> QED BY <4>2, <6>1
        <5>2. CASE reply.kind # "Opened"
          BY <1>2, <4>2, <5>2
        <5> QED BY <5>1, <5>2
      <4> QED BY <3>2, <4>1, <4>2, <4>3 DEF OpenPending
    <3>3. CASE Serve /\ worker = "receiving" /\ reply = None /\ results' = results
      BY <1>2, <3>3, ServedReply DEF StreamingTypeOK, OpenPending
    <3>4. CASE reply' = None /\ worker' = "stopped" /\ results' = results
      BY <1>2, <3>4 DEF OpenPending
    <3> QED BY <2>3, <3>1, <3>2, <3>3, <3>4, WorkerSteps DEF StreamingTypeOK
  <2> QED BY <2>1, <2>2, <2>3 DEF ChannelStep
<1>4. OpenPending' => manifest' = None /\ reload'.candidate = None
  <2> SUFFICES ASSUME OpenPending' PROVE manifest' = None /\ reload'.candidate = None
    OBVIOUS
  <2>1. OpenPending /\ manifest = None /\ reload.candidate = None
    BY <1>3 DEF OpensFirst, OpenPending
  <2>2. ASSUME NEW kind, Receive(kind), ReceiveUnchanged
        PROVE  kind = "Opened" /\ ~OpenPending'
    <3>1. /\ results # <<>> /\ results' = Tail(results)
          /\ UNCHANGED <<worker, reply>> /\ Head(results).kind = kind
      BY <2>2 DEF Receive, Received, ReceiveUnchanged, workerVars
    <3>2. /\ 1 \in DOMAIN results /\ Head(results) = results[1]
          /\ \A i \in DOMAIN results' :
                i \in Nat \ {0} /\ i + 1 \in DOMAIN results /\ results'[i] = results[i + 1]
      BY <1>1, <3>1, TailElements
    <3>3. \E i \in DOMAIN results : results[i].kind = "Opened"
      BY <1>2, <2>1, <3>1 DEF OpenPending
    <3>4. kind = "Opened"
      BY <1>2, <3>1, <3>2, <3>3
    <3>5. \A i \in DOMAIN results' : results'[i].kind # "Opened"
      BY <1>2, <3>2
    <3> QED BY <1>2, <3>1, <3>4, <3>5 DEF OpenPending
  <2>3. ~ReceiveOpened /\ ~ReceiveReloaded
    BY <2>2 DEF ReceiveOpened, ReceiveReloaded
  <2>4. ~AdoptGeneration
    BY <2>1 DEF AdoptGeneration
  <2> QED BY <2>1, <2>3, <2>4
<1> QED
  BY <1>3, <1>4 DEF OpensFirst, OpenPending

LEMMA OpensFirstStep ==
    ASSUME StreamingTypeOK, OpensFirst, [Next]_vars
    PROVE  OpensFirst'
BY OpensFirstKept, ChannelSteps, CoordinatorSteps
   DEF ChannelStep, WorkerStep, WorkerPanics

-----------------------------------------------------------------------------
(* One reload at a time.                                                   *)

\* RequestReloadSystem, when it sends the queued reload.
SendsReload ==
    /\ reload.in_flight = None /\ reload.queued # None
    /\ Sent("Reload", reload.queued, 0, None)
    /\ UNCHANGED <<results, workerVars>>
    /\ reload'.queued = None /\ reload'.candidate = None
    /\ reload'.in_flight = [id |-> last_id', generation |-> reload.queued]
    /\ reload'.completion = reload.completion

\* RequestReloadSystem, when the worker has stopped.
RefusesReload ==
    /\ reload.in_flight = None /\ reload.queued # None
    /\ reload'.queued = None /\ reload'.in_flight = None
    /\ reload'.candidate = reload.candidate
    /\ reload'.completion = [ok |-> FALSE, generation |-> None]

SameReload ==
    /\ reload'.in_flight = reload.in_flight
    /\ reload'.candidate = reload.candidate
    /\ reload'.queued = reload.queued
    /\ reload'.completion = reload.completion

\* The outcomes of RequestReloadSystem.
LEMMA RequestReloadSteps ==
    ASSUME StreamingTypeOK, RequestReloadSystem
    PROVE  SendsReload \/ RefusesReload \/ SameReload
<1> DEFINE failure == \/ reload.failure
                      \/ reload.candidate # None /\ ~Compatible(reload.candidate)
           checked == [reload EXCEPT !.failure = failure]
<1>1. reload \in Reload
  BY DEF StreamingTypeOK
<1>2. /\ checked.candidate = reload.candidate /\ checked.queued = reload.queued
      /\ checked.in_flight = reload.in_flight /\ checked.completion = reload.completion
  BY <1>1 DEF Reload
<1>3. CASE reload' = checked
  BY <1>2, <1>3 DEF SameReload
<1>4. CASE /\ reload.in_flight = None /\ reload.queued # None
           /\ Sent("Reload", reload.queued, 0, None)
           /\ reload' = [reload EXCEPT
                        !.queued = None,
                        !.in_flight = [id |-> last_id', generation |-> reload.queued],
                        !.candidate = None, !.commit = 0,
                        !.committed = FALSE, !.failure = FALSE]
  <2>1. UNCHANGED <<results, workerVars>>
    BY DEF RequestReloadSystem
  <2>2. /\ reload'.queued = None /\ reload'.candidate = None
        /\ reload'.in_flight = [id |-> last_id', generation |-> reload.queued]
        /\ reload'.completion = reload.completion
    BY <1>1, <1>4 DEF Reload
  <2> QED BY <1>4, <2>1, <2>2 DEF SendsReload
<1>5. CASE /\ reload.in_flight = None /\ reload.queued # None
           /\ reload' = [checked EXCEPT
                        !.queued = None,
                        !.completion = [ok |-> FALSE, generation |-> None]]
  BY <1>1, <1>5 DEF RefusesReload, Reload
<1> QED
  BY <1>3, <1>4, <1>5 DEF RequestReloadSystem

\* How the reload in flight changes: not at all, by a reply, by its start, by
\* its end, or by a request while none is in flight.
LEMMA ReloadSteps ==
    ASSUME StreamingTypeOK, [Next]_vars
    PROVE  \/ SameReload
           \/ ReceiveReloaded
           \/ SendsReload \/ RefusesReload
           \/ DiscardReload /\ reload' = Ended([ok |-> FALSE, generation |-> None])
           \/ AdoptGeneration
           \/ \E g \in Generations : RequestReload(g)
           \/ TakeCompletion
<1>1. reload \in Reload
  BY DEF StreamingTypeOK
<1>2. CASE reload' = reload
  BY <1>2 DEF SameReload
<1>3. CASE ReceiveCommitted \/ ReceiveDisconnected \/ CommitReload
  BY <1>1, <1>3 DEF ReceiveCommitted, ReceiveDisconnected, CommitReload, SameReload, Reload
<1>4. CASE RequestReloadSystem
  BY <1>4, RequestReloadSteps
<1>5. CASE DiscardReload
  BY <1>2, <1>5 DEF DiscardReload
<1>6. CASE \/ ReceiveOpened \/ ReceiveIndex
           \/ StartFrame \/ ReceiveNothing \/ AwaitReload
           \/ TransitionWaits \/ TransitionTaken \/ SyncFocus \/ UpdateOrigin
           \/ IndexNotWanted \/ RequestCellIndex
           \/ EndFrame \/ WorkerStep \/ WorkerPanics
           \/ \E t \in Transition : RequestSpace(t)
           \/ \E g \in Generations : PublishFile(g)
           \/ UNCHANGED vars
  <2>1. reload' = reload
    BY <1>6 DEF ReceiveOpened, ReceiveIndex, StartFrame, ReceiveNothing, AwaitReload,
       TransitionWaits, TransitionTaken, SyncFocus, UpdateOrigin, IndexNotWanted, RequestCellIndex, IndexUnchanged, EndFrame, WorkerStep,
       WorkerPanics, RequestSpace, PublishFile, vars, coreVars
  <2> QED BY <1>2, <2>1
<1> QED
  BY <1>3, <1>4, <1>5, <1>6 DEF Next, Main

\* What is on its way under the id of a reload in flight stays of its
\* generation while that reload stays in flight.
LEMMA ReloadChannelsStep ==
    ASSUME StreamingTypeOK, ReloadIds, OneReload, [Next]_vars,
           reload.in_flight # None, reload'.in_flight = reload.in_flight
    PROVE  /\ \A i \in DOMAIN requests' :
                 requests'[i].kind = "Reload" /\ requests'[i].id = reload.in_flight.id
                 => requests'[i].generation = reload.in_flight.generation
           /\ \A i \in DOMAIN results' : RepliesToReload(results'[i])
           /\ reply' # None => RepliesToReload(reply')
           /\ reload.in_flight.id <= last_id'
<1> DEFINE f == reload.in_flight
           Asks(r) == r.kind = "Reload" /\ r.id = f.id => r.generation = f.generation
<1>1. /\ requests \in Seq(Request) /\ results \in Seq(Result) /\ last_id \in Nat
      /\ reply \in Result \cup {None}
      /\ f.id \in Nat /\ f.id <= last_id
  BY DEF StreamingTypeOK, DbTypeOK, OneReload, Reload, Candidate
<1>2. /\ \A i \in DOMAIN requests : Asks(requests[i])
      /\ \A i \in DOMAIN results : RepliesToReload(results[i])
      /\ reply # None => RepliesToReload(reply)
  BY DEF OneReload
<1> SUFFICES /\ \A i \in DOMAIN requests' : Asks(requests'[i])
             /\ \A i \in DOMAIN results' : RepliesToReload(results'[i])
             /\ reply' # None => RepliesToReload(reply')
             /\ f.id <= last_id'
  OBVIOUS
<1> HIDE DEF f
<1>3. CASE SendStep /\ UNCHANGED <<results, workerVars>>
  <2>1. PICK r \in Request : /\ r.id = last_id + 1 /\ last_id' = last_id + 1
                            /\ requests' = Append(requests, r)
    <3>1. PICK kind \in Reads \cup ReloadRequests, generation \in Generations \cup {None},
               named \in Nat, about \in Topics \cup {None} :
               /\ Sent(kind, generation, named, about)
               /\ kind # "DiscardReload" => generation # None
               /\ kind \in Reads => about # None
      BY <1>3 DEF SendStep
    <3> DEFINE new == [id |-> last_id + 1, kind |-> kind, generation |-> generation,
                       reload |-> named, about |-> about]
    <3>2. new \in Request
      BY <1>1, <3>1 DEF Request
    <3> QED BY <3>1, <3>2 DEF Sent
  <2>2. r.id # f.id
    BY <1>1, <2>1
  <2>3. \A i \in DOMAIN requests' : Asks(requests'[i])
    <3>1. \A i \in DOMAIN requests' :
             \/ i \in DOMAIN requests /\ requests'[i] = requests[i]
             \/ requests'[i] = r
      BY <1>1, <2>1, AppendElements
    <3> QED BY <1>2, <2>2, <3>1
  <2> QED BY <1>1, <1>2, <1>3, <2>1, <2>3 DEF workerVars
<1>4. CASE ReceiveStep
  <2>1. /\ results # <<>> /\ results' = Tail(results)
        /\ UNCHANGED <<requests, last_id, reply>>
    BY <1>4 DEF ReceiveStep, Received, workerVars
  <2>2. \A i \in DOMAIN results' : RepliesToReload(results'[i])
    <3>1. \A i \in DOMAIN results' : i + 1 \in DOMAIN results /\ results'[i] = results[i + 1]
      BY <1>1, <2>1, TailElements
    <3> QED BY <1>2, <3>1
  <2> QED BY <1>1, <1>2, <2>1, <2>2
<1>5. CASE WorkerStep \/ WorkerPanics
  <2>1. last_id' = last_id
    BY <1>5, WorkerSteps DEF WorkerStep, WorkerPanics, StreamingTypeOK
  <2>2. CASE Open
    <3>1. reply'.kind # "Reloaded" /\ UNCHANGED <<requests, results>>
      BY <2>2 DEF Open, Opened
    <3> QED BY <1>1, <1>2, <2>1, <3>1 DEF RepliesToReload
  <2>3. CASE /\ SendReply
             /\ results' = Append(results, reply) /\ reply' = None
             /\ requests' = requests \/ requests' = <<>>
    <3>1. reply \in Result /\ reply # None
      BY <2>3 DEF SendReply, StreamingTypeOK, DbTypeOK
    <3>2. \A i \in DOMAIN results' :
             \/ i \in DOMAIN results /\ results'[i] = results[i]
             \/ results'[i] = reply
      BY <1>1, <2>3, <3>1, AppendElements
    <3>3. \A i \in DOMAIN results' : RepliesToReload(results'[i])
      BY <1>2, <3>1, <3>2
    <3>4. \A i \in DOMAIN requests' : Asks(requests'[i])
      BY <1>2, <2>3
    <3> QED BY <1>1, <2>1, <2>3, <3>3, <3>4
  <2>4. CASE /\ Serve /\ results' = results
             /\ requests # <<>> /\ requests' = Tail(requests)
    <3>1. /\ 1 \in DOMAIN requests
          /\ \A i \in DOMAIN requests' : i + 1 \in DOMAIN requests /\ requests'[i] = requests[i + 1]
      BY <1>1, <2>4, TailElements
    <3>2. \A i \in DOMAIN requests' : Asks(requests'[i])
      BY <1>2, <3>1
    <3>3. Asks(requests[1])
      BY <1>2, <3>1
    <3>4. reply' # None => RepliesToReload(reply')
      BY <2>4, <3>3, ServedReply DEF StreamingTypeOK, RepliesToReload, f
    <3> QED BY <1>1, <1>2, <2>1, <2>4, <3>2, <3>4
  <2>5. CASE requests' = <<>> /\ reply' = None /\ results' = results
    BY <1>1, <1>2, <2>1, <2>5
  <2> QED BY <1>5, <2>2, <2>3, <2>4, <2>5, WorkerSteps DEF WorkerStep, WorkerPanics, StreamingTypeOK
<1>6. CASE QuietStep
  BY <1>1, <1>2, <1>6 DEF QuietStep, workerVars
<1> QED
  BY <1>3, <1>4, <1>5, <1>6, ChannelSteps

\* A reload in flight keeps its generation through every step, and gets no
\* other candidate.
LEMMA OneReloadStep ==
    ASSUME StreamingTypeOK, ReloadIds, OneReload, [Next]_vars
    PROVE  OneReload'
<1>1. /\ reload \in Reload
      /\ requests \in Seq(Request) /\ results \in Seq(Result) /\ last_id \in Nat
      /\ reply \in Result \cup {None}
  BY DEF StreamingTypeOK, DbTypeOK
<1>2. CASE reload'.in_flight = None /\ reload'.candidate = None
  BY <1>2 DEF OneReload, RepliesToReload
<1>3. ASSUME reload.in_flight # None, reload'.in_flight = reload.in_flight,
             reload'.queued = reload.queued,
             reload'.candidate \in {None, reload.candidate, reload.in_flight.generation}
      PROVE  OneReload'
  <2>1. /\ reload'.queued = None
        /\ reload'.candidate # None => reload'.candidate = reload.in_flight.generation
    BY <1>3 DEF OneReload
  <2>2. /\ \A i \in DOMAIN requests' :
              requests'[i].kind = "Reload" /\ requests'[i].id = reload.in_flight.id
              => requests'[i].generation = reload.in_flight.generation
        /\ \A i \in DOMAIN results' : RepliesToReload(results'[i])
        /\ reply' # None => RepliesToReload(reply')
        /\ reload.in_flight.id <= last_id'
    BY <1>3, ReloadChannelsStep
  <2> QED BY <1>3, <2>1, <2>2 DEF OneReload, RepliesToReload
<1>4. CASE SameReload
  <2>1. CASE reload.in_flight = None
    BY <1>2, <1>4, <2>1 DEF SameReload, OneReload
  <2>2. CASE reload.in_flight # None
    BY <1>3, <1>4, <2>2 DEF SameReload
  <2> QED BY <2>1, <2>2
<1>5. CASE ReceiveReloaded
  <2> DEFINE r == Head(results)
  <2>1. results # <<>> /\ r = results[1] /\ 1 \in DOMAIN results /\ r.kind = "Reloaded"
    BY <1>1, <1>5 DEF ReceiveReloaded, Receive, Received
  <2>2. RepliesToReload(r)
    BY <2>1 DEF OneReload
  <2>3. CASE reload.in_flight = None \/ reload.in_flight.id # r.id
    <3>1. reload' = reload
      BY <1>5, <2>3 DEF ReceiveReloaded
    <3> QED BY <1>4, <3>1 DEF SameReload
  <2>4. CASE ~(reload.in_flight = None \/ reload.in_flight.id # r.id)
    <3>1. CASE r.ok
      <4>1. reload' = [reload EXCEPT !.candidate = r.generation]
        BY <1>5, <2>4, <3>1 DEF ReceiveReloaded
      <4>2. r.generation = reload.in_flight.generation
        BY <2>1, <2>2, <2>4, <3>1 DEF RepliesToReload
      <4> QED BY <1>1, <1>3, <2>4, <4>1, <4>2 DEF Reload
    <3>2. CASE ~r.ok
      <4>1. reload' = [reload EXCEPT !.failure = TRUE]
        BY <1>5, <2>4, <3>2 DEF ReceiveReloaded
      <4> QED BY <1>1, <1>4, <4>1 DEF SameReload, Reload
    <3> QED BY <3>1, <3>2
  <2> QED BY <2>3, <2>4
<1>6. CASE SendsReload
  <2> DEFINE g == reload.queued
  <2>1. /\ reload'.queued = None /\ reload'.candidate = None
        /\ reload'.in_flight = [id |-> last_id + 1, generation |-> g]
        /\ last_id' = last_id + 1
        /\ UNCHANGED <<results, reply>>
    BY <1>6 DEF SendsReload, Sent, workerVars
  <2>2. PICK r \in Request : /\ r.id = last_id + 1 /\ r.generation = g
                            /\ requests' = Append(requests, r)
    <3> DEFINE new == [id |-> last_id + 1, kind |-> "Reload", generation |-> g,
                       reload |-> 0, about |-> None]
    <3>1. g \in Generations /\ g # None
      BY <1>1, <1>6 DEF SendsReload, Reload
    <3>2. new \in Request
      BY <1>1, <3>1 DEF Request, ReloadRequests, Reads, LiveReads
    <3> QED BY <1>6, <3>2 DEF SendsReload, Sent
  <2>3. \A i \in DOMAIN requests' :
           requests'[i].id = last_id + 1 => requests'[i].generation = g
    <3>1. \A i \in DOMAIN requests' :
             \/ i \in DOMAIN requests /\ requests'[i] = requests[i]
             \/ requests'[i] = r
      BY <1>1, <2>2, AppendElements
    <3>2. \A i \in DOMAIN requests : requests[i].id # last_id + 1
      BY <1>1 DEF ReloadIds, Request
    <3> QED BY <2>2, <3>1, <3>2
  <2>4. \A i \in DOMAIN results : results[i].id # last_id + 1
    BY <1>1 DEF ReloadIds, Result
  <2>5. reply # None => reply.id # last_id + 1
    BY <1>1 DEF ReloadIds, Result
  <2>6. last_id + 1 <= last_id'
    BY <1>1, <2>1
  <2> QED BY <2>1, <2>3, <2>4, <2>5, <2>6 DEF OneReload, RepliesToReload
<1>7. CASE RefusesReload
  BY <1>2, <1>7 DEF RefusesReload, OneReload
<1>8. CASE AdoptGeneration \/ (DiscardReload /\ reload' = Ended([ok |-> FALSE, generation |-> None]))
  <2>1. \A outcome : Ended(outcome).candidate = None /\ Ended(outcome).in_flight = None
    BY DEF Ended, NoReload
  <2> QED BY <1>2, <1>8, <2>1 DEF AdoptGeneration
<1>9. CASE TakeCompletion
  BY <1>1, <1>2, <1>3, <1>9 DEF TakeCompletion, OneReload, Reload
<1>10. ASSUME NEW g \in Generations, RequestReload(g)
       PROVE  OneReload'
  <2>1. reload.in_flight = None
    BY <1>10 DEF RequestReload, ReloadActive
  <2>2. reload.candidate = None
    BY <2>1 DEF OneReload
  <2> QED BY <1>1, <1>2, <1>10, <2>1, <2>2 DEF RequestReload, Reload
<1> QED
  BY <1>4, <1>5, <1>6, <1>7, <1>8, <1>9, <1>10, ReloadSteps

-----------------------------------------------------------------------------
(* The theorems.                                                           *)

\* Nothing is asked for or on its way at first.
LEMMA HandshakeInit == Init => HandshakeInv
BY DEF Init, DbInit, NoReload, HandshakeInv, ReloadIds, OneReload, OpensFirst

\* HandshakeInv is an invariant: with the typing it is inductive.
THEOREM Handshake == Spec => []HandshakeInv
<1>1. Init => StreamingTypeOK /\ HandshakeInv
  BY InitTyped, HandshakeInit
<1>2. StreamingTypeOK /\ HandshakeInv /\ [Next]_vars => StreamingTypeOK' /\ HandshakeInv'
  BY NextTyped, ReloadIdsStep, OneReloadStep, OpensFirstStep DEF HandshakeInv
<1> QED
  BY <1>1, <1>2, PTL DEF Spec

abstractVars == <<manifest, WantedGeneration, reload.completion>>

\* Every step of the coordinator and its worker is one of the atomic swap, or
\* changes nothing that it sees.
LEMMA StepsRefine ==
    ASSUME StreamingTypeOK, HandshakeInv, [Next]_vars
    PROVE  [Swap!Next]_abstractVars
<1> USE DEF abstractVars, WantedGeneration
<1>1. /\ reload \in Reload
      /\ reload.in_flight # None => reload.in_flight.generation \in Generations
      /\ reload.in_flight # None => reload.queued = None
      /\ reload.queued # None => reload.queued \in Generations
      /\ reload.candidate # None =>
            reload.in_flight # None /\ reload.candidate = reload.in_flight.generation
  BY DEF StreamingTypeOK, Reload, Candidate, HandshakeInv, OneReload
<1>2. CASE SameReload /\ manifest' = manifest
  BY <1>2 DEF SameReload
<1>3. CASE ReceiveOpened
  <2> DEFINE r == Head(results)
  <2>1. /\ r \in Result /\ r.kind = "Opened" /\ results # <<>>
        /\ results \in Seq(Result)
    BY <1>3, ReceiveTyped DEF ReceiveOpened, Receive, Received, StreamingTypeOK, DbTypeOK
  <2>2. 1 \in DOMAIN results /\ r = results[1]
    BY <2>1
  <2>3. manifest = None
    BY <2>1, <2>2 DEF HandshakeInv, OpensFirst
  <2>4. reload' = reload
    BY <1>3 DEF ReceiveOpened
  <2>5. CASE r.ok
    <3>1. manifest' \in Generations
      BY <1>3, <2>1, <2>5 DEF ReceiveOpened, Result
    <3> QED BY <2>3, <2>4, <3>1 DEF Swap!Next, Swap!Open
  <2>6. CASE ~r.ok
    BY <1>3, <2>4, <2>6 DEF ReceiveOpened
  <2> QED BY <2>5, <2>6
<1>4. CASE ReceiveReloaded
  <2>1. UNCHANGED manifest
    BY <1>4 DEF ReceiveReloaded
  <2>2. /\ reload'.queued = reload.queued /\ reload'.in_flight = reload.in_flight
        /\ reload'.completion = reload.completion
    BY <1>1, <1>4 DEF ReceiveReloaded, Reload
  <2> QED BY <2>1, <2>2
<1>5. CASE SendsReload /\ UNCHANGED manifest
  BY <1>1, <1>5, NoneIsNoRecord DEF SendsReload, Candidate, StreamingTypeOK, DbTypeOK, Sent
<1>6. CASE RefusesReload /\ UNCHANGED manifest
  BY <1>6 DEF RefusesReload, Swap!Next, Swap!Refuse, Swap!Failed
<1>7. CASE DiscardReload /\ reload' = Ended([ok |-> FALSE, generation |-> None])
  <2> DEFINE refused == [ok |-> FALSE, generation |-> None]
  <2>1. UNCHANGED manifest /\ reload.in_flight # None
    BY <1>7 DEF DiscardReload
  <2>2. /\ reload'.queued = None /\ reload'.in_flight = None
        /\ reload'.completion = refused
    BY <1>1, <1>7, <2>1 DEF Ended, NoReload
  <2>3. WantedGeneration # None
    BY <1>1, <2>1, NoneIsNoValue
  <2> QED BY <2>1, <2>2, <2>3 DEF Swap!Next, Swap!Refuse, Swap!Failed
<1>8. CASE AdoptGeneration
  <2> DEFINE g == reload.in_flight.generation
             adopted == [ok |-> TRUE, generation |-> g]
  <2>1. reload.in_flight # None /\ manifest' = g
    BY <1>1, <1>8 DEF AdoptGeneration, AdoptManifest
  <2>2. /\ reload'.queued = None /\ reload'.in_flight = None
        /\ reload'.completion = adopted
    BY <1>1, <1>8, <2>1 DEF AdoptGeneration, Ended, NoReload
  <2>3. WantedGeneration = g /\ g # None
    BY <1>1, <2>1, NoneIsNoValue
  <2> QED BY <2>1, <2>2, <2>3 DEF Swap!Next, Swap!Adopt
<1>9. CASE TakeCompletion
  <2>1. /\ UNCHANGED manifest /\ reload'.completion = None
        /\ reload'.queued = reload.queued /\ reload'.in_flight = reload.in_flight
    BY <1>1, <1>9 DEF TakeCompletion, Reload
  <2> QED BY <2>1 DEF Swap!Next, Swap!Take
<1>10. ASSUME NEW g \in Generations, RequestReload(g)
       PROVE  [Swap!Next]_abstractVars
  <2>1. /\ UNCHANGED manifest /\ reload'.completion = None
        /\ reload'.queued = g /\ reload'.in_flight = reload.in_flight
        /\ reload.queued = None /\ reload.in_flight = None
    BY <1>1, <1>10 DEF RequestReload, ReloadActive, Reload
  <2> QED BY <2>1, NoneIsNoValue DEF Swap!Next, Swap!Ask
<1>11. manifest' = manifest \/ ReceiveOpened \/ AdoptGeneration
  BY CoordinatorSteps
<1>12. (SendsReload \/ RefusesReload) => ~ReceiveOpened /\ ~AdoptGeneration
  <2>1. ReceiveOpened => reload' = reload
    BY DEF ReceiveOpened
  <2>2. AdoptGeneration => reload.in_flight # None
    BY DEF AdoptGeneration
  <2> QED BY <2>1, <2>2 DEF SendsReload, RefusesReload
<1> QED
  BY <1>2, <1>3, <1>4, <1>5, <1>6, <1>7, <1>8, <1>9, <1>10, <1>11, <1>12, ReloadSteps

\* The handshake between the game and its worker, with any capacities, queues
\* filling up, reads failing and the worker dying, changes the open generation
\* exactly as an atomic swap answered once would.
THEOREM Atomicity == Spec => ReloadIsAtomic
<1>1. Init => Swap!Init
  BY DEF Init, NoReload, Swap!Init, WantedGeneration
<1>2. StreamingTypeOK /\ HandshakeInv /\ [Next]_vars => [Swap!Next]_abstractVars
  BY StepsRefine
<1>3. Spec => []StreamingTypeOK /\ []HandshakeInv
  BY Typing, Handshake
<1> QED
  BY <1>1, <1>2, <1>3, PTL DEF Spec, ReloadIsAtomic, Swap!Spec, abstractVars

-----------------------------------------------------------------------------
(* Why a commit is never refused and the reader follows the open           *)
(* generation: CommitInv of the two-phase reload, inductive beside the     *)
(* typing, the order of the channels and HandshakeInv.                     *)

CommitQueued == \E i \in DOMAIN requests : requests[i].kind = "CommitReload"

\* Everything on its way was sent after the request `id`.
Later(id) ==
    /\ \A i \in DOMAIN requests : id < requests[i].id
    /\ \A i \in DOMAIN results : id < results[i].id
    /\ reply # None => id < reply.id

\* A dead thread has lost its requests and its candidate.
StoppedIsEmpty == worker = "stopped" => requests = <<>> /\ candidate = None

\* A commit is sent for a candidate, and confirmed only once sent.
CommitHasACandidate ==
    /\ reload.commit # 0 => reload.candidate # None /\ reload.commit <= last_id
    /\ reload.committed => reload.commit # 0

\* Reload and commit requests that are queued are the ones of the reload in
\* flight; a queued discard is of an earlier one.
QueuedForReload ==
    /\ \A i \in DOMAIN requests : requests[i].kind = "Reload" =>
          reload.in_flight # None /\ requests[i].id = reload.in_flight.id
    /\ \A i \in DOMAIN requests : requests[i].kind = "CommitReload" =>
          /\ reload.in_flight # None /\ reload.commit # 0
          /\ requests[i].id = reload.commit
          /\ requests[i].reload = reload.in_flight.id
          /\ requests[i].generation = reload.in_flight.generation
    /\ \A i \in DOMAIN requests : requests[i].kind = "DiscardReload" =>
          /\ requests[i].reload <= last_id
          /\ reload.in_flight # None => requests[i].reload # reload.in_flight.id

\* A reload that has its candidate or has failed, and a commit that is
\* confirmed, have nothing of theirs on its way any more.
AnsweredIsReceived ==
    /\ reload.in_flight # None /\ (reload.candidate # None \/ reload.failure) =>
          worker # "opening" /\ Later(reload.in_flight.id)
    /\ reload.committed => \A i \in DOMAIN requests : reload.commit < requests[i].id

\* Commits are answered ok.
Accepted(r) == r.kind = "ReloadCommitted" => r.ok /\ r.id > 0
CommitsAreAccepted ==
    /\ \A i \in DOMAIN results : Accepted(results[i])
    /\ reply # None => Accepted(reply)

\* From the answer to a reload to its commit, the worker's candidate is the
\* reload's.
PreparedReply(r) ==
    /\ r.kind = "Reloaded" /\ r.ok
    /\ reload.in_flight # None /\ r.id = reload.in_flight.id
Prepared ==
    \/ reload.candidate # None /\ (reload.commit = 0 \/ CommitQueued)
    \/ \E i \in DOMAIN results : PreparedReply(results[i])
    \/ reply # None /\ PreparedReply(reply)
PreparedIsKept ==
    Prepared /\ worker # "stopped" =>
        CandidateIs(reload.in_flight.id, reload.in_flight.generation)
CommittedIsTaken == reload.commit # 0 /\ ~CommitQueued => candidate = None

\* A commit is sent for a compatible candidate, and the reload fails after it
\* only if the worker has died and all its replies were drained.
CommitIsFinal ==
    /\ reload.commit # 0 =>
         /\ Compatible(reload.candidate)
         /\ reload.failure => worker = "stopped" /\ results = <<>>
    /\ pc = "advance_reload" /\ reload.candidate # None /\ ~reload.failure =>
         Compatible(reload.candidate)

\* The live reader is the opened generation, then the open one until a commit
\* is served, then the one being adopted.
OpenedReply(r) == r.kind = "Opened" /\ r.ok => reader = r.generation
ReaderIsOpen ==
    worker # "stopped" =>
      /\ \A i \in DOMAIN results : OpenedReply(results[i])
      /\ reply # None => OpenedReply(reply)
      /\ IF reload.commit = 0 \/ CommitQueued
         THEN manifest # None => reader = manifest
         ELSE reader = reload.in_flight.generation

CommitInv ==
    /\ StoppedIsEmpty /\ CommitHasACandidate /\ QueuedForReload
    /\ AnsweredIsReceived /\ CommitsAreAccepted
    /\ PreparedIsKept /\ CommittedIsTaken /\ CommitIsFinal /\ ReaderIsOpen
    /\ CandidateIsOwned

\* The whole invariant.
StreamInv == StreamingTypeOK /\ InOrder /\ HandshakeInv /\ CommitInv

-----------------------------------------------------------------------------
(* What the steps need of the typing and of the earlier invariants.        *)

LEMMA Facts ==
    ASSUME StreamInv
    PROVE  /\ DbTypeOK
           /\ requests \in Seq(Request) /\ results \in Seq(Result) /\ last_id \in Nat
           /\ reply \in Result \cup {None} /\ (worker = "replying") = (reply # None)
           /\ \A i \in DOMAIN requests :
                 requests[i].id \in Nat /\ requests[i].reload \in Nat
           /\ \A i \in DOMAIN results : results[i].id \in Nat
           /\ reply # None => reply.id \in Nat
           /\ reload \in Reload /\ reload.commit \in Nat
           /\ reload.in_flight # None =>
                 /\ reload.in_flight.id \in Nat /\ reload.in_flight.id <= last_id
                 /\ reload.in_flight.generation \in Generations
                 /\ reload.queued = None
           /\ reload.candidate # None =>
                 /\ reload.in_flight # None
                 /\ reload.candidate = reload.in_flight.generation
                 /\ reload.candidate \in Generations
<1>1. DbTypeOK /\ reload \in Reload /\ OneReload
  BY DEF StreamInv, StreamingTypeOK, HandshakeInv
<1>2. /\ requests \in Seq(Request) /\ results \in Seq(Result) /\ last_id \in Nat
      /\ reply \in Result \cup {None} /\ (worker = "replying") = (reply # None)
  BY <1>1 DEF DbTypeOK
<1>3. /\ \A i \in DOMAIN requests : requests[i].id \in Nat /\ requests[i].reload \in Nat
      /\ \A i \in DOMAIN results : results[i].id \in Nat
      /\ reply # None => reply.id \in Nat
  BY <1>2 DEF Request, Result
<1>4. /\ reload.commit \in Nat
      /\ reload.in_flight # None =>
            /\ reload.in_flight.id \in Nat /\ reload.in_flight.id <= last_id
            /\ reload.in_flight.generation \in Generations
            /\ reload.queued = None
      /\ reload.candidate # None =>
            /\ reload.in_flight # None
            /\ reload.candidate = reload.in_flight.generation
            /\ reload.candidate \in Generations
  BY <1>1 DEF Reload, Candidate, OneReload
<1> QED
  BY <1>1, <1>2, <1>3, <1>4

\* Before the opening reply is drained there is no candidate.
LEMMA NoCandidateBeforeOpening ==
    ASSUME StreamInv, OpenPending
    PROVE  manifest = None /\ reload.candidate = None /\ reload.commit = 0
BY DEF StreamInv, HandshakeInv, OpensFirst, OpenPending, CommitInv, CommitHasACandidate

-----------------------------------------------------------------------------
(* The worker.                                                             *)

\* The requests that are left were queued before.
RequestsKept ==
    \A i \in DOMAIN requests' : \E j \in DOMAIN requests : requests'[i] = requests[j]

\* What a step of the worker leaves as it was, whatever it does.
LEMMA WorkerKeeps ==
    ASSUME StreamInv, WorkerStep \/ WorkerPanics, RequestsKept
    PROVE  /\ CommitHasACandidate' /\ QueuedForReload'
           /\ reload.commit # 0 => ~reload.failure
           /\ CommitIsFinal'
           /\ CommitQueued' => CommitQueued
           /\ reload.committed => \A i \in DOMAIN requests' : reload.commit < requests'[i].id
<1> USE DEF StreamInv, CommitInv
<1>1. /\ UNCHANGED <<reload, active, manifest, pc>> /\ last_id' = last_id
      /\ worker # "stopped"
  BY WorkerSteps DEF WorkerStep, WorkerPanics, coreVars, spaceVars, StreamingTypeOK,
     Worker, Open, SendReply, Serve, Cancelled, ChannelWait, Panic
<1>2. CommitHasACandidate'
  BY <1>1 DEF CommitHasACandidate
<1>3. QueuedForReload'
  BY <1>1 DEF QueuedForReload, RequestsKept
<1>4. reload.commit # 0 => ~reload.failure
  BY <1>1 DEF CommitIsFinal
<1>5. CommitIsFinal'
  BY <1>1, <1>4 DEF CommitIsFinal, Compatible
<1>6. CommitQueued' => CommitQueued
  BY DEF CommitQueued, RequestsKept
<1>7. reload.committed => \A i \in DOMAIN requests' : reload.commit < requests'[i].id
  BY DEF AnsweredIsReceived, RequestsKept
<1> QED
  BY <1>2, <1>3, <1>4, <1>5, <1>6, <1>7

\* The opening, the sending of a reply and the death of the thread keep the
\* invariant.
LEMMA ThreadStep ==
    ASSUME StreamInv, WorkerStep \/ WorkerPanics, ~Serve
    PROVE  CommitInv'
<1> USE DEF StreamInv, CommitInv
<1>1. /\ requests \in Seq(Request) /\ results \in Seq(Result)
      /\ UNCHANGED <<reload, active, manifest, pc>> /\ last_id' = last_id
      /\ worker # "stopped"
  BY WorkerSteps DEF WorkerStep, WorkerPanics, coreVars, spaceVars, StreamingTypeOK, DbTypeOK,
     Worker, Open, SendReply, Serve, Cancelled, ChannelWait, Panic
<1>2. CASE Open
  <2>1. /\ UNCHANGED <<requests, results, candidate>> /\ results = <<>>
        /\ worker = "opening" /\ worker' = "replying"
        /\ reply'.kind = "Opened" /\ reply'.id = 0
        /\ reply'.ok => reader' = reply'.generation
    BY <1>2 DEF Open, Opened, InOrder
  <2>2. manifest = None /\ reload.candidate = None /\ reload.commit = 0
    BY <2>1, NoCandidateBeforeOpening DEF OpenPending
  <2>3. RequestsKept
    BY <2>1 DEF RequestsKept
  <2>4. AnsweredIsReceived'
    BY <1>1, <2>1, <2>2 DEF AnsweredIsReceived, CommitHasACandidate
  <2>5. CommitsAreAccepted' /\ PreparedIsKept'
    BY <1>1, <2>1, <2>2 DEF CommitsAreAccepted, Accepted, PreparedIsKept, Prepared, PreparedReply
  <2>6. StoppedIsEmpty' /\ CommittedIsTaken' /\ ReaderIsOpen' /\ CandidateIsOwned'
    BY <1>1, <2>1, <2>2 DEF StoppedIsEmpty, CommittedIsTaken, ReaderIsOpen, OpenedReply, CandidateIsOwned
  <2> QED BY <2>3, <2>4, <2>5, <2>6, WorkerKeeps
<1>3. CASE SendReply /\ ~ThreadEnds
  <2>1. /\ results' = Append(results, reply) /\ reply \in Result /\ reply # None
        /\ worker = "replying" /\ worker' = "receiving" /\ reply' = None
        /\ UNCHANGED <<requests, reader, candidate>>
    BY <1>3 DEF SendReply, StreamingTypeOK, DbTypeOK
  <2>2. \A i \in DOMAIN results' :
           \/ i \in DOMAIN results /\ results'[i] = results[i]
           \/ results'[i] = reply
    BY <1>1, <2>1, AppendElements
  <2>3. RequestsKept
    BY <2>1 DEF RequestsKept
  <2>4. AnsweredIsReceived' /\ CommitsAreAccepted'
    BY <1>1, <2>1, <2>2 DEF AnsweredIsReceived, Later, CommitsAreAccepted, Accepted
  <2>5. Prepared' => Prepared
    BY <1>1, <2>1, <2>2 DEF Prepared, PreparedReply, CommitQueued
  <2>6. PreparedIsKept'
    BY <1>1, <2>1, <2>5 DEF PreparedIsKept, CandidateIs
  <2>7. StoppedIsEmpty' /\ CommittedIsTaken' /\ CandidateIsOwned'
    BY <1>1, <2>1 DEF StoppedIsEmpty, CommittedIsTaken, CandidateIsOwned, CommitQueued
  <2>8. ReaderIsOpen'
    BY <1>1, <2>1, <2>2 DEF ReaderIsOpen, OpenedReply, CommitQueued
  <2> QED BY <2>3, <2>4, <2>6, <2>7, <2>8, WorkerKeeps
<1>4. CASE ThreadEnds
  <2>1. /\ requests' = <<>> /\ worker' = "stopped" /\ reply' = None /\ candidate' = None
    BY <1>4 DEF ThreadEnds
  <2>2. \/ results' = results
        \/ results' = Append(results, reply) /\ reply \in Result /\ reply # None
    <3>1. SendReply => reply \in Result /\ reply # None /\ results' = Append(results, reply)
      BY DEF SendReply, StreamingTypeOK, DbTypeOK
    <3> QED BY <3>1 DEF WorkerStep, WorkerPanics, Worker, Open, Cancelled, Panic
  <2>3. \A i \in DOMAIN results' :
           \/ i \in DOMAIN results /\ results'[i] = results[i]
           \/ reply # None /\ results'[i] = reply
    BY <1>1, <2>2, AppendElements
  <2>4. RequestsKept
    BY <2>1 DEF RequestsKept
  <2>5. AnsweredIsReceived' /\ CommitsAreAccepted'
    BY <1>1, <2>1, <2>3 DEF AnsweredIsReceived, Later, CommitsAreAccepted, Accepted
  <2>6. /\ StoppedIsEmpty' /\ PreparedIsKept' /\ CommittedIsTaken' /\ ReaderIsOpen'
        /\ CandidateIsOwned'
    BY <2>1 DEF StoppedIsEmpty, PreparedIsKept, CommittedIsTaken, ReaderIsOpen, CandidateIsOwned
  <2> QED BY <2>4, <2>5, <2>6, WorkerKeeps
<1> QED
  BY <1>2, <1>3, <1>4 DEF WorkerStep, WorkerPanics, Worker, Cancelled, Panic

\* Serving the oldest request keeps the invariant: a reload is prepared under
\* the id in flight, a commit finds it, and a discard leaves it alone.
LEMMA ServeStep ==
    ASSUME StreamInv, WorkerStep, Serve
    PROVE  CommitInv'
<1> DEFINE r == requests[1]
           f == reload.in_flight
<1> USE DEF StreamInv, CommitInv
<1>1. /\ requests \in Seq(Request) /\ results \in Seq(Result) /\ requests # <<>>
      /\ requests' = Tail(requests) /\ results' = results /\ last_id' = last_id
      /\ UNCHANGED <<reload, active, manifest, pc>>
      /\ worker = "receiving" /\ reply = None /\ worker' \in {"receiving", "replying"}
  BY ServedReply DEF WorkerStep, coreVars, spaceVars, Serve, StreamingTypeOK, DbTypeOK
<1>2. /\ 1 \in DOMAIN requests
      /\ \A i \in DOMAIN requests' :
            i \in Nat \ {0} /\ i + 1 \in DOMAIN requests /\ requests'[i] = requests[i + 1]
  BY <1>1, TailElements
<1>3. RequestsKept
  BY <1>2 DEF RequestsKept
<1>4. /\ \A i \in DOMAIN requests' : r.id < requests'[i].id
      /\ \A i \in DOMAIN results : results[i].id < r.id
      /\ r.id \in Nat /\ 0 < r.id
  <2>1. \A i \in DOMAIN requests' : r.id < requests[i + 1].id
    <3> SUFFICES ASSUME NEW i \in DOMAIN requests' PROVE r.id < requests[i + 1].id
      OBVIOUS
    <3>1. 1 < i + 1
      BY <1>2
    <3> QED BY <1>2, <3>1 DEF InOrder
  <2> QED BY <1>2, <2>1, Facts DEF InOrder
<1>5. \/ reply' = None
      \/ reply' # None /\ reply'.id = r.id /\ reply'.kind # "Opened"
  BY ServedReply DEF StreamingTypeOK
<1>6. AnsweredIsReceived'
  BY <1>1, <1>2, <1>3, <1>5, WorkerKeeps DEF AnsweredIsReceived, Later
<1>7. StoppedIsEmpty'
  BY <1>1 DEF StoppedIsEmpty
<1>8. \A i \in DOMAIN requests : requests[i] = r \/ \E j \in DOMAIN requests' : requests'[j] = requests[i]
  BY <1>1, RestElements
<1>9. CASE /\ r.kind \in Reads /\ UNCHANGED <<reader, candidate>>
           /\ Answers(r.kind, TRUE, r.generation) \/ Answers(r.kind, FALSE, None)
  <2>1. reply' # None /\ reply'.kind \in Reads
    BY <1>9 DEF Answers
  <2>2. CommitQueued' <=> CommitQueued
    BY <1>3, <1>8, <1>9 DEF CommitQueued, RequestsKept, Reads, LiveReads
  <2>3. CommitsAreAccepted' /\ (Prepared' => Prepared)
    BY <1>1, <2>1, <2>2 DEF CommitsAreAccepted, Accepted, Prepared, PreparedReply, Reads, LiveReads
  <2>4. PreparedIsKept' /\ CommittedIsTaken'
    BY <1>1, <1>9, <2>2, <2>3 DEF PreparedIsKept, CommittedIsTaken, CandidateIs
  <2>5. ReaderIsOpen'
    BY <1>1, <1>5, <1>9, <2>2 DEF ReaderIsOpen, OpenedReply
  <2>6. CandidateIsOwned'
    BY <1>1, <1>8, <1>9 DEF CandidateIsOwned, Reads, LiveReads
  <2> QED BY <1>3, <1>6, <1>7, <2>3, <2>4, <2>5, <2>6, WorkerKeeps
<1>10. CASE /\ r.kind = "Reload" /\ UNCHANGED reader
            /\ \/ /\ candidate' = [id |-> r.id, generation |-> r.generation]
                  /\ Answers("Reloaded", TRUE, r.generation)
               \/ UNCHANGED candidate /\ Answers("Reloaded", FALSE, None)
  <2>1. f # None /\ r.id = f.id /\ r.generation = f.generation
    BY <1>2, <1>10 DEF QueuedForReload, HandshakeInv, OneReload
  <2>2. reload.candidate = None /\ reload.commit = 0
    BY <1>2, <2>1, Facts DEF AnsweredIsReceived, Later, CommitHasACandidate
  <2>3. CommitQueued' <=> CommitQueued
    BY <1>3, <1>8, <1>10 DEF CommitQueued, RequestsKept
  <2>4. \A i \in DOMAIN results : ~PreparedReply(results[i])'
    BY <1>1, <1>4, <2>1, Facts DEF PreparedReply
  <2>5. PreparedIsKept' /\ CommitsAreAccepted'
    <3>1. CASE UNCHANGED candidate /\ Answers("Reloaded", FALSE, None)
      BY <1>1, <2>2, <2>4, <3>1 DEF PreparedIsKept, Prepared, PreparedReply, Answers,
         CommitsAreAccepted, Accepted
    <3>2. CASE /\ candidate' = [id |-> r.id, generation |-> r.generation]
               /\ Answers("Reloaded", TRUE, r.generation)
      <4>1. candidate' # None
        BY <1>4, <2>1, <3>2, NoneIsNoRecord, Facts DEF Candidate
      <4>2. CandidateIs(f.id, f.generation)'
        BY <1>1, <2>1, <3>2, <4>1 DEF CandidateIs
      <4> QED BY <1>1, <3>2, <4>2 DEF PreparedIsKept, CommitsAreAccepted, Accepted, Answers
    <3> QED BY <1>10, <3>1, <3>2
  <2>6. CommittedIsTaken'
    BY <1>1, <2>2 DEF CommittedIsTaken
  <2>7. ReaderIsOpen'
    BY <1>1, <1>5, <1>10, <2>3 DEF ReaderIsOpen, OpenedReply
  <2>8. CandidateIsOwned'
    <3>1. CASE UNCHANGED candidate
      BY <1>1, <1>8, <1>10, <3>1 DEF CandidateIsOwned
    <3>2. CASE candidate' = [id |-> r.id, generation |-> r.generation]
      BY <1>1, <2>1, <3>2 DEF CandidateIsOwned
    <3> QED BY <1>10, <3>1, <3>2
  <2> QED BY <1>3, <1>6, <1>7, <2>5, <2>6, <2>7, <2>8, WorkerKeeps
<1>11. CASE /\ r.kind = "CommitReload"
            /\ \/ /\ CandidateIs(r.reload, r.generation)
                  /\ reader' = r.generation /\ candidate' = None
                  /\ Answers("ReloadCommitted", TRUE, None)
               \/ /\ ~CandidateIs(r.reload, r.generation)
                  /\ UNCHANGED <<reader, candidate>>
                  /\ Answers("ReloadCommitted", FALSE, None)
  <2>1. /\ f # None /\ reload.commit # 0 /\ r.id = reload.commit
        /\ r.reload = f.id /\ r.generation = f.generation
        /\ reload.candidate # None /\ CommitQueued
    BY <1>2, <1>11 DEF QueuedForReload, CommitHasACandidate, CommitQueued
  <2>2. CandidateIs(f.id, f.generation)
    BY <1>1, <2>1 DEF PreparedIsKept, Prepared
  <2>3. /\ reader' = f.generation /\ candidate' = None
        /\ reply' # None /\ reply'.kind = "ReloadCommitted" /\ reply'.ok /\ reply'.id > 0
    BY <1>4, <1>11, <2>1, <2>2 DEF Answers
  <2>4. ~CommitQueued'
    BY <1>1, <1>4, <2>1, <1>3, WorkerKeeps, Facts DEF CommitQueued, QueuedForReload
  <2>5. ~Prepared'
    <3>1. \A i \in DOMAIN results : f.id < results[i].id
      BY <2>1 DEF AnsweredIsReceived, Later
    <3> QED BY <1>1, <2>1, <2>3, <2>4, <3>1, Facts DEF Prepared, PreparedReply
  <2>6. CommitsAreAccepted' /\ PreparedIsKept' /\ CommittedIsTaken'
    BY <1>1, <2>3, <2>5 DEF CommitsAreAccepted, Accepted, PreparedIsKept, CommittedIsTaken
  <2>7. ReaderIsOpen'
    <3>1. \A i \in DOMAIN results : results[i].kind # "Opened"
      BY <2>1, NoCandidateBeforeOpening DEF OpenPending
    <3> QED BY <1>1, <2>1, <2>3, <2>4, <3>1 DEF ReaderIsOpen, OpenedReply
  <2>8. CandidateIsOwned'
    BY <2>3 DEF CandidateIsOwned
  <2> QED BY <1>3, <1>6, <1>7, <2>6, <2>7, <2>8, WorkerKeeps
<1>12. CASE /\ r.kind = "DiscardReload"
            /\ UNCHANGED <<worker, reply, reader>>
            /\ candidate' = IF candidate # None /\ candidate.id = r.reload
                            THEN None ELSE candidate
  <2>1. f # None => r.reload # f.id
    BY <1>2, <1>12 DEF QueuedForReload
  <2>2. CommitQueued' <=> CommitQueued
    BY <1>3, <1>8, <1>12 DEF CommitQueued, RequestsKept
  <2>3. CommitsAreAccepted' /\ (Prepared' => Prepared)
    BY <1>1, <1>12, <2>2 DEF CommitsAreAccepted, Accepted, Prepared, PreparedReply
  <2>4. Prepared => f # None
    BY Facts DEF Prepared, PreparedReply
  <2>5. PreparedIsKept' /\ CommittedIsTaken'
    BY <1>1, <1>12, <2>1, <2>2, <2>3, <2>4 DEF PreparedIsKept, CommittedIsTaken, CandidateIs
  <2>6. ReaderIsOpen'
    BY <1>1, <1>12, <2>2 DEF ReaderIsOpen, OpenedReply
  <2>7. CandidateIsOwned'
    BY <1>1, <1>8, <1>12 DEF CandidateIsOwned
  <2> QED BY <1>3, <1>6, <1>7, <2>3, <2>5, <2>6, <2>7, WorkerKeeps
<1> QED
  BY <1>9, <1>10, <1>11, <1>12, ServeCases DEF StreamingTypeOK

-----------------------------------------------------------------------------
(* The coordinator.                                                        *)

\* The handshake of the reload in flight is as it was.
SameHandshake ==
    /\ reload'.in_flight = reload.in_flight /\ reload'.candidate = reload.candidate
    /\ reload'.commit = reload.commit /\ reload'.committed = reload.committed
    /\ reload'.failure = reload.failure

\* Steps that leave the channels and the handshake alone, and change the active
\* space or enter `advance_reload` only while the reload has no candidate.
LEMMA QuietKeeps ==
    ASSUME StreamInv,
           UNCHANGED <<requests, results, last_id, workerVars, manifest>>,
           SameHandshake,
           active' = active \/ reload.candidate = None,
           pc' # "advance_reload" \/ pc' = pc \/ reload.candidate = None
    PROVE  CommitInv'
<1> USE DEF StreamInv, CommitInv
<1>1. /\ UNCHANGED <<requests, results, last_id, worker, reply, reader, candidate, manifest>>
      /\ reload'.in_flight = reload.in_flight /\ reload'.candidate = reload.candidate
      /\ reload'.commit = reload.commit /\ reload'.committed = reload.committed
      /\ reload'.failure = reload.failure
  BY DEF workerVars, SameHandshake
<1>2. CommitQueued' <=> CommitQueued
  BY <1>1 DEF CommitQueued
<1>3. /\ StoppedIsEmpty' /\ CommitHasACandidate' /\ QueuedForReload'
      /\ AnsweredIsReceived' /\ CommitsAreAccepted' /\ CommittedIsTaken'
  BY <1>1, <1>2 DEF StoppedIsEmpty, CommitHasACandidate, QueuedForReload,
     AnsweredIsReceived, Later, CommitsAreAccepted, Accepted, CommittedIsTaken
<1>4. PreparedIsKept'
  BY <1>1, <1>2 DEF PreparedIsKept, Prepared, PreparedReply, CandidateIs
<1>5. CommitIsFinal'
  BY <1>1 DEF CommitIsFinal, Compatible, CommitHasACandidate
<1>6. ReaderIsOpen'
  BY <1>1, <1>2 DEF ReaderIsOpen, OpenedReply
<1>7. CandidateIsOwned'
  BY <1>1 DEF CandidateIsOwned
<1> QED
  BY <1>3, <1>4, <1>5, <1>6, <1>7

\* What draining a reply does, and what is left on its way.
LEMMA Drained ==
    ASSUME StreamInv, NEW kind, Receive(kind), ReceiveUnchanged
    PROVE  /\ 1 \in DOMAIN results /\ Head(results) = results[1]
           /\ results[1] \in Result /\ results[1].kind = kind
           /\ \A i \in DOMAIN results' :
                 i \in Nat \ {0} /\ i + 1 \in DOMAIN results /\ results'[i] = results[i + 1]
           /\ \A i \in DOMAIN results' : results[1].id < results'[i].id
           /\ \A i \in DOMAIN requests : results[1].id < requests[i].id
           /\ reply # None => results[1].id < reply.id
           /\ UNCHANGED <<requests, last_id, worker, reply, reader, candidate, pc>>
           /\ worker # "opening"
<1>1. /\ results \in Seq(Result) /\ results # <<>> /\ results' = Tail(results)
      /\ Head(results).kind = kind
      /\ UNCHANGED <<requests, last_id, worker, reply, reader, candidate, pc>>
  BY Facts DEF Receive, Received, ReceiveUnchanged, workerVars
<1>2. /\ 1 \in DOMAIN results /\ Head(results) = results[1]
      /\ \A i \in DOMAIN results' :
            i \in Nat \ {0} /\ i + 1 \in DOMAIN results /\ results'[i] = results[i + 1]
  BY <1>1, TailElements
<1>3. \A i \in DOMAIN results' : results[1].id < results[i + 1].id
  <2> SUFFICES ASSUME NEW i \in DOMAIN results' PROVE results[1].id < results[i + 1].id
    OBVIOUS
  <2>1. 1 < i + 1
    BY <1>2
  <2> QED BY <1>2, <2>1 DEF StreamInv, InOrder
<1> QED
  BY <1>1, <1>2, <1>3 DEF StreamInv, InOrder

\* A drained reply that changes nothing of the reload or the open generation.
LEMMA DrainKeeps ==
    ASSUME StreamInv, NEW kind, Receive(kind), ReceiveUnchanged,
           UNCHANGED <<reload, manifest, active>>
    PROVE  CommitInv'
<1> USE DEF StreamInv, CommitInv
<1>1. /\ \A i \in DOMAIN results' : i + 1 \in DOMAIN results /\ results'[i] = results[i + 1]
      /\ UNCHANGED <<requests, last_id, worker, reply, reader, candidate, pc>>
      /\ results # <<>>
  BY Drained DEF Receive, Received
<1>2. CommitQueued' <=> CommitQueued
  BY <1>1 DEF CommitQueued
<1>3. /\ StoppedIsEmpty' /\ CommitHasACandidate' /\ QueuedForReload'
      /\ AnsweredIsReceived' /\ CommitsAreAccepted' /\ CommittedIsTaken'
  BY <1>1, <1>2 DEF StoppedIsEmpty, CommitHasACandidate, QueuedForReload,
     AnsweredIsReceived, Later, CommitsAreAccepted, Accepted, CommittedIsTaken
<1>4. PreparedIsKept'
  BY <1>1, <1>2 DEF PreparedIsKept, Prepared, PreparedReply, CandidateIs
<1>5. CommitIsFinal'
  BY <1>1 DEF CommitIsFinal, Compatible
<1>6. ReaderIsOpen'
  BY <1>1, <1>2 DEF ReaderIsOpen, OpenedReply
<1>7. CandidateIsOwned'
  BY <1>1 DEF CandidateIsOwned
<1> QED
  BY <1>3, <1>4, <1>5, <1>6, <1>7

\* The replies keep the invariant.
LEMMA ReceiveSteps ==
    ASSUME StreamInv, ReceiveOpened \/ ReceiveReloaded \/ ReceiveCommitted \/ ReceiveIndex
    PROVE  CommitInv'
<1> USE DEF StreamInv, CommitInv
<1> DEFINE r == results[1]
           f == reload.in_flight
<1>1. CASE ReceiveIndex
  BY <1>1, DrainKeeps DEF ReceiveIndex
<1>2. CASE ReceiveOpened
  <2>1. Receive("Opened") /\ ReceiveUnchanged /\ UNCHANGED reload
    BY <1>2 DEF ReceiveOpened
  <2>2. /\ Head(results) = r /\ 1 \in DOMAIN results /\ r.kind = "Opened"
        /\ \A i \in DOMAIN results' : i \in Nat \ {0} /\ i + 1 \in DOMAIN results /\ results'[i] = results[i + 1]
        /\ UNCHANGED <<requests, last_id, worker, reply, reader, candidate, pc>>
    BY <2>1, Drained
  <2>3. manifest = None /\ reload.candidate = None /\ reload.commit = 0
    BY <2>2, NoCandidateBeforeOpening DEF OpenPending
  <2>4. CommitQueued' <=> CommitQueued
    BY <2>2 DEF CommitQueued
  <2>5. /\ StoppedIsEmpty' /\ CommitHasACandidate' /\ QueuedForReload'
        /\ AnsweredIsReceived' /\ CommitsAreAccepted' /\ CommittedIsTaken'
    BY <2>1, <2>2, <2>4 DEF StoppedIsEmpty, CommitHasACandidate, QueuedForReload,
       AnsweredIsReceived, Later, CommitsAreAccepted, Accepted, CommittedIsTaken
  <2>6. PreparedIsKept'
    BY <2>1, <2>2, <2>4 DEF PreparedIsKept, Prepared, PreparedReply, CandidateIs
  <2>7. CommitIsFinal' /\ CandidateIsOwned'
    BY <2>1, <2>2, <2>3 DEF CommitIsFinal, CandidateIsOwned
  <2>8. ReaderIsOpen'
    <3>1. manifest' # None => r.ok /\ manifest' = r.generation
      BY <1>2, <2>2, <2>3 DEF ReceiveOpened
    <3> QED BY <2>1, <2>2, <2>3, <3>1 DEF ReaderIsOpen, OpenedReply
  <2> QED BY <2>5, <2>6, <2>7, <2>8
<1>3. CASE ReceiveReloaded
  <2>1. /\ Receive("Reloaded") /\ ReceiveUnchanged /\ UNCHANGED <<manifest, active>>
    BY <1>3 DEF ReceiveReloaded
  <2>2. CASE f = None \/ f.id # r.id
    BY <1>3, <2>1, <2>2, Drained, DrainKeeps DEF ReceiveReloaded
  <2>3. CASE f # None /\ f.id = r.id
    <3>1. /\ Head(results) = r /\ 1 \in DOMAIN results /\ r.kind = "Reloaded"
          /\ \A i \in DOMAIN results' : i + 1 \in DOMAIN results /\ results'[i] = results[i + 1]
          /\ UNCHANGED <<requests, last_id, worker, reply, reader, candidate, pc>>
          /\ worker # "opening"
          /\ r \in Result /\ pc = "receive"
      BY <2>1, Drained DEF Receive
    <3>2. Later(f.id)'
      <4>1. /\ \A i \in DOMAIN results' : r.id < results'[i].id
            /\ \A i \in DOMAIN requests : r.id < requests[i].id
            /\ reply # None => r.id < reply.id
        BY <2>1, Drained
      <4> QED BY <1>3, <2>3, <3>1, <4>1, Facts DEF Later, ReceiveReloaded, Reload
    <3>3. reload.candidate = None /\ reload.commit = 0 /\ ~reload.committed
      BY <2>3, <3>1, Facts DEF AnsweredIsReceived, Later, CommitHasACandidate
    <3>4. /\ reload'.in_flight = f /\ reload'.commit = 0 /\ ~reload'.committed
          /\ r.ok => reload'.candidate # None /\ reload'.failure = reload.failure
          /\ ~r.ok => reload'.candidate = None
      <4>1. r.ok => r.generation # None
        BY <3>1 DEF Result
      <4> QED BY <1>3, <2>3, <3>1, <3>3, <4>1, Facts DEF ReceiveReloaded, Reload
    <3>5. CommitQueued' <=> CommitQueued
      BY <3>1 DEF CommitQueued
    <3>6. /\ StoppedIsEmpty' /\ CommitHasACandidate' /\ QueuedForReload'
          /\ CommitsAreAccepted' /\ CommittedIsTaken'
      BY <3>1, <3>3, <3>4 DEF StoppedIsEmpty, CommitHasACandidate, QueuedForReload,
         CommitsAreAccepted, Accepted, CommittedIsTaken
    <3>7. AnsweredIsReceived'
      BY <3>1, <3>2, <3>4 DEF AnsweredIsReceived
    <3>8. PreparedIsKept'
      <4>1. CASE r.ok
        <5>1. Prepared
          BY <2>3, <3>1, <4>1 DEF Prepared, PreparedReply
        <5> QED BY <3>1, <3>4, <5>1 DEF PreparedIsKept, CandidateIs
      <4>2. CASE ~r.ok
        BY <3>1, <3>4, <4>2 DEF PreparedIsKept, Prepared, PreparedReply, CandidateIs
      <4> QED BY <4>1, <4>2
    <3>9. CommitIsFinal'
      BY <3>1, <3>4 DEF CommitIsFinal
    <3>10. ReaderIsOpen' /\ CandidateIsOwned'
      BY <2>1, <3>1, <3>3, <3>4 DEF ReaderIsOpen, OpenedReply, CandidateIsOwned
    <3> QED BY <3>6, <3>7, <3>8, <3>9, <3>10
  <2> QED BY <2>2, <2>3
<1>4. CASE ReceiveCommitted
  <2>1. /\ Receive("ReloadCommitted") /\ ReceiveUnchanged /\ UNCHANGED <<manifest, active>>
    BY <1>4 DEF ReceiveCommitted
  <2>2. CASE reload.commit # r.id
    BY <1>4, <2>1, <2>2, Drained, DrainKeeps DEF ReceiveCommitted
  <2>3. CASE reload.commit = r.id
    <3>1. /\ Head(results) = r /\ 1 \in DOMAIN results /\ r.kind = "ReloadCommitted"
          /\ \A i \in DOMAIN results' : i + 1 \in DOMAIN results /\ results'[i] = results[i + 1]
          /\ UNCHANGED <<requests, last_id, worker, reply, reader, candidate, pc>>
          /\ \A i \in DOMAIN requests : r.id < requests[i].id
          /\ results # <<>> /\ pc = "receive"
      BY <2>1, Drained DEF Receive, Received
    <3>2. r.ok /\ r.id > 0
      BY <3>1 DEF CommitsAreAccepted, Accepted
    <3>3. /\ reload'.in_flight = f /\ reload'.commit = reload.commit
          /\ reload'.candidate = reload.candidate /\ reload'.failure = reload.failure
          /\ reload'.committed
      BY <1>4, <2>3, <3>1, <3>2, Facts DEF ReceiveCommitted, Reload
    <3>4. CommitQueued' <=> CommitQueued
      BY <3>1 DEF CommitQueued
    <3>5. /\ StoppedIsEmpty' /\ CommitHasACandidate' /\ QueuedForReload'
          /\ CommitsAreAccepted' /\ CommittedIsTaken' /\ AnsweredIsReceived'
      BY <2>3, <3>1, <3>2, <3>3, <3>4, Facts DEF StoppedIsEmpty, CommitHasACandidate, QueuedForReload,
         CommitsAreAccepted, Accepted, CommittedIsTaken, AnsweredIsReceived, Later
    <3>6. PreparedIsKept'
      BY <3>1, <3>3, <3>4 DEF PreparedIsKept, Prepared, PreparedReply, CandidateIs
    <3>7. CommitIsFinal'
      BY <2>1, <3>1, <3>3 DEF CommitIsFinal, Compatible
    <3>8. ReaderIsOpen' /\ CandidateIsOwned'
      BY <2>1, <3>1, <3>3, <3>4 DEF ReaderIsOpen, OpenedReply, CandidateIsOwned
    <3> QED BY <3>5, <3>6, <3>7, <3>8
  <2> QED BY <2>2, <2>3
<1> QED
  BY <1>1, <1>2, <1>3, <1>4

\* A request that is sent is the last one, under a new id, and the earlier
\* requests are still there.
LEMMA Appended ==
    ASSUME StreamInv,
           NEW kind \in Reads \cup ReloadRequests,
           NEW generation \in Generations \cup {None},
           NEW named \in Nat, NEW about \in Topics \cup {None},
           kind # "DiscardReload" => generation # None,
           kind \in Reads => about # None,
           Sent(kind, generation, named, about)
    PROVE  /\ worker # "stopped" /\ last_id' = last_id + 1
           /\ \E n \in DOMAIN requests' :
                 /\ requests'[n].id = last_id + 1 /\ requests'[n].kind = kind
                 /\ requests'[n].generation = generation
                 /\ requests'[n].reload = named /\ requests'[n].about = about
                 /\ \A i \in DOMAIN requests' :
                       i = n \/ (i \in DOMAIN requests /\ requests'[i] = requests[i])
           /\ \A i \in DOMAIN requests : i \in DOMAIN requests' /\ requests'[i] = requests[i]
<1>1. PICK r \in Request :
         /\ r = [id |-> last_id + 1, kind |-> kind, generation |-> generation,
                 reload |-> named, about |-> about]
         /\ requests' = Append(requests, r)
         /\ last_id' = last_id + 1
         /\ worker # "stopped"
  <2>1. DbTypeOK
    BY Facts
  <2> QED BY <2>1, SentRequest
<1>2. requests \in Seq(Request)
  BY Facts
<1>3. /\ Len(requests) + 1 \in DOMAIN requests'
      /\ requests'[Len(requests) + 1] = r
      /\ \A i \in DOMAIN requests' :
            i = Len(requests) + 1 \/ (i \in DOMAIN requests /\ requests'[i] = requests[i])
      /\ \A i \in DOMAIN requests : i \in DOMAIN requests' /\ requests'[i] = requests[i]
  BY <1>1, <1>2
<1> QED
  BY <1>1, <1>3

\* Asking for the index keeps the invariant.
LEMMA IndexKeeps ==
    ASSUME StreamInv, RequestCellIndex
    PROVE  CommitInv'
<1> USE DEF StreamInv, CommitInv
<1>1. /\ UNCHANGED <<results, workerVars, reload, active, manifest>> /\ pc' = "render"
  BY DEF RequestCellIndex, IndexUnchanged, AtIndex, spaceVars
<1>2. CASE UNCHANGED <<requests, last_id>>
  BY <1>1, <1>2, QuietKeeps DEF SameHandshake
<1>3. CASE Sent("ReadIndex", manifest, 0, [space |-> active, view |-> viewpoint.view])
  <2>1. /\ manifest \in Generations /\ manifest # None
        /\ [space |-> active, view |-> viewpoint.view] \in Topics
        /\ [space |-> active, view |-> viewpoint.view] # None
    <3>1. /\ manifest \in Generations /\ active \in Spaces /\ viewpoint.view \in Views
      BY DEF RequestCellIndex, IndexWanted, ViewpointIsHere, StreamingTypeOK, Windows
    <3> QED BY <3>1, WorldAssumption, NoneIsNoValue, NoneIsNoStreamingRecord DEF Windows
  <2>2. /\ UNCHANGED <<results, worker, reply, reader, candidate>>
    BY <1>1 DEF workerVars
  <2>3. /\ worker # "stopped" /\ last_id' = last_id + 1
        /\ \A i \in DOMAIN requests' :
              \/ i \in DOMAIN requests /\ requests'[i] = requests[i]
              \/ requests'[i].kind = "ReadIndex" /\ requests'[i].id = last_id + 1
        /\ \A i \in DOMAIN requests : i \in DOMAIN requests' /\ requests'[i] = requests[i]
    BY <1>3, <2>1, Appended DEF Reads, LiveReads
  <2>4. CommitQueued' <=> CommitQueued
    BY <2>3 DEF CommitQueued
  <2>5. /\ StoppedIsEmpty' /\ CommitHasACandidate' /\ CommitsAreAccepted' /\ CommittedIsTaken'
    BY <1>1, <2>2, <2>3, <2>4, Facts DEF StoppedIsEmpty, CommitHasACandidate,
       CommitsAreAccepted, Accepted, CommittedIsTaken
  <2>6. QueuedForReload' /\ AnsweredIsReceived'
    <3>1. /\ reload.in_flight # None => reload.in_flight.id < last_id + 1
          /\ reload.committed => reload.commit < last_id + 1
      BY Facts DEF CommitHasACandidate
    <3>2. \A i \in DOMAIN requests : requests[i].reload <= last_id => requests[i].reload <= last_id + 1
      BY Facts
    <3> QED BY <1>1, <2>2, <2>3, <3>1, <3>2 DEF QueuedForReload, AnsweredIsReceived, Later
  <2>7. PreparedIsKept' /\ CommitIsFinal' /\ ReaderIsOpen'
    BY <1>1, <2>2, <2>4 DEF PreparedIsKept, Prepared, PreparedReply, CandidateIs,
       CommitIsFinal, Compatible, ReaderIsOpen, OpenedReply
  <2>8. CandidateIsOwned'
    BY <1>1, <2>2, <2>3 DEF CandidateIsOwned
  <2> QED BY <2>5, <2>6, <2>7, <2>8
<1> QED
  BY <1>2, <1>3 DEF RequestCellIndex

\* Sending the queued reload keeps the invariant: nothing of an earlier one is
\* queued but its discards.
LEMMA StartKeeps ==
    ASSUME StreamInv, RequestReloadSystem, reload.in_flight = None
    PROVE  CommitInv'
<1> USE DEF StreamInv, CommitInv
<1>1. /\ reload.candidate = None /\ reload.commit = 0 /\ ~reload.committed
      /\ UNCHANGED <<results, workerVars, active, manifest>>
  BY Facts DEF CommitHasACandidate, RequestReloadSystem, spaceVars
<1>2. CASE /\ Sent("Reload", reload.queued, 0, None) /\ reload.queued # None
           /\ reload' = [reload EXCEPT
                        !.queued = None,
                        !.in_flight = [id |-> last_id', generation |-> reload.queued],
                        !.candidate = None, !.commit = 0,
                        !.committed = FALSE, !.failure = FALSE]
  <2>1. reload.queued \in Generations
    BY <1>2, Facts DEF Reload
  <2>2. /\ reload'.in_flight # None /\ reload'.in_flight.id = last_id + 1
        /\ reload'.candidate = None /\ reload'.commit = 0
        /\ ~reload'.committed /\ ~reload'.failure
    <3>1. [id |-> last_id + 1, generation |-> reload.queued] # None
      BY <2>1, NoneIsNoRecord, Facts DEF Candidate
    <3>2. reload'.in_flight = [id |-> last_id + 1, generation |-> reload.queued]
      BY <1>2, Facts DEF Reload, Sent
    <3> QED BY <1>2, <3>1, <3>2, Facts DEF Reload
  <2>3. UNCHANGED <<results, worker, reply, reader, candidate>>
    BY <1>1 DEF workerVars
  <2>4. /\ worker # "stopped" /\ last_id' = last_id + 1
        /\ \A i \in DOMAIN requests' :
              \/ i \in DOMAIN requests /\ requests'[i] = requests[i]
              \/ requests'[i].kind = "Reload" /\ requests'[i].id = last_id + 1
        /\ \A i \in DOMAIN requests : i \in DOMAIN requests' /\ requests'[i] = requests[i]
    BY <1>2, <2>1, Appended DEF ReloadRequests, Reads, LiveReads
  <2>5. CommitQueued' <=> CommitQueued
    BY <2>4 DEF CommitQueued
  <2>6. \A i \in DOMAIN requests : requests[i].reload <= last_id =>
           requests[i].reload <= last_id + 1 /\ requests[i].reload # last_id + 1
    BY Facts
  <2>7. QueuedForReload'
    BY <1>1, <2>2, <2>4, <2>6 DEF QueuedForReload
  <2>8. \A i \in DOMAIN results : results[i].id # last_id + 1
    BY Facts DEF InOrder
  <2>9. reply # None => reply.id # last_id + 1
    BY Facts DEF InOrder
  <2>10. ~Prepared'
    BY <2>2, <2>3, <2>8, <2>9 DEF Prepared, PreparedReply
  <2>11. /\ StoppedIsEmpty' /\ CommitHasACandidate' /\ CommitsAreAccepted' /\ CommittedIsTaken'
         /\ AnsweredIsReceived' /\ PreparedIsKept' /\ CommitIsFinal'
    BY <2>2, <2>3, <2>4, <2>10 DEF StoppedIsEmpty, CommitHasACandidate,
       CommitsAreAccepted, Accepted, CommittedIsTaken, AnsweredIsReceived,
       PreparedIsKept, CommitIsFinal
  <2>12. ReaderIsOpen'
    BY <1>1, <2>2, <2>3 DEF ReaderIsOpen, OpenedReply
  <2>13. CandidateIsOwned'
    BY <2>3, <2>4 DEF CandidateIsOwned
  <2> QED BY <2>7, <2>11, <2>12, <2>13
<1> DEFINE failure == \/ reload.failure
                      \/ reload.candidate # None /\ ~Compatible(reload.candidate)
           checked == [reload EXCEPT !.failure = failure]
<1>3. failure = reload.failure
  BY <1>1, Facts DEF Reload
<1> HIDE DEF failure
<1>4. CASE /\ UNCHANGED <<requests, last_id>>
           /\ \/ reload' = checked
              \/ reload' = [checked EXCEPT
                        !.queued = None,
                        !.completion = [ok |-> FALSE, generation |-> None]]
  <2>1. SameHandshake
    BY <1>3, <1>4, Facts DEF SameHandshake, Reload
  <2> QED BY <1>1, <1>4, <2>1, QuietKeeps
<1> QED
  BY <1>2, <1>4 DEF RequestReloadSystem, failure

\* The check of the candidate, every frame, keeps the invariant: a commit that
\* was sent still finds it compatible.
LEMMA CheckKeeps ==
    ASSUME StreamInv, RequestReloadSystem, reload.in_flight # None
    PROVE  CommitInv'
<1> USE DEF StreamInv, CommitInv
<1> DEFINE failure == \/ reload.failure
                      \/ reload.candidate # None /\ ~Compatible(reload.candidate)
<1>1. failure \in BOOLEAN
  BY Facts DEF Reload
<1>2. /\ reload' = [reload EXCEPT !.failure = failure]
      /\ UNCHANGED <<requests, results, last_id, workerVars, active, manifest>>
  BY DEF RequestReloadSystem, spaceVars
<1>3. failure => reload.candidate # None \/ reload.failure
  OBVIOUS
<1>4. reload.candidate # None /\ ~failure => Compatible(reload.candidate)
  OBVIOUS
<1>5. reload.commit # 0 => (failure => reload.failure)
  BY DEF CommitIsFinal
<1> HIDE DEF failure
<1>6. /\ UNCHANGED <<requests, results, last_id, worker, reply, reader, candidate, manifest>>
      /\ reload'.in_flight = reload.in_flight /\ reload'.candidate = reload.candidate
      /\ reload'.commit = reload.commit /\ reload'.committed = reload.committed
      /\ reload'.failure = failure
  BY <1>1, <1>2, Facts DEF Reload, workerVars
<1>7. CommitQueued' <=> CommitQueued
  BY <1>6 DEF CommitQueued
<1>8. /\ StoppedIsEmpty' /\ CommitHasACandidate' /\ QueuedForReload'
      /\ CommitsAreAccepted' /\ CommittedIsTaken'
  BY <1>6, <1>7 DEF StoppedIsEmpty, CommitHasACandidate, QueuedForReload,
     CommitsAreAccepted, Accepted, CommittedIsTaken
<1>9. AnsweredIsReceived'
  BY <1>3, <1>6 DEF AnsweredIsReceived, Later
<1>10. PreparedIsKept'
  BY <1>6, <1>7 DEF PreparedIsKept, Prepared, PreparedReply, CandidateIs
<1>11. CommitIsFinal'
  BY <1>2, <1>4, <1>5, <1>6 DEF CommitIsFinal, Compatible
<1>12. ReaderIsOpen' /\ CandidateIsOwned'
  BY <1>6, <1>7 DEF ReaderIsOpen, OpenedReply, CandidateIsOwned
<1> QED
  BY <1>8, <1>9, <1>10, <1>11, <1>12

\* A disconnected worker fails the reload in flight: nothing is on its way.
LEMMA DisconnectedKeeps ==
    ASSUME StreamInv, ReceiveDisconnected
    PROVE  CommitInv'
<1> USE DEF StreamInv, CommitInv
<1>1. /\ worker = "stopped" /\ requests = <<>> /\ results = <<>> /\ reply = None
      /\ candidate = None
      /\ UNCHANGED <<requests, results, last_id, worker, reply, reader, candidate,
                     active, manifest>>
      /\ pc' = "request_reload"
      /\ reload'.in_flight = reload.in_flight /\ reload'.candidate = reload.candidate
      /\ reload'.commit = reload.commit /\ reload'.committed = reload.committed
  BY Facts DEF ReceiveDisconnected, Disconnected, StoppedIsEmpty, dbVars, spaceVars, Reload
<1>2. CommitHasACandidate' /\ QueuedForReload' /\ AnsweredIsReceived' /\ CommitIsFinal'
  BY <1>1 DEF CommitHasACandidate, QueuedForReload, AnsweredIsReceived, Later, CommitIsFinal,
     Compatible
<1>3. /\ StoppedIsEmpty' /\ CommitsAreAccepted' /\ PreparedIsKept' /\ CommittedIsTaken'
      /\ ReaderIsOpen' /\ CandidateIsOwned'
  BY <1>1 DEF StoppedIsEmpty, CommitsAreAccepted, PreparedIsKept, CommittedIsTaken,
     ReaderIsOpen, CandidateIsOwned
<1> QED
  BY <1>2, <1>3

\* Sending the commit keeps the invariant: the candidate passed the check of
\* this frame.
LEMMA CommitKeeps ==
    ASSUME StreamInv, CommitReload
    PROVE  CommitInv'
<1> USE DEF StreamInv, CommitInv
<1> DEFINE f == reload.in_flight
<1>1. /\ UNCHANGED <<results, worker, reply, reader, candidate, workerVars, active, manifest>>
      /\ pc = "advance_reload" /\ pc' = "transition"
      /\ f # None /\ ~reload.failure /\ reload.candidate # None
      /\ reload.commit = 0 /\ ~reload.committed
  BY DEF CommitReload, AtAdvance, workerVars, spaceVars, CommitHasACandidate
<1>2. CASE UNCHANGED <<requests, last_id, reload>>
  BY <1>1, <1>2, QuietKeeps DEF SameHandshake
<1>3. CASE /\ Sent("CommitReload", f.generation, f.id, None)
           /\ reload' = [reload EXCEPT !.commit = last_id']
  <2>1. f.generation \in Generations /\ f.generation # None /\ f.id \in Nat /\ f.id <= last_id
    BY <1>1, NoneIsNoValue, Facts
  <2>2. /\ worker # "stopped" /\ last_id' = last_id + 1
        /\ \E n \in DOMAIN requests' : requests'[n].kind = "CommitReload"
        /\ \A i \in DOMAIN requests' :
              \/ i \in DOMAIN requests /\ requests'[i] = requests[i]
              \/ /\ requests'[i].kind = "CommitReload" /\ requests'[i].id = last_id + 1
                 /\ requests'[i].reload = f.id /\ requests'[i].generation = f.generation
        /\ \A i \in DOMAIN requests : i \in DOMAIN requests' /\ requests'[i] = requests[i]
    BY <1>3, <2>1, Appended DEF ReloadRequests, Reads, LiveReads
  <2>3. /\ reload'.in_flight = f /\ reload'.candidate = reload.candidate
        /\ reload'.commit = last_id + 1 /\ last_id + 1 # 0
        /\ ~reload'.committed /\ ~reload'.failure
    BY <1>1, <1>3, <2>2, Facts DEF Reload
  <2>4. CommitQueued'
    BY <2>2 DEF CommitQueued
  <2>5. /\ StoppedIsEmpty' /\ CommitHasACandidate' /\ CommitsAreAccepted' /\ CommittedIsTaken'
    BY <1>1, <2>2, <2>3, <2>4, Facts DEF StoppedIsEmpty, CommitHasACandidate,
       CommitsAreAccepted, Accepted, CommittedIsTaken
  <2>6. QueuedForReload'
    <3>1. \A i \in DOMAIN requests : requests[i].kind # "CommitReload"
      BY <1>1 DEF QueuedForReload
    <3>2. \A i \in DOMAIN requests : requests[i].reload <= last_id => requests[i].reload <= last_id + 1
      BY Facts
    <3> QED BY <1>1, <2>2, <2>3, <3>1, <3>2 DEF QueuedForReload
  <2>7. AnsweredIsReceived'
    <3>1. f.id < last_id + 1
      BY <2>1, Facts
    <3> QED BY <1>1, <2>2, <2>3, <3>1 DEF AnsweredIsReceived, Later
  <2>8. PreparedIsKept'
    <3>1. CandidateIs(f.id, f.generation)
      BY <1>1, <2>2 DEF PreparedIsKept, Prepared
    <3> QED BY <1>1, <2>3, <3>1 DEF PreparedIsKept, CandidateIs
  <2>9. CommitIsFinal'
    BY <1>1, <2>3 DEF CommitIsFinal, Compatible
  <2>10. ReaderIsOpen'
    BY <1>1, <2>3, <2>4 DEF ReaderIsOpen, OpenedReply
  <2>11. CandidateIsOwned'
    BY <1>1, <2>2, <2>3 DEF CandidateIsOwned
  <2> QED BY <2>5, <2>6, <2>7, <2>8, <2>9, <2>10, <2>11
<1>4. CASE /\ NotSentStopped /\ reload' = [reload EXCEPT !.failure = TRUE]
           /\ UNCHANGED <<requests, last_id>>
  <2>1. worker = "stopped" /\ requests = <<>> /\ candidate = None /\ reply = None
    BY <1>4, Facts DEF NotSentStopped, StoppedIsEmpty
  <2>2. /\ reload'.in_flight = f /\ reload'.candidate = reload.candidate
        /\ reload'.commit = 0 /\ ~reload'.committed
    BY <1>1, <1>4, Facts DEF Reload
  <2>3. CommitHasACandidate' /\ QueuedForReload' /\ CommitIsFinal'
    BY <1>1, <1>4, <2>1, <2>2 DEF CommitHasACandidate, QueuedForReload, CommitIsFinal
  <2>4. AnsweredIsReceived'
    BY <1>1, <1>4, <2>2 DEF AnsweredIsReceived, Later
  <2>5. /\ StoppedIsEmpty' /\ CommitsAreAccepted' /\ PreparedIsKept' /\ CommittedIsTaken'
        /\ ReaderIsOpen' /\ CandidateIsOwned'
    BY <1>1, <1>4, <2>1, <2>2 DEF StoppedIsEmpty, CommitsAreAccepted, Accepted, PreparedIsKept,
       CommittedIsTaken, ReaderIsOpen, CandidateIsOwned
  <2> QED BY <2>3, <2>4, <2>5
<1> QED
  BY <1>2, <1>3, <1>4 DEF CommitReload

\* A reload that ends leaves nothing of its own queued: it was answered or the
\* worker has died, and its commit, if it was sent, is taken.
LEMMA NothingQueuedAtTheEnd ==
    ASSUME StreamInv, reload.in_flight # None,
           reload.failure \/ reload.committed
    PROVE  /\ \A i \in DOMAIN requests :
                 requests[i].kind # "Reload" /\ requests[i].kind # "CommitReload"
           /\ reload.failure /\ reload.commit # 0 => worker = "stopped"
<1> USE DEF StreamInv, CommitInv
<1>1. reload.committed => reload.commit # 0 /\ reload.candidate # None
  BY DEF CommitHasACandidate
<1>2. \A i \in DOMAIN requests : requests[i].kind # "Reload"
  BY <1>1, Facts DEF AnsweredIsReceived, Later, QueuedForReload
<1>3. reload.failure /\ reload.commit # 0 => worker = "stopped"
  BY DEF CommitIsFinal
<1>4. \A i \in DOMAIN requests : requests[i].kind # "CommitReload"
  BY <1>1, <1>3, Facts DEF AnsweredIsReceived, QueuedForReload, StoppedIsEmpty
<1> QED
  BY <1>2, <1>3, <1>4

\* A failed reload that ends keeps the invariant: its candidate is now the
\* queued discard's.
LEMMA DiscardKeeps ==
    ASSUME StreamInv, DiscardReload
    PROVE  CommitInv'
<1> USE DEF StreamInv, CommitInv
<1> DEFINE f == reload.in_flight
<1>1. /\ UNCHANGED <<results, worker, reply, reader, candidate, workerVars, active, manifest>>
      /\ pc = "advance_reload" /\ pc' = "transition"
      /\ f # None /\ reload.failure
  BY DEF DiscardReload, AtAdvance, workerVars, spaceVars
<1>2. CASE UNCHANGED <<requests, last_id, reload>>
  BY <1>1, <1>2, QuietKeeps DEF SameHandshake
<1>3. CASE DiscardQueued /\ reload' = Ended([ok |-> FALSE, generation |-> None])
  <2>1. /\ reload'.in_flight = None /\ reload'.candidate = None
        /\ reload'.commit = 0 /\ ~reload'.committed /\ ~reload'.failure
    BY <1>3 DEF Ended, NoReload
  <2>2. /\ \A i \in DOMAIN requests :
              requests[i].kind # "Reload" /\ requests[i].kind # "CommitReload"
        /\ reload.commit # 0 => worker = "stopped"
    BY <1>1, NothingQueuedAtTheEnd
  <2>3. f.id \in Nat /\ f.id <= last_id
    BY <1>1, Facts
  <2>4. \/ worker = "stopped" /\ UNCHANGED <<requests, last_id>>
        \/ /\ worker # "stopped" /\ last_id' = last_id + 1
           /\ \E n \in DOMAIN requests' :
                 requests'[n].kind = "DiscardReload" /\ requests'[n].reload = f.id
           /\ \A i \in DOMAIN requests' :
                 \/ i \in DOMAIN requests /\ requests'[i] = requests[i]
                 \/ requests'[i].kind = "DiscardReload" /\ requests'[i].reload = f.id
           /\ \A i \in DOMAIN requests : i \in DOMAIN requests' /\ requests'[i] = requests[i]
    <3>1. CASE Sent("DiscardReload", None, f.id, None)
      BY <2>3, <3>1, Appended DEF ReloadRequests, Reads, LiveReads
    <3>2. CASE NotSentStopped /\ UNCHANGED <<requests, last_id>>
      BY <3>2 DEF NotSentStopped
    <3> QED BY <1>3, <3>1, <3>2 DEF DiscardQueued
  <2>5. ~CommitQueued' /\ ~CommitQueued
    BY <2>2, <2>4 DEF CommitQueued
  <2>6. QueuedForReload'
    <3>1. f.id <= last_id + 1
      BY <2>3, Facts
    <3>2. \A i \in DOMAIN requests : requests[i].reload <= last_id => requests[i].reload <= last_id + 1
      BY Facts
    <3> QED BY <2>1, <2>2, <2>3, <2>4, <3>1, <3>2 DEF QueuedForReload
  <2>7. StoppedIsEmpty'
    BY <1>1, <2>4 DEF StoppedIsEmpty
  <2>8. ~Prepared'
    BY <2>1 DEF Prepared, PreparedReply
  <2>9. /\ CommitHasACandidate' /\ AnsweredIsReceived' /\ CommitsAreAccepted'
        /\ PreparedIsKept' /\ CommittedIsTaken' /\ CommitIsFinal'
    BY <1>1, <2>1, <2>8 DEF CommitHasACandidate, AnsweredIsReceived, CommitsAreAccepted, Accepted,
       PreparedIsKept, CommittedIsTaken, CommitIsFinal
  <2>10. ReaderIsOpen'
    BY <1>1, <2>1, <2>2 DEF ReaderIsOpen, OpenedReply
  <2>11. CandidateIsOwned'
    <3>1. CASE worker = "stopped"
      BY <1>1, <3>1 DEF StoppedIsEmpty, CandidateIsOwned
    <3>2. CASE worker # "stopped"
      BY <1>1, <2>4, <3>2 DEF CandidateIsOwned
    <3> QED BY <3>1, <3>2
  <2> QED BY <2>6, <2>7, <2>9, <2>10, <2>11
<1> QED
  BY <1>2, <1>3 DEF DiscardReload, DiscardNotQueued

\* Adopting the generation keeps the invariant: the reader is already there,
\* and the worker holds no candidate.
LEMMA AdoptKeeps ==
    ASSUME StreamInv, AdoptGeneration
    PROVE  CommitInv'
<1> USE DEF StreamInv, CommitInv
<1>1. /\ UNCHANGED <<requests, results, last_id, worker, reply, reader, candidate>>
      /\ pc' = "transition"
      /\ reload.in_flight # None /\ reload.candidate # None
      /\ reload.commit # 0 /\ reload.committed /\ ~reload.failure
      /\ manifest' = reload.in_flight.generation
  BY Facts DEF AdoptGeneration, AdoptManifest, AtAdvance, dbVars
<1>2. /\ reload'.in_flight = None /\ reload'.candidate = None
      /\ reload'.commit = 0 /\ ~reload'.committed /\ ~reload'.failure
  BY DEF AdoptGeneration, Ended, NoReload
<1>3. \A i \in DOMAIN requests :
         requests[i].kind # "Reload" /\ requests[i].kind # "CommitReload"
  BY <1>1, NothingQueuedAtTheEnd
<1>4. ~CommitQueued' /\ ~CommitQueued
  BY <1>1, <1>3 DEF CommitQueued
<1>5. ~OpenPending
  BY <1>1, NoCandidateBeforeOpening
<1>6. ~Prepared'
  BY <1>2 DEF Prepared, PreparedReply
<1>7. /\ StoppedIsEmpty' /\ CommitHasACandidate' /\ AnsweredIsReceived' /\ CommitsAreAccepted'
      /\ PreparedIsKept' /\ CommittedIsTaken' /\ CommitIsFinal'
  BY <1>1, <1>2, <1>6 DEF StoppedIsEmpty, CommitHasACandidate, AnsweredIsReceived,
     CommitsAreAccepted, Accepted, PreparedIsKept, CommittedIsTaken, CommitIsFinal
<1>8. QueuedForReload'
  BY <1>1, <1>2, <1>3 DEF QueuedForReload
<1>9. ReaderIsOpen'
  <2>1. worker # "stopped" => reader = reload.in_flight.generation
    BY <1>1, <1>4 DEF ReaderIsOpen
  <2> QED BY <1>1, <1>2, <1>5, <2>1 DEF ReaderIsOpen, OpenedReply, OpenPending
<1>10. CandidateIsOwned'
  BY <1>1, <1>4 DEF CommittedIsTaken, CandidateIsOwned
<1> QED
  BY <1>7, <1>8, <1>9, <1>10

\* Every step keeps the invariant.
LEMMA CommitInvStep ==
    ASSUME StreamInv, [Next]_vars
    PROVE  CommitInv'
<1>1. CASE ReceiveOpened \/ ReceiveReloaded \/ ReceiveCommitted \/ ReceiveIndex
  BY <1>1, ReceiveSteps
<1>2. CASE ReceiveDisconnected
  BY <1>2, DisconnectedKeeps
<1>3. CASE RequestReloadSystem
  BY <1>3, StartKeeps, CheckKeeps
<1>4. CASE DiscardReload \/ CommitReload \/ AdoptGeneration
  BY <1>4, DiscardKeeps, CommitKeeps, AdoptKeeps
<1>5. CASE RequestCellIndex
  BY <1>5, IndexKeeps
<1>6. CASE WorkerStep \/ WorkerPanics
  <2>1. Serve => WorkerStep
    BY <1>6 DEF WorkerPanics, WorkerStep, Worker
  <2> QED BY <1>6, <2>1, ThreadStep, ServeStep
<1>7. CASE TransitionTaken
  <2>1. reload.candidate = None
    BY <1>7, Facts DEF TransitionTaken, TransitionDue, ReloadActive
  <2>2. UNCHANGED <<requests, results, last_id, workerVars, manifest, reload>>
    BY <1>7 DEF TransitionTaken, dbVars, workerVars
  <2> QED BY <2>1, <2>2, QuietKeeps DEF SameHandshake
<1>8. CASE TakeCompletion \/ \E g \in Generations : RequestReload(g)
  <2>1. SameHandshake /\ pc' = pc
    BY <1>8, Facts DEF TakeCompletion, RequestReload, SameHandshake, Reload
  <2>2. UNCHANGED <<requests, results, last_id, workerVars, manifest, active>>
    BY <1>8 DEF TakeCompletion, RequestReload, dbVars, workerVars, spaceVars
  <2> QED BY <2>1, <2>2, QuietKeeps
<1>9. CASE StartFrame \/ ReceiveNothing \/ AwaitReload \/ TransitionWaits \/ EndFrame
  <2>1. /\ UNCHANGED <<requests, results, last_id, workerVars, manifest, active, reload>>
        /\ pc' # "advance_reload"
    BY <1>9 DEF StartFrame, ReceiveNothing, AwaitReload, AtAdvance, TransitionWaits,
       AtTransition, EndFrame, dbVars, coreVars, workerVars, spaceVars
  <2> QED BY <2>1, QuietKeeps DEF SameHandshake
<1>10. CASE SyncFocus \/ UpdateOrigin \/ IndexNotWanted
  <2>1. /\ UNCHANGED <<requests, results, last_id, workerVars, manifest, active, reload>>
        /\ pc' # "advance_reload"
    BY <1>10 DEF SyncFocus, UpdateOrigin, IndexNotWanted, AtIndex, IndexUnchanged,
       dbVars, workerVars, spaceVars
  <2> QED BY <2>1, QuietKeeps DEF SameHandshake
<1>11. CASE \/ \E t \in Transition : RequestSpace(t)
            \/ \E g \in Generations : PublishFile(g)
            \/ UNCHANGED vars
  <2>1. UNCHANGED <<requests, results, last_id, workerVars, manifest, active, reload, pc>>
    BY <1>11 DEF RequestSpace, PublishFile, Publish, vars, dbVars, coreVars, workerVars, spaceVars
  <2> QED BY <2>1, QuietKeeps DEF SameHandshake
<1> QED
  BY <1>1, <1>2, <1>3, <1>4, <1>5, <1>6, <1>7, <1>8, <1>9, <1>10, <1>11 DEF Next, Main

\* Every step keeps the whole invariant.
LEMMA StreamInvStep == StreamInv /\ [Next]_vars => StreamInv'
<1> SUFFICES ASSUME StreamInv, [Next]_vars PROVE StreamInv'
  OBVIOUS
<1>1. StreamingTypeOK' /\ HandshakeInv'
  BY NextTyped, ReloadIdsStep, OneReloadStep, OpensFirstStep DEF StreamInv, HandshakeInv
<1>2. InOrder'
  BY ChannelSteps, InOrderStep DEF StreamInv, StreamingTypeOK, WorkerStep, WorkerPanics
<1> QED
  BY <1>1, <1>2, CommitInvStep DEF StreamInv

LEMMA StreamInvInit == Init => StreamInv
<1> SUFFICES ASSUME Init PROVE StreamInv
  OBVIOUS
<1>1. StreamingTypeOK /\ HandshakeInv /\ InOrder
  BY InitTyped, HandshakeInit, InOrderInit DEF Init
<1>2. CommitInv
  BY DEF Init, DbInit, NoReload, CommitInv, StoppedIsEmpty, CommitHasACandidate,
     QueuedForReload, AnsweredIsReceived, CommitsAreAccepted, Accepted, PreparedIsKept, Prepared,
     CommittedIsTaken, CommitIsFinal, ReaderIsOpen, CandidateIsOwned, CommitQueued
<1> QED
  BY <1>1, <1>2 DEF StreamInv

-----------------------------------------------------------------------------
(* The theorems about the commit.                                          *)

\* The invariant of the two-phase reload, with the typing, the order of the
\* channels and the handshake inductive.
THEOREM TwoPhase == Spec => []StreamInv
<1> QED
  BY StreamInvInit, StreamInvStep, PTL DEF Spec

\* A reply on its way is in the channel or being sent.
LEMMA RepliesElements ==
    ASSUME DbTypeOK, NEW i \in DOMAIN Replies
    PROVE  \/ i \in DOMAIN results /\ Replies[i] = results[i]
           \/ reply # None /\ Replies[i] = reply
<1>1. results \in Seq(Result) /\ reply \in Result \cup {None}
  BY DEF DbTypeOK
<1>2. CASE reply = None
  BY <1>1, <1>2, JoinedElements DEF Replies
<1>3. CASE reply # None
  BY <1>1, <1>3, JoinedElements DEF Replies
<1> QED
  BY <1>2, <1>3

\* No commit is ever refused: when the worker takes it, the candidate it names
\* is the prepared one, whatever reloads failed and were discarded before it.
THEOREM NoRefusedCommit == Spec => []CommitIsNeverRefused
<1>1. StreamInv => CommitIsNeverRefused
  BY RepliesElements, Facts
  DEF CommitIsNeverRefused, StreamInv, CommitInv, CommitsAreAccepted, Accepted
<1> QED
  BY <1>1, TwoPhase, PTL

\* The worker's reader is the open generation's, or the adopted one's from its
\* commit to its adoption: no read of the running world is ever stale.
THEOREM ReaderFollows == Spec => []ReaderFollowsManifest
<1>1. StreamInv => ReaderFollowsManifest
  BY DEF ReaderFollowsManifest, StreamInv, CommitInv, ReaderIsOpen
<1> QED
  BY <1>1, TwoPhase, PTL

\* No prepared reader is leaked: it is the reload's in flight or its discard is
\* queued.
THEOREM NoLeakedCandidate == Spec => []CandidateIsOwned
<1>1. StreamInv => CandidateIsOwned
  BY DEF StreamInv, CommitInv
<1> QED
  BY <1>1, TwoPhase, PTL

-----------------------------------------------------------------------------
(* The spaces.                                                             *)

\* Before a world is open there is no space; from then on the active space is
\* one of the open generation, and the viewpoint and the origin are in it,
\* between any two systems of the frame.
SpaceInv ==
    \/ active = None /\ viewpoint = None /\ origin = None /\ manifest = None
    \/ /\ manifest # None /\ active # None /\ viewpoint # None
       /\ active \in SpacesOf[manifest]
       /\ viewpoint.space = active /\ origin = active

\* No step leaves one of the three behind.
LEMMA SpaceInvStep ==
    ASSUME StreamInv, SpaceInv, [Next]_vars
    PROVE  SpaceInv'
<1> USE DEF SpaceInv
<1>1. StreamingTypeOK
  BY DEF StreamInv
<1>2. CASE ReceiveOpened
  <2> DEFINE r == Head(results)
  <2>1. Receive("Opened") /\ ReceiveUnchanged
    BY <1>2 DEF ReceiveOpened
  <2>2. r = results[1] /\ 1 \in DOMAIN results /\ r.kind = "Opened" /\ r \in Result
    BY <2>1, Drained
  <2>3. manifest = None
    BY <2>2, NoCandidateBeforeOpening DEF OpenPending
  <2>4. CASE r.ok
    <3>1. r.generation \in Generations
      BY <2>2, <2>4 DEF Result
    <3>2. DefaultSpace[r.generation] \in SpacesOf[r.generation]
          /\ DefaultSpace[r.generation] \in Spaces
      BY <3>1, WorldAssumption
    <3>3. /\ active' = DefaultSpace[r.generation] /\ origin' = DefaultSpace[r.generation]
          /\ manifest' = r.generation
          /\ \E v \in Views : viewpoint' = [space |-> DefaultSpace[r.generation], view |-> v]
      BY <1>2, <2>3, <2>4 DEF ReceiveOpened
    <3>4. viewpoint' # None /\ viewpoint'.space = DefaultSpace[r.generation]
      BY <3>2, <3>3, NoneIsNoStreamingRecord DEF Windows
    <3> QED BY <3>1, <3>2, <3>3, <3>4, NoneIsNoValue, WorldAssumption
  <2>5. CASE ~r.ok
    BY <1>2, <2>5 DEF ReceiveOpened
  <2> QED BY <2>4, <2>5
<1>3. CASE AdoptGeneration
  <2> DEFINE g == reload.candidate
             space == IF active \in SpacesOf[g] THEN active ELSE DefaultSpace[g]
  <2>1. g \in Generations
    BY <1>3, Facts DEF AdoptGeneration
  <2>2. space \in SpacesOf[g] /\ space \in Spaces
    BY <2>1, WorldAssumption
  <2>3. AdoptManifest(g)
    BY <1>3 DEF AdoptGeneration
  <2>4. active' = space /\ origin' = space /\ manifest' = g
    BY <2>3 DEF AdoptManifest, AdoptSpace
  <2>5. viewpoint' # None /\ viewpoint'.space = space
    <3>1. CASE viewpoint # None /\ viewpoint.space = space
      BY <2>3, <3>1 DEF AdoptManifest, AdoptSpace
    <3>2. CASE \E v \in Views : viewpoint' = [space |-> space, view |-> v]
      BY <2>2, <3>2, NoneIsNoStreamingRecord DEF Windows
    <3> QED BY <2>3, <3>1, <3>2 DEF AdoptManifest, AdoptSpace
  <2> QED BY <2>1, <2>2, <2>4, <2>5, NoneIsNoValue, WorldAssumption
<1>4. CASE TransitionTaken
  <2>1. CASE UNCHANGED <<active, viewpoint, origin, manifest>>
    BY <2>1
  <2>2. CASE /\ transition # None /\ transition.view # None
             /\ InManifest(transition.space)
             /\ EnterSpace(transition.space, transition.view)
             /\ UNCHANGED manifest
    <3>1. transition.space \in Spaces /\ transition.view \in Views
      BY <1>1, <2>2 DEF StreamingTypeOK, Transition
    <3>2. [space |-> transition.space, view |-> transition.view] # None
      BY <3>1, NoneIsNoStreamingRecord DEF Windows
    <3>3. /\ manifest' # None /\ transition.space \in SpacesOf[manifest']
          /\ active' = transition.space /\ transition.space # None
          /\ viewpoint' = [space |-> transition.space, view |-> transition.view]
      BY <2>2, <3>1, WorldAssumption DEF InManifest, EnterSpace
    <3>4. origin' = transition.space
      BY <2>2 DEF InManifest, EnterSpace
    <3> QED BY <3>2, <3>3, <3>4
  <2> QED BY <1>4, <2>1, <2>2 DEF TransitionTaken, TransitionDue
<1>5. CASE SyncFocus
  <2>1. CASE UNCHANGED viewpoint
    BY <1>5, <2>1 DEF SyncFocus
  <2>2. CASE active # None /\ \E v \in Views : viewpoint' = [space |-> active, view |-> v]
    <3>1. active \in Spaces
      BY <1>1, <2>2 DEF StreamingTypeOK
    <3>2. viewpoint' # None /\ viewpoint'.space = active
      BY <2>2, <3>1, NoneIsNoStreamingRecord DEF Windows
    <3> QED BY <1>5, <2>2, <3>2 DEF SyncFocus
  <2> QED BY <1>5, <2>1, <2>2 DEF SyncFocus
<1>6. CASE UpdateOrigin
  BY <1>6 DEF UpdateOrigin
<1>7. CASE UNCHANGED <<active, viewpoint, origin, manifest>>
  BY <1>7
<1>8. CASE ReceiveReloaded \/ ReceiveCommitted \/ ReceiveIndex \/ ReceiveDisconnected
  BY <1>7, <1>8 DEF ReceiveReloaded, ReceiveCommitted, ReceiveIndex, ReceiveDisconnected,
     spaceVars
<1>9. CASE RequestReloadSystem \/ DiscardReload \/ CommitReload
  BY <1>7, <1>9 DEF RequestReloadSystem, DiscardReload, CommitReload, spaceVars
<1>10. CASE StartFrame \/ ReceiveNothing \/ AwaitReload \/ TransitionWaits \/ EndFrame
  BY <1>7, <1>10 DEF StartFrame, ReceiveNothing, AwaitReload, TransitionWaits, EndFrame,
     coreVars, spaceVars
<1>11. CASE IndexNotWanted \/ RequestCellIndex
  BY <1>7, <1>11 DEF IndexNotWanted, RequestCellIndex, IndexUnchanged, spaceVars
<1>12. CASE \/ TakeCompletion \/ \E g \in Generations : RequestReload(g)
            \/ \E t \in Transition : RequestSpace(t)
  BY <1>7, <1>12 DEF TakeCompletion, RequestReload, RequestSpace, spaceVars
<1>13. CASE \/ WorkerStep \/ WorkerPanics \/ \E g \in Generations : PublishFile(g)
            \/ UNCHANGED vars
  BY <1>7, <1>13 DEF WorkerStep, WorkerPanics, PublishFile, vars, coreVars, spaceVars
<1> QED
  BY <1>2, <1>3, <1>4, <1>5, <1>6, <1>8, <1>9, <1>10, <1>11, <1>12, <1>13 DEF Next, Main

\* The open generation always has the active space, with the viewpoint and the
\* render origin in it: no generation, transition or focus leaves one behind.
THEOREM Together == Spec => []OneSpace
<1>1. Init => StreamInv /\ SpaceInv
  BY StreamInvInit DEF Init, SpaceInv
<1>2. StreamInv /\ SpaceInv /\ [Next]_vars => StreamInv' /\ SpaceInv'
  BY StreamInvStep, SpaceInvStep
<1>3. SpaceInv => OneSpace
  BY DEF SpaceInv, OneSpace, InManifest
<1> QED
  BY <1>1, <1>2, <1>3, PTL DEF Spec

-----------------------------------------------------------------------------
(* The index.                                                              *)

\* What is on its way under the id of the awaited index request is about its
\* space, and read from the open generation if from any.
OfAwaitedIndex(m) ==
    requested_index # None /\ m.kind = "ReadIndex" /\ m.id = requested_index.id =>
        /\ m.about.space = requested_index.space
        /\ m.generation \in {manifest, None}

IndexInv ==
    /\ requested_index # None => requested_index.id <= last_id /\ manifest # None
    /\ \A i \in DOMAIN requests : OfAwaitedIndex(requests[i])
    /\ \A i \in DOMAIN results : OfAwaitedIndex(results[i])
    /\ reply # None => OfAwaitedIndex(reply)
    /\ IndexIsCurrent

\* The index's own state, as far as the worker is concerned.
IndexSame == UNCHANGED <<requested_index, manifest, descriptors, active>>

\* What is on its way stays the awaited index while nothing else of it changes.
LEMMA IndexOnItsWay ==
    ASSUME StreamInv, IndexInv, [Next]_vars, IndexSame, ~RequestCellIndex
    PROVE  IndexInv'
<1> USE DEF IndexInv, IndexSame, StreamInv
<1>1. /\ requests \in Seq(Request) /\ results \in Seq(Result) /\ last_id \in Nat
      /\ reply \in Result \cup {None}
      /\ requested_index # None => requested_index.id \in Nat
  BY Facts DEF StreamingTypeOK, IndexRequest
<1>2. IndexIsCurrent'
  BY DEF IndexIsCurrent
<1>3. CASE SendStep /\ UNCHANGED <<results, workerVars>>
  <2>1. PICK kind \in Reads \cup ReloadRequests, generation \in Generations \cup {None},
             named \in Nat, about \in Topics \cup {None} :
             /\ Sent(kind, generation, named, about)
             /\ kind # "DiscardReload" => generation # None
             /\ kind \in Reads => about # None
    BY <1>3 DEF SendStep
  <2>2. /\ last_id' = last_id + 1
        /\ \A i \in DOMAIN requests' :
              \/ i \in DOMAIN requests /\ requests'[i] = requests[i]
              \/ requests'[i].id = last_id + 1
    BY <2>1, Appended
  <2>3. requested_index # None =>
          requested_index.id # last_id + 1 /\ requested_index.id <= last_id + 1
    BY <1>1
  <2> QED BY <1>2, <1>3, <2>2, <2>3 DEF OfAwaitedIndex, workerVars
<1>4. CASE ReceiveStep
  <2>1. /\ results # <<>> /\ results' = Tail(results)
        /\ UNCHANGED <<requests, last_id, reply>>
    BY <1>4 DEF ReceiveStep, Received, workerVars
  <2>2. \A i \in DOMAIN results' : i + 1 \in DOMAIN results /\ results'[i] = results[i + 1]
    BY <1>1, <2>1, TailElements
  <2> QED BY <1>2, <2>1, <2>2 DEF OfAwaitedIndex
<1>5. CASE WorkerStep \/ WorkerPanics
  <2>1. last_id' = last_id /\ DbTypeOK
    BY <1>5, WorkerSteps, Facts DEF WorkerStep, WorkerPanics
  <2>2. CASE Open
    <3>1. reply'.kind = "Opened" /\ UNCHANGED <<requests, results>>
      BY <2>2 DEF Open, Opened
    <3> QED BY <1>2, <2>1, <3>1 DEF OfAwaitedIndex
  <2>3. CASE /\ SendReply
             /\ results' = Append(results, reply) /\ reply' = None
             /\ requests' = requests \/ requests' = <<>>
    <3>1. reply \in Result /\ reply # None
      BY <2>1, <2>3 DEF SendReply, DbTypeOK
    <3>2. \A i \in DOMAIN results' :
             \/ i \in DOMAIN results /\ results'[i] = results[i]
             \/ results'[i] = reply
      BY <1>1, <2>3, <3>1, AppendElements
    <3> QED BY <1>2, <2>1, <2>3, <3>1, <3>2 DEF OfAwaitedIndex
  <2>4. CASE /\ Serve /\ results' = results
             /\ requests # <<>> /\ requests' = Tail(requests)
    <3>1. /\ 1 \in DOMAIN requests
          /\ \A i \in DOMAIN requests' : i + 1 \in DOMAIN requests /\ requests'[i] = requests[i + 1]
      BY <1>1, <2>4, TailElements
    <3>2. reply' # None /\ reply'.kind = "ReadIndex" =>
            /\ reply'.id = requests[1].id /\ reply'.about = requests[1].about
            /\ requests[1].kind = "ReadIndex"
            /\ reply'.generation \in {requests[1].generation, None}
      BY <2>1, <2>4, ServeCases DEF Answers, Serve, DbTypeOK
    <3>3. reply' # None => OfAwaitedIndex(reply')
      BY <3>1, <3>2 DEF OfAwaitedIndex
    <3> QED BY <1>2, <2>1, <2>4, <3>1, <3>3 DEF OfAwaitedIndex
  <2>5. CASE requests' = <<>> /\ reply' = None /\ results' = results
    BY <1>2, <2>1, <2>5 DEF OfAwaitedIndex
  <2> QED BY <1>5, <2>1, <2>2, <2>3, <2>4, <2>5, WorkerSteps DEF WorkerStep, WorkerPanics
<1>6. CASE QuietStep
  BY <1>2, <1>6 DEF QuietStep, workerVars, OfAwaitedIndex
<1> QED
  BY <1>3, <1>4, <1>5, <1>6, ChannelSteps

\* The request for the index of a window.
LEMMA IndexAsked ==
    ASSUME StreamInv, NEW window \in Topics, window # None,
           NEW generation \in Generations, generation # None,
           Sent("ReadIndex", generation, 0, window)
    PROVE  /\ last_id' = last_id + 1
           /\ \A i \in DOMAIN requests' :
                 \/ i \in DOMAIN requests /\ requests'[i] = requests[i]
                 \/ requests'[i].generation = generation /\ requests'[i].about = window
<1>1. "ReadIndex" \in Reads \cup ReloadRequests /\ "ReadIndex" # "DiscardReload"
  BY DEF Reads, LiveReads
<1>2. window \in Topics \cup {None} /\ generation \in Generations \cup {None} /\ 0 \in Nat
  OBVIOUS
<1>3. /\ last_id' = last_id + 1
      /\ \E n \in DOMAIN requests' :
            /\ requests'[n].generation = generation /\ requests'[n].about = window
            /\ \A i \in DOMAIN requests' :
                  i = n \/ (i \in DOMAIN requests /\ requests'[i] = requests[i])
  BY <1>1, <1>2, Appended, SMTT(30)
<1> QED
  BY <1>3

\* No step lets the index of another generation or space in.
LEMMA IndexInvStep ==
    ASSUME StreamInv, IndexInv, [Next]_vars
    PROVE  IndexInv'
<1> USE DEF IndexInv, StreamInv
<1>1. CASE IndexSame /\ ~RequestCellIndex
  BY <1>1, IndexOnItsWay
<1>2. CASE UNCHANGED <<requests, results, last_id, reply>> /\ requested_index' = None /\ descriptors' = None
  BY <1>2 DEF OfAwaitedIndex, IndexIsCurrent
<1>3. CASE ReceiveOpened
  <2>1. Receive("Opened") /\ ReceiveUnchanged
    BY <1>3 DEF ReceiveOpened
  <2>2. results[1].kind = "Opened" /\ 1 \in DOMAIN results
    BY <2>1, Drained
  <2>3. manifest = None
    BY <2>2, NoCandidateBeforeOpening DEF OpenPending
  <2>4. requested_index = None /\ descriptors = None
    BY <2>3, NoneIsNoValue DEF IndexIsCurrent, StreamingTypeOK, Descriptors
  <2>5. requested_index' = None /\ descriptors' = None
    BY <1>3, <2>4 DEF ReceiveOpened, streamVars
  <2> QED BY <2>5 DEF OfAwaitedIndex, IndexIsCurrent
<1>4. CASE ReceiveIndex
  <2> DEFINE r == results[1]
  <2>1. Receive("ReadIndex") /\ ReceiveUnchanged /\ UNCHANGED <<manifest, active>>
    BY <1>4 DEF ReceiveIndex
  <2>2. /\ r.kind = "ReadIndex" /\ 1 \in DOMAIN results /\ Head(results) = r /\ r \in Result
        /\ \A i \in DOMAIN results' : i + 1 \in DOMAIN results /\ results'[i] = results[i + 1]
        /\ UNCHANGED <<requests, last_id, reply>>
    BY <2>1, Drained
  <2>3. CASE ~IndexIsAwaited(r.id)
    <3>1. UNCHANGED <<requested_index, descriptors>>
      BY <1>4, <2>2, <2>3 DEF ReceiveIndex
    <3>2. ~RequestCellIndex
      BY <2>1 DEF Receive, RequestCellIndex, AtIndex
    <3> QED BY <1>1, <2>1, <3>1, <3>2 DEF IndexSame
  <2>4. CASE IndexIsAwaited(r.id)
    <3>1. requested_index' = None
      BY <1>4, <2>2, <2>4 DEF ReceiveIndex
    <3>2. r.about.space = active /\ r.generation \in {manifest, None}
      BY <2>2, <2>4 DEF IndexIsAwaited, OfAwaitedIndex
    <3>3. r.ok => r.generation # None
      BY <2>2 DEF Result
    <3>4. IndexIsCurrent'
      <4>1. CASE r.ok
        <5>1. descriptors' = [generation |-> r.generation, about |-> r.about]
          BY <1>4, <2>2, <2>4, <4>1 DEF ReceiveIndex
        <5> QED BY <2>1, <3>2, <3>3, <4>1, <5>1 DEF IndexIsCurrent
      <4>2. CASE ~r.ok
        <5>1. UNCHANGED descriptors
          BY <1>4, <2>2, <2>4, <4>2 DEF ReceiveIndex
        <5> QED BY <2>1, <5>1 DEF IndexIsCurrent
      <4> QED BY <4>1, <4>2
    <3> QED BY <3>1, <3>4 DEF OfAwaitedIndex
  <2> QED BY <2>3, <2>4
<1>5. CASE AdoptGeneration
  BY <1>2, <1>5 DEF AdoptGeneration, ClearStream, dbVars
<1>6. CASE TransitionTaken
  <2>1. UNCHANGED <<requests, results, last_id, reply, manifest>> /\ ~RequestCellIndex
    BY <1>6 DEF TransitionTaken, AtTransition, RequestCellIndex, AtIndex, dbVars
  <2>2. CASE active' = active /\ UNCHANGED streamVars
    BY <1>1, <2>1, <2>2 DEF IndexSame, streamVars
  <2>3. CASE ClearStream
    BY <1>2, <2>1, <2>3 DEF ClearStream
  <2> QED BY <1>6, <2>2, <2>3 DEF TransitionTaken, EnterSpace
<1>7. CASE UpdateOrigin
  <2>1. UNCHANGED <<requests, results, last_id, reply, manifest, active>> /\ ~RequestCellIndex
    BY <1>7 DEF UpdateOrigin, RequestCellIndex, AtIndex, dbVars
  <2> QED BY <1>1, <1>2, <1>7, <2>1 DEF UpdateOrigin, ClearStream, IndexSame, streamVars
<1>8. CASE RequestCellIndex
  <2>1. UNCHANGED <<results, reply, manifest, active, descriptors>>
    BY <1>8 DEF RequestCellIndex, IndexUnchanged, workerVars, spaceVars
  <2>2. CASE UNCHANGED <<requests, last_id, requested_index>>
    BY <2>1, <2>2 DEF OfAwaitedIndex, IndexIsCurrent
  <2>3. CASE /\ Sent("ReadIndex", manifest, 0, [space |-> active, view |-> viewpoint.view])
             /\ requested_index' = [id |-> last_id', space |-> active]
    <3> DEFINE window == [space |-> active, view |-> viewpoint.view]
    <3>1. /\ manifest \in Generations /\ manifest # None
          /\ window \in Topics /\ window # None /\ window.space = active
          /\ Sent("ReadIndex", manifest, 0, window)
      <4>1. /\ manifest \in Generations /\ active \in Spaces /\ viewpoint.view \in Views
        BY <1>8 DEF RequestCellIndex, IndexWanted, ViewpointIsHere, StreamingTypeOK, Windows
      <4> QED BY <2>3, <4>1, WorldAssumption, NoneIsNoValue, NoneIsNoStreamingRecord DEF Windows
    <3> HIDE DEF window
    <3>2. /\ last_id' = last_id + 1
          /\ \A i \in DOMAIN requests' :
                \/ i \in DOMAIN requests /\ requests'[i] = requests[i]
                \/ /\ requests'[i].generation = manifest
                   /\ requests'[i].about = window
      BY <3>1, IndexAsked
    <3>3. /\ \A i \in DOMAIN requests : requests[i].id # last_id + 1
          /\ \A i \in DOMAIN results : results[i].id # last_id + 1
          /\ reply # None => reply.id # last_id + 1
          /\ last_id + 1 <= last_id + 1
      BY Facts DEF InOrder
    <3>4. requested_index'.id = last_id + 1 /\ requested_index'.space = active
      BY <2>3, <3>2
    <3> QED BY <2>1, <3>1, <3>2, <3>3, <3>4 DEF OfAwaitedIndex, IndexIsCurrent
  <2> QED BY <1>8, <2>2, <2>3 DEF RequestCellIndex
<1>9. CASE ~(ReceiveOpened \/ ReceiveIndex \/ AdoptGeneration \/ TransitionTaken
             \/ UpdateOrigin \/ RequestCellIndex)
  <2>1. CASE ReceiveReloaded \/ ReceiveCommitted \/ ReceiveDisconnected
    BY <1>1, <1>9, <2>1 DEF ReceiveReloaded, ReceiveCommitted, ReceiveDisconnected,
       IndexSame, spaceVars, streamVars
  <2>2. CASE RequestReloadSystem \/ DiscardReload \/ CommitReload
    BY <1>1, <1>9, <2>2 DEF RequestReloadSystem, DiscardReload, CommitReload, IndexSame,
       spaceVars, streamVars
  <2>3. CASE StartFrame \/ ReceiveNothing \/ AwaitReload \/ TransitionWaits \/ EndFrame
    BY <1>1, <1>9, <2>3 DEF StartFrame, ReceiveNothing, AwaitReload, TransitionWaits, EndFrame,
       IndexSame, coreVars, spaceVars, streamVars
  <2>4. CASE SyncFocus \/ IndexNotWanted
    BY <1>1, <1>9, <2>4 DEF SyncFocus, IndexNotWanted, IndexUnchanged, IndexSame,
       spaceVars, streamVars
  <2>5. CASE \/ TakeCompletion \/ \E g \in Generations : RequestReload(g)
             \/ \E t \in Transition : RequestSpace(t)
    BY <1>1, <1>9, <2>5 DEF TakeCompletion, RequestReload, RequestSpace, IndexSame,
       spaceVars, streamVars
  <2>6. CASE \/ WorkerStep \/ WorkerPanics \/ \E g \in Generations : PublishFile(g)
             \/ UNCHANGED vars
    BY <1>1, <1>9, <2>6 DEF WorkerStep, WorkerPanics, PublishFile, vars, IndexSame,
       coreVars, spaceVars, streamVars
  <2> QED BY <1>9, <2>1, <2>2, <2>3, <2>4, <2>5, <2>6 DEF Next, Main
<1> QED
  BY <1>3, <1>4, <1>5, <1>6, <1>7, <1>8, <1>9

\* The descriptors the source demand is derived from are always the open
\* generation's, of the active space: no late reply brings others.
THEOREM CurrentIndex == Spec => []IndexIsCurrent
<1>1. Init => StreamInv /\ IndexInv
  BY StreamInvInit DEF Init, DbInit, IndexInv, IndexIsCurrent
<1>2. StreamInv /\ IndexInv /\ [Next]_vars => StreamInv' /\ IndexInv'
  BY StreamInvStep, IndexInvStep
<1>3. IndexInv => IndexIsCurrent
  BY DEF IndexInv
<1> QED
  BY <1>1, <1>2, <1>3, PTL DEF Spec

=============================================================================
