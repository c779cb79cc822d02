--------------------------- MODULE Clipmap_proofs ---------------------------
(***************************************************************************)
(* The drawn ground through publications, moves, failures and retries, for *)
(* any nodes, batches, windows, generations, spaces and faults: no read of *)
(* an earlier publication lands in the present one, no node asked for is   *)
(* forgotten, and resident ground leaves only for a reason.                *)
(***************************************************************************)
EXTENDS ClipmapProperties, WorldStreaming_proofs

-----------------------------------------------------------------------------
(* The invariant.                                                          *)

Identity == [generation : Generations, space : Spaces]
Batch == [generation : Generations, nodes : SUBSET Nodes]

ClipTypeOK ==
    /\ at \in {"follow", "roots", "surfaces", "ground", "decode", "nodes"}
    /\ window \subseteq Nodes /\ requested \subseteq Nodes /\ stale \subseteq Nodes
    /\ resident \in [Nodes -> Generations \cup {None}]
    /\ \A p \in pending : p.about \in Queries
    /\ received \subseteq Batch /\ decoding \subseteq Batch

\* A world is open only together with a place to look from.
EyeIsSomewhere == manifest # None => viewpoint # None

\* Within the update, the ground drawn is of a publication.
UpdateRuns == at # "follow" => pc = "render" /\ manifest # None /\ identity \in Identity

\* What is on its way under a pending id is that read, of the publication
\* drawn: nothing pending outlives it.
PendingIsRead == \A p \in pending : IsRead(p.id, "Terrain", identity.generation, p.about)
PendingIsOne == \A p, q \in pending : p.id = q.id => p = q

\* What is read but not yet drawn is of the publication drawn.
BatchesAreCurrent == \A b \in received \cup decoding : b.generation = identity.generation

\* Ground is drawn within the windows only: a batch decoded late marks
\* nothing outside them as read again.
GroundIsWindowed == Resident \subseteq window /\ GroundIsOfThePublication

GroundInv ==
    /\ ClipTypeOK /\ UpdateRuns
    /\ PendingIsRead /\ PendingIsOne /\ BatchesAreCurrent
    /\ GroundIsWindowed /\ AskedNodesArrive

ClipInv == StreamingTypeOK /\ InOrder /\ EyeIsSomewhere /\ GroundInv

-----------------------------------------------------------------------------
(* What the clipmap adds to the coordinator's steps.                       *)

TerrainAnswered == Receive("Terrain") /\ ReceiveUnchanged /\ UNCHANGED coreVars
TerrainAsked(query) ==
    Sent("Terrain", identity.generation, 0, query) /\ SendUnchanged /\ UNCHANGED pc
GroundOnly == StreamUnchanged /\ pc' \in {pc, "idle"}

\* The nodes wanted are nodes.
LEMMA WantedNodes ==
    ASSUME ClipTypeOK
    PROVE  Wanted \subseteq Nodes
BY DEF ClipTypeOK, Wanted

\* Every step is the coordinator's, or one of these.
LEMMA ClipmapSteps ==
    ASSUME ClipInv, [ClipmapNext]_clipmapVars
    PROVE  \/ [Next]_vars
           \/ TerrainAnswered
           \/ at # "follow" /\ \E query \in Queries : TerrainAsked(query)
           \/ GroundOnly
<1> USE DEF SendUnchanged, StreamUnchanged
<1>1. CASE Main \/ Others
  BY <1>1 DEF Others, Next
<1>2. CASE ClipmapReceive
  BY <1>2 DEF ClipmapReceive, ReceiveDropped, ReceiveError, ReceiveRoots, ReceiveSurfaces,
     ReceiveNodes, ReceiveTerrain, TerrainAnswered
<1>3. CASE NoWorld \/ KeepGround \/ StartOver \/ NotDrawable \/ FollowEye \/ RetryDue
  BY <1>3 DEF NoWorld, KeepGround, StartOver, NotDrawable, FollowEye, RetryDue, At, Returns,
     GroundOnly
<1>4. ASSUME NEW finished, NEW failed, TakeDecoded(finished, failed)
      PROVE  GroundOnly
  BY <1>4 DEF TakeDecoded, At, GroundOnly
<1>5. CASE EndUpdate
  BY <1>5 DEF EndUpdate, Returns, GroundOnly
<1>6. ASSUME UNCHANGED <<requests, last_id, pc>>, SendUnchanged
      PROVE  GroundOnly
  BY <1>6 DEF GroundOnly, dbVars, workerVars
<1>7. CASE RequestRoots
  <2>1. [query |-> "Roots", nodes |-> {}] \in Queries
    BY DEF Queries
  <2>2. at # "follow" /\ SendUnchanged /\ UNCHANGED pc
    BY <1>7 DEF RequestRoots, At
  <2> QED BY <1>6, <1>7, <2>1, <2>2 DEF RequestRoots, SendQuery, TerrainAsked
<1>8. CASE RequestSurfaces
  <2>1. [query |-> "Surfaces", nodes |-> {}] \in Queries
    BY DEF Queries
  <2>2. at # "follow" /\ SendUnchanged /\ UNCHANGED pc
    BY <1>8 DEF RequestSurfaces, At
  <2> QED BY <1>6, <1>8, <2>1, <2>2 DEF RequestSurfaces, SendQuery, TerrainAsked
<1>9. CASE RequestBatch
  <2>1. PICK batch \in SUBSET Wanted : SendQuery([query |-> "Nodes", nodes |-> batch])
    BY <1>9 DEF RequestBatch
  <2>2. [query |-> "Nodes", nodes |-> batch] \in Queries
    BY WantedNodes DEF Queries, ClipInv, GroundInv
  <2> QED BY <1>9, <2>1, <2>2 DEF RequestBatch, SendQuery, TerrainAsked
<1>10. CASE UNCHANGED clipmapVars
  BY <1>10 DEF clipmapVars
<1> QED
  BY <1>1, <1>2, <1>3, <1>4, <1>5, <1>7, <1>8, <1>9, <1>10
     DEF ClipmapNext, ClipmapFrame, ClipmapUpdate

\* Whatever opens a world, adopts a generation or moves sets a place to look
\* from.
LEMMA EyeStep ==
    ASSUME StreamingTypeOK, EyeIsSomewhere, [Next]_vars
    PROVE  EyeIsSomewhere'
<1> USE DEF EyeIsSomewhere
<1>1. \A s \in Spaces, v \in Views : [space |-> s, view |-> v] # None
  BY NoneIsNoStreamingRecord DEF Windows
<1>2. CASE viewpoint' = viewpoint /\ manifest' = manifest
  BY <1>2
<1>3. CASE ReceiveOpened
  <2> DEFINE g == Head(results).generation
  <2>1. Receive("Opened") /\ ReceiveUnchanged
    BY <1>3 DEF ReceiveOpened
  <2>2. Head(results).ok => g \in Generations
    BY <2>1, ReceiveTyped DEF Result
  <2>3. g \in Generations => DefaultSpace[g] \in Spaces
    BY WorldAssumption
  <2> QED BY <1>1, <1>2, <1>3, <2>2, <2>3 DEF ReceiveOpened
<1>4. CASE AdoptGeneration
  <2> DEFINE g == reload.candidate
             space == IF active \in SpacesOf[g] THEN active ELSE DefaultSpace[g]
  <2>1. g \in Generations
    BY <1>4 DEF AdoptGeneration, StreamingTypeOK, Reload
  <2>2. space \in Spaces
    BY <2>1, WorldAssumption
  <2>3. \/ viewpoint # None /\ viewpoint' = viewpoint
        \/ \E v \in Views : viewpoint' = [space |-> space, view |-> v]
    BY <1>4 DEF AdoptGeneration, AdoptManifest, AdoptSpace
  <2> QED BY <1>1, <2>2, <2>3
<1>5. CASE TransitionTaken
  <2>1. \/ viewpoint' = viewpoint
        \/ /\ transition # None /\ transition.view # None
           /\ viewpoint' = [space |-> transition.space, view |-> transition.view]
    BY <1>5 DEF TransitionTaken, TransitionDue, EnterSpace
  <2>2. transition # None /\ transition.view # None =>
           transition.space \in Spaces /\ transition.view \in Views
    BY DEF StreamingTypeOK, Transition
  <2>3. manifest' = manifest
    BY <1>5 DEF TransitionTaken
  <2> QED BY <1>1, <2>1, <2>2, <2>3
<1>6. CASE SyncFocus
  <2>1. \/ viewpoint' = viewpoint
        \/ active # None /\ \E v \in Views : viewpoint' = [space |-> active, view |-> v]
    BY <1>6 DEF SyncFocus
  <2>2. active # None => active \in Spaces
    BY DEF StreamingTypeOK
  <2>3. manifest' = manifest
    BY <1>6 DEF SyncFocus
  <2> QED BY <1>1, <2>1, <2>2, <2>3
<1>7. CASE ReceiveReloaded \/ ReceiveCommitted \/ ReceiveIndex \/ ReceiveDisconnected
  BY <1>2, <1>7 DEF ReceiveReloaded, ReceiveCommitted, ReceiveIndex, ReceiveDisconnected,
     spaceVars
<1>8. CASE RequestReloadSystem \/ DiscardReload \/ CommitReload \/ UpdateOrigin
  BY <1>2, <1>8 DEF RequestReloadSystem, DiscardReload, CommitReload, UpdateOrigin, spaceVars
<1>9. CASE StartFrame \/ ReceiveNothing \/ AwaitReload \/ TransitionWaits \/ EndFrame
  BY <1>2, <1>9 DEF StartFrame, ReceiveNothing, AwaitReload, TransitionWaits, EndFrame,
     coreVars, spaceVars
<1>10. CASE IndexNotWanted \/ RequestCellIndex
  BY <1>2, <1>10 DEF IndexNotWanted, RequestCellIndex, IndexUnchanged, spaceVars
<1>11. CASE \/ TakeCompletion \/ \E g \in Generations : RequestReload(g)
            \/ \E t \in Transition : RequestSpace(t)
  BY <1>2, <1>11 DEF TakeCompletion, RequestReload, RequestSpace, spaceVars
<1>12. CASE \/ WorkerStep \/ WorkerPanics \/ \E g \in Generations : PublishFile(g)
            \/ UNCHANGED vars
  BY <1>2, <1>12 DEF WorkerStep, WorkerPanics, PublishFile, vars, coreVars, spaceVars
<1> QED
  BY <1>3, <1>4, <1>5, <1>6, <1>7, <1>8, <1>9, <1>10, <1>11, <1>12 DEF Next, Main

\* Every step is a step of the channels and keeps the coordinator's part.
LEMMA ClipmapChannels ==
    ASSUME ClipInv, [ClipmapNext]_clipmapVars
    PROVE  StreamingTypeOK' /\ InOrder' /\ EyeIsSomewhere' /\ ChannelStep
<1> USE DEF ClipInv
<1>1. ASSUME ChannelStep PROVE InOrder'
  BY <1>1, InOrderStep DEF ChannelStep, StreamingTypeOK
<1>2. ASSUME UNCHANGED coreVars PROVE EyeIsSomewhere'
  BY <1>2 DEF EyeIsSomewhere, coreVars, spaceVars
<1>3. CASE [Next]_vars
  <2>1. ChannelStep
    BY <1>3, ChannelSteps DEF ChannelStep, WorkerStep, WorkerPanics
  <2> QED BY <1>1, <1>3, <2>1, NextTyped, EyeStep
<1>4. CASE TerrainAnswered
  <2>1. ChannelStep
    BY <1>4 DEF TerrainAnswered, Receive, ReceiveUnchanged, ChannelStep, ReceiveStep
  <2>2. /\ DbTypeOK' /\ pc' \in Systems
        /\ transition' \in Transition \cup {None} /\ inputs' \in 0..MaxInputs
    BY <1>4, ReceiveTyped DEF TerrainAnswered
  <2>3. StreamingTypeOK'
    BY <1>4, <2>2 DEF TerrainAnswered, StreamingTypeOK, coreVars, spaceVars, streamVars
  <2> QED BY <1>1, <1>2, <1>4, <2>1, <2>3 DEF TerrainAnswered
<1>5. ASSUME NEW query \in Queries, TerrainAsked(query), at # "follow"
      PROVE  StreamingTypeOK' /\ InOrder' /\ EyeIsSomewhere' /\ ChannelStep
  <2>1. /\ query \in Topics /\ query # None
        /\ identity.generation \in Generations /\ identity.generation # None
    BY <1>5, ClipmapAssumption, NoneIsNoValue DEF GroundInv, UpdateRuns, Identity
  <2>2. PICK g : g = identity.generation
    OBVIOUS
  <2>3. Sent("Terrain", g, 0, query) /\ "Terrain" \in Reads
    BY <1>5, <2>2 DEF TerrainAsked, Reads
  <2>4. ChannelStep
    <3>1. SendStep /\ UNCHANGED <<results, workerVars>>
      BY <1>5, <2>1, <2>2, <2>3 DEF TerrainAsked, SendUnchanged, SendStep
    <3> QED BY <3>1 DEF ChannelStep
  <2>5. /\ requests' \in Seq(Request) /\ Len(requests') <= REQUEST_CAPACITY
        /\ last_id' \in Nat
    BY <2>1, <2>2, <2>3, SentTyped DEF StreamingTypeOK
  <2>6. DbTypeOK'
    BY <1>5, <2>5 DEF TerrainAsked, SendUnchanged, StreamingTypeOK, DbTypeOK, workerVars
  <2>7. StreamingTypeOK'
    BY <1>5, <2>6 DEF TerrainAsked, SendUnchanged, StreamingTypeOK, coreVars, spaceVars,
       streamVars
  <2> QED BY <1>1, <1>2, <1>5, <2>4, <2>7 DEF TerrainAsked, SendUnchanged
<1>6. CASE GroundOnly
  <2>1. ChannelStep
    BY <1>6 DEF GroundOnly, StreamUnchanged, dbVars, workerVars, ChannelStep, QuietStep
  <2>2. StreamingTypeOK'
    BY <1>6, DbUnchangedTyped DEF GroundOnly, StreamUnchanged, StreamingTypeOK, coreVars,
       spaceVars, streamVars, Systems
  <2> QED BY <1>1, <1>2, <1>6, <2>1, <2>2 DEF GroundOnly, StreamUnchanged
<1> QED BY <1>3, <1>4, <1>5, <1>6, ClipmapSteps

-----------------------------------------------------------------------------
(* The steps that draw nothing new.                                        *)

\* Reads stay what they are as long as the publication drawn does.
LEMMA PendingKept ==
    ASSUME ClipInv, ChannelStep, pending' \subseteq pending, UNCHANGED identity
    PROVE  PendingIsRead' /\ PendingIsOne'
<1>1. PendingIsOne'
  BY DEF ClipInv, GroundInv, PendingIsOne
<1>2. ASSUME NEW p \in pending'
      PROVE  IsRead(p.id, "Terrain", identity.generation, p.about)'
  <2>1. PICK g : g = identity.generation
    OBVIOUS
  <2>2. IsRead(p.id, "Terrain", g, p.about)
    BY <1>2, <2>1 DEF ClipInv, GroundInv, PendingIsRead
  <2>3. DbTypeOK /\ InOrder /\ "Terrain" \in Reads
    BY DEF ClipInv, StreamingTypeOK, Reads
  <2>4. PICK id, about : id = p.id /\ about = p.about
    OBVIOUS
  <2>5. IsRead(id, "Terrain", g, about)'
    BY <2>2, <2>3, <2>4, IsReadStep
  <2>6. g = identity'.generation
    BY <2>1
  <2> QED BY <2>4, <2>5, <2>6
<1> QED BY <1>1, <1>2 DEF PendingIsRead

\* Nothing of the clipmap's runs during the coordinator's systems.
LEMMA NotDuringUpdate ==
    ASSUME Main \/ Others \/ RetryDue
    PROVE  pc # "render" \/ UNCHANGED <<pc, manifest>>
<1>1. CASE Main
  BY <1>1 DEF Main, StartFrame, ReceiveOpened, ReceiveReloaded, ReceiveCommitted, ReceiveIndex,
     Receive, ReceiveNothing, ReceiveDisconnected, RequestReloadSystem, DiscardReload, CommitReload,
     AdoptGeneration, AwaitReload, AtAdvance, TransitionWaits, TransitionTaken, AtTransition,
     SyncFocus, UpdateOrigin, IndexNotWanted, RequestCellIndex, AtIndex
<1>2. CASE Others
  BY <1>2 DEF Others, RequestReload, TakeCompletion, RequestSpace, WorkerStep, WorkerPanics,
     PublishFile, coreVars
<1>3. CASE RetryDue
  BY <1>3 DEF RetryDue
<1> QED BY <1>1, <1>2, <1>3

\* The coordinator, the worker and the clock leave the ground as it is.
LEMMA OthersKeepGround ==
    ASSUME ClipInv, ChannelStep,
           \/ (Main \/ Others) /\ UNCHANGED clipVars
           \/ RetryDue
           \/ UNCHANGED clipmapVars
    PROVE  GroundInv'
<1>1. UNCHANGED <<at, groundVars, nodeVars, readVars, failure>>
  BY DEF clipVars, clipmapVars, RetryDue
<1>2. pc # "render" \/ UNCHANGED <<pc, manifest>>
  BY NotDuringUpdate DEF clipmapVars, vars, coreVars
<1>3. UNCHANGED <<at, identity, window, resident, requested, absent, stale, pending, received,
                  decoding, failure>>
  BY <1>1 DEF groundVars, nodeVars, readVars
<1>4. ClipTypeOK' /\ BatchesAreCurrent' /\ GroundIsWindowed' /\ AskedNodesArrive'
  BY <1>3 DEF ClipInv, GroundInv, ClipTypeOK, BatchesAreCurrent, GroundIsWindowed,
     GroundIsOfThePublication, AskedNodesArrive, Resident
<1>5. UpdateRuns'
  BY <1>2, <1>3 DEF ClipInv, GroundInv, UpdateRuns
<1> QED BY <1>3, <1>4, <1>5, PendingKept DEF GroundInv

-----------------------------------------------------------------------------
(* Replies.                                                                *)

\* A reply answers at most one pending read, which it is the answer of.
LEMMA AnswerOf ==
    ASSUME ClipInv, TerrainAnswered, NEW p \in Answered
    PROVE  /\ Answered = {p} /\ p \in pending /\ p.about \in Queries
           /\ Head(results).about = p.about
           /\ Head(results).ok =>
                 /\ Head(results).generation = identity.generation
                 /\ Head(results).generation \in Generations
<1>1. p \in pending /\ p.id = Head(results).id /\ p.about \in Queries
  BY DEF Answered, ClipInv, GroundInv, ClipTypeOK
<1>2. Answered = {p}
  BY <1>1 DEF Answered, ClipInv, GroundInv, PendingIsOne
<1>3. /\ 1 \in DOMAIN results /\ Head(results) = results[1] /\ Head(results) \in Result
      /\ Head(results).kind = "Terrain"
  BY TailElements DEF TerrainAnswered, Receive, Received, ClipInv, StreamingTypeOK, DbTypeOK
<1>4. IsRead(p.id, "Terrain", identity.generation, p.about)
  BY <1>1 DEF ClipInv, GroundInv, PendingIsRead
<1>5. /\ results[1].about = p.about
      /\ results[1].ok => results[1].generation = identity.generation
  BY <1>1, <1>3, <1>4 DEF IsRead
<1>6. Head(results).ok => Head(results).generation \in Generations
  BY <1>3, NoneIsNoValue DEF Result
<1> QED BY <1>1, <1>2, <1>3, <1>5, <1>6

\* A reply that brings no nodes changes neither the nodes nor what is read.
LEMMA NoNodesReceived ==
    ASSUME ClipInv, ChannelStep,
           UNCHANGED <<at, pc, manifest, identity, window, resident, requested, absent, stale,
                       received, decoding>>,
           pending' \subseteq pending,
           failure' \/ \A p \in pending \ pending' : p.about.nodes = {},
           failure => failure'
    PROVE  GroundInv'
<1>1. ClipTypeOK' /\ UpdateRuns' /\ BatchesAreCurrent' /\ GroundIsWindowed'
  BY DEF ClipInv, GroundInv, ClipTypeOK, UpdateRuns, BatchesAreCurrent,
     GroundIsWindowed, GroundIsOfThePublication, Resident
<1>2. AskedNodesArrive'
  <2>1. CASE failure \/ failure'
    BY <2>1 DEF AskedNodesArrive
  <2>2. CASE ~failure /\ ~failure'
    <3> SUFFICES ASSUME NEW n \in requested'
                 PROVE  \/ \E p \in pending' : n \in p.about.nodes
                        \/ \E b \in (received \cup decoding)' : n \in b.nodes
      BY DEF AskedNodesArrive
    <3>1. \/ \E p \in pending : n \in p.about.nodes
          \/ \E b \in received \cup decoding : n \in b.nodes
      BY <2>2 DEF ClipInv, GroundInv, AskedNodesArrive
    <3>2. \A p \in pending : n \in p.about.nodes => p \in pending'
      BY <2>2
    <3> QED BY <3>1, <3>2
  <2> QED BY <2>1, <2>2
<1> QED BY <1>1, <1>2, PendingKept DEF GroundInv

LEMMA MetadataKeeps ==
    ASSUME ClipInv, ChannelStep, TerrainAnswered,
           ReceiveDropped \/ ReceiveError \/ ReceiveRoots \/ ReceiveSurfaces
    PROVE  GroundInv'
<1>1. UNCHANGED <<at, pc, manifest, identity, window, resident, requested, absent, stale,
                  received, decoding>>
  BY DEF ReceiveDropped, ReceiveError, ReceiveRoots, ReceiveSurfaces, ReceiveTerrain,
     ReceiveUnchanged, coreVars
<1>2. CASE ReceiveDropped
  <2>1. pending' = pending /\ failure' = failure
    BY <1>2 DEF ReceiveDropped
  <2> QED BY <1>1, <2>1, NoNodesReceived
<1>3. CASE ReceiveError
  <2>1. pending' \subseteq pending /\ failure' = TRUE
    BY <1>3 DEF ReceiveError, TakeAnswer
  <2> QED BY <1>1, <2>1, NoNodesReceived
<1>4. ASSUME Asked("Roots") \/ Asked("Surfaces"), TakeAnswer, failure => failure'
      PROVE  GroundInv'
  <2>1. PICK p \in Answered : p.about.query \in {"Roots", "Surfaces"}
    BY <1>4 DEF Asked
  <2>2. Answered = {p} /\ p.about \in Queries
    BY <2>1, AnswerOf
  <2>3. p.about.nodes = {}
    BY <2>1, <2>2 DEF Queries
  <2>4. pending' \subseteq pending /\ \A q \in pending \ pending' : q.about.nodes = {}
    BY <1>4, <2>2, <2>3 DEF TakeAnswer
  <2> QED BY <1>1, <1>4, <2>4, NoNodesReceived
<1>5. CASE ReceiveRoots
  <2>1. failure => failure'
    BY <1>5 DEF ReceiveRoots
  <2> QED BY <1>4, <1>5, <2>1 DEF ReceiveRoots
<1>6. CASE ReceiveSurfaces
  <2>1. failure' = failure
    BY <1>6 DEF ReceiveSurfaces
  <2> QED BY <1>4, <1>6, <2>1 DEF ReceiveSurfaces
<1> QED BY <1>2, <1>3, <1>5, <1>6

\* A reply with nodes: those the publication has are received, the others are
\* no longer asked for.
LEMMA NodesKeep ==
    ASSUME ClipInv, ChannelStep, ReceiveNodes
    PROVE  GroundInv'
<1> DEFINE r == Head(results)
           found == r.about.nodes \cap NodesIn[r.generation]
           missing == r.about.nodes \ found
           batch == [generation |-> r.generation, nodes |-> found]
<1> HIDE DEF r, found, missing, batch
<1>1. TerrainAnswered /\ UNCHANGED <<at, pc, manifest, identity, window, decoding, failure>>
  BY DEF ReceiveNodes, ReceiveTerrain, TerrainAnswered, ReceiveUnchanged, coreVars
<1>2. PICK p \in Answered : p.about.query = "Nodes"
  BY DEF ReceiveNodes, Asked
<1>3. /\ Answered = {p} /\ p \in pending /\ p.about \in Queries
      /\ r.about = p.about
      /\ r.generation = identity.generation /\ r.generation \in Generations
  BY <1>1, AnswerOf DEF ReceiveNodes, r
<1>4. /\ pending' = pending \ {p}
      /\ requested' = requested \ missing
      /\ stale' = stale \ missing
      /\ resident' = Evicted(missing \cap stale)
      /\ received' = received \cup {batch}
  BY <1>3 DEF ReceiveNodes, TakeAnswer, r, found, missing, batch
<1>5. found \subseteq Nodes /\ batch \in Batch /\ batch.generation = identity.generation
  <2>1. r.about.nodes \subseteq Nodes
    BY <1>3 DEF Queries
  <2> QED BY <1>3, <2>1 DEF found, batch, Batch
<1>6. ClipTypeOK'
  BY <1>1, <1>4, <1>5 DEF ClipInv, GroundInv, ClipTypeOK, Evicted
<1>7. UpdateRuns' /\ BatchesAreCurrent'
  BY <1>1, <1>4, <1>5 DEF ClipInv, GroundInv, UpdateRuns, BatchesAreCurrent
<1>8. GroundIsWindowed'
  BY <1>1, <1>4 DEF ClipInv, GroundInv, ClipTypeOK, GroundIsWindowed,
     GroundIsOfThePublication, Resident, Evicted
<1>9. AskedNodesArrive'
  <2> SUFFICES ASSUME ~failure', NEW n \in requested'
               PROVE  \/ \E q \in pending' : n \in q.about.nodes
                      \/ \E b \in (received \cup decoding)' : n \in b.nodes
    BY DEF AskedNodesArrive
  <2>1. \/ \E q \in pending : n \in q.about.nodes
        \/ \E b \in received \cup decoding : n \in b.nodes
    BY <1>1, <1>4 DEF ClipInv, GroundInv, AskedNodesArrive
  <2>2. n \in p.about.nodes => n \in batch.nodes
    BY <1>3, <1>4 DEF missing, batch
  <2> QED BY <1>1, <1>4, <2>1, <2>2
<1> QED BY <1>1, <1>4, <1>6, <1>7, <1>8, <1>9, PendingKept DEF GroundInv

-----------------------------------------------------------------------------
(* The update.                                                             *)

\* A step of the update that leaves alone what is read.
LEMMA NotSentKeeps ==
    ASSUME ClipInv, ChannelStep,
           UNCHANGED <<manifest, groundVars, nodeVars, readVars>>,
           at' \in {"follow", "roots", "surfaces", "ground", "decode", "nodes"},
           at' # "follow" => at # "follow" /\ pc' = pc,
           failure => failure'
    PROVE  GroundInv'
<1> USE DEF groundVars, nodeVars, readVars
<1>1. ClipTypeOK' /\ BatchesAreCurrent' /\ GroundIsWindowed' /\ AskedNodesArrive'
  BY DEF ClipInv, GroundInv, ClipTypeOK, BatchesAreCurrent, GroundIsWindowed,
     GroundIsOfThePublication, AskedNodesArrive, Resident
<1>2. UpdateRuns'
  BY DEF ClipInv, GroundInv, UpdateRuns
<1> QED BY <1>1, <1>2, PendingKept DEF GroundInv

\* What an update draws is of the world opened last.
LEMMA DrawnIdentity ==
    ASSUME StreamingTypeOK, InManifest(active)
    PROVE  manifest # None /\ Drawn \in Identity
<1>1. manifest \in Generations
  BY DEF StreamingTypeOK, InManifest
<1>2. active \in Spaces
  BY <1>1, WorldAssumption DEF InManifest
<1> QED BY <1>1, <1>2 DEF InManifest, Drawn, Identity

\* A publication of the space drawn keeps the ground, and has all of it read
\* again.
LEMMA KeepGroundKeeps ==
    ASSUME ClipInv, ChannelStep, KeepGround
    PROVE  GroundInv'
<1>1. /\ at' = "roots" /\ pc = "render" /\ identity' = Drawn
      /\ UNCHANGED <<pc, manifest, window, failure>>
  BY DEF KeepGround, At, StreamUnchanged, coreVars
<1>2. UpdateRuns'
  BY <1>1, DrawnIdentity DEF KeepGround, ClipInv, UpdateRuns
<1>3. CASE identity = Drawn
  <2>1. UNCHANGED <<identity, pending, received, decoding, stale, requested, absent, resident>>
    BY <1>1, <1>3 DEF KeepGround, readVars
  <2>2. ClipTypeOK' /\ BatchesAreCurrent' /\ GroundIsWindowed' /\ AskedNodesArrive'
    BY <1>1, <2>1 DEF ClipInv, GroundInv, ClipTypeOK, BatchesAreCurrent,
       GroundIsWindowed, GroundIsOfThePublication, AskedNodesArrive, Resident
  <2> QED BY <1>2, <2>1, <2>2, PendingKept DEF GroundInv
<1>4. CASE identity # Drawn
  <2>1. /\ pending' = {} /\ received' = {} /\ decoding' = {}
        /\ requested' = {} /\ stale' = stale \cup Resident /\ resident' = resident
    BY <1>4 DEF KeepGround, Republish, DropReads
  <2>2. ClipTypeOK' /\ PendingIsRead' /\ PendingIsOne' /\ BatchesAreCurrent'
        /\ AskedNodesArrive'
    BY <1>1, <2>1 DEF ClipInv, GroundInv, ClipTypeOK, PendingIsRead, PendingIsOne,
       BatchesAreCurrent, AskedNodesArrive, Resident
  <2>3. GroundIsWindowed'
    BY <1>1, <2>1 DEF ClipInv, GroundInv, GroundIsWindowed, GroundIsOfThePublication, Resident
  <2> QED BY <1>2, <2>2, <2>3 DEF GroundInv
<1> QED BY <1>3, <1>4

\* Starting over leaves nothing behind.
LEMMA StartOverKeeps ==
    ASSUME ClipInv, StartOver
    PROVE  GroundInv'
<1>1. /\ at' = "roots" /\ pc = "render" /\ identity' = Drawn
      /\ UNCHANGED <<pc, manifest>>
      /\ pending' = {} /\ received' = {} /\ decoding' = {} /\ window' = {}
      /\ requested' = {} /\ stale' = {} /\ resident' = [n \in Nodes |-> None]
  BY DEF StartOver, At, StreamUnchanged, coreVars, Evicted
<1>2. UpdateRuns'
  BY <1>1, DrawnIdentity DEF StartOver, ClipInv, UpdateRuns
<1>3. ClipTypeOK' /\ PendingIsRead' /\ PendingIsOne' /\ BatchesAreCurrent'
      /\ AskedNodesArrive' /\ GroundIsWindowed'
  BY <1>1 DEF ClipTypeOK, PendingIsRead, PendingIsOne, BatchesAreCurrent, AskedNodesArrive,
     GroundIsWindowed, GroundIsOfThePublication, Resident
<1> QED BY <1>2, <1>3 DEF GroundInv

\* A read just sent is pending under an id of its own, for the publication
\* drawn.
LEMMA SentPending ==
    ASSUME ClipInv, ChannelStep, at # "follow", UNCHANGED <<identity, results, workerVars>>,
           NEW query \in Queries, SendQuery(query)
    PROVE  PendingIsRead' /\ PendingIsOne' /\ \A p \in pending' : p.about \in Queries
<1>1. PICK new : new = [id |-> last_id + 1, about |-> query]
  OBVIOUS
<1>2. PICK g : g = identity.generation
  OBVIOUS
<1>3. pending' = pending \cup {new} /\ Sent("Terrain", g, 0, query)
  BY <1>1, <1>2 DEF SendQuery, Sent
<1>4. g \in Generations /\ query \in Topics /\ "Terrain" \in Reads /\ DbTypeOK /\ InOrder
  BY <1>2, ClipmapAssumption
     DEF ClipInv, StreamingTypeOK, GroundInv, UpdateRuns, Identity, Reads
<1>5. PICK id : id = last_id + 1
  OBVIOUS
<1>6. IsRead(id, "Terrain", g, query)'
  BY <1>3, <1>4, <1>5, SentIsRead
<1>7. \A p \in pending' : IsRead(p.id, "Terrain", g, p.about)'
  <2>1. CASE pending = {}
    BY <1>1, <1>3, <1>5, <1>6, <2>1
  <2> SUFFICES ASSUME NEW p \in pending
               PROVE  IsRead(p.id, "Terrain", g, p.about)'
    BY <1>1, <1>3, <1>5, <1>6
  <2>2. PICK i, about : i = p.id /\ about = p.about
    OBVIOUS
  <2>3. IsRead(i, "Terrain", g, about)
    BY <1>2, <2>2 DEF ClipInv, GroundInv, PendingIsRead
  <2>4. IsRead(i, "Terrain", g, about)'
    BY <1>4, <2>3, IsReadStep
  <2> QED BY <2>2, <2>4
<1>8. PendingIsRead'
  BY <1>2, <1>7 DEF PendingIsRead
<1>9. PendingIsOne'
  <2>1. \A p \in pending : p.id \in Nat /\ p.id <= last_id
    BY DEF ClipInv, GroundInv, PendingIsRead, IsRead
  <2>2. last_id \in Nat
    BY <1>4 DEF DbTypeOK
  <2>3. \A p \in pending : p.id # new.id
    BY <1>1, <2>1, <2>2
  <2> QED BY <1>3, <2>3 DEF ClipInv, GroundInv, PendingIsOne
<1>10. \A p \in pending' : p.about \in Queries
  BY <1>1, <1>3 DEF ClipInv, GroundInv, ClipTypeOK
<1> QED BY <1>8, <1>9, <1>10

\* A request sent or refused leaves the ground as it is.
LEMMA RequestKeeps ==
    ASSUME ClipInv, ChannelStep, RequestRoots \/ RequestSurfaces \/ RequestBatch
    PROVE  GroundInv'
<1>1. /\ UNCHANGED <<manifest, groundVars, window, resident, absent, stale, received,
                      decoding, results, workerVars, pc>>
      /\ at # "follow" /\ at' \in {"surfaces", "ground", "nodes"}
  BY DEF RequestRoots, RequestSurfaces, RequestBatch, At, SendUnchanged, coreVars, nodeVars
<1>2. requested' \subseteq Nodes /\ requested \subseteq Nodes
  BY WantedNodes DEF RequestRoots, RequestSurfaces, RequestBatch, nodeVars, ClipInv, GroundInv,
     ClipTypeOK
<1>3. UpdateRuns' /\ BatchesAreCurrent' /\ GroundIsWindowed'
  BY <1>1 DEF ClipInv, GroundInv, UpdateRuns, BatchesAreCurrent, GroundIsWindowed,
     GroundIsOfThePublication, Resident, groundVars
<1>4. ASSUME NEW query \in Queries, SendQuery(query),
             requested' \subseteq requested \cup query.nodes
      PROVE  GroundInv'
  <2>1. pending' = pending \cup {[id |-> last_id', about |-> query]} /\ failure' = failure
    BY <1>4 DEF SendQuery
  <2>2. PendingIsRead' /\ PendingIsOne' /\ \A p \in pending' : p.about \in Queries
    BY <1>1, <1>4, SentPending DEF groundVars
  <2>3. ClipTypeOK'
    BY <1>1, <1>2, <2>2 DEF ClipInv, GroundInv, ClipTypeOK
  <2>4. AskedNodesArrive'
    <3> SUFFICES ASSUME ~failure, NEW n \in requested'
                 PROVE  \/ \E p \in pending' : n \in p.about.nodes
                        \/ \E b \in received \cup decoding : n \in b.nodes
      BY <1>1, <2>1 DEF AskedNodesArrive
    <3>1. CASE n \in query.nodes
      <4>1. PICK new : new = [id |-> last_id', about |-> query]
        OBVIOUS
      <4>2. new \in pending' /\ n \in new.about.nodes
        BY <2>1, <3>1, <4>1
      <4> QED BY <4>2
    <3>2. CASE n \in requested
      BY <2>1, <3>2 DEF ClipInv, GroundInv, AskedNodesArrive
    <3> QED BY <1>4, <3>1, <3>2
  <2> QED BY <1>3, <2>2, <2>3, <2>4 DEF GroundInv
<1>5. ASSUME UNCHANGED pending, requested' = requested, failure => failure'
      PROVE  GroundInv'
  BY <1>1, <1>5, NotSentKeeps DEF RequestRoots, RequestSurfaces, RequestBatch, readVars, nodeVars
<1>6. CASE RequestRoots
  <2>1. [query |-> "Roots", nodes |-> {}] \in Queries
    BY DEF Queries
  <2>2. requested' = requested
    BY <1>6 DEF RequestRoots, nodeVars
  <2> QED BY <1>4, <1>5, <1>6, <2>1, <2>2 DEF RequestRoots
<1>7. CASE RequestSurfaces
  <2>1. [query |-> "Surfaces", nodes |-> {}] \in Queries
    BY DEF Queries
  <2>2. requested' = requested
    BY <1>7 DEF RequestSurfaces, nodeVars
  <2> QED BY <1>4, <1>5, <1>7, <2>1, <2>2 DEF RequestSurfaces
<1>8. CASE RequestBatch
  <2>1. PICK batch \in SUBSET Wanted :
           /\ SendQuery([query |-> "Nodes", nodes |-> batch])
           /\ requested' = requested \cup batch
    BY <1>8 DEF RequestBatch
  <2>2. [query |-> "Nodes", nodes |-> batch] \in Queries
    BY WantedNodes DEF Queries, ClipInv, GroundInv
  <2> QED BY <1>4, <2>1, <2>2
<1> QED BY <1>6, <1>7, <1>8

\* The windows move: what is outside them is evicted and no longer asked for.
LEMMA FollowKeeps ==
    ASSUME ClipInv, ChannelStep, FollowEye
    PROVE  GroundInv'
<1> DEFINE eye == viewpoint.view
<1>1. /\ at = "ground" /\ at' = "decode"
      /\ UNCHANGED <<pc, manifest, identity, pending, received, decoding, failure>>
  BY DEF FollowEye, At, StreamUnchanged, coreVars, readVars
<1>2. UpdateRuns' /\ BatchesAreCurrent' /\ PendingIsRead' /\ PendingIsOne'
  BY <1>1, PendingKept DEF ClipInv, GroundInv, UpdateRuns, BatchesAreCurrent
<1>3. CASE UNCHANGED nodeVars
  BY <1>1, <1>2, <1>3 DEF ClipInv, GroundInv, ClipTypeOK, GroundIsWindowed,
     GroundIsOfThePublication, AskedNodesArrive, Resident, nodeVars
<1>4. CASE /\ window' = WindowOf[eye]
           /\ resident' = Evicted(Nodes \ window')
           /\ requested' = requested \cap window'
           /\ stale' = stale \cap window'
  <2>1. eye \in Views
    BY <1>1 DEF ClipInv, EyeIsSomewhere, GroundInv, UpdateRuns, StreamingTypeOK, Windows
  <2>2. window' \subseteq Nodes
    BY <1>4, <2>1, ClipmapAssumption
  <2>3. ClipTypeOK'
    BY <1>1, <1>4, <2>2 DEF ClipInv, GroundInv, ClipTypeOK, Evicted
  <2>4. GroundIsWindowed' /\ AskedNodesArrive'
    BY <1>1, <1>4 DEF ClipInv, GroundInv, ClipTypeOK, GroundIsWindowed,
     GroundIsOfThePublication,   AskedNodesArrive, Resident, Evicted
  <2> QED BY <1>2, <2>3, <2>4 DEF GroundInv
<1> QED BY <1>3, <1>4 DEF FollowEye

\* The batch a node is taken from is one that finished with it.
LEMMA ArrivedOf ==
    ASSUME NEW finished, NEW n \in UNION {b.nodes : b \in finished}
    PROVE  (CHOOSE b \in finished : n \in b.nodes) \in finished
OBVIOUS

\* What finished decoding is drawn, and no longer asked for.
LEMMA DecodedKeeps ==
    ASSUME ClipInv, ChannelStep, NEW finished \in SUBSET decoding, NEW failed \in SUBSET decoding,
           failed \cap finished = {}, TakeDecoded(finished, failed)
    PROVE  GroundInv'
<1> DEFINE arrived == UNION {b.nodes : b \in finished}
           of(n) == CHOOSE b \in finished : n \in b.nodes
<1>1. \A n \in arrived : of(n) \in finished
  BY ArrivedOf
<1> HIDE DEF arrived, of
<1>2. /\ at = "decode" /\ at' = "nodes"
      /\ UNCHANGED <<pc, manifest, identity, window, pending>>
      /\ requested' = requested \ arrived
      /\ stale' = stale \ arrived
      /\ resident' = [n \in Nodes |-> IF n \in arrived \cap window
                                      THEN of(n).generation ELSE resident[n]]
      /\ decoding' = (decoding \ (finished \cup failed)) \cup received
      /\ received' = {}
      /\ failure' = (failure \/ failed # {})
  BY DEF TakeDecoded, At, StreamUnchanged, coreVars, groundVars, arrived, of
<1>3. \A n \in arrived : of(n).generation \in Generations /\ of(n).generation = identity.generation
  BY <1>1 DEF ClipInv, GroundInv, ClipTypeOK, Batch, BatchesAreCurrent
<1>4. UpdateRuns' /\ BatchesAreCurrent' /\ PendingIsRead' /\ PendingIsOne'
  BY <1>2, PendingKept DEF ClipInv, GroundInv, UpdateRuns, BatchesAreCurrent
<1>5. ClipTypeOK'
  BY <1>2, <1>3 DEF ClipInv, GroundInv, ClipTypeOK
<1>6. GroundIsWindowed'
  <2> SUFFICES ASSUME NEW n \in Nodes, resident'[n] # None
               PROVE  /\ n \in window'
                      /\ n \in stale' \/ resident'[n] = identity'.generation
    BY DEF GroundIsWindowed, GroundIsOfThePublication, Resident
  <2>1. CASE n \in arrived \cap window
    BY <1>2, <1>3, <2>1
  <2>2. CASE n \in arrived /\ n \notin window
    BY <1>2, <2>2 DEF ClipInv, GroundInv, GroundIsWindowed, Resident
  <2>3. CASE n \notin arrived
    <3>1. resident'[n] = resident[n]
      BY <1>2, <2>3
    <3>2. n \in window /\ (n \in stale \/ resident[n] = identity.generation)
      BY <3>1 DEF ClipInv, GroundInv, GroundIsWindowed, GroundIsOfThePublication, Resident
    <3> QED BY <1>2, <2>3, <3>1, <3>2
  <2> QED BY <2>1, <2>2, <2>3
<1>7. AskedNodesArrive'
  <2> SUFFICES ASSUME ~failure', NEW n \in requested'
               PROVE  \/ \E q \in pending' : n \in q.about.nodes
                      \/ \E b \in (received \cup decoding)' : n \in b.nodes
    BY DEF AskedNodesArrive
  <2>1. \/ \E q \in pending : n \in q.about.nodes
        \/ \E b \in received \cup decoding : n \in b.nodes
    BY <1>2 DEF ClipInv, GroundInv, AskedNodesArrive
  <2>2. failed = {} /\ \A b \in finished : n \notin b.nodes
    BY <1>2 DEF arrived
  <2> QED BY <1>2, <2>1, <2>2
<1> QED BY <1>4, <1>5, <1>6, <1>7 DEF GroundInv

-----------------------------------------------------------------------------
(* The invariant, and why ground leaves.                                   *)

LEMMA ClipInvInit == ClipmapInit => ClipInv
<1> SUFFICES ASSUME ClipmapInit PROVE ClipInv
  OBVIOUS
<1>1. StreamingTypeOK /\ InOrder
  BY InitTyped, InOrderInit DEF ClipmapInit, Init
<1>2. EyeIsSomewhere
  BY DEF ClipmapInit, Init, EyeIsSomewhere
<1>3. GroundInv
  BY DEF ClipmapInit, GroundInv, ClipTypeOK, UpdateRuns, PendingIsRead, PendingIsOne,
     BatchesAreCurrent, GroundIsWindowed, GroundIsOfThePublication, AskedNodesArrive, Resident
<1> QED BY <1>1, <1>2, <1>3 DEF ClipInv

LEMMA ClipInvStep == ClipInv /\ [ClipmapNext]_clipmapVars => ClipInv'
<1> SUFFICES ASSUME ClipInv, [ClipmapNext]_clipmapVars PROVE ClipInv'
  OBVIOUS
<1>1. StreamingTypeOK' /\ InOrder' /\ EyeIsSomewhere' /\ ChannelStep
  BY ClipmapChannels
<1>2. CASE \/ (Main \/ Others) /\ UNCHANGED clipVars
           \/ RetryDue
           \/ UNCHANGED clipmapVars
  BY <1>1, <1>2, OthersKeepGround DEF ClipInv
<1>3. CASE ClipmapReceive
  <2>1. CASE ReceiveNodes
    BY <1>1, <2>1, NodesKeep DEF ClipInv
  <2>2. CASE ReceiveDropped \/ ReceiveError \/ ReceiveRoots \/ ReceiveSurfaces
    <3>1. TerrainAnswered
      BY <2>2 DEF ReceiveDropped, ReceiveError, ReceiveRoots, ReceiveSurfaces, ReceiveTerrain,
         TerrainAnswered
    <3> QED BY <1>1, <2>2, <3>1, MetadataKeeps DEF ClipInv
  <2> QED BY <1>3, <2>1, <2>2 DEF ClipmapReceive
<1>4. CASE NoWorld \/ NotDrawable \/ EndUpdate
  <2>1. /\ UNCHANGED <<manifest, groundVars, nodeVars, readVars>>
        /\ at' = "follow"
        /\ failure => failure'
    BY <1>4 DEF NoWorld, NotDrawable, EndUpdate, Returns, StreamUnchanged, coreVars
  <2> QED BY <1>1, <2>1, NotSentKeeps DEF ClipInv
<1>5. CASE KeepGround \/ StartOver
  BY <1>1, <1>5, KeepGroundKeeps, StartOverKeeps DEF ClipInv
<1>6. CASE RequestRoots \/ RequestSurfaces \/ RequestBatch
  BY <1>1, <1>6, RequestKeeps DEF ClipInv
<1>7. CASE FollowEye
  BY <1>1, <1>7, FollowKeeps DEF ClipInv
<1>8. ASSUME NEW finished \in SUBSET decoding,
             NEW failed \in IF Faulty THEN SUBSET (decoding \ finished) ELSE {{}},
             TakeDecoded(finished, failed)
      PROVE  ClipInv'
  <2>1. failed \in SUBSET decoding /\ failed \cap finished = {}
    BY <1>8
  <2> QED BY <1>1, <1>8, <2>1, DecodedKeeps DEF ClipInv
<1> QED
  BY <1>2, <1>3, <1>4, <1>5, <1>6, <1>7, <1>8 DEF ClipmapNext, ClipmapFrame, ClipmapUpdate

\* Every read, batch and resident node of the clipmap is accounted for: a
\* pending id answers for the publication drawn and nothing else.
THEOREM GroundInvariant == ClipmapSpec => []ClipInv
BY ClipInvInit, ClipInvStep, PTL DEF ClipmapSpec

\* Ground that is not marked to be read again is of the publication drawn,
\* whatever of an earlier one is still queued, answered or decoding when
\* follow_publication moves on (terrain_clipmap.rs, TerrainRequests::drop_all).
THEOREM CurrentGround == ClipmapSpec => []GroundIsOfThePublication
<1>1. ClipInv => GroundIsOfThePublication
  BY DEF ClipInv, GroundInv, GroundIsWindowed
<1> QED BY <1>1, GroundInvariant, PTL

\* A node asked for is in a request in flight, received or decoding: request_nodes
\* never passes over a node nobody will bring.
THEOREM NoForgottenNode == ClipmapSpec => []AskedNodesArrive
<1>1. ClipInv => AskedNodesArrive
  BY DEF ClipInv, GroundInv
<1> QED BY <1>1, GroundInvariant, PTL

\* Resident ground leaves only outside the windows, when the publication lacks
\* it, or when everything is read from scratch (ClipmapTerrain::clear).
THEOREM GroundLeaves == ClipmapSpec => GroundLeavesForAReason
<1>1. ASSUME ClipInv, [ClipmapNext]_clipmapVars
      PROVE  \A n \in Resident :
                resident'[n] = None => n \notin window' \/ n \in absent' \/ StartsOver
  <2> SUFFICES ASSUME NEW n \in Nodes, resident[n] # None, resident'[n] = None
               PROVE  n \notin window' \/ n \in absent' \/ StartsOver
    BY DEF Resident
  <2>1. resident' # resident
    OBVIOUS
  <2>2. CASE ReceiveNodes
    <3>1. PICK missing : absent' = absent \cup missing /\ resident' = Evicted(missing \cap stale)
      BY <2>2 DEF ReceiveNodes
    <3> QED BY <3>1 DEF Evicted
  <2>3. CASE KeepGround
    BY <2>1, <2>3 DEF KeepGround, Republish
  <2>4. CASE StartOver
    BY <2>4 DEF StartOver
  <2>5. CASE FollowEye
    BY <2>1, <2>5 DEF FollowEye, nodeVars, Evicted
  <2>6. ASSUME NEW finished \in SUBSET decoding, NEW failed, TakeDecoded(finished, failed)
        PROVE  FALSE
    <3>1. \A m \in UNION {b.nodes : b \in finished} :
             (CHOOSE b \in finished : m \in b.nodes) \in decoding
      BY ArrivedOf
    <3>2. \A b \in decoding : b.generation # None
      BY <1>1, NoneIsNoValue DEF ClipInv, GroundInv, ClipTypeOK, Batch
    <3> QED BY <2>6, <3>1, <3>2 DEF TakeDecoded
  <2>7. CASE UNCHANGED clipVars
    BY <2>1, <2>7 DEF clipVars, nodeVars
  <2>8. CASE ReceiveDropped \/ ReceiveError \/ ReceiveRoots \/ ReceiveSurfaces
    BY <2>1, <2>8 DEF ReceiveDropped, ReceiveError, ReceiveRoots, ReceiveSurfaces
  <2>9. CASE NoWorld \/ NotDrawable \/ EndUpdate \/ RequestRoots \/ RequestSurfaces
             \/ RequestBatch \/ RetryDue
    BY <2>1, <2>9 DEF NoWorld, NotDrawable, EndUpdate, RequestRoots, RequestSurfaces,
       RequestBatch, RetryDue, nodeVars
  <2> QED
    BY <1>1, <2>2, <2>3, <2>4, <2>5, <2>6, <2>7, <2>8, <2>9
       DEF ClipmapNext, ClipmapFrame, ClipmapReceive, ClipmapUpdate, clipmapVars
<1>2. ClipInv /\ [ClipmapNext]_clipmapVars => 
             [\A n \in Resident :
                resident'[n] = None =>
                   \/ n \notin window'
                   \/ n \in absent'
                   \/ StartsOver]_clipmapVars
  BY <1>1
<1> QED BY <1>2, GroundInvariant, PTL DEF ClipmapSpec, GroundLeavesForAReason

=============================================================================
