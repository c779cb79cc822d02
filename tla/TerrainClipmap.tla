--------------------------- MODULE TerrainClipmap ---------------------------
(***************************************************************************)
(* The drawn ground: clipmap nodes of the active space, read from the      *)
(* world database in batches, kept while a new publication is read again   *)
(* in place (engine, world_streaming/terrain_clipmap.rs).  It runs in      *)
(* PostUpdate, after the coordinator's systems, and its replies are routed *)
(* in receive_database_results with everyone else's.                       *)
(*                                                                         *)
(* A node's heights, control tile and bounds are represented by the        *)
(* generation they were read from; levels, patches and wear are left out.  *)
(* Where the eye is, and so which nodes its windows hold and its view      *)
(* needs, is the coordinator's `viewpoint`.                                *)
(***************************************************************************)
EXTENDS WorldStreaming, FiniteSets

CONSTANTS
    Nodes,          \* terrain node keys of a space
    WindowOf,       \* the nodes within the windows around a view
    DemandOf,       \* of those, the ones the view needs
    NodesIn,        \* the nodes a generation has
    LayoutOf,       \* a generation's roots, as the layout and starts they give;
                    \* None if it has none, or of another resolution
    SurfacesOf,     \* a generation's ground surfaces
    BATCH,          \* nodes per request
    IN_FLIGHT,      \* requests in flight
    RetriesUntil    \* bound: the ground starts over after a failure only
                    \* before this many requests were sent

Queries == [query : {"Roots", "Surfaces"}, nodes : {{}}]
             \cup [query : {"Nodes"}, nodes : SUBSET Nodes]

ASSUME ClipmapAssumption ==
    /\ Queries \subseteq Topics
    /\ \A v \in Views : DemandOf[v] \subseteq WindowOf[v] /\ WindowOf[v] \subseteq Nodes
    /\ \A g \in Generations : NodesIn[g] \subseteq Nodes
    /\ BATCH \in Nat \ {0} /\ IN_FLIGHT \in Nat \ {0}
    /\ RetriesUntil \in Nat

VARIABLES
    at,             \* the next part of the PostUpdate system
    identity,       \* the generation and space drawn
    cell_size,
    layout,
    surfaces,
    gpu,            \* the clipmap's textures exist
    window,         \* the nodes inside the windows
    resident,       \* the generation of each node's resident data
    requested, absent, stale,
    pending,        \* TerrainRequests.pending
    dropped,        \* TerrainRequests.dropped
    wanted_roots, wanted_surfaces, rebuild,
    received,       \* batches read but not yet decoding
    decoding,       \* batches being decoded
    failure,
    failed_at       \* "no", or whether the failure is old enough to retry

metaVars == <<wanted_roots, wanted_surfaces, rebuild>>
groundVars == <<identity, cell_size, layout, surfaces, gpu>>
nodeVars == <<window, resident, requested, absent, stale>>
readVars == <<pending, dropped, received, decoding>>
clipVars == <<at, groundVars, nodeVars, readVars, metaVars, failure, failed_at>>
clipmapVars == <<vars, clipVars>>

ClipmapInit ==
    /\ Init
    /\ at = "follow"
    /\ identity = None /\ cell_size = None
    /\ layout = None /\ surfaces = None /\ gpu = FALSE
    /\ window = {} /\ resident = [n \in Nodes |-> None]
    /\ requested = {} /\ absent = {} /\ stale = {}
    /\ pending = {} /\ dropped = {} /\ received = {} /\ decoding = {}
    /\ wanted_roots = FALSE /\ wanted_surfaces = FALSE /\ rebuild = FALSE
    /\ failure = FALSE /\ failed_at = "no"

Resident == {n \in Nodes : resident[n] # None}
Evicted(gone) == [n \in Nodes |-> IF n \in gone THEN None ELSE resident[n]]

-----------------------------------------------------------------------------
(* ClipmapTerrain::receive, for a Terrain reply.                           *)

ReceiveTerrain ==
    /\ Receive("Terrain")
    /\ UNCHANGED <<coreVars, at, identity, cell_size, gpu, window, decoding,
                   wanted_roots, wanted_surfaces, failed_at>>
    /\ ReceiveUnchanged

Answered == {p \in pending : p.id = Head(results).id}
Asked(query) == \E p \in Answered : p.about.query = query

\* Of an earlier publication, or from before the clipmap started over.
ReceiveDropped ==
    /\ ReceiveTerrain
    /\ Answered = {}
    /\ dropped' = dropped \ {Head(results).id}
    /\ UNCHANGED <<layout, surfaces, resident, requested, absent, stale,
                   pending, received, rebuild, failure>>

TakeAnswer == pending' = pending \ Answered /\ UNCHANGED dropped

ReceiveError ==
    /\ ReceiveTerrain
    /\ Answered # {} /\ TakeAnswer
    /\ ~Head(results).ok
    /\ failure' = TRUE
    /\ UNCHANGED <<layout, surfaces, resident, requested, absent, stale,
                   received, rebuild>>

\* adopt_roots: the first roots lay the clipmap out; a new publication's are
\* only compared.  Unusable roots are a failure.
ReceiveRoots ==
    /\ ReceiveTerrain
    /\ Asked("Roots") /\ TakeAnswer
    /\ Head(results).ok
    /\ LET new == LayoutOf[Head(results).generation] IN
         /\ failure' = (failure \/ new = None)
         /\ rebuild' = (rebuild \/ (new # None /\ layout \notin {None, new}))
         /\ layout' = IF layout = None THEN new ELSE layout
    /\ UNCHANGED <<surfaces, resident, requested, absent, stale, received>>

ReceiveSurfaces ==
    /\ ReceiveTerrain
    /\ Asked("Surfaces") /\ TakeAnswer
    /\ Head(results).ok
    /\ surfaces' = SurfacesOf[Head(results).generation]
    /\ rebuild' = (rebuild \/ (gpu /\ surfaces # surfaces'))
    /\ UNCHANGED <<layout, resident, requested, absent, stale, received, failure>>

\* Nodes the generation does not have leave the ground if they were awaited as
\* a new version of a resident one.
ReceiveNodes ==
    /\ ReceiveTerrain
    /\ Asked("Nodes") /\ TakeAnswer
    /\ Head(results).ok
    /\ LET r == Head(results)
           found == r.about.nodes \cap NodesIn[r.generation]
           missing == r.about.nodes \ found
       IN
         /\ requested' = requested \ missing
         /\ absent' = absent \cup missing
         /\ stale' = stale \ missing
         /\ resident' = Evicted(missing \cap stale)
         /\ received' = received \cup {[generation |-> r.generation, nodes |-> found]}
    /\ UNCHANGED <<layout, surfaces, rebuild, failure>>

-----------------------------------------------------------------------------
(* update: one PostUpdate system, in its order.                            *)

At(part, next) == pc = "render" /\ at = part /\ at' = next /\ UNCHANGED pc
Returns(part) == pc = "render" /\ at = part /\ at' = "follow" /\ pc' = "idle"

StreamUnchanged == UNCHANGED <<dbVars, coreVars, inputs>>
SendUnchanged == UNCHANGED <<file, results, workerVars, cancelled, coreVars, inputs>>

Drawn == [generation |-> manifest, space |-> active]

NoWorld ==
    /\ Returns("follow")
    /\ ~InManifest(active)
    /\ StreamUnchanged
    /\ UNCHANGED <<groundVars, nodeVars, readVars, metaVars, failure, failed_at>>

\* Mutant of StartsOver: a failure waits for the next publication.
StartsOverWithoutRetry ==
    \/ rebuild
    \/ /\ identity # Drawn
       /\ \/ identity # None /\ identity.space # active
          \/ cell_size # CellSizeOf[manifest][active]
          \/ failure
          \/ ~gpu

\* follow_publication's reasons to clear() the ground first.
StartsOver ==
    \/ rebuild
    \/ failed_at = "old"
    \/ /\ identity # Drawn
       /\ \/ identity # None /\ identity.space # active
          \/ cell_size # CellSizeOf[manifest][active]
          \/ failure
          \/ ~gpu

\* What is in flight for an earlier publication is forgotten (drop_all).
DropReads ==
    /\ dropped' = dropped \cup {p.id : p \in pending}
    /\ pending' = {} /\ received' = {} /\ decoding' = {}

WantMetadata == wanted_roots' = TRUE /\ wanted_surfaces' = TRUE

\* Mutants of Republish: what is being decoded is kept; nodes asked for stay
\* marked; the ground is dropped.
RepublishKeepsDecoding ==
    /\ dropped' = dropped \cup {p.id : p \in pending}
    /\ pending' = {} /\ received' = {} /\ UNCHANGED decoding
    /\ stale' = stale \cup Resident
    /\ requested' = {} /\ absent' = {}
    /\ WantMetadata /\ UNCHANGED resident
RepublishKeepsRequested ==
    /\ DropReads
    /\ stale' = stale \cup Resident
    /\ absent' = {} /\ UNCHANGED requested
    /\ WantMetadata /\ UNCHANGED resident
RepublishFromScratch ==
    /\ DropReads
    /\ resident' = Evicted(Nodes) /\ stale' = {}
    /\ requested' = {} /\ absent' = {}
    /\ WantMetadata

\* republish: everything resident stays drawn and is marked to be read again.
Republish ==
    /\ DropReads
    /\ stale' = stale \cup Resident
    /\ requested' = {} /\ absent' = {}
    /\ WantMetadata /\ UNCHANGED resident

\* follow_publication, when it keeps what is drawn: clear() is not called.
KeepGround ==
    /\ At("follow", "roots")
    /\ InManifest(active) /\ ~StartsOver
    /\ identity' = Drawn
    /\ cell_size' = CellSizeOf[manifest][active]
    /\ IF identity # Drawn
       THEN Republish
       ELSE UNCHANGED <<readVars, stale, requested, absent, resident,
                        wanted_roots, wanted_surfaces>>
    /\ StreamUnchanged
    /\ UNCHANGED <<layout, surfaces, gpu, window, rebuild, failure, failed_at>>

\* follow_publication, after clear(): everything is read from scratch.
StartOver ==
    /\ At("follow", "roots")
    /\ InManifest(active) /\ StartsOver
    /\ identity' = Drawn
    /\ cell_size' = CellSizeOf[manifest][active]
    /\ layout' = None /\ surfaces' = None /\ gpu' = FALSE
    /\ window' = {} /\ resident' = Evicted(Nodes)
    /\ requested' = {} /\ absent' = {} /\ stale' = {}
    /\ pending' = {} /\ dropped' = {} /\ received' = {} /\ decoding' = {}
    /\ wanted_roots' = TRUE /\ wanted_surfaces' = TRUE /\ rebuild' = FALSE
    /\ failure' = FALSE /\ failed_at' = "no"
    /\ StreamUnchanged

\* TerrainRequests::send for the generation drawn.
SendQuery(query) ==
    /\ Sent("Terrain", identity.generation, 0, query)
    /\ pending' = pending \cup {[id |-> last_id', about |-> query]}
    /\ UNCHANGED failure

\* Asks for metadata still wanted; a full queue leaves it wanted.
RequestRoots ==
    /\ At("roots", "surfaces")
    /\ \/ /\ wanted_roots
          /\ SendQuery([query |-> "Roots", nodes |-> {}])
          /\ wanted_roots' = FALSE
       \/ /\ ~wanted_roots \/ NotSentFull
          /\ UNCHANGED <<requests, last_id, pending, wanted_roots, failure>>
       \/ /\ wanted_roots /\ NotSentStopped
          /\ failure' = TRUE
          /\ UNCHANGED <<requests, last_id, pending, wanted_roots>>
    /\ SendUnchanged
    /\ UNCHANGED <<groundVars, nodeVars, dropped, received, decoding,
                   wanted_surfaces, rebuild, failed_at>>

RequestSurfaces ==
    /\ At("surfaces", "ground")
    /\ \/ /\ wanted_surfaces
          /\ SendQuery([query |-> "Surfaces", nodes |-> {}])
          /\ wanted_surfaces' = FALSE
       \/ /\ ~wanted_surfaces \/ NotSentFull
          /\ UNCHANGED <<requests, last_id, pending, wanted_surfaces, failure>>
       \/ /\ wanted_surfaces /\ NotSentStopped
          /\ failure' = TRUE
          /\ UNCHANGED <<requests, last_id, pending, wanted_surfaces>>
    /\ SendUnchanged
    /\ UNCHANGED <<groundVars, nodeVars, dropped, received, decoding,
                   wanted_roots, rebuild, failed_at>>

\* A failure, or metadata still missing, ends the update.
NotDrawable ==
    /\ Returns("ground")
    /\ failure \/ layout = None \/ (~gpu /\ surfaces = None)
    /\ failed_at' = IF failure /\ failed_at = "no" THEN "recent" ELSE failed_at
    /\ StreamUnchanged
    /\ UNCHANGED <<groundVars, nodeVars, readVars, metaVars, failure>>

\* Textures are made once; then the windows follow the eye (move_windows),
\* at the latest when the view needs a node outside them.
FollowEye ==
    /\ At("ground", "decode")
    /\ ~failure /\ layout # None /\ (gpu \/ surfaces # None)
    /\ gpu' = TRUE
    /\ LET eye == viewpoint.view IN
         \/ DemandOf[eye] \subseteq window /\ UNCHANGED nodeVars
         \/ /\ window' = WindowOf[eye] /\ window' # window
            /\ resident' = Evicted(Nodes \ window')
            /\ requested' = requested \cap window'
            /\ stale' = stale \cap window'
            /\ UNCHANGED absent
    /\ StreamUnchanged
    /\ UNCHANGED <<identity, cell_size, layout, surfaces, readVars, metaVars,
                   failure, failed_at>>

\* take_decoded: the tasks that have finished join the clipmap (accept), or
\* one of them failed; then what was received starts decoding.
TakeDecoded(finished, failed) ==
    LET arrived == UNION {b.nodes : b \in finished} IN
    /\ At("decode", "nodes")
    /\ requested' = requested \ arrived
    /\ stale' = stale \ arrived
    /\ resident' = [n \in Nodes |->
           IF n \in arrived \cap window
           THEN (CHOOSE b \in finished : n \in b.nodes).generation
           ELSE resident[n]]
    /\ decoding' = (decoding \ (finished \cup failed)) \cup received
    /\ received' = {}
    /\ failure' = (failure \/ failed # {})
    /\ StreamUnchanged
    /\ UNCHANGED <<groundVars, window, absent, pending, dropped, metaVars,
                   failed_at>>

\* Mutant of Wanted: stale nodes are never read again.
WantedOnce ==
    ((DemandOf[viewpoint.view] \cap window) \ (absent \cup Resident)) \ requested

\* request_nodes: what the view needs and does not have, then stale nodes.
Wanted ==
    LET demand == (DemandOf[viewpoint.view] \cap window) \ absent
    IN  ((demand \ Resident) \cup stale) \ requested

\* One more batch; the update goes on with the next.
RequestBatch ==
    /\ pc = "render" /\ at = "nodes"
    /\ Wanted # {} /\ Cardinality(pending) < IN_FLIGHT
    /\ \E batch \in SUBSET Wanted :
         /\ Cardinality(batch) =
                IF Cardinality(Wanted) < BATCH THEN Cardinality(Wanted) ELSE BATCH
         /\ SendQuery([query |-> "Nodes", nodes |-> batch])
         /\ requested' = requested \cup batch
    /\ SendUnchanged
    /\ UNCHANGED <<pc, at, groundVars, window, resident, absent, stale, dropped,
                   received, decoding, metaVars, failed_at>>

EndUpdate ==
    /\ Returns("nodes")
    /\ \/ /\ Wanted = {} \/ Cardinality(pending) >= IN_FLIGHT \/ NotSentFull
          /\ UNCHANGED failure
       \/ /\ Wanted # {} /\ Cardinality(pending) < IN_FLIGHT /\ NotSentStopped
          /\ failure' = TRUE
    /\ StreamUnchanged
    /\ UNCHANGED <<groundVars, nodeVars, readVars, metaVars, failed_at>>

\* RETRY_SECONDS pass.
RetryDue ==
    /\ pc = "idle" /\ last_id < RetriesUntil
    /\ failed_at = "recent" /\ failed_at' = "old"
    /\ StreamUnchanged
    /\ UNCHANGED <<pc, at, groundVars, nodeVars, readVars, metaVars, failure>>

-----------------------------------------------------------------------------

ClipmapReceive ==
    ReceiveDropped \/ ReceiveError \/ ReceiveRoots \/ ReceiveSurfaces \/ ReceiveNodes

ClipmapUpdate ==
    \/ NoWorld \/ KeepGround \/ StartOver \/ RequestRoots \/ RequestSurfaces
    \/ NotDrawable \/ FollowEye
    \/ \E finished \in SUBSET decoding :
          \E failed \in IF Faulty THEN SUBSET (decoding \ finished) ELSE {{}} :
              TakeDecoded(finished, failed)
    \/ RequestBatch \/ EndUpdate

\* The frame: the coordinator's systems, then the clipmap's update.
ClipmapFrame == (Main /\ UNCHANGED clipVars) \/ ClipmapReceive \/ ClipmapUpdate

Others ==
    \/ \E g \in Generations : RequestReload(g)
    \/ TakeCompletion
    \/ \E t \in Transition : RequestSpace(t)
    \/ WorkerStep
    \/ WorkerPanics
    \/ \E g \in Generations : PublishFile(g)

ClipmapNext == ClipmapFrame \/ (Others /\ UNCHANGED clipVars) \/ RetryDue

\* The task pool finishes every decode in the end.
DecodingEnds == decoding # {} /\ TakeDecoded(decoding, {})

ClipmapFairness ==
    /\ WF_clipmapVars(ClipmapFrame)
    /\ SF_clipmapVars(DecodingEnds)
    /\ WF_clipmapVars(WorkerStep /\ UNCHANGED clipVars)
    /\ SF_clipmapVars(RetryDue)

ClipmapSpec == ClipmapInit /\ [][ClipmapNext]_clipmapVars /\ ClipmapFairness

=============================================================================
