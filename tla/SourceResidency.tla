--------------------------- MODULE SourceResidency ---------------------------
(***************************************************************************)
(* Source pages: what the index demands is requested, decoded off the main *)
(* thread, admitted within fixed budgets, attached to the world a few per  *)
(* frame, kept a while after demand left it, and dropped whole when the    *)
(* generation or space changes (engine, world_streaming/residency.rs and   *)
(* source_demand.rs).                                                      *)
(*                                                                         *)
(* Its systems run in Update, after the coordinator's; `step` names the    *)
(* next one while `pc` is "render".  A page's payload is represented by    *)
(* the generation it was read from, its entities are not modelled.  The    *)
(* order of priorities is left open: any order of requests and admissions. *)
(***************************************************************************)
EXTENDS WorldStreaming, FiniteSets, FiniteSetsExt

CONSTANTS
    Pages,              \* page keys
    PagesAround,        \* the pages demanded within each window of a space
    PagesIn,            \* the pages each generation's index lists
    DecodedBytes,       \* of each page
    OwnGpuBytes,        \* of each page, without shared assets
    VariantsOf,         \* the asset variants each page draws
    VariantGpuBytes,    \* of each asset variant
    MAX_PENDING_SOURCE_PAGES,
    MAX_ATTACHMENTS_PER_FRAME,
    MAX_RESIDENT_DECODED_BYTES,
    MAX_RESIDENT_GPU_BYTES_ESTIMATE

ASSUME PageAssumption ==
    /\ Pages \subseteq Topics
    /\ \A w \in Windows : PagesAround[w] \subseteq Pages
    /\ \A g \in Generations : PagesIn[g] \subseteq Pages
    /\ MAX_PENDING_SOURCE_PAGES \in Nat \ {0}
    /\ MAX_ATTACHMENTS_PER_FRAME \in Nat \ {0}
    /\ IsFiniteSet(Pages)
    /\ \A p \in Pages :
          /\ DecodedBytes[p] \in Nat /\ OwnGpuBytes[p] \in Nat
          /\ IsFiniteSet(VariantsOf[p])
          /\ \A v \in VariantsOf[p] : VariantGpuBytes[v] \in Nat
    /\ MAX_RESIDENT_DECODED_BYTES \in Nat
    /\ MAX_RESIDENT_GPU_BYTES_ESTIMATE \in Nat

VARIABLES
    step,       \* the next of this module's systems
    desired,    \* SourceResidency.desired
    pages,      \* SourceResidency.pages
    tasks,      \* SourceResidency.decode_tasks
    counted,    \* the pages StreamingStats counts: attached at the last
                \* frame's end, and since then in this frame
    untried,    \* the prepared pages this frame's admission has yet to look at
    attempts    \* attachment attempts of this frame

pageVars == <<step, desired, pages, tasks, counted, untried, attempts>>
residencyVars == <<vars, pageVars>>

Gone == [state |-> "gone", id |-> 0, generation |-> None]

ResidencyInit ==
    /\ Init
    /\ step = "demand"
    /\ desired = {}
    /\ pages = [p \in Pages |-> Gone]
    /\ tasks = {}
    /\ counted = {} /\ untried = {} /\ attempts = 0

In(states) == {p \in Pages : pages[p].state \in states}
Attached == In({"Resident", "Cooling"})

\* Fetched, decoding and waiting-to-attach work.
Pending == In({"Loading", "Decoding", "Prepared"})

-----------------------------------------------------------------------------
(* receive_page, for a Page reply.                                         *)

\* Mutant of Withdrawn: the page is left as it is.
LeftAlone(p) == pages

Withdrawn(p) == [pages EXCEPT ![p] = Gone]

\* A page that is no longer loading, or loading for a later request, stays.
ReceivePage ==
    /\ Receive("ReadPage")
    /\ LET r == Head(results)
           p == r.about
           current == pages[p].state = "Loading" /\ pages[p].id = r.id
       IN
         \/ /\ ~current
            /\ UNCHANGED <<pages, tasks>>
         \/ /\ current /\ p \notin desired
            /\ pages' = Withdrawn(p)
            /\ UNCHANGED tasks
         \/ /\ current /\ p \in desired
            /\ IF r.ok
               THEN /\ pages' = [pages EXCEPT ![p].state = "Decoding"]
                    /\ tasks' = tasks \cup
                         {[page |-> p, id |-> r.id, generation |-> r.generation]}
               ELSE /\ pages' = [pages EXCEPT ![p].state = "Failed"]
                    /\ UNCHANGED tasks
    /\ UNCHANGED <<coreVars, step, desired, counted, untried, attempts>>
    /\ ReceiveUnchanged

-----------------------------------------------------------------------------
(* SourceResidency::clear, part of clear_streamed_pages.                   *)

\* Mutants of ClearPages: pages being decoded, or attached pages, outlive it.
ClearAllButDecoding ==
    /\ desired' = {} /\ tasks' = {}
    /\ pages' = [p \in Pages |-> IF pages[p].state = "Decoding" THEN pages[p] ELSE Gone]
ClearAllButAttached ==
    /\ desired' = {} /\ tasks' = {}
    /\ pages' = [p \in Pages |-> IF p \in Attached THEN pages[p] ELSE Gone]

ClearPages ==
    /\ desired' = {} /\ tasks' = {}
    /\ pages' = [p \in Pages |-> Gone]

\* The coordinator's systems, with the clear_streamed_pages they make.
CoordinatorWithPages ==
    /\ \/ AdoptGeneration /\ ClearPages
       \/ /\ TransitionTaken \/ UpdateOrigin
          /\ IF active' # active \/ origin' # origin
             THEN ClearPages
             ELSE UNCHANGED <<desired, pages, tasks>>
       \/ /\ \/ StartFrame
             \/ ReceiveOpened \/ ReceiveReloaded \/ ReceiveCommitted \/ ReceiveIndex
             \/ ReceiveNothing \/ ReceiveDisconnected
             \/ RequestReloadSystem
             \/ DiscardReload \/ CommitReload \/ AwaitReload
             \/ TransitionWaits
             \/ SyncFocus
             \/ IndexNotWanted \/ RequestCellIndex
          /\ UNCHANGED <<desired, pages, tasks>>
    /\ UNCHANGED <<step, counted, untried, attempts>>

-----------------------------------------------------------------------------
(* calculate_page_demand                                                   *)

AtStep(from, to) == pc = "render" /\ step = from /\ step' = to /\ UNCHANGED pc
DbUnchanged == UNCHANGED <<dbVars, coreVars, inputs>>

DemandKnown ==
    /\ phase = "Ready" /\ ~demand_error
    /\ InManifest(active) /\ ViewpointIsHere

\* demand: the indexed pages within reach of the viewpoint.
Demand ==
    IF descriptors = None THEN {}
    ELSE PagesAround[descriptors.about] \cap PagesAround[viewpoint]
            \cap PagesIn[descriptors.generation]

KeepDemand ==
    /\ AtStep("demand", "decode") /\ ~DemandKnown
    /\ DbUnchanged
    /\ UNCHANGED <<desired, pages, tasks, counted, untried, attempts>>

SetDemand ==
    /\ AtStep("demand", "request") /\ DemandKnown
    /\ desired' = Demand
    /\ DbUnchanged
    /\ UNCHANGED <<pages, tasks, counted, untried, attempts>>

Missing == desired \cap In({"gone"})
MayRequest == Missing # {} /\ Cardinality(Pending) < MAX_PENDING_SOURCE_PAGES

\* request_missing: one page of its loop.
RequestPage ==
    /\ pc = "render" /\ step = "request"
    /\ MayRequest
    /\ \E p \in Missing :
         /\ Sent("ReadPage", manifest, 0, p)
         /\ pages' = [pages EXCEPT ![p] =
                        [state |-> "Loading", id |-> last_id', generation |-> None]]
    /\ UNCHANGED <<file, results, workerVars, cancelled, pc, coreVars, inputs,
                   step, desired, tasks, counted, untried, attempts>>

EndRequests ==
    /\ AtStep("request", "decode")
    /\ \/ /\ ~MayRequest \/ NotSentFull
          /\ UNCHANGED phase
       \/ /\ MayRequest /\ NotSentStopped
          /\ phase' = "Failed"
    /\ UNCHANGED <<dbVars, reload, spaceVars, manifest, streamVars, inputs,
                   desired, pages, tasks, counted, untried, attempts>>

-----------------------------------------------------------------------------
(* receive_decode_results                                                  *)

\* The tasks `done` have finished, those of `bad` with an error.
ReceiveDecodeResults(done, bad) ==
    LET current(t) == pages[t.page].state = "Decoding" /\ pages[t.page].id = t.id
        of(p) == {t \in done : t.page = p /\ current(t)}
        after(p) ==
            IF p \notin desired THEN Gone
            ELSE IF of(p) \cap bad # {} THEN [pages[p] EXCEPT !.state = "Failed"]
            ELSE [pages[p] EXCEPT !.state = "Prepared",
                        !.generation = (CHOOSE t \in of(p) : TRUE).generation]
    IN
    /\ AtStep("decode", "attach")
    /\ tasks' = tasks \ done
    /\ pages' = [p \in Pages |-> IF of(p) = {} THEN pages[p] ELSE after(p)]
    /\ untried' = {p \in Pages : pages'[p].state = "Prepared"}
    /\ attempts' = 0
    /\ DbUnchanged
    /\ UNCHANGED <<desired, counted>>

-----------------------------------------------------------------------------
(* attach_prepared_pages: one page of its loop.                            *)

Decoded(of) == MapThenSumSet(LAMBDA p : DecodedBytes[p], of)
Variants(of) == UNION {VariantsOf[p] : p \in of}
Gpu(of) == MapThenSumSet(LAMBDA p : OwnGpuBytes[p], of)
             + MapThenSumSet(LAMBDA v : VariantGpuBytes[v], Variants(of))

\* The GPU bytes a page adds: shared assets already counted cost nothing.
AddedGpu(p) == OwnGpuBytes[p] +
    MapThenSumSet(LAMBDA v : VariantGpuBytes[v], VariantsOf[p] \ Variants(counted))

TooLarge(p) ==
    \/ DecodedBytes[p] > MAX_RESIDENT_DECODED_BYTES
    \/ AddedGpu(p) > MAX_RESIDENT_GPU_BYTES_ESTIMATE

Fits(p) ==
    /\ Decoded(counted) + DecodedBytes[p] <= MAX_RESIDENT_DECODED_BYTES
    /\ Gpu(counted) + AddedGpu(p) <= MAX_RESIDENT_GPU_BYTES_ESTIMATE

Trying(p) ==
    /\ pc = "render" /\ step = "attach" /\ UNCHANGED <<pc, step>>
    /\ p \in untried /\ attempts < MAX_ATTACHMENTS_PER_FRAME
    /\ untried' = untried \ {p}
    /\ DbUnchanged
    /\ UNCHANGED <<desired, tasks>>

\* A page of an unknown space or one that no budget holds fails, an undesired
\* one goes.
RejectPage(p) ==
    /\ Trying(p)
    /\ \/ /\ ~InManifest(active) \/ (p \in desired /\ TooLarge(p))
          /\ pages' = [pages EXCEPT ![p].state = "Failed"]
       \/ /\ InManifest(active) /\ p \notin desired
          /\ pages' = [pages EXCEPT ![p] = Gone]
    /\ UNCHANGED <<counted, attempts>>

\* A page that does not fit waits, without using up an attempt.
BlockPage(p) ==
    /\ Trying(p)
    /\ InManifest(active) /\ p \in desired /\ ~TooLarge(p) /\ ~Fits(p)
    /\ UNCHANGED <<pages, counted, attempts>>

\* Mutant of AttachPage: the page does not count before the frame ends.
AttachPageUncounted(p) ==
    /\ Trying(p)
    /\ InManifest(active) /\ p \in desired /\ ~TooLarge(p) /\ Fits(p)
    /\ attempts' = attempts + 1
    /\ \/ pages' = [pages EXCEPT ![p].state = "Resident"]
       \/ Faulty /\ pages' = [pages EXCEPT ![p].state = "Failed"]
    /\ UNCHANGED counted

\* attach_page; bad content is only found here.
AttachPage(p) ==
    /\ Trying(p)
    /\ InManifest(active) /\ p \in desired /\ ~TooLarge(p) /\ Fits(p)
    /\ attempts' = attempts + 1
    /\ \/ /\ pages' = [pages EXCEPT ![p].state = "Resident"]
          /\ counted' = counted \cup {p}
       \/ /\ Faulty
          /\ pages' = [pages EXCEPT ![p].state = "Failed"]
          /\ UNCHANGED counted

EndAttachments ==
    /\ AtStep("attach", "cool")
    /\ untried = {} \/ attempts = MAX_ATTACHMENTS_PER_FRAME
    /\ untried' = {} /\ attempts' = 0
    /\ DbUnchanged
    /\ UNCHANGED <<desired, pages, tasks, counted>>

-----------------------------------------------------------------------------
(* cool_and_remove_pages and update_streaming_stats                        *)

\* Mutant of Revived: a page demanded again goes on cooling.
NeverRevived(p) == FALSE

Revived(p) == pages[p].state = "Cooling" /\ p \in desired

\* COOLING_SECONDS have passed for the cooling pages of `expired`.
CoolAndRemove(expired) ==
    /\ AtStep("cool", "stats")
    /\ pages' = [p \in Pages |->
         IF pages[p].state = "Resident" /\ p \notin desired
         THEN [pages[p] EXCEPT !.state = "Cooling"]
         ELSE IF Revived(p) THEN [pages[p] EXCEPT !.state = "Resident"]
         ELSE IF \/ p \in expired
                 \/ pages[p].state = "Prepared" /\ p \notin desired
         THEN Gone
         ELSE pages[p]]
    /\ DbUnchanged
    /\ UNCHANGED <<desired, tasks, counted, untried, attempts>>

\* The frame ends; budgets of the next are counted from what is attached now.
UpdateStreamingStats ==
    /\ pc = "render" /\ step = "stats"
    /\ pc' = "idle" /\ step' = "demand"
    /\ counted' = Attached
    /\ DbUnchanged
    /\ UNCHANGED <<desired, pages, tasks, untried, attempts>>

-----------------------------------------------------------------------------

ResidencyFrame ==
    \/ CoordinatorWithPages
    \/ ReceivePage
    \/ KeepDemand \/ SetDemand \/ RequestPage \/ EndRequests
    \/ \E done \in SUBSET tasks :
          \E bad \in IF Faulty THEN SUBSET done ELSE {{}} :
             ReceiveDecodeResults(done, bad)
    \/ \E p \in Pages : RejectPage(p) \/ BlockPage(p) \/ AttachPage(p)
    \/ EndAttachments
    \/ \E expired \in SUBSET In({"Cooling"}) : CoolAndRemove(expired)
    \/ UpdateStreamingStats

ResidencyOthers ==
    \/ \E g \in Generations : RequestReload(g)
    \/ TakeCompletion
    \/ \E t \in Transition : RequestSpace(t)
    \/ WorkerStep
    \/ WorkerPanics
    \/ \E g \in Generations : PublishFile(g)

ResidencyNext == ResidencyFrame \/ (ResidencyOthers /\ UNCHANGED pageVars)

\* The task pool finishes every decode, and cooling ends.
DecodesEnd == tasks # {} /\ ReceiveDecodeResults(tasks, {})
CoolingEnds == In({"Cooling"}) # {} /\ CoolAndRemove(In({"Cooling"}))

ResidencyFairness ==
    /\ WF_residencyVars(ResidencyFrame)
    /\ WF_residencyVars(WorkerStep /\ UNCHANGED pageVars)
    /\ SF_residencyVars(DecodesEnd)
    /\ SF_residencyVars(CoolingEnds)

ResidencySpec == ResidencyInit /\ [][ResidencyNext]_residencyVars /\ ResidencyFairness

=============================================================================
