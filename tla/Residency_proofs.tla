-------------------------- MODULE Residency_proofs --------------------------
(***************************************************************************)
(* Source pages through changes of demand, generation and space, for any   *)
(* pages, budgets, spaces, generations and faults: what is shown is of the *)
(* open generation, what is on its way arrives, and demanded pages stay.   *)
(***************************************************************************)
EXTENDS ResidencyProperties, WorldStreaming_proofs, FiniteSetTheorems,
        WellFoundedInduction

-----------------------------------------------------------------------------
(* What residency adds to the coordinator's steps.                         *)

\* The page client's steps that are no steps of the coordinator: it drains an
\* answer, asks for a page, or finds the worker gone.
PageAnswered == Receive("ReadPage") /\ ReceiveUnchanged /\ UNCHANGED coreVars
PageAsked(p) ==
    /\ Sent("ReadPage", manifest, 0, p)
    /\ UNCHANGED <<file, results, workerVars, cancelled, pc, coreVars, inputs>>
PagesStopped ==
    /\ phase' \in {phase, "Failed"} /\ UNCHANGED pc
    /\ UNCHANGED <<dbVars, reload, spaceVars, manifest, streamVars, inputs>>

PageStates == {"gone", "Loading", "Decoding", "Prepared", "Resident", "Cooling", "Failed"}
Page == [state : PageStates, id : Nat, generation : Generations \cup {None}]
Task == [page : Pages, id : Nat, generation : Generations]

PagesTypeOK ==
    /\ step \in {"demand", "request", "decode", "attach", "cool", "stats"}
    /\ desired \subseteq Pages
    /\ pages \in [Pages -> Page]
    /\ tasks \subseteq Task
    /\ counted \subseteq Pages /\ untried \subseteq Pages
    /\ attempts \in Nat

\* Before a world is open nothing is demanded, and no page is anywhere.
NothingBeforeOpening ==
    manifest = None => desired = {} /\ \A p \in Pages : pages[p].state = "gone"

\* What is on its way under a loading page's id is the read of that page from
\* the open generation.
LoadingIsRead ==
    \A p \in Pages : pages[p].state = "Loading" =>
        IsRead(pages[p].id, "ReadPage", manifest, p)

LoadingArrives ==
    worker # "stopped" =>
        \A p \in Pages : pages[p].state = "Loading" => OnItsWay(pages[p].id)

\* The pages being decoded and the decodes under way are the same, of the open
\* generation.
TasksAreDecoding ==
    /\ \A t \in tasks :
          /\ pages[t.page].state = "Decoding" /\ t.id = pages[t.page].id
          /\ t.generation = manifest
    /\ \A p \in Pages : pages[p].state = "Decoding" => \E t \in tasks : t.page = p

ShownIsCurrent ==
    \A p \in Pages :
        pages[p].state \in {"Prepared", "Resident", "Cooling"} => pages[p].generation = manifest

\* This frame's admission looks at prepared pages only.
UntriedIsPrepared ==
    /\ untried # {} => pc = "render" /\ step = "attach"
    /\ \A p \in untried : pages[p].state = "Prepared"

PageInv ==
    /\ PagesTypeOK
    /\ NothingBeforeOpening /\ LoadingIsRead /\ LoadingArrives
    /\ TasksAreDecoding /\ ShownIsCurrent /\ UntriedIsPrepared

ResidencyInv == StreamingTypeOK /\ InOrder /\ OpensFirst /\ PageInv

\* Every step is the coordinator's, or one of these.
LEMMA ResidencySteps ==
    ASSUME [ResidencyNext]_residencyVars
    PROVE  \/ [Next]_vars
           \/ ReceivePage /\ PageAnswered
           \/ RequestPage /\ \E p \in Missing : PageAsked(p)
           \/ EndRequests /\ PagesStopped
<1>1. CASE CoordinatorWithPages
  BY <1>1 DEF CoordinatorWithPages, Next, Main
<1>2. CASE ReceivePage
  BY <1>2 DEF ReceivePage, PageAnswered
<1>3. CASE RequestPage
  BY <1>3 DEF RequestPage, PageAsked
<1>4. CASE EndRequests
  BY <1>4 DEF EndRequests, PagesStopped, AtStep
<1>5. CASE KeepDemand \/ SetDemand \/ EndAttachments
  BY <1>5 DEF KeepDemand, SetDemand, EndAttachments, AtStep, DbUnchanged, vars
<1>6. ASSUME NEW done \in SUBSET tasks, NEW bad, ReceiveDecodeResults(done, bad)
      PROVE  UNCHANGED vars
  BY <1>6 DEF ReceiveDecodeResults, AtStep, DbUnchanged, vars
<1>7. ASSUME NEW p \in Pages, RejectPage(p) \/ BlockPage(p) \/ AttachPage(p)
      PROVE  UNCHANGED vars
  BY <1>7 DEF RejectPage, BlockPage, AttachPage, Trying, DbUnchanged, vars
<1>8. ASSUME NEW expired, CoolAndRemove(expired)
      PROVE  UNCHANGED vars
  BY <1>8 DEF CoolAndRemove, AtStep, DbUnchanged, vars
<1>9. CASE UpdateStreamingStats
  BY <1>9 DEF UpdateStreamingStats, DbUnchanged, EndFrame, Next
<1>10. CASE ResidencyOthers
  BY <1>10 DEF ResidencyOthers, Next
<1>11. CASE UNCHANGED residencyVars
  BY <1>11 DEF residencyVars
<1> QED
  BY <1>1, <1>2, <1>3, <1>4, <1>5, <1>6, <1>7, <1>8, <1>9, <1>10, <1>11
     DEF ResidencyNext, ResidencyFrame

\* The index of the active space comes with the open generation: there is no
\* demand without one.
LEMMA MissingIsOpen ==
    ASSUME StreamingTypeOK, PagesTypeOK, NothingBeforeOpening, NEW p \in Missing
    PROVE  p \in Pages /\ p \in Topics /\ manifest \in Generations
BY PageAssumption DEF Missing, In, NothingBeforeOpening, StreamingTypeOK, PagesTypeOK

\* Every step is a step of the channels, and keeps the coordinator well-typed
\* and the opening reply the first.
LEMMA ResidencyChannels ==
    ASSUME ResidencyInv, [ResidencyNext]_residencyVars
    PROVE  StreamingTypeOK' /\ InOrder' /\ OpensFirst' /\ ChannelStep
<1> USE DEF ResidencyInv, PageInv
<1>1. ASSUME ChannelStep PROVE InOrder'
  BY <1>1, InOrderStep DEF ChannelStep, StreamingTypeOK
<1>2. ASSUME ChannelStep, UNCHANGED <<manifest, reload>> PROVE OpensFirst'
  BY <1>2, OpensFirstKept
<1>3. CASE [Next]_vars
  <2>1. ChannelStep
    BY <1>3, ChannelSteps DEF ChannelStep, WorkerStep, WorkerPanics
  <2> QED BY <1>1, <1>3, <2>1, NextTyped, OpensFirstStep
<1>4. CASE PageAnswered
  <2>1. ChannelStep
    BY <1>4 DEF PageAnswered, Receive, ReceiveUnchanged, ChannelStep, ReceiveStep
  <2>2. /\ DbTypeOK' /\ pc' \in Systems
        /\ transition' \in Transition \cup {None} /\ inputs' \in 0..MaxInputs
    BY <1>4, ReceiveTyped DEF PageAnswered
  <2>3. StreamingTypeOK'
    BY <1>4, <2>2 DEF PageAnswered, StreamingTypeOK, coreVars, spaceVars, streamVars
  <2> QED BY <1>1, <1>2, <1>4, <2>1, <2>3 DEF PageAnswered, coreVars
<1>5. ASSUME NEW p \in Missing, PageAsked(p)
      PROVE  StreamingTypeOK' /\ InOrder' /\ OpensFirst' /\ ChannelStep
  <2>1. p \in Topics /\ manifest \in Generations /\ p # None /\ manifest # None
    BY MissingIsOpen, NoneIsNoValue
  <2>2. ChannelStep
    <3>1. SendStep /\ UNCHANGED <<results, workerVars>>
      BY <1>5, <2>1 DEF PageAsked, SendStep, Reads, LiveReads
    <3> QED BY <3>1 DEF ChannelStep
  <2>3. /\ requests' \in Seq(Request) /\ Len(requests') <= REQUEST_CAPACITY
        /\ last_id' \in Nat
    BY <1>5, <2>1, SentTyped DEF PageAsked, StreamingTypeOK, Reads, LiveReads
  <2>4. DbTypeOK'
    BY <1>5, <2>3 DEF PageAsked, StreamingTypeOK, DbTypeOK, workerVars
  <2>5. StreamingTypeOK'
    BY <1>5, <2>4 DEF PageAsked, StreamingTypeOK, coreVars, spaceVars, streamVars
  <2> QED BY <1>1, <1>2, <1>5, <2>2, <2>5 DEF PageAsked, coreVars
<1>6. CASE PagesStopped
  <2>1. ChannelStep
    BY <1>6 DEF PagesStopped, dbVars, workerVars, ChannelStep, QuietStep
  <2>2. StreamingTypeOK'
    BY <1>6, DbUnchangedTyped DEF PagesStopped, StreamingTypeOK, spaceVars, streamVars
  <2> QED BY <1>1, <1>2, <1>6, <2>1, <2>2 DEF PagesStopped
<1> QED BY <1>3, <1>4, <1>5, <1>6, ResidencySteps

-----------------------------------------------------------------------------
(* Reads of pages on their way.                                            *)

\* A step that drains nothing is no receiving step.
LEMMA NothingDrained ==
    ASSUME StreamingTypeOK, results' = results \/ \E r \in Result : results' = Append(results, r)
    PROVE  ~ReceiveStep
<1>1. results \in Seq(Result)
  BY DEF StreamingTypeOK, DbTypeOK
<1>2. results # <<>> => Tail(results) # results
  BY <1>1
<1>3. ASSUME NEW r \in Result, results # <<>> PROVE Tail(results) # Append(results, r)
  BY <1>1, <1>3
<1> QED BY <1>2, <1>3 DEF ReceiveStep, Received

\* A thread that has stopped stays so.
LEMMA StoppedStays ==
    ASSUME ChannelStep, worker = "stopped"
    PROVE  worker' = "stopped"
BY DEF ChannelStep, SendStep, ReceiveStep, QuietStep, workerVars, Worker, Panic, Open, SendReply,
       Serve, Cancelled, ChannelWait

\* As long as no page starts to load, a drained answer leaves no page loading
\* that it is the answer for, and the open generation stays, every loading
\* page's read is on its way.
LEMMA LoadingKept ==
    ASSUME ResidencyInv, ChannelStep, UNCHANGED manifest,
           \A p \in Pages : pages'[p].state = "Loading" =>
               /\ pages'[p] = pages[p]
               /\ ReceiveStep => results[1].id # pages[p].id
    PROVE  LoadingIsRead' /\ LoadingArrives'
<1> SUFFICES ASSUME NEW p \in Pages, pages'[p].state = "Loading"
             PROVE  /\ IsRead(pages[p].id, "ReadPage", manifest, p)'
                    /\ worker' # "stopped" => OnItsWay(pages[p].id)'
  BY DEF LoadingIsRead, LoadingArrives
<1>1. /\ pages'[p] = pages[p] /\ pages[p].state = "Loading"
      /\ ReceiveStep => results[1].id # pages[p].id
  OBVIOUS
<1>2. PICK id : id = pages[p].id
  OBVIOUS
<1>3. PICK g : g = manifest
  OBVIOUS
<1>4. id = pages'[p].id /\ g = manifest'
  BY <1>1, <1>2, <1>3
<1>5. DbTypeOK /\ InOrder /\ "ReadPage" \in Reads
  BY DEF ResidencyInv, StreamingTypeOK, Reads, LiveReads
<1>6. IsRead(id, "ReadPage", g, p)
  BY <1>1, <1>2, <1>3 DEF ResidencyInv, PageInv, LoadingIsRead
<1>7. IsRead(id, "ReadPage", g, p)'
  BY <1>5, <1>6, IsReadStep
<1>8. worker' # "stopped" => OnItsWay(id)'
  <2> SUFFICES ASSUME worker' # "stopped" PROVE OnItsWay(id)'
    OBVIOUS
  <2>1. worker # "stopped"
    BY StoppedStays
  <2>2. OnItsWay(id)
    BY <1>1, <1>2, <2>1 DEF ResidencyInv, PageInv, LoadingArrives
  <2> QED BY <1>1, <1>2, <1>5, <1>6, <2>2, OnItsWayStep
<1> QED BY <1>4, <1>7, <1>8

-----------------------------------------------------------------------------
(* The coordinator and what runs beside it.                                *)

\* The coordinator never runs during this module's systems.  It clears the
\* pages, or leaves them and the open generation alone and drains no page;
\* only the opening of the world does neither.
LEMMA CoordinatorPages ==
    ASSUME StreamingTypeOK, CoordinatorWithPages
    PROVE  /\ UNCHANGED <<step, counted, untried, attempts>> /\ pc # "render"
           /\ \/ ClearPages
              \/ /\ UNCHANGED <<desired, pages, tasks>>
                 /\ UNCHANGED manifest \/ ReceiveOpened
                 /\ ReceiveStep => Head(results).kind # "ReadPage"
<1>1. UNCHANGED <<step, counted, untried, attempts>>
  BY DEF CoordinatorWithPages
<1>2. CASE AdoptGeneration /\ ClearPages
  BY <1>1, <1>2 DEF AdoptGeneration, AtAdvance
<1>3. CASE /\ TransitionTaken \/ UpdateOrigin
           /\ IF active' # active \/ origin' # origin
              THEN ClearPages
              ELSE UNCHANGED <<desired, pages, tasks>>
  <2>1. UNCHANGED <<manifest, results>> /\ pc # "render"
    BY <1>3 DEF TransitionTaken, UpdateOrigin, AtTransition, dbVars
  <2> QED BY <1>1, <1>3, <2>1, NothingDrained
<1>4. CASE /\ ReceiveOpened \/ ReceiveReloaded \/ ReceiveCommitted \/ ReceiveIndex
           /\ UNCHANGED <<desired, pages, tasks>>
  <2>1. Receive("Opened") \/ Receive("Reloaded") \/ Receive("ReloadCommitted") \/ Receive("ReadIndex")
    BY <1>4 DEF ReceiveOpened, ReceiveReloaded, ReceiveCommitted, ReceiveIndex
  <2>2. UNCHANGED manifest \/ ReceiveOpened
    BY <1>4 DEF ReceiveReloaded, ReceiveCommitted, ReceiveIndex
  <2> QED BY <1>1, <1>4, <2>1, <2>2 DEF Receive
<1>5. CASE /\ \/ StartFrame \/ ReceiveNothing \/ ReceiveDisconnected
              \/ RequestReloadSystem
              \/ DiscardReload \/ CommitReload \/ AwaitReload
              \/ TransitionWaits \/ SyncFocus
              \/ IndexNotWanted \/ RequestCellIndex
           /\ UNCHANGED <<desired, pages, tasks>>
  <2>1. UNCHANGED <<manifest, results>> /\ pc # "render"
    BY <1>5 DEF StartFrame, ReceiveNothing, ReceiveDisconnected, RequestReloadSystem,
       DiscardReload, CommitReload, AwaitReload, AtAdvance, TransitionWaits, AtTransition,
       SyncFocus, IndexNotWanted, RequestCellIndex, AtIndex, IndexUnchanged, dbVars, coreVars
  <2> QED BY <1>1, <1>5, <2>1, NothingDrained
<1> QED
  BY <1>2, <1>3, <1>4, <1>5 DEF CoordinatorWithPages

\* Cleared pages are in no stage.
LEMMA ClearedPages ==
    ASSUME PagesTypeOK', ClearPages, untried' = {}
    PROVE  PageInv'
<1>1. \A p \in Pages : pages'[p].state = "gone"
  BY DEF ClearPages, Gone
<1>2. desired' = {} /\ tasks' = {}
  BY DEF ClearPages
<1> QED BY <1>1, <1>2 DEF PageInv, NothingBeforeOpening, LoadingIsRead, LoadingArrives,
           TasksAreDecoding, ShownIsCurrent, UntriedIsPrepared

\* The parts of the invariant that speak of pages and decodes alone follow
\* these and the open generation.
LEMMA SamePages ==
    ASSUME PageInv, UNCHANGED <<desired, pages, tasks, manifest>>
    PROVE  NothingBeforeOpening' /\ TasksAreDecoding' /\ ShownIsCurrent'
BY DEF PageInv, NothingBeforeOpening, TasksAreDecoding, ShownIsCurrent

LEMMA CoordinatorKeepsPages ==
    ASSUME ResidencyInv, CoordinatorWithPages, ChannelStep
    PROVE  PageInv'
<1> USE DEF ResidencyInv
<1>1. /\ UNCHANGED <<step, counted, untried, attempts>> /\ untried = {}
      /\ PagesTypeOK
  BY CoordinatorPages DEF PageInv, UntriedIsPrepared
<1>2. CASE ClearPages
  <2>1. PagesTypeOK'
    BY <1>1, <1>2 DEF ClearPages, PagesTypeOK, Page, PageStates, Gone
  <2> QED BY <1>1, <1>2, <2>1, ClearedPages
<1>3. CASE /\ UNCHANGED <<desired, pages, tasks>>
           /\ UNCHANGED manifest
           /\ ReceiveStep => Head(results).kind # "ReadPage"
  <2>1. PagesTypeOK' /\ UntriedIsPrepared'
    BY <1>1, <1>3 DEF PagesTypeOK, UntriedIsPrepared
  <2>2. ASSUME NEW p \in Pages, pages'[p].state = "Loading", ReceiveStep
        PROVE  results[1].id # pages[p].id
    <3>1. IsRead(pages[p].id, "ReadPage", manifest, p)
      BY <1>3, <2>2 DEF PageInv, LoadingIsRead
    <3>2. 1 \in DOMAIN results /\ Head(results) = results[1]
      BY <2>2, TailElements DEF ReceiveStep, Received, StreamingTypeOK, DbTypeOK
    <3> QED BY <1>3, <2>2, <3>1, <3>2 DEF IsRead
  <2>3. LoadingIsRead' /\ LoadingArrives'
    BY <1>3, <2>2, LoadingKept
  <2> QED BY <1>3, <2>1, <2>3, SamePages DEF PageInv
<1>4. CASE UNCHANGED <<desired, pages, tasks>> /\ ReceiveOpened
  <2>1. manifest = None
    <3>1. 1 \in DOMAIN results /\ results[1].kind = "Opened"
      <4>1. Receive("Opened")
        BY <1>4 DEF ReceiveOpened
      <4> QED BY <4>1, TailElements DEF Receive, Received, StreamingTypeOK, DbTypeOK
    <3> QED BY <3>1 DEF OpensFirst
  <2>2. desired = {} /\ \A p \in Pages : pages[p].state = "gone"
    BY <2>1 DEF PageInv, NothingBeforeOpening
  <2>3. tasks = {}
    BY <1>1, <2>2 DEF PageInv, TasksAreDecoding, PagesTypeOK, Task
  <2>4. PagesTypeOK' /\ UntriedIsPrepared'
    BY <1>1, <1>4 DEF PagesTypeOK, UntriedIsPrepared
  <2> QED BY <1>4, <2>2, <2>3, <2>4 DEF PageInv, NothingBeforeOpening, LoadingIsRead,
             LoadingArrives, TasksAreDecoding, ShownIsCurrent
<1> QED BY <1>2, <1>3, <1>4, CoordinatorPages

\* The worker, the cook and the requests between frames touch no page.
LEMMA OthersKeepPages ==
    ASSUME ResidencyInv, ResidencyOthers /\ UNCHANGED pageVars, ChannelStep
    PROVE  PageInv'
<1> USE DEF ResidencyInv
<1>1. UNCHANGED <<step, desired, pages, tasks, counted, untried, attempts>>
  BY DEF pageVars
<1>2. UNCHANGED <<manifest, pc>> /\ ~ReceiveStep
  <2>1. CASE WorkerStep \/ WorkerPanics
    <3>1. results' = results \/ \E r \in Result : results' = Append(results, r)
      <4>1. SendReply => reply \in Result
        BY DEF SendReply, StreamingTypeOK, DbTypeOK
      <4>2. Worker \/ Panic
        BY <2>1 DEF WorkerStep, WorkerPanics
      <4> QED BY <4>1, <4>2 DEF Worker, Panic, Open, SendReply, Serve, Cancelled
    <3> QED BY <2>1, <3>1, NothingDrained DEF WorkerStep, WorkerPanics, coreVars
  <2>2. CASE \/ \E g \in Generations : RequestReload(g)
             \/ TakeCompletion
             \/ \E t \in Transition : RequestSpace(t)
             \/ \E g \in Generations : PublishFile(g)
    <3>1. UNCHANGED <<manifest, pc, results>>
      BY <2>2 DEF RequestReload, TakeCompletion, RequestSpace, PublishFile, Publish, dbVars, coreVars
    <3> QED BY <3>1, NothingDrained
  <2> QED BY <2>1, <2>2 DEF ResidencyOthers
<1>3. PagesTypeOK' /\ UntriedIsPrepared'
  BY <1>1, <1>2 DEF PageInv, PagesTypeOK, UntriedIsPrepared
<1>4. LoadingIsRead' /\ LoadingArrives'
  BY <1>1, <1>2, LoadingKept
<1> QED BY <1>1, <1>2, <1>3, <1>4, SamePages DEF PageInv

-----------------------------------------------------------------------------
(* The systems of residency.                                               *)

\* A drained answer is of a loading page only under its id, and then the page
\* stops loading.
LEMMA ReceivePageKeeps ==
    ASSUME ResidencyInv, ReceivePage, PageAnswered, ChannelStep
    PROVE  PageInv'
<1> USE DEF ResidencyInv
<1> DEFINE r == Head(results)
           p == r.about
           current == pages[p].state = "Loading" /\ pages[p].id = r.id
<1>1. /\ results # <<>> /\ 1 \in DOMAIN results /\ r = results[1] /\ r \in Result
      /\ r.kind = "ReadPage" /\ pc = "receive"
  BY TailElements DEF PageAnswered, Receive, Received, StreamingTypeOK, DbTypeOK
<1>2. UNCHANGED <<manifest, step, desired, counted, untried, attempts, pc>>
  BY DEF ReceivePage, coreVars, ReceiveUnchanged
<1>3. PagesTypeOK /\ untried = {}
  BY <1>1 DEF PageInv, UntriedIsPrepared
<1>4. ASSUME NEW q \in Pages, pages[q].state = "Loading", pages[q].id = r.id
      PROVE  q = p /\ (r.ok => r.generation = manifest /\ r.generation \in Generations)
  <2>1. IsRead(pages[q].id, "ReadPage", manifest, q)
    BY <1>4 DEF PageInv, LoadingIsRead
  <2>2. q = p /\ (r.ok => r.generation = manifest)
    BY <1>1, <1>4, <2>1 DEF IsRead
  <2> QED BY <1>1, <2>2 DEF Result
<1>5. \A q \in Pages : pages[q].state = "Loading" /\ q # p => pages[q].id # results[1].id
  BY <1>1, <1>4
<1> HIDE DEF r
<1>6. ASSUME ~current, UNCHANGED <<pages, tasks>>
      PROVE  PageInv'
  <2>1. LoadingIsRead' /\ LoadingArrives'
    BY <1>1, <1>2, <1>5, <1>6, LoadingKept
  <2>2. PagesTypeOK' /\ UntriedIsPrepared'
    BY <1>2, <1>3, <1>6 DEF PagesTypeOK, UntriedIsPrepared
  <2> QED BY <1>2, <1>6, <2>1, <2>2, SamePages DEF PageInv
<1>7. ASSUME NEW page \in Page, page.state \in {"gone", "Failed"},
             p \in Pages => current,
             p \notin desired => page.state = "gone",
             manifest = None => page.state = "gone" \/ p \notin Pages,
             pages' = [pages EXCEPT ![p] = page], UNCHANGED tasks
      PROVE  PageInv'
  <2>1. \A q \in Pages : pages'[q] = IF q = p THEN page ELSE pages[q]
    BY <1>3, <1>7 DEF PagesTypeOK
  <2>2. PagesTypeOK' /\ UntriedIsPrepared'
    BY <1>2, <1>3, <1>7 DEF PagesTypeOK, UntriedIsPrepared
  <2>3. LoadingIsRead' /\ LoadingArrives'
    BY <1>2, <1>5, <1>7, <2>1, LoadingKept
  <2>4. NothingBeforeOpening' /\ ShownIsCurrent'
    BY <1>2, <1>7, <2>1 DEF PageInv, NothingBeforeOpening, ShownIsCurrent
  <2>5. TasksAreDecoding'
    <3>1. \A t \in tasks : t.page \in Pages /\ t.page # p
      BY <1>3, <1>7 DEF PageInv, TasksAreDecoding, PagesTypeOK, Task
    <3> QED BY <1>2, <1>7, <2>1, <3>1 DEF PageInv, TasksAreDecoding
  <2> QED BY <2>2, <2>3, <2>4, <2>5 DEF PageInv
<1>8. CASE current /\ p \notin desired /\ pages' = Withdrawn(p) /\ UNCHANGED tasks
  <2>1. Gone \in Page /\ Gone.state = "gone"
    BY DEF Gone, Page, PageStates
  <2> QED BY <1>7, <1>8, <2>1 DEF Withdrawn
<1>9. CASE /\ current /\ p \in desired /\ ~r.ok
           /\ pages' = [pages EXCEPT ![p].state = "Failed"] /\ UNCHANGED tasks
  <2>1. p \in Pages
    BY <1>3, <1>9 DEF PagesTypeOK
  <2> DEFINE page == [pages[p] EXCEPT !.state = "Failed"]
  <2>2. pages[p] \in Page
    BY <1>3, <2>1 DEF PagesTypeOK
  <2>3. page \in Page /\ page.state = "Failed"
    BY <2>2 DEF Page, PageStates
  <2>4. pages' = [pages EXCEPT ![p] = page]
    BY <1>9
  <2>5. manifest # None
    BY <1>9 DEF PageInv, NothingBeforeOpening
  <2> QED BY <1>7, <1>9, <2>3, <2>4, <2>5
<1>10. CASE /\ current /\ p \in desired /\ r.ok
            /\ pages' = [pages EXCEPT ![p].state = "Decoding"]
            /\ tasks' = tasks \cup {[page |-> p, id |-> r.id, generation |-> r.generation]}
  <2> DEFINE task == [page |-> p, id |-> r.id, generation |-> r.generation]
  <2>1. p \in Pages /\ r.generation = manifest /\ r.generation \in Generations /\ manifest # None
    <3>1. p \in Pages
      BY <1>3, <1>10 DEF PagesTypeOK
    <3>2. r.generation = manifest /\ r.generation \in Generations
      BY <1>4, <1>10, <3>1
    <3> QED BY <3>1, <3>2, NoneIsNoValue
  <2>2. pages[p] \in Page /\ r.id \in Nat
    BY <1>1, <1>3, <2>1 DEF PagesTypeOK, Result
  <2>3. task \in Task
    BY <2>1, <2>2 DEF Task
  <2>4. /\ pages'[p].state = "Decoding" /\ pages'[p].id = r.id /\ pages'[p] \in Page
        /\ \A q \in Pages : q # p => pages'[q] = pages[q]
    BY <1>3, <1>10, <2>1, <2>2 DEF PagesTypeOK, Page, PageStates
  <2>5. PagesTypeOK' /\ UntriedIsPrepared'
    <3>1. pages' \in [Pages -> Page]
      BY <1>3, <1>10, <2>1, <2>4 DEF PagesTypeOK
    <3> QED BY <1>2, <1>3, <1>10, <2>3, <3>1 DEF PagesTypeOK, UntriedIsPrepared
  <2>6. LoadingIsRead' /\ LoadingArrives'
    BY <1>2, <1>5, <2>4, LoadingKept
  <2>7. NothingBeforeOpening' /\ ShownIsCurrent'
    BY <1>2, <2>1, <2>4 DEF PageInv, NothingBeforeOpening, ShownIsCurrent
  <2>8. TasksAreDecoding'
    <3>1. \A t \in tasks : t.page \in Pages /\ t.page # p
      BY <1>3, <1>10 DEF PageInv, TasksAreDecoding, PagesTypeOK, Task
    <3>2. \A t \in tasks' : /\ pages'[t.page].state = "Decoding" /\ t.id = pages'[t.page].id
                            /\ t.generation = manifest
      BY <1>10, <2>1, <2>4, <3>1 DEF PageInv, TasksAreDecoding
    <3>3. \A q \in Pages : pages'[q].state = "Decoding" => \E t \in tasks' : t.page = q
      <4>1. task \in tasks' /\ task.page = p
        BY <1>10
      <4>2. \A t \in tasks : t \in tasks'
        BY <1>10
      <4> QED BY <2>4, <4>1, <4>2 DEF PageInv, TasksAreDecoding
    <3> QED BY <1>2, <3>2, <3>3 DEF TasksAreDecoding
  <2> QED BY <2>5, <2>6, <2>7, <2>8 DEF PageInv
<1> QED BY <1>6, <1>8, <1>9, <1>10 DEF ReceivePage, r

\* A page that is asked for starts to load under the id of its read.
LEMMA RequestPageKeeps ==
    ASSUME ResidencyInv, NEW p \in Missing, PageAsked(p),
           pages' = [pages EXCEPT ![p] =
                        [state |-> "Loading", id |-> last_id', generation |-> None]],
           UNCHANGED <<step, desired, tasks, counted, untried, attempts>>,
           pc = "render", step = "request"
    PROVE  PageInv'
<1> USE DEF ResidencyInv
<1>1. PagesTypeOK /\ untried = {}
  BY DEF PageInv, UntriedIsPrepared
<1>2. p \in Pages /\ p \in Topics /\ manifest \in Generations /\ pages[p].state = "gone"
  BY <1>1, MissingIsOpen DEF PageInv, Missing, In
<1>3. UNCHANGED <<results, workerVars, manifest, pc>> /\ last_id' = last_id + 1 /\ last_id \in Nat
  BY DEF PageAsked, Sent, coreVars, StreamingTypeOK, DbTypeOK
<1> DEFINE page == [state |-> "Loading", id |-> last_id', generation |-> None]
<1>4. page \in Page
  BY <1>3 DEF Page, PageStates
<1>5. \A q \in Pages : pages'[q] = IF q = p THEN page ELSE pages[q]
  BY <1>1 DEF PagesTypeOK
<1>6. PagesTypeOK' /\ UntriedIsPrepared'
  BY <1>1, <1>4 DEF PagesTypeOK, UntriedIsPrepared
<1>7. NothingBeforeOpening' /\ ShownIsCurrent'
  BY <1>2, <1>3, <1>5, NoneIsNoValue DEF PageInv, NothingBeforeOpening, ShownIsCurrent
<1>8. TasksAreDecoding'
  <2>1. \A t \in tasks : t.page \in Pages /\ t.page # p
    BY <1>1, <1>2 DEF PageInv, TasksAreDecoding, PagesTypeOK, Task
  <2> QED BY <1>3, <1>5, <2>1 DEF PageInv, TasksAreDecoding
<1>9. DbTypeOK /\ InOrder /\ "ReadPage" \in Reads
  BY DEF StreamingTypeOK, Reads, LiveReads
<1>10. ChannelStep
  <2>1. SendStep /\ UNCHANGED <<results, workerVars>>
    BY <1>2, <1>3, <1>9, NoneIsNoValue DEF PageAsked, SendStep
  <2> QED BY <2>1 DEF ChannelStep
<1>11. LoadingIsRead' /\ LoadingArrives'
  <2> SUFFICES ASSUME NEW q \in Pages, pages'[q].state = "Loading"
               PROVE  /\ IsRead(pages[q].id, "ReadPage", manifest, q)'
                      /\ worker' # "stopped" => OnItsWay(pages[q].id)'
    BY DEF LoadingIsRead, LoadingArrives
  <2>1. PICK id : id = pages'[q].id
    OBVIOUS
  <2>2. PICK g : g = manifest
    OBVIOUS
  <2>3. g = manifest'
    BY <1>3, <2>2
  <2>4. CASE q = p
    <3>1. id = last_id + 1
      BY <1>3, <1>5, <2>1, <2>4
    <3>2. Sent("ReadPage", g, 0, q) /\ UNCHANGED <<results, workerVars>>
      BY <2>2, <2>4 DEF PageAsked
    <3>3. IsRead(id, "ReadPage", g, q)' /\ OnItsWay(id)'
      BY <1>2, <1>9, <2>2, <2>4, <3>1, <3>2, SentIsRead
    <3> QED BY <2>1, <2>3, <3>3
  <2>5. CASE q # p
    <3>1. pages'[q] = pages[q] /\ pages[q].state = "Loading" /\ id = pages[q].id
      BY <1>5, <2>1, <2>5
    <3>2. IsRead(id, "ReadPage", g, q)
      BY <2>2, <3>1 DEF PageInv, LoadingIsRead
    <3>3. IsRead(id, "ReadPage", g, q)'
      BY <1>9, <1>10, <3>2, IsReadStep
    <3>4. worker' # "stopped" => OnItsWay(id)'
      <4>1. worker' = worker /\ results' = results
        BY <1>3 DEF workerVars
      <4>2. worker # "stopped" => OnItsWay(id)
        BY <3>1 DEF PageInv, LoadingArrives
      <4>3. ~ReceiveStep
        BY <4>1, NothingDrained
      <4> QED BY <1>9, <1>10, <3>2, <4>1, <4>2, <4>3, OnItsWayStep
    <3> QED BY <2>1, <2>3, <3>3, <3>4
  <2> QED BY <2>4, <2>5
<1> QED BY <1>6, <1>7, <1>8, <1>11 DEF PageInv

\* A system that only moves pages on leaves what is on its way alone.
LEMMA MovedOnKeeps ==
    ASSUME ResidencyInv, UNCHANGED dbVars, UNCHANGED manifest,
           \A p \in Pages : pages'[p].state = "Loading" => pages'[p] = pages[p],
           PagesTypeOK', NothingBeforeOpening', TasksAreDecoding', ShownIsCurrent',
           UntriedIsPrepared'
    PROVE  PageInv'
<1>1. ChannelStep
  BY DEF ChannelStep, QuietStep, dbVars, workerVars
<1>2. ~ReceiveStep
  BY NothingDrained DEF ResidencyInv, dbVars
<1>3. LoadingIsRead' /\ LoadingArrives'
  BY <1>1, <1>2, LoadingKept
<1> QED BY <1>3 DEF PageInv

LEMMA DemandKeeps ==
    ASSUME ResidencyInv, KeepDemand \/ SetDemand \/ EndRequests
    PROVE  PageInv'
<1>1. PagesTypeOK /\ untried = {}
  BY DEF ResidencyInv, PageInv, UntriedIsPrepared, KeepDemand, SetDemand, EndRequests, AtStep
<1>2. /\ UNCHANGED <<dbVars, manifest, pages, tasks, counted, untried, attempts>>
      /\ step' \in {"decode", "request"}
  BY DEF KeepDemand, SetDemand, EndRequests, AtStep, DbUnchanged, coreVars
<1>3. desired' \subseteq Pages /\ (manifest = None => desired' = desired)
  <2>1. CASE SetDemand
    <3>1. Demand \subseteq Pages
      <4>1. CASE descriptors = None
        BY <4>1 DEF Demand
      <4>2. CASE descriptors # None
        <5>1. descriptors.generation \in Generations
          BY <4>2 DEF ResidencyInv, StreamingTypeOK, Descriptors
        <5> QED BY <4>2, <5>1, PageAssumption DEF Demand
      <4> QED BY <4>1, <4>2
    <3>2. manifest # None
      BY <2>1 DEF SetDemand, DemandKnown, InManifest
    <3> QED BY <2>1, <3>1, <3>2 DEF SetDemand
  <2>2. CASE KeepDemand \/ EndRequests
    BY <1>1, <2>2 DEF KeepDemand, EndRequests, PagesTypeOK
  <2> QED BY <2>1, <2>2
<1>4. PagesTypeOK' /\ UntriedIsPrepared'
  BY <1>1, <1>2, <1>3 DEF PagesTypeOK, UntriedIsPrepared
<1>5. NothingBeforeOpening' /\ TasksAreDecoding' /\ ShownIsCurrent'
  BY <1>2, <1>3 DEF ResidencyInv, PageInv, NothingBeforeOpening, TasksAreDecoding, ShownIsCurrent
<1> QED BY <1>2, <1>4, <1>5, MovedOnKeeps

\* Decode results change pages that are being decoded, and no other.
LEMMA DecodesOnly ==
    ASSUME NEW done \in SUBSET tasks, NEW bad, ReceiveDecodeResults(done, bad)
    PROVE  \A p \in Pages : pages[p].state # "Decoding" => pages'[p] = pages[p]
<1> DEFINE of(p) == {t \in done : t.page = p /\ pages[t.page].state = "Decoding"
                                             /\ pages[t.page].id = t.id}
           after(p) ==
             IF p \notin desired THEN Gone
             ELSE IF of(p) \cap bad # {} THEN [pages[p] EXCEPT !.state = "Failed"]
             ELSE [pages[p] EXCEPT !.state = "Prepared",
                         !.generation = (CHOOSE t \in of(p) : TRUE).generation]
<1>1. pages' = [p \in Pages |-> IF of(p) = {} THEN pages[p] ELSE after(p)]
  BY DEF ReceiveDecodeResults
<1>2. \A p \in Pages : pages[p].state # "Decoding" => of(p) = {}
  OBVIOUS
<1> HIDE DEF of, after
<1> QED BY <1>1, <1>2

\* A finished decode moves its page on, and a page has one decode.
LEMMA DecodedKeeps ==
    ASSUME ResidencyInv, NEW done \in SUBSET tasks, NEW bad, ReceiveDecodeResults(done, bad)
    PROVE  PageInv'
<1> DEFINE of(p) == {t \in done : t.page = p /\ pages[t.page].state = "Decoding"
                                             /\ pages[t.page].id = t.id}
           after(p) ==
             IF p \notin desired THEN Gone
             ELSE IF of(p) \cap bad # {} THEN [pages[p] EXCEPT !.state = "Failed"]
             ELSE [pages[p] EXCEPT !.state = "Prepared",
                         !.generation = (CHOOSE t \in of(p) : TRUE).generation]
<1>1. PagesTypeOK /\ TasksAreDecoding /\ ShownIsCurrent /\ NothingBeforeOpening
  BY DEF ResidencyInv, PageInv
<1>2. /\ UNCHANGED <<dbVars, manifest, pc, desired, counted>> /\ pc = "render"
      /\ step' = "attach" /\ attempts' = 0
      /\ tasks' = tasks \ done
      /\ pages' = [p \in Pages |-> IF of(p) = {} THEN pages[p] ELSE after(p)]
      /\ untried' = {p \in Pages : pages'[p].state = "Prepared"}
  BY DEF ReceiveDecodeResults, AtStep, DbUnchanged, coreVars
<1>3. \A t \in tasks : /\ t \in Task /\ t.page \in Pages
                       /\ pages[t.page].state = "Decoding" /\ pages[t.page].id = t.id
                       /\ t.generation = manifest
  BY <1>1 DEF PagesTypeOK, TasksAreDecoding, Task
<1>4. \A t, u \in tasks : t.page = u.page => t = u
  BY <1>3 DEF Task
<1>5. \A p \in Pages : of(p) # {} => /\ pages[p].state = "Decoding"
                                     /\ \A t \in of(p) : t.generation = manifest
                                     /\ manifest \in Generations
  BY <1>3 DEF Task
<1>6. \A p \in Pages : of(p) # {} =>
         /\ after(p) \in Page /\ after(p).state \in {"gone", "Failed", "Prepared"}
         /\ after(p).state = "Prepared" => after(p).generation = manifest
         /\ p \notin desired => after(p).state = "gone"
  <2> SUFFICES ASSUME NEW p \in Pages, of(p) # {}
               PROVE  /\ after(p) \in Page /\ after(p).state \in {"gone", "Failed", "Prepared"}
                      /\ after(p).state = "Prepared" => after(p).generation = manifest
                      /\ p \notin desired => after(p).state = "gone"
    OBVIOUS
  <2>1. pages[p] \in Page
    BY <1>1 DEF PagesTypeOK
  <2>2. (CHOOSE t \in of(p) : TRUE) \in of(p)
    OBVIOUS
  <2>3. (CHOOSE t \in of(p) : TRUE).generation = manifest /\ manifest \in Generations
    BY <1>5, <2>2
  <2> HIDE DEF of
  <2> QED BY <2>1, <2>3 DEF Page, PageStates, Gone
<1>7. \A p \in Pages : /\ of(p) = {} => pages'[p] = pages[p]
                       /\ of(p) # {} => pages'[p] = after(p)
  BY <1>2
<1>8. PagesTypeOK'
  <2>1. pages' \in [Pages -> Page]
    BY <1>1, <1>2, <1>6 DEF PagesTypeOK
  <2> QED BY <1>1, <1>2, <2>1 DEF PagesTypeOK
<1>9. TasksAreDecoding'
  <2>1. ASSUME NEW t \in tasks'
        PROVE  of(t.page) = {}
    BY <1>2, <1>4, <2>1
  <2>2. ASSUME NEW p \in Pages, pages'[p].state = "Decoding"
        PROVE  \E t \in tasks' : t.page = p
    <3>1. of(p) = {}
      BY <1>6, <1>7, <2>2
    <3>2. pages[p].state = "Decoding"
      BY <1>7, <2>2, <3>1
    <3>3. PICK t \in tasks : t.page = p
      BY <1>1, <3>2 DEF TasksAreDecoding
    <3>4. t \notin done
      BY <1>3, <3>1, <3>3
    <3> QED BY <1>2, <3>3, <3>4
  <2>3. \A t \in tasks' : t \in tasks
    BY <1>2
  <2> HIDE DEF of, after
  <2> QED BY <1>2, <1>3, <1>7, <2>1, <2>2, <2>3 DEF TasksAreDecoding
<1> HIDE DEF of, after
<1>10. ShownIsCurrent' /\ UntriedIsPrepared'
  BY <1>1, <1>2, <1>6, <1>7 DEF ShownIsCurrent, UntriedIsPrepared
<1>11. NothingBeforeOpening'
  BY <1>1, <1>2, <1>5, <1>7, NoneIsNoValue DEF NothingBeforeOpening
<1>12. \A p \in Pages : pages'[p].state = "Loading" => pages'[p] = pages[p]
  BY <1>6, <1>7
<1> QED BY <1>2, <1>8, <1>9, <1>10, <1>11, <1>12, MovedOnKeeps

\* Admission takes a prepared page to another stage, or leaves it waiting.
LEMMA AdmissionKeeps ==
    ASSUME ResidencyInv, NEW p \in Pages, RejectPage(p) \/ BlockPage(p) \/ AttachPage(p)
    PROVE  PageInv'
<1>1. PagesTypeOK /\ TasksAreDecoding /\ ShownIsCurrent /\ NothingBeforeOpening
      /\ UntriedIsPrepared
  BY DEF ResidencyInv, PageInv
<1>2. /\ UNCHANGED <<dbVars, manifest, pc, step, desired, tasks>>
      /\ pc = "render" /\ step = "attach"
      /\ p \in untried /\ untried' = untried \ {p}
  BY DEF RejectPage, BlockPage, AttachPage, Trying, DbUnchanged, coreVars
<1>3. pages[p].state = "Prepared" /\ pages[p] \in Page /\ pages[p].generation = manifest
      /\ manifest # None
  BY <1>1, <1>2 DEF UntriedIsPrepared, PagesTypeOK, ShownIsCurrent, NothingBeforeOpening
<1>4. /\ pages'[p] \in Page
      /\ pages'[p].state \in {"Prepared", "Resident", "Failed", "gone"}
      /\ pages'[p].state \in {"Prepared", "Resident"} => pages'[p].generation = manifest
      /\ pages' \in [Pages -> Page] /\ \A q \in Pages : q # p => pages'[q] = pages[q]
  <2>1. CASE UNCHANGED pages
    BY <1>1, <1>3, <2>1 DEF PagesTypeOK
  <2>2. CASE \E state \in {"Failed", "Resident"} : pages' = [pages EXCEPT ![p].state = state]
    BY <1>1, <1>3, <2>2 DEF PagesTypeOK, Page, PageStates
  <2>3. CASE pages' = [pages EXCEPT ![p] = Gone]
    BY <1>1, <1>3, <2>3 DEF PagesTypeOK, Page, PageStates, Gone
  <2> QED BY <2>1, <2>2, <2>3 DEF RejectPage, BlockPage, AttachPage
<1>5. counted' \subseteq Pages /\ attempts' \in Nat
  <2>1. counted' = counted \/ counted' = counted \cup {p}
    BY DEF RejectPage, BlockPage, AttachPage
  <2>2. attempts' = attempts \/ attempts' = attempts + 1
    BY DEF RejectPage, BlockPage, AttachPage
  <2>3. counted \subseteq Pages /\ attempts \in Nat
    BY <1>1 DEF PagesTypeOK
  <2> QED BY <2>1, <2>2, <2>3
<1>6. PagesTypeOK' /\ UntriedIsPrepared'
  BY <1>1, <1>2, <1>4, <1>5 DEF PagesTypeOK, UntriedIsPrepared
<1>7. TasksAreDecoding'
  <2>1. \A t \in tasks : t.page \in Pages /\ t.page # p
    BY <1>1, <1>3 DEF TasksAreDecoding, PagesTypeOK, Task
  <2>2. \A q \in Pages : pages'[q].state = "Decoding" => q # p
    BY <1>4
  <2> QED BY <1>1, <1>2, <1>4, <2>1, <2>2 DEF TasksAreDecoding
<1>8. ShownIsCurrent' /\ NothingBeforeOpening'
  BY <1>1, <1>2, <1>3, <1>4 DEF ShownIsCurrent, NothingBeforeOpening
<1>9. \A q \in Pages : pages'[q].state = "Loading" => pages'[q] = pages[q]
  BY <1>4
<1> QED BY <1>2, <1>6, <1>7, <1>8, <1>9, MovedOnKeeps

LEMMA EndOfFrameKeeps ==
    ASSUME ResidencyInv, EndAttachments \/ UpdateStreamingStats
    PROVE  PageInv'
<1>1. UNCHANGED <<dbVars, manifest, desired, pages, tasks>> /\ untried' = {}
  BY DEF ResidencyInv, PageInv, UntriedIsPrepared, EndAttachments, UpdateStreamingStats, AtStep,
         DbUnchanged, coreVars
<1>2. step' \in {"cool", "demand"} /\ counted' \subseteq Pages /\ attempts' \in Nat
  BY DEF ResidencyInv, PageInv, PagesTypeOK, EndAttachments, UpdateStreamingStats, AtStep,
         Attached, In
<1>3. PagesTypeOK' /\ UntriedIsPrepared'
  BY <1>1, <1>2 DEF ResidencyInv, PageInv, PagesTypeOK, UntriedIsPrepared
<1>4. NothingBeforeOpening' /\ TasksAreDecoding' /\ ShownIsCurrent'
  BY <1>1, SamePages DEF ResidencyInv
<1> QED BY <1>1, <1>3, <1>4, MovedOnKeeps

\* A cooling page goes, is kept, or is revived as it is.
LEMMA CoolingKeeps ==
    ASSUME ResidencyInv, NEW expired \in SUBSET In({"Cooling"}), CoolAndRemove(expired)
    PROVE  PageInv'
<1>1. PagesTypeOK /\ TasksAreDecoding /\ ShownIsCurrent /\ NothingBeforeOpening
      /\ UntriedIsPrepared
  BY DEF ResidencyInv, PageInv
<1>2. /\ UNCHANGED <<dbVars, manifest, pc, desired, tasks, counted, untried, attempts>>
      /\ step' = "stats" /\ untried = {}
  BY <1>1 DEF CoolAndRemove, AtStep, DbUnchanged, coreVars, UntriedIsPrepared
<1>3. \A p \in Pages :
         /\ pages[p] \in Page
         /\ \/ pages'[p] = pages[p]
            \/ /\ pages[p].state \in {"Resident", "Cooling"}
               /\ \E state \in {"Resident", "Cooling"} : pages'[p] = [pages[p] EXCEPT !.state = state]
            \/ pages[p].state \in {"Cooling", "Prepared"} /\ pages'[p] = Gone
  <2> SUFFICES ASSUME NEW p \in Pages
               PROVE  \/ pages'[p] = pages[p]
                      \/ /\ pages[p].state \in {"Resident", "Cooling"}
                         /\ \E state \in {"Resident", "Cooling"} :
                               pages'[p] = [pages[p] EXCEPT !.state = state]
                      \/ pages[p].state \in {"Cooling", "Prepared"} /\ pages'[p] = Gone
    BY <1>1 DEF PagesTypeOK
  <2>1. p \in expired => pages[p].state = "Cooling"
    BY DEF In
  <2> QED BY <2>1 DEF CoolAndRemove, Revived
<1>4. \A p \in Pages :
         /\ pages'[p] \in Page
         /\ pages'[p].state \notin {"Resident", "Cooling", "gone"} => pages'[p] = pages[p]
         /\ pages'[p].state \in {"Resident", "Cooling"} =>
               /\ pages[p].state \in {"Resident", "Cooling"}
               /\ pages'[p].generation = pages[p].generation
         /\ pages[p].state \in {"Decoding", "gone"} => pages'[p] = pages[p]
  <2> TAKE p \in Pages
  <2>1. pages[p] \in Page
    BY <1>3
  <2>2. CASE pages'[p] = pages[p]
    BY <2>1, <2>2
  <2>3. CASE /\ pages[p].state \in {"Resident", "Cooling"}
             /\ \E state \in {"Resident", "Cooling"} : pages'[p] = [pages[p] EXCEPT !.state = state]
    <3>1. PICK state \in {"Resident", "Cooling"} : pages'[p] = [pages[p] EXCEPT !.state = state]
      BY <2>3
    <3>2. /\ pages'[p] \in Page /\ pages'[p].state = state
          /\ pages'[p].generation = pages[p].generation
      BY <2>1, <3>1 DEF Page, PageStates
    <3> QED BY <2>3, <3>2
  <2>4. CASE pages[p].state \in {"Cooling", "Prepared"} /\ pages'[p] = Gone
    <3>1. pages'[p] \in Page /\ pages'[p].state = "gone"
      BY <2>4 DEF Page, PageStates, Gone
    <3> QED BY <2>4, <3>1
  <2> QED BY <1>3, <2>2, <2>3, <2>4
<1>5. PagesTypeOK' /\ UntriedIsPrepared'
  <2>1. pages' \in [Pages -> Page]
    BY <1>4 DEF CoolAndRemove
  <2> QED BY <1>1, <1>2, <2>1 DEF PagesTypeOK, UntriedIsPrepared
<1>6. TasksAreDecoding'
  <2>1. \A t \in tasks : t.page \in Pages /\ pages[t.page].state = "Decoding"
    BY <1>1 DEF PagesTypeOK, TasksAreDecoding, Task
  <2> QED BY <1>1, <1>2, <1>4, <2>1 DEF TasksAreDecoding
<1>7. ShownIsCurrent' /\ NothingBeforeOpening'
  BY <1>1, <1>2, <1>4 DEF ShownIsCurrent, NothingBeforeOpening
<1> QED BY <1>2, <1>4, <1>5, <1>6, <1>7, MovedOnKeeps

-----------------------------------------------------------------------------
(* The theorems.                                                           *)

LEMMA ResidencyInitially == ResidencyInit => ResidencyInv
<1> SUFFICES ASSUME ResidencyInit PROVE ResidencyInv
  OBVIOUS
<1>1. StreamingTypeOK /\ InOrder /\ OpensFirst
  BY InitTyped, InOrderInit, HandshakeInit DEF ResidencyInit, Init, HandshakeInv
<1>2. PagesTypeOK
  BY DEF ResidencyInit, PagesTypeOK, Page, PageStates, Gone
<1>3. PageInv
  BY <1>2 DEF ResidencyInit, PageInv, NothingBeforeOpening, LoadingIsRead, LoadingArrives,
     TasksAreDecoding, ShownIsCurrent, UntriedIsPrepared, Gone
<1> QED BY <1>1, <1>3 DEF ResidencyInv

LEMMA ResidencyStep == ResidencyInv /\ [ResidencyNext]_residencyVars => ResidencyInv'
<1> SUFFICES ASSUME ResidencyInv, [ResidencyNext]_residencyVars PROVE ResidencyInv'
  OBVIOUS
<1>1. StreamingTypeOK' /\ InOrder' /\ OpensFirst' /\ ChannelStep
  BY ResidencyChannels
<1>2. CASE CoordinatorWithPages
  BY <1>1, <1>2, CoordinatorKeepsPages DEF ResidencyInv
<1>3. CASE ReceivePage
  <2>1. PageAnswered
    BY <1>3 DEF ReceivePage, PageAnswered
  <2> QED BY <1>1, <1>3, <2>1, ReceivePageKeeps DEF ResidencyInv
<1>4. CASE RequestPage
  <2>1. PICK p \in Missing :
           /\ Sent("ReadPage", manifest, 0, p)
           /\ pages' = [pages EXCEPT ![p] =
                          [state |-> "Loading", id |-> last_id', generation |-> None]]
    BY <1>4 DEF RequestPage
  <2>2. PageAsked(p) /\ UNCHANGED <<step, desired, tasks, counted, untried, attempts>>
        /\ pc = "render" /\ step = "request"
    BY <1>4, <2>1 DEF RequestPage, PageAsked
  <2> QED BY <1>1, <2>1, <2>2, RequestPageKeeps DEF ResidencyInv
<1>5. CASE KeepDemand \/ SetDemand \/ EndRequests
  BY <1>1, <1>5, DemandKeeps DEF ResidencyInv
<1>6. ASSUME NEW done \in SUBSET tasks, NEW bad, ReceiveDecodeResults(done, bad)
      PROVE  ResidencyInv'
  BY <1>1, <1>6, DecodedKeeps DEF ResidencyInv
<1>7. ASSUME NEW p \in Pages, RejectPage(p) \/ BlockPage(p) \/ AttachPage(p)
      PROVE  ResidencyInv'
  BY <1>1, <1>7, AdmissionKeeps DEF ResidencyInv
<1>8. CASE EndAttachments \/ UpdateStreamingStats
  BY <1>1, <1>8, EndOfFrameKeeps DEF ResidencyInv
<1>9. ASSUME NEW expired \in SUBSET In({"Cooling"}), CoolAndRemove(expired)
      PROVE  ResidencyInv'
  BY <1>1, <1>9, CoolingKeeps DEF ResidencyInv
<1>10. CASE ResidencyOthers /\ UNCHANGED pageVars
  BY <1>1, <1>10, OthersKeepPages DEF ResidencyInv
<1>11. CASE UNCHANGED residencyVars
  <2>1. UNCHANGED <<dbVars, manifest, pc, step, desired, pages, tasks, counted, untried, attempts>>
    BY <1>11 DEF residencyVars, vars, coreVars, pageVars
  <2>2. PagesTypeOK' /\ UntriedIsPrepared'
    BY <2>1 DEF ResidencyInv, PageInv, PagesTypeOK, UntriedIsPrepared
  <2>3. NothingBeforeOpening' /\ TasksAreDecoding' /\ ShownIsCurrent'
    BY <2>1, SamePages DEF ResidencyInv
  <2> QED BY <1>1, <2>1, <2>2, <2>3, MovedOnKeeps DEF ResidencyInv
<1> QED
  BY <1>2, <1>3, <1>4, <1>5, <1>6, <1>7, <1>8, <1>9, <1>10, <1>11
     DEF ResidencyNext, ResidencyFrame

\* Every page in flight is accounted for at each stage, and of the open
\* generation: ResidencyInv, the coordinator's typing included, is an invariant
\* of residency beside the coordinator (residency.rs, source_demand.rs).
THEOREM Accounting == ResidencySpec => []ResidencyInv
<1>1. ResidencyInit => ResidencyInv
  BY ResidencyInitially
<1>2. ResidencyInv /\ [ResidencyNext]_residencyVars => ResidencyInv'
  BY ResidencyStep
<1> QED BY <1>1, <1>2, PTL DEF ResidencySpec

\* No page read for an earlier generation is prepared, drawn or cooling in the
\* open one.
THEOREM CurrentPages == ResidencySpec => []PagesAreCurrent
<1>1. ResidencyInv => PagesAreCurrent
  BY DEF ResidencyInv, PageInv, ShownIsCurrent, PagesAreCurrent, In
<1> QED BY <1>1, Accounting, PTL

\* A page that counts as pending really is on its way.
THEOREM NoLostPage == ResidencySpec => []PagesOnTheirWayArrive
<1>1. ResidencyInv => PagesOnTheirWayArrive
  <2> SUFFICES ASSUME ResidencyInv PROVE PagesOnTheirWayArrive
    OBVIOUS
  <2>1. /\ \A t \in tasks : pages[t.page].state = "Decoding"
        /\ \A p \in In({"Decoding"}) : \E t \in tasks : t.page = p /\ t.id = pages[p].id
    BY DEF ResidencyInv, PageInv, TasksAreDecoding, In
  <2>2. worker # "stopped" => \A p \in In({"Loading"}) : OnItsWay(pages[p].id)
    BY DEF ResidencyInv, PageInv, LoadingArrives, In
  <2> QED BY <2>1, <2>2 DEF PagesOnTheirWayArrive, OnItsWay
<1> QED BY <1>1, Accounting, PTL

\* Attached pages that are still demanded are taken away only together with all
\* demand.
THEOREM DemandedStay == ResidencySpec => DemandedPagesStay
<1> DEFINE Stays == \A p \in Attached \cap desired : pages'[p] = Gone => desired' = {}
<1>1. ResidencyInv /\ [ResidencyNext]_residencyVars => Stays \/ UNCHANGED residencyVars
  <2> SUFFICES ASSUME ResidencyInv, [ResidencyNext]_residencyVars,
                      NEW p \in Pages, pages[p].state \in {"Resident", "Cooling"}, p \in desired,
                      pages'[p] = Gone
               PROVE  desired' = {} \/ UNCHANGED residencyVars
    BY DEF Attached, In
  <2>1. PagesTypeOK /\ UntriedIsPrepared /\ TasksAreDecoding /\ StreamingTypeOK
    BY DEF ResidencyInv, PageInv
  <2>2. UNCHANGED pages => FALSE
    BY DEF Gone
  <2>3. CASE CoordinatorWithPages
    BY <2>1, <2>2, <2>3, CoordinatorPages DEF ClearPages
  <2>4. CASE ReceivePage
    <3>1. \A q : q # p \/ pages[q].state # "Loading"
      OBVIOUS
    <3> QED BY <2>1, <2>4 DEF ReceivePage, Withdrawn, PagesTypeOK, Gone
  <2>5. CASE RequestPage
    BY <2>1, <2>5 DEF RequestPage, Missing, In, PagesTypeOK, Gone
  <2>6. CASE KeepDemand \/ SetDemand \/ EndRequests \/ EndAttachments \/ UpdateStreamingStats
    BY <2>2, <2>6 DEF KeepDemand, SetDemand, EndRequests, EndAttachments, UpdateStreamingStats
  <2>7. ASSUME NEW done \in SUBSET tasks, NEW bad, ReceiveDecodeResults(done, bad) PROVE FALSE
    <3>1. pages'[p] = pages[p]
      BY <2>7, DecodesOnly
    <3> QED BY <3>1 DEF Gone
  <2>8. ASSUME NEW q \in Pages, RejectPage(q) \/ BlockPage(q) \/ AttachPage(q) PROVE FALSE
    <3>1. q # p
      BY <2>1, <2>8 DEF UntriedIsPrepared, RejectPage, BlockPage, AttachPage, Trying
    <3>2. pages'[p] = pages[p]
      BY <2>1, <2>8, <3>1 DEF RejectPage, BlockPage, AttachPage, PagesTypeOK
    <3> QED BY <3>2 DEF Gone
  <2>9. ASSUME NEW expired \in SUBSET In({"Cooling"}), CoolAndRemove(expired) PROVE FALSE
    <3>1. pages[p] \in Page
      BY <2>1 DEF PagesTypeOK
    <3>2. p \in expired => pages[p].state = "Cooling"
      BY DEF In
    <3>3. CASE pages[p].state = "Resident"
      <4>1. pages'[p] = pages[p]
        BY <2>9, <3>2, <3>3 DEF CoolAndRemove, Revived
      <4> QED BY <3>3, <4>1 DEF Gone
    <3>4. CASE pages[p].state = "Cooling"
      <4>1. pages'[p] = [pages[p] EXCEPT !.state = "Resident"]
        BY <2>9, <3>4 DEF CoolAndRemove, Revived
      <4>2. pages'[p].state = "Resident"
        BY <3>1, <4>1 DEF Page
      <4> QED BY <4>2 DEF Gone
    <3> QED BY <3>3, <3>4
  <2>10. CASE UNCHANGED pageVars
    BY <2>2, <2>10 DEF pageVars
  <2> QED
    BY <2>3, <2>4, <2>5, <2>6, <2>7, <2>8, <2>9, <2>10 DEF ResidencyNext, ResidencyFrame
<1> QED BY <1>1, Accounting, PTL DEF ResidencySpec, DemandedPagesStay

-----------------------------------------------------------------------------
(* Sums.  The theorems are about MapThenSumSet, a fold; what they need is  *)
(* that its recursion has a solution, that there is only one, and that the *)
(* order in which elements are picked does not matter.  Each is proved     *)
(* from a least counterexample.                                            *)

\* Sums of weights, as MapThenSumSet adds them up.
Sum(W, S) == MapThenSumSet(LAMBDA x : W[x], S)
Picked(s) == CHOOSE x \in s : TRUE
Adds(W, s, f) == IF s = {} THEN 0 ELSE W[Picked(s)] + f[s \ {Picked(s)}]
Totals(W, S, f) == f = [s \in SUBSET S |-> Adds(W, s, f)]
Weighs(W, S) == IsFiniteSet(S) /\ \A x \in S : W[x] \in Nat

LEMMA SumIs ==
    ASSUME NEW W, NEW S
    PROVE  Sum(W, S) = (CHOOSE f : Totals(W, S, f))[S]
BY DEF Sum, MapThenSumSet, MapThenFoldSet, Totals, Adds, Picked

\* Of several finite sets one is such that none of them has an element less.
LEMMA MinimalSet ==
    ASSUME NEW Bad, Bad # {}, \A s \in Bad : IsFiniteSet(s)
    PROVE  \E s \in Bad : \A x \in s : s \ {x} \notin Bad
<1> DEFINE Sizes == {Cardinality(s) : s \in Bad}
<1>1. Sizes \subseteq Nat /\ Sizes # {}
  BY FS_CardinalityType
<1>2. IsWellFoundedOn(OpToRel(<, Nat), Nat)
  BY NatLessThanWellFounded
<1>3. PICK n \in Sizes : \A m \in Sizes : <<m, n>> \notin OpToRel(<, Nat)
  BY <1>1, <1>2, WFMin, Zenon
<1>4. \A m \in Sizes : ~(m < n)
  BY <1>1, <1>3 DEF OpToRel
<1>5. PICK s \in Bad : Cardinality(s) = n
  BY <1>3
<1>6. ASSUME NEW x \in s, s \ {x} \in Bad PROVE FALSE
  <2>1. Cardinality(s \ {x}) = Cardinality(s) - 1
    BY FS_RemoveElement
  <2>2. PICK m \in Sizes : m = n - 1
    BY <1>5, <1>6, <2>1
  <2>3. m \in Nat /\ n \in Nat /\ ~(m < n)
    BY <1>1, <1>3, <1>4
  <2> QED BY <2>2, <2>3
<1> QED BY <1>6

LEMMA PickedIn ==
    ASSUME NEW s, s # {}
    PROVE  Picked(s) \in s
BY DEF Picked

\* There is a table of totals.
LEMMA TotalsExist ==
    ASSUME NEW W, NEW S, IsFiniteSet(S)
    PROVE  \E f : Totals(W, S, f)
<1> DEFINE Upto(n, f) == /\ f = [s \in SUBSET S |-> f[s]]
                         /\ \A s \in SUBSET S : Cardinality(s) <= n => f[s] = Adds(W, s, f)
           Bad == {n \in Nat : ~\E f : Upto(n, f)}
<1>1. \A s \in SUBSET S : IsFiniteSet(s) /\ Cardinality(s) \in Nat
  BY FS_Subset, FS_CardinalityType
<1>2. \E f : Upto(0, f)
  <2> DEFINE f == [s \in SUBSET S |-> 0]
  <2>1. \A s \in SUBSET S : Cardinality(s) <= 0 => s = {}
    BY <1>1, FS_EmptySet
  <2>2. Upto(0, f)
    BY <2>1 DEF Adds
  <2> QED BY <2>2
<1>3. ASSUME NEW n \in Nat, NEW f, Upto(n, f)
      PROVE  \E g : Upto(n + 1, g)
  <2> DEFINE g == [s \in SUBSET S |-> Adds(W, s, f)]
  <2>1. ASSUME NEW s \in SUBSET S, Cardinality(s) <= n + 1
        PROVE  g[s] = Adds(W, s, g)
    <3>1. CASE s = {}
      BY <3>1 DEF Adds
    <3>2. CASE s # {}
      <4> DEFINE r == s \ {Picked(s)}
      <4>1. Picked(s) \in s
        BY <3>2, PickedIn
      <4>2. r \in SUBSET S /\ Cardinality(r) <= n
        <5>1. Cardinality(r) = Cardinality(s) - 1
          BY <1>1, <4>1, FS_RemoveElement
        <5> HIDE DEF r
        <5>2. Cardinality(s) \in Nat
          BY <1>1
        <5> QED BY <2>1, <5>1, <5>2 DEF r
      <4>3. f[r] = Adds(W, r, f) /\ g[r] = Adds(W, r, f)
        BY <1>3, <4>2
      <4>4. g[s] = W[Picked(s)] + f[r]
        BY <3>2 DEF Adds
      <4> HIDE DEF g, r
      <4> QED BY <3>2, <4>3, <4>4 DEF Adds, r
    <3> QED BY <3>1, <3>2
  <2>2. g = [s \in SUBSET S |-> g[s]]
    OBVIOUS
  <2> HIDE DEF g
  <2>3. Upto(n + 1, g)
    BY <2>1, <2>2
  <2> QED BY <2>3
<1> HIDE DEF Upto
<1>4. Bad = {}
  <2> SUFFICES ASSUME Bad # {} PROVE FALSE
    OBVIOUS
  <2>1. IsWellFoundedOn(OpToRel(<, Nat), Nat)
    BY NatLessThanWellFounded
  <2>2. PICK n \in Bad : \A m \in Bad : <<m, n>> \notin OpToRel(<, Nat)
    BY <2>1, WFMin, Zenon
  <2>3. n \in Nat /\ n # 0
    BY <1>2
  <2>4. n - 1 \in Nat /\ n - 1 < n /\ (n - 1) + 1 = n
    BY <2>3
  <2>5. n - 1 \notin Bad
    BY <2>2, <2>3, <2>4 DEF OpToRel
  <2>6. \E f : Upto(n - 1, f)
    BY <2>4, <2>5
  <2> QED BY <1>3, <2>2, <2>4, <2>6
<1>5. Cardinality(S) \in Nat
  BY <1>1
<1>6. PICK f : Upto(Cardinality(S), f)
  BY <1>4, <1>5
<1>7. \A s \in SUBSET S : Cardinality(s) <= Cardinality(S)
  BY FS_Subset
<1>8. Totals(W, S, f)
  BY <1>6, <1>7 DEF Upto, Totals
<1> QED BY <1>8

\* Tables of totals agree where both are defined.
LEMMA TotalsAgree ==
    ASSUME NEW W, NEW S, IsFiniteSet(S), NEW T \in SUBSET S,
           NEW f, Totals(W, S, f), NEW g, Totals(W, T, g)
    PROVE  f[T] = g[T]
<1> DEFINE Bad == {s \in SUBSET T : f[s] # g[s]}
<1>1. Bad = {}
  <2> SUFFICES ASSUME Bad # {} PROVE FALSE
    OBVIOUS
  <2>1. \A s \in Bad : IsFiniteSet(s)
    BY FS_Subset
  <2>2. PICK s \in Bad : \A x \in s : s \ {x} \notin Bad
    BY <2>1, MinimalSet
  <2>3. f[s] = Adds(W, s, f) /\ g[s] = Adds(W, s, g)
    BY DEF Totals
  <2>4. s # {}
    BY <2>3 DEF Adds
  <2>5. Picked(s) \in s
    BY <2>4, PickedIn
  <2>6. f[s \ {Picked(s)}] = g[s \ {Picked(s)}]
    BY <2>2, <2>5
  <2> QED BY <2>3, <2>4, <2>6 DEF Adds
<1> QED BY <1>1

\* The sum is that of the rest and the weight of the element picked.
LEMMA SumOfPicked ==
    ASSUME NEW W, NEW S, IsFiniteSet(S)
    PROVE  /\ S = {} => Sum(W, S) = 0
           /\ S # {} => Sum(W, S) = W[Picked(S)] + Sum(W, S \ {Picked(S)})
<1> DEFINE table(s) == CHOOSE f : Totals(W, s, f)
<1>1. \A s \in SUBSET S : Totals(W, s, table(s)) /\ Sum(W, s) = table(s)[s]
  <2> TAKE s \in SUBSET S
  <2>1. IsFiniteSet(s)
    BY FS_Subset
  <2> QED BY <2>1, TotalsExist, SumIs
<1>2. \A s \in SUBSET S : table(S)[s] = table(s)[s]
  <2> TAKE s \in SUBSET S
  <2>1. Totals(W, S, table(S)) /\ Totals(W, s, table(s))
    BY <1>1
  <2> HIDE DEF table
  <2> QED BY <2>1, TotalsAgree
<1> HIDE DEF table
<1>3. table(S)[S] = Adds(W, S, table(S))
  BY <1>1 DEF Totals
<1> QED BY <1>1, <1>2, <1>3 DEF Adds

\* Weights are not negative, so neither is their sum.
LEMMA SumTyped ==
    ASSUME NEW W, NEW S, Weighs(W, S)
    PROVE  Sum(W, S) \in Nat
<1> DEFINE Bad == {s \in SUBSET S : Sum(W, s) \notin Nat}
<1>1. Bad = {}
  <2> SUFFICES ASSUME Bad # {} PROVE FALSE
    OBVIOUS
  <2>1. \A s \in SUBSET S : IsFiniteSet(s)
    BY FS_Subset DEF Weighs
  <2>2. PICK s \in Bad : \A x \in s : s \ {x} \notin Bad
    BY <2>1, MinimalSet
  <2>3. s # {}
    <3>1. Sum(W, {}) = 0
      BY SumOfPicked, FS_EmptySet
    <3> QED BY <2>2, <3>1
  <2>4. Picked(s) \in s /\ W[Picked(s)] \in Nat
    BY <2>3, PickedIn DEF Weighs
  <2>5. Sum(W, s) = W[Picked(s)] + Sum(W, s \ {Picked(s)})
    BY <2>1, <2>3, SumOfPicked
  <2> QED BY <2>2, <2>4, <2>5
<1> QED BY <1>1

\* Whichever element is taken first, the sum is the same.
LEMMA SumOf ==
    ASSUME NEW W, NEW S, Weighs(W, S), NEW y \in S
    PROVE  Sum(W, S) = W[y] + Sum(W, S \ {y})
<1> DEFINE Bad == {s \in SUBSET S : \E z \in s : Sum(W, s) # W[z] + Sum(W, s \ {z})}
<1>1. Bad = {}
  <2> SUFFICES ASSUME Bad # {} PROVE FALSE
    OBVIOUS
  <2>1. \A s \in SUBSET S : Weighs(W, s) /\ Sum(W, s) \in Nat
    BY FS_Subset, SumTyped DEF Weighs
  <2>2. PICK s \in Bad : \A x \in s : s \ {x} \notin Bad
    BY <2>1, MinimalSet DEF Weighs
  <2>3. PICK z \in s : Sum(W, s) # W[z] + Sum(W, s \ {z})
    BY <2>2
  <2> DEFINE x == Picked(s)
  <2>4. x \in s /\ Sum(W, s) = W[x] + Sum(W, s \ {x})
    BY <2>1, PickedIn, SumOfPicked DEF Weighs
  <2> HIDE DEF x
  <2>5. x # z
    BY <2>3, <2>4
  <2>6. z \in s \ {x} /\ x \in s \ {z} /\ (s \ {x}) \ {z} = (s \ {z}) \ {x}
    BY <2>4, <2>5
  <2>7. Sum(W, s \ {x}) = W[z] + Sum(W, (s \ {x}) \ {z})
    BY <2>2, <2>4, <2>6
  <2>8. Sum(W, s \ {z}) = W[x] + Sum(W, (s \ {z}) \ {x})
    BY <2>2, <2>6
  <2>9. W[x] \in Nat /\ W[z] \in Nat /\ Sum(W, (s \ {x}) \ {z}) \in Nat
    BY <2>1, <2>4 DEF Weighs
  <2> QED BY <2>3, <2>4, <2>6, <2>7, <2>8, <2>9
<1> QED BY <1>1

\* A part weighs no more than the whole.
LEMMA SumOfPart ==
    ASSUME NEW W, NEW S, Weighs(W, S), NEW T \in SUBSET S
    PROVE  Sum(W, T) <= Sum(W, S)
<1> DEFINE Bad == {s \in SUBSET S : T \subseteq s /\ ~(Sum(W, T) <= Sum(W, s))}
<1>1. \A s \in SUBSET S : Weighs(W, s) /\ Sum(W, s) \in Nat
  BY FS_Subset, SumTyped DEF Weighs
<1>2. Bad = {}
  <2> SUFFICES ASSUME Bad # {} PROVE FALSE
    OBVIOUS
  <2>1. PICK s \in Bad : \A x \in s : s \ {x} \notin Bad
    BY <1>1, MinimalSet DEF Weighs
  <2>2. PICK y \in s : y \notin T
    BY <1>1
  <2>3. Sum(W, s) = W[y] + Sum(W, s \ {y})
    BY <1>1, SumOf
  <2>4. Sum(W, T) <= Sum(W, s \ {y})
    BY <2>1, <2>2
  <2>5. W[y] \in Nat /\ Sum(W, s \ {y}) \in Nat /\ Sum(W, T) \in Nat
    BY <1>1 DEF Weighs
  <2> QED BY <2>1, <2>3, <2>4, <2>5
<1> QED BY <1>2

\* What is shared weighs once.
LEMMA SumOfUnion ==
    ASSUME NEW W, NEW S, NEW T, Weighs(W, S), Weighs(W, T)
    PROVE  Sum(W, S \cup T) <= Sum(W, S) + Sum(W, T)
<1> DEFINE Bad == {t \in SUBSET T : ~(Sum(W, S \cup t) <= Sum(W, S) + Sum(W, t))}
<1>1. \A t \in SUBSET T : /\ Weighs(W, t) /\ Sum(W, t) \in Nat
                          /\ Weighs(W, S \cup t) /\ Sum(W, S \cup t) \in Nat
  BY FS_Subset, FS_Union, SumTyped DEF Weighs
<1>2. Sum(W, S) \in Nat
  BY SumTyped
<1>3. Bad = {}
  <2> SUFFICES ASSUME Bad # {} PROVE FALSE
    OBVIOUS
  <2>1. PICK t \in Bad : \A x \in t : t \ {x} \notin Bad
    BY <1>1, MinimalSet DEF Weighs
  <2>2. t # {}
    <3>1. Sum(W, {}) = 0 /\ S \cup {} = S
      BY SumOfPicked, FS_EmptySet
    <3> QED BY <1>2, <2>1, <3>1
  <2>3. PICK y \in t : TRUE
    BY <2>2
  <2> DEFINE rest == t \ {y}
  <2>4. rest \in SUBSET T /\ rest \notin Bad
    BY <2>1
  <2>5. Sum(W, S \cup rest) <= Sum(W, S) + Sum(W, rest)
    BY <2>4
  <2>6. Sum(W, t) = W[y] + Sum(W, rest) /\ W[y] \in Nat
    BY <1>1, SumOf DEF Weighs
  <2>7. Sum(W, S \cup t) <= W[y] + Sum(W, S \cup rest)
    <3>1. CASE y \in S
      <4>1. S \cup t = S \cup rest
        BY <3>1
      <4>2. Sum(W, S \cup rest) \in Nat
        BY <1>1, <2>4
      <4>3. Sum(W, S \cup t) = Sum(W, S \cup rest)
        BY <4>1
      <4>4. \A n, m \in Nat : n <= m + n
        OBVIOUS
      <4> HIDE DEF rest
      <4> QED BY <2>6, <4>2, <4>3, <4>4
    <3>2. CASE y \notin S
      <4>1. (S \cup t) \ {y} = S \cup rest /\ y \in S \cup t
        BY <3>2
      <4> HIDE DEF rest
      <4>2. Sum(W, S \cup t) = W[y] + Sum(W, (S \cup t) \ {y})
        BY <1>1, <4>1, SumOf
      <4> QED BY <1>1, <2>4, <2>6, <4>1, <4>2
    <3> QED BY <3>1, <3>2
  <2>8. /\ Sum(W, S \cup rest) \in Nat /\ Sum(W, rest) \in Nat
        /\ Sum(W, t) \in Nat /\ Sum(W, S \cup t) \in Nat
    BY <1>1, <2>4
  <2> HIDE DEF rest
  <2> QED BY <1>2, <2>1, <2>5, <2>6, <2>7, <2>8
<1> QED BY <1>3
-----------------------------------------------------------------------------
(* The budgets.                                                            *)

\* What is attached is counted, and what is counted fits.
BudgetInv ==
    \E all \in SUBSET Pages :
        /\ counted = all /\ Attached \subseteq all
        /\ Decoded(all) <= MAX_RESIDENT_DECODED_BYTES
        /\ Gpu(all) <= MAX_RESIDENT_GPU_BYTES_ESTIMATE

\* What pages weigh in both budgets.
LEMMA Weights ==
    ASSUME NEW of \in SUBSET Pages
    PROVE  /\ Decoded(of) = Sum(DecodedBytes, of) /\ Weighs(DecodedBytes, of)
           /\ Gpu(of) = Sum(OwnGpuBytes, of) + Sum(VariantGpuBytes, Variants(of))
           /\ Weighs(OwnGpuBytes, of) /\ Weighs(VariantGpuBytes, Variants(of))
           /\ Decoded(of) \in Nat /\ Gpu(of) \in Nat
<1>1. IsFiniteSet(of)
  BY FS_Subset, PageAssumption
<1>2. Weighs(DecodedBytes, of) /\ Weighs(OwnGpuBytes, of)
  BY <1>1, PageAssumption DEF Weighs
<1>3. Weighs(VariantGpuBytes, Variants(of))
  <2>1. IsFiniteSet({VariantsOf[p] : p \in of})
    <3> DEFINE drawn == [p \in of |-> VariantsOf[p]]
    <3>1. drawn \in Surjection(of, {VariantsOf[p] : p \in of})
      BY DEF Surjection
    <3> QED BY <1>1, <3>1, FS_Surjection
  <2>2. \A vs \in {VariantsOf[p] : p \in of} : IsFiniteSet(vs)
    BY PageAssumption
  <2>3. IsFiniteSet(Variants(of))
    BY <2>1, <2>2, FS_UNION DEF Variants
  <2>4. \A v \in Variants(of) : VariantGpuBytes[v] \in Nat
    BY PageAssumption DEF Variants
  <2> QED BY <2>3, <2>4 DEF Weighs
<1>4. Decoded(of) = Sum(DecodedBytes, of)
  BY DEF Decoded, Sum
<1>5. Gpu(of) = Sum(OwnGpuBytes, of) + Sum(VariantGpuBytes, Variants(of))
  BY DEF Gpu, Sum
<1>6. /\ Sum(DecodedBytes, of) \in Nat /\ Sum(OwnGpuBytes, of) \in Nat
      /\ Sum(VariantGpuBytes, Variants(of)) \in Nat
  BY <1>2, <1>3, SumTyped
<1> QED BY <1>2, <1>3, <1>4, <1>5, <1>6

\* Fewer pages weigh no more.
LEMMA FewerWeighLess ==
    ASSUME NEW all \in SUBSET Pages, NEW some \in SUBSET all
    PROVE  Decoded(some) <= Decoded(all) /\ Gpu(some) <= Gpu(all)
<1>1. some \in SUBSET Pages /\ Variants(some) \in SUBSET Variants(all)
  BY DEF Variants
<1>2. /\ Sum(DecodedBytes, some) <= Sum(DecodedBytes, all)
      /\ Sum(OwnGpuBytes, some) <= Sum(OwnGpuBytes, all)
      /\ Sum(VariantGpuBytes, Variants(some)) <= Sum(VariantGpuBytes, Variants(all))
  BY <1>1, Weights, SumOfPart
<1>3. /\ Sum(OwnGpuBytes, some) \in Nat /\ Sum(OwnGpuBytes, all) \in Nat
      /\ Sum(VariantGpuBytes, Variants(some)) \in Nat
      /\ Sum(VariantGpuBytes, Variants(all)) \in Nat
  BY <1>1, Weights, SumTyped
<1> QED BY <1>1, <1>2, <1>3, Weights

\* A page adds at most what Fits compares.
LEMMA OneMoreFits ==
    ASSUME NEW p \in Pages, counted \in SUBSET Pages, Fits(p)
    PROVE  /\ Decoded(counted \cup {p}) <= MAX_RESIDENT_DECODED_BYTES
           /\ Gpu(counted \cup {p}) <= MAX_RESIDENT_GPU_BYTES_ESTIMATE
<1> DEFINE more == counted \cup {p}
           added == VariantsOf[p] \ Variants(counted)
<1>1. {p} \in SUBSET Pages /\ more \in SUBSET Pages
  OBVIOUS
<1>2. \A W : Weighs(W, {p}) => Sum(W, {p}) = W[p]
  <2> TAKE W
  <2> HAVE Weighs(W, {p})
  <2>1. Sum(W, {p}) = W[p] + Sum(W, {p} \ {p})
    BY SumOf
  <2>2. {p} \ {p} = {} /\ Sum(W, {}) = 0
    BY SumOfPicked, FS_EmptySet
  <2>3. W[p] \in Nat
    BY DEF Weighs
  <2> QED BY <2>1, <2>2, <2>3
<1>3. Sum(DecodedBytes, more) <= Sum(DecodedBytes, counted) + DecodedBytes[p]
  BY <1>1, <1>2, Weights, SumOfUnion
<1>4. Sum(OwnGpuBytes, more) <= Sum(OwnGpuBytes, counted) + OwnGpuBytes[p]
  BY <1>1, <1>2, Weights, SumOfUnion
<1>5. Weighs(VariantGpuBytes, added)
  BY FS_Subset, PageAssumption DEF Weighs
<1>6. Variants(more) = Variants(counted) \cup added
  BY DEF Variants
<1>7. Sum(VariantGpuBytes, Variants(more))
        <= Sum(VariantGpuBytes, Variants(counted)) + Sum(VariantGpuBytes, added)
  <2> HIDE DEF added, more
  <2> QED BY <1>5, <1>6, Weights, SumOfUnion
<1>8. AddedGpu(p) = OwnGpuBytes[p] + Sum(VariantGpuBytes, added)
  BY DEF AddedGpu, Sum
<1>9. /\ OwnGpuBytes[p] \in Nat /\ DecodedBytes[p] \in Nat
      /\ Sum(VariantGpuBytes, added) \in Nat
      /\ \A of \in {counted, more} :
           /\ Sum(DecodedBytes, of) \in Nat /\ Sum(OwnGpuBytes, of) \in Nat
           /\ Sum(VariantGpuBytes, Variants(of)) \in Nat
  BY <1>1, <1>5, PageAssumption, Weights, SumTyped
<1>10. /\ Decoded(counted) = Sum(DecodedBytes, counted)
       /\ Decoded(more) = Sum(DecodedBytes, more)
       /\ Gpu(counted) = Sum(OwnGpuBytes, counted) + Sum(VariantGpuBytes, Variants(counted))
       /\ Gpu(more) = Sum(OwnGpuBytes, more) + Sum(VariantGpuBytes, Variants(more))
  BY <1>1, Weights
<1> HIDE DEF more, added
<1>11. Decoded(more) <= Decoded(counted) + DecodedBytes[p]
  BY <1>3, <1>10
<1>12. Gpu(more) <= Gpu(counted) + AddedGpu(p)
  BY <1>4, <1>7, <1>8, <1>9, <1>10
<1>13. /\ Decoded(more) \in Nat /\ Gpu(more) \in Nat /\ AddedGpu(p) \in Nat
       /\ Decoded(counted) \in Nat /\ Gpu(counted) \in Nat
  BY <1>8, <1>9, <1>10
<1>14. /\ Decoded(more) <= MAX_RESIDENT_DECODED_BYTES
       /\ Gpu(more) <= MAX_RESIDENT_GPU_BYTES_ESTIMATE
  BY <1>9, <1>11, <1>12, <1>13, PageAssumption DEF Fits
<1> QED BY <1>14 DEF more

\* Pages are attached one at a time, by admission, and counted at once.
LEMMA AttachedOneByOne ==
    ASSUME ResidencyInv, [ResidencyNext]_residencyVars
    PROVE  \/ Attached' \subseteq Attached /\ counted' = counted
           \/ counted' = Attached /\ Attached' = Attached
           \/ \E p \in Pages :
                 Fits(p) /\ counted' = counted \cup {p} /\ Attached' \subseteq Attached \cup {p}
<1>1. PagesTypeOK /\ UntriedIsPrepared /\ TasksAreDecoding /\ StreamingTypeOK
  BY DEF ResidencyInv, PageInv
<1>2. ASSUME UNCHANGED pages PROVE Attached' = Attached
  BY <1>2 DEF Attached, In
<1>3. CASE CoordinatorWithPages
  <2>1. counted' = counted /\ (ClearPages \/ UNCHANGED pages)
    BY <1>1, <1>3, CoordinatorPages
  <2>2. ClearPages => Attached' = {}
    BY DEF ClearPages, Attached, In, Gone
  <2> QED BY <1>2, <2>1, <2>2
<1>4. CASE ReceivePage
  <2>1. counted' = counted
    BY <1>4 DEF ReceivePage
  <2>2. ASSUME NEW q \in Pages, pages'[q].state \in {"Resident", "Cooling"}
        PROVE  pages[q].state \in {"Resident", "Cooling"}
    BY <1>1, <1>4, <2>2 DEF ReceivePage, Withdrawn, PagesTypeOK, Page, Gone
  <2> QED BY <2>1, <2>2 DEF Attached, In
<1>5. CASE RequestPage
  <2>1. counted' = counted
    BY <1>5 DEF RequestPage
  <2>2. ASSUME NEW q \in Pages, pages'[q].state \in {"Resident", "Cooling"}
        PROVE  pages[q].state \in {"Resident", "Cooling"}
    BY <1>1, <1>5, <2>2 DEF RequestPage, PagesTypeOK, Page
  <2> QED BY <2>1, <2>2 DEF Attached, In
<1>6. CASE KeepDemand \/ SetDemand \/ EndRequests \/ EndAttachments \/ UpdateStreamingStats
  <2>1. UNCHANGED pages /\ (counted' = counted \/ counted' = Attached)
    BY <1>6 DEF KeepDemand, SetDemand, EndRequests, EndAttachments, UpdateStreamingStats
  <2> QED BY <1>2, <2>1
<1>7. ASSUME NEW done \in SUBSET tasks, NEW bad, ReceiveDecodeResults(done, bad)
      PROVE  Attached' \subseteq Attached /\ counted' = counted
  <2>1. counted' = counted
    BY <1>7 DEF ReceiveDecodeResults
  <2>2. ASSUME NEW q \in Pages, pages'[q].state \in {"Resident", "Cooling"}
        PROVE  pages[q].state \in {"Resident", "Cooling"}
    <3>1. pages[q] \in Page
      BY <1>1 DEF PagesTypeOK
    <3>2. \/ pages'[q] = pages[q] \/ pages'[q] = Gone
          \/ pages'[q] = [pages[q] EXCEPT !.state = "Failed"]
          \/ \E g : pages'[q] = [pages[q] EXCEPT !.state = "Prepared", !.generation = g]
      BY <1>7 DEF ReceiveDecodeResults
    <3>3. /\ Gone.state = "gone"
          /\ [pages[q] EXCEPT !.state = "Failed"].state = "Failed"
          /\ \A g : [pages[q] EXCEPT !.state = "Prepared", !.generation = g].state = "Prepared"
      BY <3>1 DEF Page, Gone
    <3>4. pages'[q].state \in {pages[q].state, "gone", "Failed", "Prepared"}
      BY <3>2, <3>3
    <3> QED BY <2>2, <3>4
  <2> QED BY <2>1, <2>2 DEF Attached, In
<1>8. ASSUME NEW p \in Pages, RejectPage(p) \/ BlockPage(p)
      PROVE  Attached' \subseteq Attached /\ counted' = counted
  <2>1. counted' = counted
    BY <1>8 DEF RejectPage, BlockPage
  <2>2. ASSUME NEW q \in Pages, pages'[q].state \in {"Resident", "Cooling"}
        PROVE  pages[q].state \in {"Resident", "Cooling"}
    BY <1>1, <1>8, <2>2 DEF RejectPage, BlockPage, PagesTypeOK, Page, Gone
  <2> QED BY <2>1, <2>2 DEF Attached, In
<1>9. ASSUME NEW p \in Pages, AttachPage(p)
      PROVE  /\ Fits(p) /\ Attached' \subseteq Attached \cup {p}
             /\ \/ counted' = counted \cup {p}
                \/ Attached' \subseteq Attached /\ counted' = counted
  <2>1. Fits(p) /\ (counted' = counted \cup {p} \/ counted' = counted)
    BY <1>9 DEF AttachPage
  <2>2. ASSUME NEW q \in Pages, pages'[q].state \in {"Resident", "Cooling"}
        PROVE  \/ pages[q].state \in {"Resident", "Cooling"}
               \/ q = p /\ counted' = counted \cup {p}
    BY <1>1, <1>9, <2>2 DEF AttachPage, PagesTypeOK, Page
  <2> QED BY <2>1, <2>2 DEF Attached, In
<1>10. ASSUME NEW expired \in SUBSET In({"Cooling"}), CoolAndRemove(expired)
       PROVE  Attached' \subseteq Attached /\ counted' = counted
  <2>1. counted' = counted
    BY <1>10 DEF CoolAndRemove
  <2>2. ASSUME NEW q \in Pages, pages'[q].state \in {"Resident", "Cooling"}
        PROVE  pages[q].state \in {"Resident", "Cooling"}
    BY <1>1, <1>10, <2>2 DEF CoolAndRemove, Revived, PagesTypeOK, Page, Gone
  <2> QED BY <2>1, <2>2 DEF Attached, In
<1>11. CASE UNCHANGED pageVars
  BY <1>2, <1>11 DEF pageVars
<1> QED
  BY <1>3, <1>4, <1>5, <1>6, <1>7, <1>8, <1>9, <1>10, <1>11
     DEF ResidencyNext, ResidencyFrame, residencyVars

\* Pages attached, the cooling ones included, stay within both budgets, a shared
\* asset counted once, though a page is admitted by what was counted at the end
\* of the frame before (residency.rs, attach_prepared_pages).
THEOREM Budgets == ResidencySpec => []BudgetHolds
<1>1. ASSUME ResidencyInit PROVE BudgetInv
  <2>1. Attached = {} /\ counted = {}
    BY <1>1 DEF ResidencyInit, Attached, In, Gone
  <2>2. Variants({}) = {}
    BY DEF Variants
  <2>3. Sum(DecodedBytes, {}) = 0 /\ Sum(OwnGpuBytes, {}) = 0 /\ Sum(VariantGpuBytes, {}) = 0
    BY SumOfPicked, FS_EmptySet
  <2>4. Decoded({}) = 0 /\ Gpu({}) = 0
    BY <2>2, <2>3, Weights
  <2> QED BY <2>1, <2>4, PageAssumption DEF BudgetInv
<1>2. ASSUME ResidencyInv, BudgetInv, [ResidencyNext]_residencyVars
      PROVE  BudgetInv'
  <2>1. PICK all \in SUBSET Pages :
          /\ counted = all /\ Attached \subseteq all
          /\ Decoded(all) <= MAX_RESIDENT_DECODED_BYTES
          /\ Gpu(all) <= MAX_RESIDENT_GPU_BYTES_ESTIMATE
    BY <1>2 DEF BudgetInv
  <2>2. CASE Attached' \subseteq Attached /\ counted' = counted
    BY <2>1, <2>2 DEF BudgetInv
  <2>3. CASE counted' = Attached /\ Attached' = Attached
    <3>1. PICK some : some = Attached
      OBVIOUS
    <3>2. Decoded(some) <= Decoded(all) /\ Gpu(some) <= Gpu(all)
      BY <2>1, <3>1, FewerWeighLess
    <3>3. /\ Decoded(some) \in Nat /\ Gpu(some) \in Nat
          /\ Decoded(all) \in Nat /\ Gpu(all) \in Nat
      BY <2>1, <3>1, Weights
    <3>4. /\ Decoded(some) <= MAX_RESIDENT_DECODED_BYTES
          /\ Gpu(some) <= MAX_RESIDENT_GPU_BYTES_ESTIMATE
      BY <2>1, <3>2, <3>3, PageAssumption
    <3>5. counted' = some /\ Attached' \subseteq some /\ some \in SUBSET Pages
      BY <2>1, <2>3, <3>1
    <3> QED BY <3>4, <3>5 DEF BudgetInv
  <2>4. ASSUME NEW p \in Pages, Fits(p), counted' = counted \cup {p},
               Attached' \subseteq Attached \cup {p}
        PROVE  BudgetInv'
    <3>1. PICK more : more = counted \cup {p}
      OBVIOUS
    <3>2. Decoded(more) <= MAX_RESIDENT_DECODED_BYTES /\ Gpu(more) <= MAX_RESIDENT_GPU_BYTES_ESTIMATE
      BY <2>1, <2>4, <3>1, OneMoreFits
    <3>3. counted' = more /\ Attached' \subseteq more /\ more \in SUBSET Pages
      BY <2>1, <2>4, <3>1
    <3> QED BY <3>2, <3>3 DEF BudgetInv
  <2> QED BY <1>2, <2>2, <2>3, <2>4, AttachedOneByOne
<1>3. ASSUME BudgetInv PROVE BudgetHolds
  <2>1. PICK all \in SUBSET Pages :
          /\ counted = all /\ Attached \subseteq all
          /\ Decoded(all) <= MAX_RESIDENT_DECODED_BYTES
          /\ Gpu(all) <= MAX_RESIDENT_GPU_BYTES_ESTIMATE
    BY <1>3 DEF BudgetInv
  <2>2. PICK some : some = Attached
    OBVIOUS
  <2>3. some \in SUBSET all
    BY <2>1, <2>2
  <2>4. Decoded(some) <= Decoded(all) /\ Gpu(some) <= Gpu(all)
    BY <2>3, FewerWeighLess
  <2>5. /\ Decoded(some) \in Nat /\ Gpu(some) \in Nat
        /\ Decoded(all) \in Nat /\ Gpu(all) \in Nat
    BY <2>3, Weights
  <2> QED BY <2>1, <2>2, <2>4, <2>5, PageAssumption DEF BudgetHolds
<1> QED BY <1>1, <1>2, <1>3, Accounting, PTL DEF ResidencySpec

=============================================================================
