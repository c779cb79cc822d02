------------------------ MODULE StreamingProperties ------------------------
(***************************************************************************)
(* What the streaming coordinator must keep true while a new generation is *)
(* adopted under it.                                                       *)
(***************************************************************************)
EXTENDS WorldStreaming

Replies == results \o (IF reply = None THEN <<>> ELSE <<reply>>)

\* The worker's live reader is the generation the game runs on, except
\* between its commit and the game's adoption, when it is the one being
\* adopted (generation.rs:9-11).  A violation would answer every later read
\* of the running world with "stale generation".
ReaderFollowsManifest ==
    manifest # None /\ worker # "stopped" =>
        \/ reader = manifest
        \/ reload.commit # 0 /\ reader = reload.in_flight.generation

\* The worker never refuses a commit: the candidate it names is still the
\* prepared one, whatever reloads failed and were discarded before it.  The
\* terrain consumers may read from the candidate until then.
CommitIsNeverRefused ==
    \A i \in DOMAIN Replies : Replies[i].kind = "ReloadCommitted" => Replies[i].ok

\* A prepared reader is not leaked: it belongs to the reload in flight, or
\* its discard is queued (generation.rs:137-138).
CandidateIsOwned ==
    candidate # None =>
        \/ reload.in_flight # None /\ reload.in_flight.id = candidate.id
        \/ \E i \in DOMAIN requests :
              /\ requests[i].kind = "DiscardReload"
              /\ requests[i].reload = candidate.id

\* Source demand is only ever derived from the open generation's index of the
\* active space: late replies of another generation or space never arrive.
IndexIsCurrent ==
    descriptors # None =>
        /\ descriptors.generation = manifest
        /\ descriptors.about.space = active

\* An awaited index is one of the active space.  Its reply would otherwise be
\* passed over with the request still marked as awaited, and no index would
\* ever be asked for again (replies.rs:138-140, source_demand.rs:240).
IndexRequestIsOfTheActiveSpace ==
    requested_index # None => requested_index.space = active

\* At the end of every frame the open generation has the active space, and the
\* viewpoint and the render origin are in it: no generation, transition or
\* focus leaves one of them behind (world_space.rs:96, generation.rs:288).
OneSpace ==
    pc = "idle" /\ active # None =>
        /\ InManifest(active)
        /\ viewpoint.space = active /\ origin = active

\* The reload refines an atomic swap of the open generation: however its
\* requests and replies interleave with everything else, the game changes
\* generation in one step, to the one asked for, together with the answer Ok.
WantedGeneration ==
    IF reload.queued # None THEN reload.queued
    ELSE IF reload.in_flight # None THEN reload.in_flight.generation
    ELSE None

Swap == INSTANCE Publication WITH
    open <- manifest, wanted <- WantedGeneration, outcome <- reload.completion
ReloadIsAtomic == Swap!Spec

\* Why the swap is atomic.  Ids name one reload each: nothing on its way has
\* an id yet to be given, and what is on its way under the id in flight is of
\* the generation in flight.  A reload is queued only when none is in flight,
\* and only a reload in flight has a candidate, of its own generation.
ReloadIds ==
    /\ \A i \in DOMAIN requests : requests[i].id <= last_id
    /\ \A i \in DOMAIN results : results[i].id <= last_id
    /\ reply # None => reply.id <= last_id

RepliesToReload(r) ==
    r.kind = "Reloaded" /\ r.ok /\ reload.in_flight # None
      /\ r.id = reload.in_flight.id
    => r.generation = reload.in_flight.generation

OneReload ==
    /\ reload.in_flight # None =>
         /\ reload.queued = None
         /\ reload.in_flight.id <= last_id
         /\ \A i \in DOMAIN requests :
               requests[i].kind = "Reload" /\ requests[i].id = reload.in_flight.id
               => requests[i].generation = reload.in_flight.generation
    /\ \A i \in DOMAIN results : RepliesToReload(results[i])
    /\ reply # None => RepliesToReload(reply)
    /\ reload.candidate # None =>
         /\ reload.in_flight # None
         /\ reload.candidate = reload.in_flight.generation

\* The world is opened once, before anything else is answered.
OpensFirst ==
    /\ worker = "opening" => results = <<>>
    /\ reply # None /\ reply.kind = "Opened" => results = <<>>
    /\ \A i \in DOMAIN results : results[i].kind = "Opened" => i = 1
    /\ \/ worker = "opening"
       \/ reply # None /\ reply.kind = "Opened"
       \/ \E i \in DOMAIN results : results[i].kind = "Opened"
       => manifest = None /\ reload.candidate = None

HandshakeInv == ReloadIds /\ OneReload /\ OpensFirst

\* A reload that was asked for is answered, also when the worker's queue is
\* full, a read fails or the worker dies during it.
ReloadIsAnswered == ReloadActive ~> ~ReloadActive

\* A transition asked for while a world is open is taken: reloads only delay
\* it.
TransitionIsTaken == transition # None ~> (transition = None \/ manifest = None)

\* Once nothing new is asked for, the descriptors are those of the current
\* generation, space and view, unless streaming failed or the view is too
\* wide to index.
IndexCatchesUp ==
    <>[](phase = "Ready" /\ viewpoint.view \notin Unindexable =>
            descriptors = [generation |-> manifest, about |-> viewpoint])

=============================================================================
