---------------------------- MODULE WorldDatabase ----------------------------
(***************************************************************************)
(* The streamer's database worker: one thread that owns the SQLite readers *)
(* of immutable world generations, and the two bounded channels between it *)
(* and the main thread (engine, world_streaming/database.rs and            *)
(* database/reader.rs).                                                    *)
(*                                                                         *)
(* The main thread never blocks: it sends with try_send and drains with    *)
(* try_recv.  The worker takes requests in order, one at a time, and       *)
(* blocks on a full reply channel.  It holds the live reader and, during a *)
(* reload, a candidate reader named by the id of the request that opened   *)
(* it.                                                                     *)
(*                                                                         *)
(* What a request reads (a cell window, a page, a block, terrain nodes) is *)
(* opaque to the worker: a member of Topics.  A reply's data is            *)
(* represented by the generation it was read from.                         *)
(***************************************************************************)
EXTENDS Naturals, Sequences

CONSTANTS
    Generations,        \* generation ids of published databases
    Topics,             \* what reads are about, opaque to the worker
    None,               \* Option::None
    REQUEST_CAPACITY,   \* bounded request channel
    RESULT_CAPACITY,    \* bounded reply channel
    FaultsUntil         \* bound: opens, reads and the thread fail only before
                        \* this many requests were sent

ASSUME NoneIsNoValue == None \notin Generations /\ None \notin Topics
ASSUME CapacityAssumption ==
    /\ REQUEST_CAPACITY \in Nat \ {0}
    /\ RESULT_CAPACITY \in Nat \ {0}
    /\ FaultsUntil \in Nat

VARIABLES
    file,       \* the generation published at the database path
    requests,   \* the request channel
    results,    \* the reply channel
    last_id,    \* the last id a request was sent with
    worker,     \* where the worker thread is
    reply,      \* the reply the worker is sending, while "replying"
    reader,     \* the live reader's generation
    candidate,  \* the prepared reader: the reload's id and its generation
    cancelled   \* WorldDatabaseWorker was dropped

dbVars == <<file, requests, results, last_id, worker, reply, reader,
            candidate, cancelled>>
workerVars == <<worker, reply, reader, candidate>>

LiveReads == {"ReadIndex", "ReadPage", "ReadFarObjects"}
ReloadRequests == {"Reload", "CommitReload", "DiscardReload"}

Reads == LiveReads \cup {"Terrain"}

\* DatabaseRequest.  `reload` is 0 except in CommitReload and DiscardReload:
\* ids start at 1.
Request ==
    {r \in [id : Nat, kind : Reads \cup ReloadRequests,
            generation : Generations \cup {None}, reload : Nat,
            about : Topics \cup {None}] :
        /\ r.kind # "DiscardReload" => r.generation # None
        /\ r.kind \in Reads => r.about # None}

\* DatabaseResult.  `generation` is the manifest's or the one the data was
\* read from; None for an error and for an acknowledged commit.
Result ==
    {r \in [id : Nat,
            kind : Reads \cup {"Opened", "Reloaded", "ReloadCommitted"},
            ok : BOOLEAN, generation : Generations \cup {None},
            about : Topics \cup {None}] :
        /\ r.ok /\ r.kind # "ReloadCommitted" => r.generation # None
        /\ r.kind \in Reads => r.about # None}

Candidate == [id : Nat, generation : Generations]

\* An Option's None is no value of its type.
ASSUME NoneIsNoRecord == None \notin Result /\ None \notin Candidate

DbTypeOK ==
    /\ file \in Generations
    /\ requests \in Seq(Request) /\ Len(requests) <= REQUEST_CAPACITY
    /\ results \in Seq(Result) /\ Len(results) <= RESULT_CAPACITY
    /\ last_id \in Nat
    /\ worker \in {"opening", "replying", "receiving", "stopped"}
    /\ reply \in Result \cup {None}
    /\ (worker = "replying") = (reply # None)
    /\ reader \in Generations \cup {None}
    /\ candidate \in Candidate \cup {None}
    /\ cancelled \in BOOLEAN

DbInit ==
    /\ file \in Generations
    /\ requests = <<>> /\ results = <<>>
    /\ last_id = 0
    /\ worker = "opening" /\ reply = None
    /\ reader = None /\ candidate = None
    /\ cancelled = FALSE

-----------------------------------------------------------------------------
(* The main thread's end of the channels.                                  *)

\* Mutants of Sent: an unbounded channel; an id given twice.
SentUnbounded(kind, generation, reload, about) ==
    /\ worker # "stopped"
    /\ last_id' = last_id + 1
    /\ requests' = Append(requests,
            [id |-> last_id + 1, kind |-> kind, generation |-> generation,
             reload |-> reload, about |-> about])
SentWithOldId(kind, generation, reload, about) ==
    /\ worker # "stopped"
    /\ Len(requests) < REQUEST_CAPACITY
    /\ last_id' = last_id + 1
    /\ requests' = Append(requests,
            [id |-> last_id, kind |-> kind, generation |-> generation,
             reload |-> reload, about |-> about])

\* WorldDatabaseWorker::send, by outcome.  The code also numbers requests
\* that were not queued; nobody ever sees those ids, so only sent requests
\* are numbered here.
Sent(kind, generation, reload, about) ==
    /\ worker # "stopped"
    /\ Len(requests) < REQUEST_CAPACITY
    /\ last_id' = last_id + 1
    /\ requests' = Append(requests,
            [id |-> last_id + 1, kind |-> kind, generation |-> generation,
             reload |-> reload, about |-> about])

NotSentFull == worker # "stopped" /\ Len(requests) >= REQUEST_CAPACITY
NotSentStopped == worker = "stopped"

\* WorldDatabaseWorker::try_recv, by outcome.
Received == results # <<>> /\ results' = Tail(results)
NothingReceived == results = <<>> /\ worker # "stopped"
Disconnected == results = <<>> /\ worker = "stopped"

-----------------------------------------------------------------------------
(* The worker thread (reader::run).                                        *)

\* A database error, or a bug in the thread, may strike.
Faulty == last_id < FaultsUntil

\* The thread's end drops its channel ends and readers: queued requests are
\* lost, replies already sent can still be drained.
ThreadEnds ==
    /\ worker' = "stopped"
    /\ requests' = <<>>
    /\ reply' = None
    /\ candidate' = None
    /\ UNCHANGED reader

Opened(generation) ==
    [id |-> 0, kind |-> "Opened", ok |-> generation # None,
     generation |-> generation, about |-> None]

\* The first open of the database, before the loop.
Open ==
    /\ worker = "opening"
    /\ worker' = "replying"
    /\ \/ reader' = file /\ reply' = Opened(file)
       \/ Faulty /\ reader' = None /\ reply' = Opened(None)
    /\ UNCHANGED <<file, requests, results, last_id, candidate, cancelled>>

\* Mutant of RoomForReply: off by one.
RoomForTwoReplies == Len(results) + 1 < RESULT_CAPACITY

RoomForReply == Len(results) < RESULT_CAPACITY

\* reply(): blocks while the reply channel is full, unless cancelled.  After
\* the opening error the thread returns.
SendReply ==
    /\ worker = "replying" /\ ~cancelled
    /\ RoomForReply
    /\ results' = Append(results, reply)
    /\ \/ /\ reply.kind = "Opened" /\ ~reply.ok
          /\ ThreadEnds
       \/ /\ reply.kind # "Opened" \/ reply.ok
          /\ worker' = "receiving" /\ reply' = None
          /\ UNCHANGED <<requests, reader, candidate>>
    /\ UNCHANGED <<file, last_id, cancelled>>

\* The reply to request `r` with data read from `generation`, or an error.
Answer(r, kind, ok, generation) ==
    /\ worker' = "replying"
    /\ reply' = [id |-> r.id, kind |-> kind, ok |-> ok,
                 generation |-> generation, about |-> r.about]

\* Terrain is read from the live reader or, ahead of its commit, from the
\* candidate.
ServeTerrain(r) ==
    LET readable == \/ reader = r.generation
                    \/ candidate # None /\ candidate.generation = r.generation
    IN  /\ r.kind = "Terrain"
        /\ \/ readable /\ Answer(r, "Terrain", TRUE, r.generation)
           \/ (Faulty \/ ~readable) /\ Answer(r, "Terrain", FALSE, None)
        /\ UNCHANGED <<reader, candidate>>

\* Mutants of ServeReload: the newest id names the candidate; the reload
\* replaces the live reader at once.
ServeReloadNamedByLastId(r) ==
    /\ r.kind = "Reload"
    /\ file = r.generation
    /\ candidate' = [id |-> last_id, generation |-> file]
    /\ Answer(r, "Reloaded", TRUE, file)
    /\ UNCHANGED reader
ServeReloadInOnePhase(r) ==
    /\ r.kind = "Reload"
    /\ file = r.generation
    /\ reader' = file
    /\ candidate' = [id |-> r.id, generation |-> file]
    /\ Answer(r, "Reloaded", TRUE, file)

\* The candidate is opened from the path, beside the live reader; opening may
\* fail, or find another generation than the expected one.
ServeReload(r) ==
    /\ r.kind = "Reload"
    /\ \/ /\ file = r.generation
          /\ candidate' = [id |-> r.id, generation |-> file]
          /\ Answer(r, "Reloaded", TRUE, file)
       \/ /\ Faulty \/ file # r.generation
          /\ UNCHANGED candidate
          /\ Answer(r, "Reloaded", FALSE, None)
    /\ UNCHANGED reader

CandidateIs(id, generation) ==
    /\ candidate # None
    /\ candidate.id = id
    /\ candidate.generation = generation

ServeCommit(r) ==
    /\ r.kind = "CommitReload"
    /\ \/ /\ CandidateIs(r.reload, r.generation)
          /\ reader' = candidate.generation
          /\ candidate' = None
          /\ Answer(r, "ReloadCommitted", TRUE, None)
       \/ /\ ~CandidateIs(r.reload, r.generation)
          /\ Answer(r, "ReloadCommitted", FALSE, None)
          /\ UNCHANGED <<reader, candidate>>

\* The only request without a reply.
ServeDiscard(r) ==
    /\ r.kind = "DiscardReload"
    /\ candidate' = IF candidate # None /\ candidate.id = r.reload
                    THEN None ELSE candidate
    /\ UNCHANGED <<worker, reply, reader>>

\* Mutant of ServeLiveRead: the generation is not compared.
ServeAnyRead(r) ==
    /\ r.kind \in LiveReads
    /\ Answer(r, r.kind, TRUE, reader)
    /\ UNCHANGED <<reader, candidate>>

ServeLiveRead(r) ==
    /\ r.kind \in LiveReads
    /\ \/ reader = r.generation /\ Answer(r, r.kind, TRUE, reader)
       \/ (Faulty \/ reader # r.generation) /\ Answer(r, r.kind, FALSE, None)
    /\ UNCHANGED <<reader, candidate>>

Serve ==
    /\ worker = "receiving" /\ ~cancelled
    /\ requests # <<>>
    /\ requests' = Tail(requests)
    /\ LET r == Head(requests) IN
          \/ ServeTerrain(r)
          \/ ServeReload(r)
          \/ ServeCommit(r)
          \/ ServeDiscard(r)
          \/ ServeLiveRead(r)
    /\ UNCHANGED <<file, results, last_id, cancelled>>

\* Mutant of ChannelWait: only the wait for a request is woken.
RequestWait == worker = "receiving"

ChannelWait == worker \in {"replying", "receiving"}

\* A dropped WorldDatabaseWorker wakes either channel wait.
Cancelled ==
    /\ cancelled
    /\ ChannelWait
    /\ ThreadEnds
    /\ UNCHANGED <<file, results, last_id, cancelled>>

\* The thread dies (a panic in a read): the case the main thread's
\* Disconnected and Stopped paths are written for.
Panic ==
    /\ Faulty
    /\ worker \in {"opening", "receiving"}
    /\ ThreadEnds
    /\ UNCHANGED <<file, results, last_id, cancelled>>

Worker == Open \/ SendReply \/ Serve \/ Cancelled

-----------------------------------------------------------------------------
(* A cook replaces the published file atomically, at any time.             *)

Publish(g) ==
    /\ file # g /\ file' = g
    /\ UNCHANGED <<requests, results, last_id, workerVars, cancelled>>

=============================================================================
