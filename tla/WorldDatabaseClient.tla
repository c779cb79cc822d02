------------------------- MODULE WorldDatabaseClient -------------------------
(***************************************************************************)
(* The database worker under an arbitrary client: any request at any time, *)
(* replies drained whenever the client likes, the worker dropped at any    *)
(* time.  What the channels and the worker promise whatever the streamer   *)
(* does with them.                                                         *)
(***************************************************************************)
EXTENDS WorldDatabase

CONSTANT MaxId      \* bound: requests the client sends

ASSUME MaxIdAssumption == MaxId \in Nat

VARIABLES
    asked       \* what each id asked: the requests sent so far, by id

clientVars == <<dbVars, asked>>

ClientInit == DbInit /\ asked = <<>>

\* One of the requests the consumers of the worker send.
ClientSend ==
    /\ ~cancelled /\ last_id < MaxId
    /\ \E r \in [kind : {"Terrain", "ReadPage"}, generation : Generations,
                 reload : {0}, about : Topics]
             \cup [kind : {"Reload"}, generation : Generations,
                   reload : {0}, about : {None}]
             \cup [kind : {"CommitReload"}, generation : Generations,
                   reload : 1..last_id, about : {None}]
             \cup [kind : {"DiscardReload"}, generation : {None},
                   reload : 1..last_id, about : {None}] :
          /\ Sent(r.kind, r.generation, r.reload, r.about)
          /\ asked' = Append(asked, r)
    /\ UNCHANGED <<file, results, workerVars, cancelled>>

ClientReceive ==
    /\ ~cancelled
    /\ Received
    /\ UNCHANGED <<file, requests, last_id, workerVars, cancelled, asked>>

\* Drop for WorldDatabaseWorker: drops the cancel sender, then joins.
Drop ==
    /\ ~cancelled
    /\ cancelled' = TRUE
    /\ UNCHANGED <<file, requests, results, last_id, workerVars, asked>>

ClientWorker == Worker /\ UNCHANGED asked
ClientPanic == Panic /\ UNCHANGED asked
ClientPublish == (\E g \in Generations : Publish(g)) /\ UNCHANGED asked

ClientNext == \/ ClientSend \/ ClientReceive \/ Drop
              \/ ClientWorker \/ ClientPanic \/ ClientPublish

\* The worker thread runs; the client drains its replies every frame.
ClientSpec == /\ ClientInit /\ [][ClientNext]_clientVars
              /\ WF_clientVars(ClientWorker)
              /\ WF_clientVars(ClientReceive)

-----------------------------------------------------------------------------

\* Everything between the two threads, oldest first.
Replies == results \o (IF reply = None THEN <<>> ELSE <<reply>>)
InFlight == Replies \o requests

\* Replies leave in the order their requests were sent, each at most once:
\* the ids in the reply channel, the reply being sent and the request channel
\* are strictly increasing.  The streamer relies on it to recognise an index
\* or a commit reply by its id alone (replies.rs).
AnswersInOrder ==
    \A i, j \in DOMAIN InFlight : i < j => InFlight[i].id < InFlight[j].id

\* A reply that carries data read it from the generation its request named,
\* across every commit and discard in between: no reply mixes generations
\* (reader.rs, `live` and the Terrain arm).
DataIsOfTheAskedGeneration ==
    \A i \in DOMAIN Replies :
        LET r == Replies[i] IN
        r.id > 0 /\ r.generation # None => r.generation = asked[r.id].generation

\* The live reader only ever becomes the generation that some prepared
\* reload asked for: no other request and no publication of the file under
\* the running program replaces it (generation.rs:1-2).
OnlyACommitReplacesTheReader ==
    [][reader' # reader =>
        \/ reader = None
        \/ /\ asked[Head(requests).id].kind = "CommitReload"
           /\ LET prepared == asked[asked[Head(requests).id].reload]
              IN  prepared.kind = "Reload" /\ prepared.generation = reader'
      ]_clientVars

\* Dropping the worker joins its thread: it ends even when nobody drains the
\* reply channel it is blocked on (Drop for WorldDatabaseWorker).
DropTerminates == cancelled ~> worker = "stopped"

\* While both sides run no request stays in the channels or at the worker for
\* good: it leaves them, by its reply being drained or, when it has none, by
\* being taken (reader.rs, the loop of run).
Travels(id) == \E i \in DOMAIN InFlight : InFlight[i].id = id
EveryRequestIsServed ==
    \A id \in 1..MaxId : Travels(id) ~> (~Travels(id) \/ cancelled)

=============================================================================
