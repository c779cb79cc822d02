---------------------- MODULE WorldDatabaseClient_proofs ----------------------
(***************************************************************************)
(* What the worker and its channels promise to any client, for any number  *)
(* of requests, any capacities and any faults: replies come in order and   *)
(* carry what was asked for, and only a commit replaces the live reader.   *)
(***************************************************************************)
EXTENDS WorldDatabaseClient, WorldDatabase_proofs

AskedRequest ==
    {r \in [kind : Reads \cup ReloadRequests, generation : Generations \cup {None},
            reload : Nat, about : Topics \cup {None}] :
        /\ r.kind # "DiscardReload" => r.generation # None
        /\ r.kind \in Reads => r.about # None}

Carries(r) == r.id > 0 /\ r.generation # None => r.generation = asked[r.id].generation

\* Every request that is on its way is the one its id asked, every reply
\* carries the generation its id asked for, and the prepared reader is the one
\* a reload asked for.
AskedInv ==
    /\ asked \in Seq(AskedRequest) /\ Len(asked) = last_id
    /\ \A i \in DOMAIN requests :
          LET r == requests[i] IN
          /\ asked[r.id].kind = r.kind
          /\ asked[r.id].generation = r.generation
          /\ asked[r.id].reload = r.reload
    /\ \A i \in DOMAIN results : Carries(results[i])
    /\ reply # None => Carries(reply)
    /\ candidate # None =>
         /\ candidate.id \in 1 .. last_id
         /\ asked[candidate.id].kind = "Reload"
         /\ asked[candidate.id].generation = candidate.generation
    /\ worker = "opening" => reader = None

ClientInv == DbTypeOK /\ InOrder /\ AskedInv

\* What a request that is sent asked for is remembered under its id.
SendStepOfClient ==
    \E r \in AskedRequest :
        /\ Sent(r.kind, r.generation, r.reload, r.about)
        /\ asked' = Append(asked, r)
        /\ UNCHANGED <<file, results, workerVars, cancelled>>

LEMMA ClientSteps ==
    ASSUME ClientInv, [ClientNext]_clientVars
    PROVE  \/ SendStepOfClient
           \/ ReceiveStep /\ UNCHANGED <<file, cancelled, asked>>
           \/ (Worker \/ Panic) /\ UNCHANGED asked
           \/ QuietStep /\ UNCHANGED asked /\ file' \in Generations /\ cancelled' \in BOOLEAN
<1>1. CASE ClientSend
  <2>1. PICK r \in [kind : {"Terrain", "ReadPage"}, generation : Generations,
                    reload : {0}, about : Topics]
                \cup [kind : {"Reload"}, generation : Generations,
                      reload : {0}, about : {None}]
                \cup [kind : {"CommitReload"}, generation : Generations,
                      reload : 1..last_id, about : {None}]
                \cup [kind : {"DiscardReload"}, generation : {None},
                      reload : 1..last_id, about : {None}] :
           /\ Sent(r.kind, r.generation, r.reload, r.about)
           /\ asked' = Append(asked, r)
    BY <1>1 DEF ClientSend
  <2>2. last_id \in Nat
    BY DEF ClientInv, DbTypeOK
  <2>3. r \in AskedRequest
    BY <2>1, <2>2, NoneIsNoValue DEF AskedRequest, Reads, LiveReads, ReloadRequests
  <2> QED BY <1>1, <2>1, <2>3 DEF ClientSend, SendStepOfClient
<1>2. CASE ClientReceive
  BY <1>2 DEF ClientReceive, ReceiveStep
<1>3. CASE Drop
  BY <1>3 DEF Drop, QuietStep, ClientInv, DbTypeOK
<1>4. CASE ClientWorker \/ ClientPanic
  BY <1>4 DEF ClientWorker, ClientPanic
<1>5. CASE ClientPublish
  BY <1>5 DEF ClientPublish, Publish, QuietStep, ClientInv, DbTypeOK
<1>6. CASE UNCHANGED clientVars
  BY <1>6 DEF clientVars, dbVars, QuietStep, workerVars, ClientInv, DbTypeOK
<1> QED
  BY <1>1, <1>2, <1>3, <1>4, <1>5, <1>6 DEF ClientNext

\* The channels and the worker stay well-typed and in order.
LEMMA ClientChannels ==
    ASSUME ClientInv, [ClientNext]_clientVars
    PROVE  DbTypeOK' /\ InOrder'
<1>1. CASE SendStepOfClient
  <2>1. PICK r \in AskedRequest :
           /\ Sent(r.kind, r.generation, r.reload, r.about)
           /\ UNCHANGED <<file, results, workerVars, cancelled>>
    BY <1>1 DEF SendStepOfClient
  <2>2. /\ r.kind \in Reads \cup ReloadRequests /\ r.generation \in Generations \cup {None}
        /\ r.reload \in Nat /\ r.about \in Topics \cup {None}
        /\ r.kind # "DiscardReload" => r.generation # None
        /\ r.kind \in Reads => r.about # None
    BY DEF AskedRequest
  <2>3. /\ requests' \in Seq(Request) /\ Len(requests') <= REQUEST_CAPACITY
        /\ last_id' \in Nat
    BY <2>1, <2>2, SentTyped DEF ClientInv
  <2>4. DbTypeOK'
    BY <2>1, <2>3 DEF ClientInv, DbTypeOK, workerVars
  <2>5. SendStep /\ UNCHANGED <<results, workerVars>>
    BY <2>1, <2>2 DEF SendStep
  <2> QED BY <2>4, <2>5, InOrderStep DEF ClientInv
<1>2. CASE ReceiveStep /\ UNCHANGED <<file, cancelled, asked>>
  <2>1. results' \in Seq(Result) /\ Len(results') <= RESULT_CAPACITY
    BY <1>2, CapacityAssumption DEF ReceiveStep, Received, ClientInv, DbTypeOK
  <2>2. DbTypeOK'
    BY <1>2, <2>1 DEF ReceiveStep, workerVars, ClientInv, DbTypeOK
  <2> QED BY <1>2, <2>2, InOrderStep DEF ClientInv
<1>3. CASE Worker \/ Panic
  BY <1>3, WorkerTyped, InOrderStep DEF ClientInv
<1>4. CASE QuietStep /\ file' \in Generations /\ cancelled' \in BOOLEAN
  <2>1. DbTypeOK'
    BY <1>4 DEF QuietStep, workerVars, ClientInv, DbTypeOK
  <2> QED BY <1>4, <2>1, InOrderStep DEF ClientInv
<1> QED
  BY <1>1, <1>2, <1>3, <1>4, ClientSteps

\* What was asked for stays what is carried.
LEMMA AskedStep ==
    ASSUME ClientInv, [ClientNext]_clientVars
    PROVE  AskedInv'
<1> USE DEF AskedInv
<1>1. /\ requests \in Seq(Request) /\ results \in Seq(Result) /\ last_id \in Nat
      /\ reply \in Result \cup {None}
      /\ asked \in Seq(AskedRequest) /\ DOMAIN asked = 1 .. last_id
      /\ \A i \in DOMAIN requests : requests[i].id \in 1 .. last_id
      /\ \A i \in DOMAIN results : results[i].id \in Nat /\ results[i].id <= last_id
      /\ reply # None => reply.id \in Nat /\ reply.id <= last_id
  BY DEF ClientInv, InOrder, DbTypeOK, Request, Result
<1>2. /\ \A i \in DOMAIN requests :
            /\ asked[requests[i].id].kind = requests[i].kind
            /\ asked[requests[i].id].generation = requests[i].generation
            /\ asked[requests[i].id].reload = requests[i].reload
      /\ \A i \in DOMAIN results : Carries(results[i])
      /\ reply # None => Carries(reply)
      /\ candidate # None =>
           /\ candidate.id \in 1 .. last_id
           /\ asked[candidate.id].kind = "Reload"
           /\ asked[candidate.id].generation = candidate.generation
      /\ worker = "opening" => reader = None
  BY DEF ClientInv
<1>3. CASE SendStepOfClient
  <2>1. PICK a \in AskedRequest :
           /\ Sent(a.kind, a.generation, a.reload, a.about)
           /\ asked' = Append(asked, a)
           /\ UNCHANGED <<file, results, workerVars, cancelled>>
    BY <1>3 DEF SendStepOfClient
  <2>2. PICK r \in Request :
           /\ r = [id |-> last_id + 1, kind |-> a.kind, generation |-> a.generation,
                   reload |-> a.reload, about |-> a.about]
           /\ requests' = Append(requests, r)
           /\ last_id' = last_id + 1
           /\ worker # "stopped"
    BY <2>1, SentRequest DEF ClientInv, AskedRequest
  <2>3. /\ asked' \in Seq(AskedRequest) /\ Len(asked') = last_id'
        /\ \A k \in 1 .. last_id : asked'[k] = asked[k]
        /\ asked'[last_id + 1] = a
    BY <1>1, <2>1, <2>2
  <2>4. \A i \in DOMAIN requests' :
           \/ i \in DOMAIN requests /\ requests'[i] = requests[i]
           \/ requests'[i] = r
    BY <1>1, <2>2, AppendElements
  <2>5. \A i \in DOMAIN requests' :
          /\ asked'[requests'[i].id].kind = requests'[i].kind
          /\ asked'[requests'[i].id].generation = requests'[i].generation
          /\ asked'[requests'[i].id].reload = requests'[i].reload
    BY <1>1, <1>2, <2>2, <2>3, <2>4
  <2>6. UNCHANGED <<results, worker, reply, reader, candidate>>
    BY <2>1 DEF workerVars
  <2>7. (\A i \in DOMAIN results : Carries(results[i])') /\ (reply # None => Carries(reply)')
    BY <1>1, <1>2, <2>3, <2>6 DEF Carries
  <2> QED BY <1>1, <1>2, <2>2, <2>3, <2>5, <2>6, <2>7
<1>4. CASE ReceiveStep /\ UNCHANGED asked
  <2>1. /\ results # <<>> /\ results' = Tail(results)
        /\ UNCHANGED <<requests, last_id, worker, reply, reader, candidate>>
    BY <1>4 DEF ReceiveStep, Received, workerVars
  <2>2. \A i \in DOMAIN results' : i + 1 \in DOMAIN results /\ results'[i] = results[i + 1]
    BY <1>1, <2>1, TailElements
  <2> QED BY <1>2, <1>4, <2>1, <2>2 DEF Carries, ClientInv
<1>5. CASE (Worker \/ Panic) /\ UNCHANGED asked
  <2>1. last_id' = last_id
    BY <1>5, WorkerSteps DEF ClientInv
  <2>2. CASE Open
    <3>1. /\ UNCHANGED <<requests, results, candidate>>
          /\ worker' = "replying" /\ reply'.id = 0
      BY <2>2 DEF Open, Opened
    <3> QED BY <1>2, <1>5, <2>1, <3>1 DEF Carries, ClientInv
  <2>3. CASE SendReply
    <3>1. /\ results' = Append(results, reply) /\ reply' = None
          /\ requests' = requests \/ requests' = <<>>
          /\ worker' # "opening" /\ candidate' \in {candidate, None}
          /\ reply \in Result /\ reply # None
      BY <1>1, <2>3 DEF SendReply, ThreadEnds, ClientInv, DbTypeOK
    <3>2. \A i \in DOMAIN results' :
             \/ i \in DOMAIN results /\ results'[i] = results[i]
             \/ results'[i] = reply
      BY <1>1, <3>1, AppendElements
    <3> QED BY <1>2, <1>5, <2>1, <3>1, <3>2 DEF Carries, ClientInv
  <2>4. CASE Serve
    <3> DEFINE r == requests[1]
    <3>1. /\ requests' = Tail(requests) /\ results' = results /\ requests # <<>>
          /\ worker = "receiving" /\ reply = None
      BY <2>4 DEF Serve, ClientInv, DbTypeOK
    <3>2. /\ 1 \in DOMAIN requests
          /\ \A i \in DOMAIN requests' : i + 1 \in DOMAIN requests /\ requests'[i] = requests[i + 1]
      BY <1>1, <3>1, TailElements
    <3>3. /\ worker' # "opening"
          /\ reply' # None =>
               reply'.id = r.id /\ (reply'.generation # None => reply'.generation = r.generation)
          /\ candidate' # None =>
               \/ candidate' = candidate
               \/ /\ r.kind = "Reload"
                  /\ candidate' = [id |-> r.id, generation |-> r.generation]
      BY <2>4, <3>1, ServeCases DEF ClientInv, Answers
    <3>4. candidate' # None =>
           /\ candidate'.id \in 1 .. last_id
           /\ asked[candidate'.id].kind = "Reload"
           /\ asked[candidate'.id].generation = candidate'.generation
      BY <1>1, <1>2, <3>2, <3>3
    <3> QED BY <1>2, <1>5, <2>1, <3>1, <3>2, <3>3, <3>4 DEF Carries, ClientInv
  <2>5. CASE /\ requests' = <<>> /\ reply' = None /\ worker' = "stopped"
             /\ candidate' = None /\ results' = results
    BY <1>2, <1>5, <2>1, <2>5 DEF Carries, ClientInv
  <2> QED BY <1>5, <2>2, <2>3, <2>4, <2>5 DEF Worker, Panic, Cancelled, ThreadEnds
<1>6. CASE QuietStep /\ UNCHANGED asked
  BY <1>2, <1>6 DEF QuietStep, workerVars, Carries, ClientInv
<1> QED
  BY <1>3, <1>4, <1>5, <1>6, ClientSteps

-----------------------------------------------------------------------------
(* The theorems.                                                           *)

LEMMA ClientInvInit == ClientInit => ClientInv
<1> SUFFICES ASSUME ClientInit PROVE ClientInv
  OBVIOUS
<1>1. DbTypeOK
  BY DbInitTyped DEF ClientInit
<1>2. AskedInv
  BY DEF ClientInit, DbInit, AskedInv
<1> QED
  BY <1>1, <1>2, InOrderInit DEF ClientInit, ClientInv

LEMMA ClientInvStep == ClientInv /\ [ClientNext]_clientVars => ClientInv'
BY ClientChannels, AskedStep DEF ClientInv

\* The channels stay within their capacities and in order, and what they carry
\* is what was asked for, whatever the client sends and drains and whenever the
\* thread fails.
THEOREM ClientInvariant == ClientSpec => []ClientInv
<1> QED
  BY ClientInvInit, ClientInvStep, PTL DEF ClientSpec

\* A reply on its way is in the channel or being sent.
LEMMA RepliesElements ==
    ASSUME DbTypeOK, NEW i \in DOMAIN Replies
    PROVE  \/ i \in DOMAIN results /\ Replies[i] = results[i]
           \/ reply # None /\ i = Len(results) + 1 /\ Replies[i] = reply
<1>1. results \in Seq(Result) /\ reply \in Result \cup {None}
  BY DEF DbTypeOK
<1>2. CASE reply = None
  BY <1>1, <1>2, JoinedElements DEF Replies
<1>3. CASE reply # None
  BY <1>1, <1>3, JoinedElements DEF Replies
<1> QED
  BY <1>2, <1>3

\* Answers leave in the order of their requests, each at most once.
THEOREM Ordered == ClientSpec => []AnswersInOrder
<1>1. ClientInv => AnswersInOrder
  <2> SUFFICES ASSUME ClientInv,
                      NEW i \in DOMAIN InFlight, NEW j \in DOMAIN InFlight, i < j
               PROVE  InFlight[i].id < InFlight[j].id
    BY DEF AnswersInOrder
  <2>1. /\ requests \in Seq(Request) /\ results \in Seq(Result)
        /\ reply \in Result \cup {None} /\ DbTypeOK /\ InOrder
    BY DEF ClientInv, DbTypeOK
  <2>2. Replies \in Seq(Result)
    BY <2>1 DEF Replies
  <2>3. \A k \in DOMAIN InFlight :
           \/ k \in DOMAIN Replies /\ InFlight[k] = Replies[k]
           \/ /\ k \in Nat /\ Len(Replies) < k /\ k - Len(Replies) \in DOMAIN requests
              /\ InFlight[k] = requests[k - Len(Replies)]
    BY <2>1, <2>2, JoinedElements DEF InFlight
  <2>4. \A k \in DOMAIN Replies :
           \/ k \in DOMAIN results /\ Replies[k] = results[k]
           \/ reply # None /\ k = Len(results) + 1 /\ Replies[k] = reply
    BY <2>1, RepliesElements
  <2>5. /\ Len(results) \in Nat /\ Len(Replies) \in Nat
        /\ \A k \in DOMAIN results : k \in Nat /\ k <= Len(results)
        /\ \A k \in DOMAIN Replies : k \in Nat /\ k <= Len(Replies)
    BY <2>1, <2>2
  <2>6. CASE i \in DOMAIN Replies /\ j \in DOMAIN Replies
             /\ InFlight[i] = Replies[i] /\ InFlight[j] = Replies[j]
    BY <2>1, <2>4, <2>5, <2>6 DEF InOrder
  <2>7. ASSUME i \in DOMAIN Replies, InFlight[i] = Replies[i],
               NEW n \in DOMAIN requests, InFlight[j] = requests[n]
        PROVE  InFlight[i].id < InFlight[j].id
    BY <2>1, <2>4, <2>7 DEF InOrder
  <2>8. ASSUME NEW m \in DOMAIN requests, InFlight[i] = requests[m],
               NEW n \in DOMAIN requests, InFlight[j] = requests[n], m < n
        PROVE  InFlight[i].id < InFlight[j].id
    BY <2>1, <2>8 DEF InOrder
  <2>9. CASE i \in DOMAIN Replies /\ InFlight[i] = Replies[i]
    BY <2>3, <2>6, <2>7, <2>9
  <2>10. CASE /\ i \in Nat /\ Len(Replies) < i /\ i - Len(Replies) \in DOMAIN requests
              /\ InFlight[i] = requests[i - Len(Replies)]
    <3>1. /\ j \in Nat /\ j - Len(Replies) \in DOMAIN requests
          /\ InFlight[j] = requests[j - Len(Replies)]
      BY <2>3, <2>5, <2>10
    <3>2. i - Len(Replies) < j - Len(Replies)
      BY <2>5, <2>10, <3>1
    <3> QED BY <2>8, <2>10, <3>1, <3>2
  <2> QED BY <2>3, <2>9, <2>10
<1> QED
  BY <1>1, ClientInvariant, PTL

\* No reply mixes generations, however commits, discards and publications fall
\* between a request and its answer.
THEOREM NoMixedGenerations == ClientSpec => []DataIsOfTheAskedGeneration
<1>1. ClientInv => DataIsOfTheAskedGeneration
  BY RepliesElements DEF ClientInv, AskedInv, Carries, DataIsOfTheAskedGeneration
<1> QED
  BY <1>1, ClientInvariant, PTL

\* Only the opening and a commit of a prepared reload change the live reader.
THEOREM TheReaderIsCommitted == ClientSpec => OnlyACommitReplacesTheReader
<1> DEFINE Replaced ==
      reader' # reader =>
        \/ reader = None
        \/ /\ asked[Head(requests).id].kind = "CommitReload"
           /\ LET prepared == asked[asked[Head(requests).id].reload]
              IN  prepared.kind = "Reload" /\ prepared.generation = reader'
<1>1. ClientInv /\ [ClientNext]_clientVars => [Replaced]_clientVars
  <2> SUFFICES ASSUME ClientInv, [ClientNext]_clientVars, reader' # reader, reader # None
               PROVE  /\ asked[Head(requests).id].kind = "CommitReload"
                      /\ LET prepared == asked[asked[Head(requests).id].reload]
                         IN  prepared.kind = "Reload" /\ prepared.generation = reader'
    OBVIOUS
  <2>1. Worker \/ Panic
    <3>1. SendStepOfClient => reader' = reader
      BY DEF SendStepOfClient, workerVars
    <3>2. ReceiveStep \/ QuietStep => reader' = reader
      BY DEF ReceiveStep, QuietStep, workerVars
    <3> QED BY <3>1, <3>2, ClientSteps
  <2>2. Serve
    <3>1. ~Open
      BY DEF Open, ClientInv, AskedInv
    <3> QED BY <2>1, <3>1 DEF Worker, SendReply, Cancelled, Panic, ThreadEnds
  <2>3. /\ 1 \in DOMAIN requests /\ requests[1].kind = "CommitReload"
        /\ CandidateIs(requests[1].reload, requests[1].generation)
        /\ reader' = requests[1].generation
    BY <2>2, ServeCases DEF ClientInv
  <2>4. Head(requests) = requests[1]
    BY <2>2 DEF Serve, ClientInv, DbTypeOK
  <2> QED BY <2>3, <2>4 DEF CandidateIs, ClientInv, AskedInv
<1> QED
  BY <1>1, ClientInvariant, PTL DEF ClientSpec, OnlyACommitReplacesTheReader

=============================================================================
