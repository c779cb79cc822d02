------------------------- MODULE WorldDatabase_proofs -------------------------
(***************************************************************************)
(* What the database worker and its channels do in each step, for every    *)
(* value of the constants and whoever sends the requests: their typing,    *)
(* what a reply carries, and the order in which replies leave.             *)
(***************************************************************************)
EXTENDS WorldDatabase, TLAPS

-----------------------------------------------------------------------------
(* Typing of the channels and the worker.                                  *)

\* A well-formed request, sent, leaves the request channel well-formed and
\* within its capacity.
LEMMA SentTyped ==
    ASSUME DbTypeOK,
           NEW kind \in Reads \cup ReloadRequests,
           NEW generation \in Generations \cup {None},
           NEW named \in Nat, NEW about \in Topics \cup {None},
           kind # "DiscardReload" => generation # None,
           kind \in Reads => about # None,
           Sent(kind, generation, named, about)
    PROVE  /\ requests' \in Seq(Request)
           /\ Len(requests') <= REQUEST_CAPACITY
           /\ last_id' \in Nat
<1>1. [id |-> last_id + 1, kind |-> kind, generation |-> generation,
       reload |-> named, about |-> about] \in Request
  BY DEF DbTypeOK, Request
<1> QED
  BY <1>1, CapacityAssumption DEF DbTypeOK, Sent

\* An answer is a well-formed reply.
LEMMA AnswerTyped ==
    ASSUME NEW r \in Request, NEW ok \in BOOLEAN,
           NEW generation \in Generations \cup {None},
           NEW kind \in Reads \cup {"Opened", "Reloaded", "ReloadCommitted"},
           ok /\ kind # "ReloadCommitted" => generation # None,
           kind \in Reads => r.kind = kind,
           Answer(r, kind, ok, generation)
    PROVE  /\ worker' = "replying"
           /\ reply' \in Result /\ reply' # None
<1>1. reply' \in Result
  BY DEF Answer, Result, Request
<1> QED
  BY <1>1, NoneIsNoRecord DEF Answer

\* Serving one request leaves the worker well-typed.
LEMMA ServeTyped ==
    ASSUME DbTypeOK, Serve
    PROVE  DbTypeOK'
<1> USE DEF DbTypeOK
<1> DEFINE r == Head(requests)
<1>1. /\ worker = "receiving" /\ reply = None
      /\ requests # <<>> /\ r \in Request
      /\ requests' = Tail(requests)
      /\ UNCHANGED <<file, results, last_id, cancelled>>
  BY DEF Serve
<1>2. requests' \in Seq(Request) /\ Len(requests') <= REQUEST_CAPACITY
  BY <1>1, CapacityAssumption
<1>3. /\ r.id \in Nat /\ r.generation \in Generations \cup {None}
      /\ r.kind # "DiscardReload" => r.generation \in Generations
  BY <1>1 DEF Request
<1> DEFINE Answers == worker' = "replying" /\ reply' \in Result /\ reply' # None
<1>4. /\ worker' \in {"receiving", "replying"}
      /\ reply' \in Result \cup {None}
      /\ (worker' = "replying") = (reply' # None)
      /\ reader' \in Generations \cup {None}
      /\ candidate' \in Candidate \cup {None}
  <2>1. CASE ServeTerrain(r)
    <3>1. Answers
      <4>1. CASE Answer(r, "Terrain", TRUE, r.generation)
        BY <1>1, <1>3, <2>1, <4>1, NoneIsNoValue, AnswerTyped DEF ServeTerrain, Reads
      <4>2. CASE Answer(r, "Terrain", FALSE, None)
        BY <1>1, <2>1, <4>2, AnswerTyped DEF ServeTerrain, Reads
      <4> QED BY <2>1, <4>1, <4>2 DEF ServeTerrain
    <3> QED BY <2>1, <3>1 DEF ServeTerrain
  <2>2. CASE ServeReload(r)
    <3>1. Answers
      <4>1. CASE Answer(r, "Reloaded", TRUE, file)
        BY <1>1, <4>1, NoneIsNoValue, AnswerTyped DEF Reads, LiveReads
      <4>2. CASE Answer(r, "Reloaded", FALSE, None)
        BY <1>1, <4>2, AnswerTyped DEF Reads, LiveReads
      <4> QED BY <2>2, <4>1, <4>2 DEF ServeReload
    <3>2. candidate' \in Candidate \cup {None}
      <4>1. [id |-> r.id, generation |-> file] \in Candidate
        BY <1>3 DEF Candidate
      <4> QED BY <2>2, <4>1 DEF ServeReload
    <3> QED BY <2>2, <3>1, <3>2 DEF ServeReload
  <2>3. CASE ServeCommit(r)
    <3>1. Answers
      <4>1. PICK ok \in BOOLEAN : Answer(r, "ReloadCommitted", ok, None)
        BY <2>3 DEF ServeCommit
      <4> QED BY <1>1, <4>1, AnswerTyped DEF Reads, LiveReads
    <3>2. reader' \in Generations \cup {None} /\ candidate' \in Candidate \cup {None}
      BY <2>3 DEF ServeCommit, CandidateIs, Candidate
    <3> QED BY <3>1, <3>2
  <2>4. CASE ServeDiscard(r)
    BY <1>1, <2>4 DEF ServeDiscard
  <2>5. CASE ServeLiveRead(r)
    <3>1. r.kind \in LiveReads
      BY <2>5 DEF ServeLiveRead
    <3>2. Answers
      <4>1. CASE reader = r.generation /\ Answer(r, r.kind, TRUE, reader)
        <5>1. r.generation \in Generations
          BY <1>3, <3>1 DEF LiveReads
        <5> QED BY <1>1, <3>1, <4>1, <5>1, NoneIsNoValue, AnswerTyped DEF Reads
      <4>2. CASE Answer(r, r.kind, FALSE, None)
        BY <1>1, <3>1, <4>2, AnswerTyped DEF Reads
      <4> QED BY <2>5, <4>1, <4>2 DEF ServeLiveRead
    <3> QED BY <2>5, <3>2 DEF ServeLiveRead
  <2> QED BY <2>1, <2>2, <2>3, <2>4, <2>5 DEF Serve
<1> QED
  BY <1>1, <1>2, <1>4

\* The worker and its channels start well-typed.
LEMMA DbInitTyped == DbInit => DbTypeOK
<1>1. <<>> \in Seq(Request) /\ <<>> \in Seq(Result)
  OBVIOUS
<1>2. 0 <= REQUEST_CAPACITY /\ 0 <= RESULT_CAPACITY
  BY CapacityAssumption
<1> SUFFICES ASSUME DbInit PROVE DbTypeOK
  OBVIOUS
<1>3. requests \in Seq(Request) /\ Len(requests) <= REQUEST_CAPACITY
  BY <1>1, <1>2 DEF DbInit
<1>4. results \in Seq(Result) /\ Len(results) <= RESULT_CAPACITY
  BY <1>1, <1>2 DEF DbInit
<1>5. (worker = "replying") = (reply # None)
  BY DEF DbInit
<1> QED
  BY <1>3, <1>4, <1>5 DEF DbInit, DbTypeOK

\* The end of the thread leaves the channels well-typed.
LEMMA ThreadEndsTyped ==
    ASSUME DbTypeOK, ThreadEnds
    PROVE  /\ requests' \in Seq(Request) /\ Len(requests') <= REQUEST_CAPACITY
           /\ worker' = "stopped" /\ reply' = None
           /\ (worker' = "replying") = (reply' # None)
           /\ reader' \in Generations \cup {None}
           /\ candidate' \in Candidate \cup {None}
<1>1. requests' \in Seq(Request) /\ Len(requests') <= REQUEST_CAPACITY
  BY CapacityAssumption DEF ThreadEnds
<1> QED
  BY <1>1 DEF DbTypeOK, ThreadEnds

\* Every step of the worker thread, its death included, keeps it well-typed.
LEMMA WorkerTyped ==
    ASSUME DbTypeOK, Worker \/ Panic
    PROVE  DbTypeOK'
<1> USE DEF DbTypeOK
<1>1. CASE Open
  <2>1. Opened(file) \in Result /\ Opened(None) \in Result
    BY NoneIsNoValue DEF Opened, Result, Reads, LiveReads
  <2> QED BY <1>1, <2>1, NoneIsNoRecord DEF Open
<1>2. CASE SendReply
  <2>1. results' \in Seq(Result) /\ Len(results') <= RESULT_CAPACITY
    BY <1>2, CapacityAssumption DEF SendReply, RoomForReply
  <2>2. CASE reply.kind = "Opened" /\ ~reply.ok
    <3>1. ThreadEnds
      BY <1>2, <2>2 DEF SendReply
    <3> QED BY <1>2, <2>1, <3>1, ThreadEndsTyped DEF SendReply
  <2>3. CASE ~(reply.kind = "Opened" /\ ~reply.ok)
    BY <1>2, <2>1, <2>3 DEF SendReply
  <2> QED BY <2>2, <2>3
<1>3. CASE Serve
  BY <1>3, ServeTyped
<1>4. CASE Cancelled \/ Panic
  BY <1>4, ThreadEndsTyped DEF Cancelled, Panic
<1> QED
  BY <1>1, <1>2, <1>3, <1>4 DEF Worker

-----------------------------------------------------------------------------
(* Elements of the channels.                                               *)

\* An element of a sequence with one appended is an old one or the new one.
LEMMA AppendElements ==
    ASSUME NEW S, NEW s \in Seq(S), NEW e \in S, NEW i \in DOMAIN Append(s, e)
    PROVE  \/ i \in DOMAIN s /\ Append(s, e)[i] = s[i]
           \/ i = Len(s) + 1 /\ Append(s, e)[i] = e
OBVIOUS

\* An element of the rest of a sequence is one of the sequence, one later.
LEMMA TailElements ==
    ASSUME NEW S, NEW s \in Seq(S), s # <<>>
    PROVE  /\ 1 \in DOMAIN s /\ Head(s) = s[1]
           /\ \A i \in DOMAIN Tail(s) :
                 i \in Nat \ {0} /\ i + 1 \in DOMAIN s /\ Tail(s)[i] = s[i + 1]
OBVIOUS

\* An element of a sequence is the first or one of the rest, one earlier.
LEMMA RestElements ==
    ASSUME NEW S, NEW s \in Seq(S), NEW i \in DOMAIN s
    PROVE  i = 1 \/ (i - 1 \in DOMAIN Tail(s) /\ Tail(s)[i - 1] = s[i])
OBVIOUS

\* An element of two sequences put together is one of the first or, further on
\* by its length, one of the second.
LEMMA JoinedElements ==
    ASSUME NEW S, NEW T, NEW s \in Seq(S), NEW t \in Seq(T), NEW i \in DOMAIN (s \o t)
    PROVE  \/ i \in DOMAIN s /\ (s \o t)[i] = s[i]
           \/ /\ i \in Nat /\ Len(s) < i /\ i - Len(s) \in DOMAIN t
              /\ (s \o t)[i] = t[i - Len(s)]
OBVIOUS

\* What a step does to the channels and the worker, whoever takes it.
SendStep ==
    \E kind \in Reads \cup ReloadRequests, generation \in Generations \cup {None},
       named \in Nat, about \in Topics \cup {None} :
          /\ Sent(kind, generation, named, about)
          /\ kind # "DiscardReload" => generation # None
          /\ kind \in Reads => about # None
ReceiveStep ==
    /\ Received
    /\ UNCHANGED <<requests, last_id, workerVars>>
QuietStep == UNCHANGED <<requests, results, last_id, workerVars>>

\* What the worker does to the channels.
LEMMA WorkerSteps ==
    ASSUME DbTypeOK, Worker \/ Panic
    PROVE  /\ last_id' = last_id
           /\ \/ Open
              \/ /\ SendReply
                 /\ results' = Append(results, reply)
                 /\ reply' = None /\ worker' \in {"stopped", "receiving"}
                 /\ requests' = requests \/ requests' = <<>>
              \/ /\ Serve
                 /\ requests # <<>> /\ requests' = Tail(requests)
                 /\ worker = "receiving" /\ reply = None /\ results' = results
              \/ /\ requests' = <<>> /\ reply' = None /\ worker' = "stopped"
                 /\ results' = results
BY DEF DbTypeOK, Worker, Panic, Open, SendReply,
       Serve, Cancelled, ThreadEnds

\* The reply to the oldest request.
Answers(kind, ok, generation) ==
    /\ worker' = "replying" /\ reply' # None
    /\ reply' = [id |-> requests[1].id, kind |-> kind, ok |-> ok,
                 generation |-> generation, about |-> requests[1].about]

\* What serving the oldest request does, by its kind.
LEMMA ServeCases ==
    ASSUME DbTypeOK, Serve
    PROVE  /\ 1 \in DOMAIN requests /\ requests[1] \in Request
           /\ \/ /\ requests[1].kind \in Reads
                 /\ UNCHANGED <<reader, candidate>>
                 /\ \/ Answers(requests[1].kind, TRUE, requests[1].generation)
                    \/ Answers(requests[1].kind, FALSE, None)
              \/ /\ requests[1].kind = "Reload" /\ UNCHANGED reader
                 /\ \/ /\ candidate' = [id |-> requests[1].id,
                                        generation |-> requests[1].generation]
                       /\ Answers("Reloaded", TRUE, requests[1].generation)
                    \/ UNCHANGED candidate /\ Answers("Reloaded", FALSE, None)
              \/ /\ requests[1].kind = "CommitReload"
                 /\ \/ /\ CandidateIs(requests[1].reload, requests[1].generation)
                       /\ reader' = requests[1].generation /\ candidate' = None
                       /\ Answers("ReloadCommitted", TRUE, None)
                    \/ /\ ~CandidateIs(requests[1].reload, requests[1].generation)
                       /\ UNCHANGED <<reader, candidate>>
                       /\ Answers("ReloadCommitted", FALSE, None)
              \/ /\ requests[1].kind = "DiscardReload"
                 /\ UNCHANGED <<worker, reply, reader>>
                 /\ candidate' = IF candidate # None /\ candidate.id = requests[1].reload
                                 THEN None ELSE candidate
<1> DEFINE r == Head(requests)
<1>1. 1 \in DOMAIN requests /\ r = requests[1] /\ r \in Request
  BY DEF Serve, DbTypeOK
<1>2. DbTypeOK'
  BY ServeTyped
<1>3. ASSUME NEW kind, NEW ok, NEW generation, Answer(r, kind, ok, generation)
      PROVE  Answers(kind, ok, generation)
  BY <1>1, <1>2, <1>3 DEF Answer, Answers, DbTypeOK
<1>4. CASE ServeTerrain(r)
  BY <1>1, <1>3, <1>4 DEF ServeTerrain, Reads
<1>5. CASE ServeLiveRead(r)
  <2>1. r.kind \in Reads
    BY <1>5 DEF ServeLiveRead, Reads
  <2> QED BY <1>1, <1>3, <1>5, <2>1 DEF ServeLiveRead
<1>6. CASE ServeReload(r)
  BY <1>1, <1>3, <1>6 DEF ServeReload
<1>7. CASE ServeCommit(r)
  BY <1>1, <1>3, <1>7 DEF ServeCommit, CandidateIs
<1>8. CASE ServeDiscard(r)
  BY <1>1, <1>8 DEF ServeDiscard
<1> QED
  BY <1>1, <1>4, <1>5, <1>6, <1>7, <1>8 DEF Serve

\* What the worker replies to a request carries its id, and is no Opened.
LEMMA ServedReply ==
    ASSUME DbTypeOK, Serve
    PROVE  \/ reply' = None /\ worker' = "receiving"
           \/ /\ reply' # None /\ worker' = "replying"
              /\ reply'.id = requests[1].id
              /\ reply'.kind # "Opened"
              /\ reply'.kind = "Reloaded" /\ reply'.ok =>
                    /\ requests[1].kind = "Reload"
                    /\ reply'.generation = requests[1].generation
BY ServeCases DEF Answers, Reads, LiveReads, Serve, DbTypeOK

-----------------------------------------------------------------------------
(* The order of the channels.                                              *)

\* The channels carry their ids in increasing order, replies before requests,
\* and no id is yet to be given.  The opening reply, of id 0, is the first.
InOrder ==
    /\ worker = "opening" => results = <<>>
    /\ \A i \in DOMAIN requests : 0 < requests[i].id /\ requests[i].id <= last_id
    /\ \A i \in DOMAIN results : results[i].id <= last_id
    /\ reply # None => reply.id <= last_id
    /\ \A i, j \in DOMAIN requests : i < j => requests[i].id < requests[j].id
    /\ \A i, j \in DOMAIN results : i < j => results[i].id < results[j].id
    /\ \A i \in DOMAIN results, j \in DOMAIN requests : results[i].id < requests[j].id
    /\ reply # None =>
         /\ \A i \in DOMAIN results : results[i].id < reply.id
         /\ \A j \in DOMAIN requests : reply.id < requests[j].id

\* A request that is sent takes the next id and the last place.
LEMMA SentRequest ==
    ASSUME DbTypeOK,
           NEW kind \in Reads \cup ReloadRequests,
           NEW generation \in Generations \cup {None},
           NEW named \in Nat, NEW about \in Topics \cup {None},
           kind # "DiscardReload" => generation # None,
           kind \in Reads => about # None,
           Sent(kind, generation, named, about)
    PROVE  \E r \in Request :
              /\ r = [id |-> last_id + 1, kind |-> kind, generation |-> generation,
                      reload |-> named, about |-> about]
              /\ requests' = Append(requests, r)
              /\ last_id' = last_id + 1
              /\ worker # "stopped"
<1>1. [id |-> last_id + 1, kind |-> kind, generation |-> generation,
       reload |-> named, about |-> about] \in Request
  BY DEF DbTypeOK, Request
<1> QED
  BY <1>1 DEF Sent

LEMMA InOrderInit == DbInit => InOrder
BY DEF DbInit, InOrder

\* Nobody disturbs the order: a request takes a new id and the last place, the
\* oldest request becomes the newest reply.
LEMMA InOrderStep ==
    ASSUME DbTypeOK, InOrder,
           \/ SendStep /\ UNCHANGED <<results, workerVars>>
           \/ ReceiveStep
           \/ Worker \/ Panic
           \/ QuietStep
    PROVE  InOrder'
<1> USE DEF InOrder
<1>1. /\ requests \in Seq(Request) /\ results \in Seq(Result) /\ last_id \in Nat
      /\ reply \in Result \cup {None}
      /\ \A i \in DOMAIN requests : requests[i].id \in Nat
      /\ \A i \in DOMAIN results : results[i].id \in Nat
      /\ reply # None => reply.id \in Nat
      /\ DOMAIN requests \subseteq Nat /\ DOMAIN results \subseteq Nat
  <2>1. /\ requests \in Seq(Request) /\ results \in Seq(Result) /\ last_id \in Nat
        /\ reply \in Result \cup {None}
    BY DEF DbTypeOK
  <2>2. \A r \in Request : r.id \in Nat
    BY DEF Request
  <2>3. \A r \in Result : r.id \in Nat
    BY DEF Result
  <2>4. DOMAIN requests \subseteq Nat /\ \A i \in DOMAIN requests : requests[i] \in Request
    BY <2>1
  <2>5. DOMAIN results \subseteq Nat /\ \A i \in DOMAIN results : results[i] \in Result
    BY <2>1
  <2> QED BY <2>1, <2>2, <2>3, <2>4, <2>5
<1>2. CASE SendStep /\ UNCHANGED <<results, workerVars>>
  <2>1. PICK r \in Request : /\ r.id = last_id + 1 /\ last_id' = last_id + 1
                             /\ requests' = Append(requests, r)
    BY <1>2, SentRequest DEF SendStep
  <2>2. \A i \in DOMAIN requests' :
           \/ i \in DOMAIN requests /\ requests'[i] = requests[i]
           \/ i = Len(requests) + 1 /\ requests'[i] = r
    BY <1>1, <2>1, AppendElements
  <2>3. \A i \in DOMAIN requests : i <= Len(requests)
    BY <1>1
  <2>4. UNCHANGED <<results, worker, reply>>
    BY <1>2 DEF workerVars
  <2>5. Len(requests) \in Nat
    BY <1>1
  <2>6. \A i, j \in DOMAIN requests' : i < j => requests'[i].id < requests'[j].id
    BY <1>1, <2>1, <2>2, <2>3, <2>5
  <2>7. \A i \in DOMAIN requests' : 0 < requests'[i].id /\ requests'[i].id <= last_id'
    BY <1>1, <2>1, <2>2
  <2>8. /\ \A i \in DOMAIN results : results[i].id <= last_id'
        /\ reply # None => reply.id <= last_id'
    BY <1>1, <2>1
  <2>9. /\ \A i \in DOMAIN results, j \in DOMAIN requests' : results[i].id < requests'[j].id
        /\ reply # None => \A j \in DOMAIN requests' : reply.id < requests'[j].id
    BY <1>1, <2>1, <2>2
  <2> QED BY <2>4, <2>6, <2>7, <2>8, <2>9
<1>3. CASE ReceiveStep
  <2>1. /\ results # <<>> /\ results' = Tail(results)
        /\ UNCHANGED <<requests, last_id, worker, reply>>
    BY <1>3 DEF ReceiveStep, Received, workerVars
  <2>2. \A i \in DOMAIN results' :
           i \in Nat \ {0} /\ i + 1 \in DOMAIN results /\ results'[i] = results[i + 1]
    BY <1>1, <2>1, TailElements
  <2>3. \A i, j \in DOMAIN results' : i < j => results'[i].id < results'[j].id
    <3> SUFFICES ASSUME NEW i \in DOMAIN results', NEW j \in DOMAIN results', i < j
                 PROVE  results'[i].id < results'[j].id
      OBVIOUS
    <3>1. i + 1 < j + 1
      BY <2>2
    <3> QED BY <2>2, <3>1
  <2>4. worker' = "opening" => results' = <<>>
    BY <2>1
  <2> QED BY <2>1, <2>2, <2>3, <2>4
<1>4. CASE Worker \/ Panic
  <2>1. last_id' = last_id
    BY <1>4, WorkerSteps
  <2>2. CASE Open
    <3>1. /\ results = <<>> /\ UNCHANGED <<requests, results, last_id>>
          /\ worker' = "replying" /\ reply'.id = 0
      BY <2>2 DEF Open, Opened
    <3> QED BY <1>1, <3>1
  <2>3. CASE /\ SendReply
             /\ results' = Append(results, reply)
             /\ reply' = None /\ worker' \in {"stopped", "receiving"}
             /\ requests' = requests \/ requests' = <<>>
    <3>1. reply \in Result /\ reply # None
      BY <2>3 DEF SendReply, DbTypeOK
    <3>2. \A i \in DOMAIN results' :
             \/ i \in DOMAIN results /\ results'[i] = results[i]
             \/ i = Len(results) + 1 /\ results'[i] = reply
      BY <1>1, <2>3, <3>1, AppendElements
    <3>3. (\A i \in DOMAIN results : i <= Len(results)) /\ Len(results) \in Nat
      BY <1>1
    <3>4. \A i, j \in DOMAIN results' : i < j => results'[i].id < results'[j].id
      BY <1>1, <3>1, <3>2, <3>3
    <3>5. /\ \A i \in DOMAIN results' : results'[i].id <= last_id
          /\ \A i \in DOMAIN results', j \in DOMAIN requests : results'[i].id < requests[j].id
      BY <1>1, <3>1, <3>2
    <3> QED BY <2>1, <2>3, <3>4, <3>5
  <2>4. CASE /\ Serve
             /\ requests # <<>> /\ requests' = Tail(requests)
             /\ worker = "receiving" /\ reply = None /\ results' = results
    <3>1. /\ 1 \in DOMAIN requests
          /\ \A i \in DOMAIN requests' :
                i \in Nat \ {0} /\ i + 1 \in DOMAIN requests /\ requests'[i] = requests[i + 1]
      BY <1>1, <2>4, TailElements
    <3>2. \A i, j \in DOMAIN requests' : i < j => requests'[i].id < requests'[j].id
      <4> SUFFICES ASSUME NEW i \in DOMAIN requests', NEW j \in DOMAIN requests', i < j
                   PROVE  requests'[i].id < requests'[j].id
        OBVIOUS
      <4>1. i + 1 < j + 1
        BY <3>1
      <4> QED BY <3>1, <4>1
    <3>3. \A j \in DOMAIN requests' : requests[1].id < requests'[j].id
      <4> SUFFICES ASSUME NEW j \in DOMAIN requests' PROVE requests[1].id < requests'[j].id
        OBVIOUS
      <4>1. 1 < j + 1
        BY <3>1
      <4> QED BY <3>1, <4>1
    <3>4. /\ reply' # None => reply'.id = requests[1].id
          /\ worker' # "opening"
      BY <2>4, ServedReply
    <3> QED BY <2>1, <2>4, <3>1, <3>2, <3>3, <3>4
  <2>5. CASE requests' = <<>> /\ reply' = None /\ worker' = "stopped" /\ results' = results
    BY <2>1, <2>5
  <2> QED BY <1>4, <2>2, <2>3, <2>4, <2>5, WorkerSteps
<1>5. CASE QuietStep
  BY <1>5 DEF QuietStep, workerVars
<1> QED
  BY <1>2, <1>3, <1>4, <1>5

-----------------------------------------------------------------------------
(* One read on its way.                                                    *)

\* What a step does to the channels, whoever takes it.
ChannelStep ==
    \/ SendStep /\ UNCHANGED <<results, workerVars>>
    \/ ReceiveStep
    \/ Worker \/ Panic
    \/ QuietStep

\* What is on its way under this id is this read, or the answer to it.
IsRead(id, kind, generation, about) ==
    /\ id \in Nat \ {0} /\ id <= last_id
    /\ \A i \in DOMAIN requests :
          requests[i].id = id =>
             /\ requests[i].kind = kind /\ requests[i].about = about
             /\ requests[i].generation = generation
    /\ \A i \in DOMAIN results :
          results[i].id = id =>
             /\ results[i].kind = kind /\ results[i].about = about
             /\ results[i].ok => results[i].generation = generation
    /\ reply # None /\ reply.id = id =>
          /\ reply.kind = kind /\ reply.about = about
          /\ reply.ok => reply.generation = generation

OnItsWay(id) ==
    \/ \E i \in DOMAIN requests : requests[i].id = id
    \/ \E i \in DOMAIN results : results[i].id = id
    \/ reply # None /\ reply.id = id

\* A read that was just sent is on its way under the new id, and nothing else
\* is.
LEMMA SentIsRead ==
    ASSUME DbTypeOK, InOrder,
           NEW kind \in Reads, NEW generation \in Generations, NEW about \in Topics,
           NEW id, id = last_id + 1,
           Sent(kind, generation, 0, about), UNCHANGED <<results, workerVars>>
    PROVE  IsRead(id, kind, generation, about)' /\ OnItsWay(id)'
<1>1. PICK r \in Request :
         /\ r = [id |-> last_id + 1, kind |-> kind, generation |-> generation,
                 reload |-> 0, about |-> about]
         /\ requests' = Append(requests, r)
         /\ last_id' = last_id + 1
  BY NoneIsNoValue, SentRequest DEF Reads, LiveReads
<1>2. /\ requests \in Seq(Request) /\ last_id \in Nat
      /\ UNCHANGED <<results, reply>>
      /\ \A i \in DOMAIN requests : requests[i].id \in Nat /\ requests[i].id <= last_id
      /\ \A i \in DOMAIN results : results[i].id \in Nat /\ results[i].id <= last_id
      /\ reply # None => reply.id \in Nat /\ reply.id <= last_id
  BY DEF DbTypeOK, InOrder, Request, Result, workerVars
<1>3. \A i \in DOMAIN requests' :
         (i \in DOMAIN requests /\ requests'[i] = requests[i]) \/ requests'[i] = r
  BY <1>1, <1>2, AppendElements
<1>4. Len(requests) + 1 \in DOMAIN requests' /\ requests'[Len(requests) + 1] = r
  BY <1>1, <1>2
<1>5. id \notin {requests[i].id : i \in DOMAIN requests}
      /\ id \notin {results[i].id : i \in DOMAIN results}
      /\ (reply # None => reply.id # id)
  BY <1>2
<1>6. IsRead(id, kind, generation, about)'
  BY <1>1, <1>2, <1>3, <1>5 DEF IsRead
<1> QED BY <1>1, <1>4, <1>6 DEF OnItsWay

\* Whatever else is sent, answered or drained, a read stays this read.
LEMMA IsReadStep ==
    ASSUME DbTypeOK, InOrder, NEW id, NEW kind \in Reads, NEW generation, NEW about,
           IsRead(id, kind, generation, about), ChannelStep
    PROVE  IsRead(id, kind, generation, about)'
<1> USE DEF IsRead
<1>1. /\ requests \in Seq(Request) /\ results \in Seq(Result) /\ last_id \in Nat
      /\ reply \in Result \cup {None}
  BY DEF DbTypeOK
<1>2. CASE SendStep /\ UNCHANGED <<results, workerVars>>
  <2>1. PICK r \in Request : /\ r.id = last_id + 1 /\ last_id' = last_id + 1
                             /\ requests' = Append(requests, r)
    BY <1>2, SentRequest DEF SendStep
  <2>2. \A i \in DOMAIN requests' :
           (i \in DOMAIN requests /\ requests'[i] = requests[i]) \/ requests'[i] = r
    BY <1>1, <2>1, AppendElements
  <2>3. UNCHANGED <<results, reply>> /\ r.id # id
    BY <1>1, <1>2, <2>1 DEF workerVars
  <2> QED BY <1>1, <2>1, <2>2, <2>3
<1>3. CASE ReceiveStep
  <2>1. /\ results # <<>> /\ results' = Tail(results)
        /\ UNCHANGED <<requests, last_id, reply>>
    BY <1>3 DEF ReceiveStep, Received, workerVars
  <2>2. \A i \in DOMAIN results' : i + 1 \in DOMAIN results /\ results'[i] = results[i + 1]
    BY <1>1, <2>1, TailElements
  <2> QED BY <2>1, <2>2
<1>4. CASE Worker \/ Panic
  <2>1. last_id' = last_id
    BY <1>4, WorkerSteps
  <2>2. CASE Open
    <3>1. UNCHANGED <<requests, results>> /\ reply'.id = 0
      BY <2>2 DEF Open, Opened
    <3> QED BY <2>1, <3>1
  <2>3. CASE SendReply
    <3>1. /\ results' = Append(results, reply) /\ reply' = None
          /\ requests' = requests \/ requests' = <<>>
          /\ reply \in Result /\ reply # None
      BY <1>1, <2>3 DEF SendReply, ThreadEnds, DbTypeOK
    <3>2. \A i \in DOMAIN results' :
             (i \in DOMAIN results /\ results'[i] = results[i]) \/ results'[i] = reply
      BY <1>1, <3>1, AppendElements
    <3> QED BY <2>1, <3>1, <3>2
  <2>4. CASE Serve
    <3>1. requests' = Tail(requests) /\ results' = results /\ requests # <<>> /\ reply = None
      BY <2>4 DEF Serve, DbTypeOK
    <3>2. \A i \in DOMAIN requests' : i + 1 \in DOMAIN requests /\ requests'[i] = requests[i + 1]
      BY <1>1, <3>1, TailElements
    <3>3. 1 \in DOMAIN requests
      BY <1>1, <3>1, TailElements
    <3>4. reply' # None /\ reply'.id = id =>
             /\ reply'.kind = kind /\ reply'.about = about
             /\ reply'.ok => reply'.generation = generation
      <4> SUFFICES ASSUME reply' # None, reply'.id = id
                   PROVE  /\ reply'.kind = kind /\ reply'.about = about
                          /\ reply'.ok => reply'.generation = generation
        OBVIOUS
      <4>1. requests[1].id = id
        BY <2>4, ServedReply, <3>1
      <4>2. requests[1].kind = kind /\ requests[1].about = about
            /\ requests[1].generation = generation
        BY <3>3, <4>1
      <4> QED BY <2>4, <3>1, <4>2, ServeCases DEF Answers, Reads, LiveReads
    <3> QED BY <2>1, <3>1, <3>2, <3>4
  <2>5. CASE requests' = <<>> /\ reply' = None /\ results' = results
    BY <2>1, <2>5
  <2> QED BY <1>4, <2>2, <2>3, <2>4, <2>5, WorkerSteps
<1>5. CASE QuietStep
  BY <1>5 DEF QuietStep, workerVars
<1> QED
  BY <1>2, <1>3, <1>4, <1>5 DEF ChannelStep

\* While the worker lives, a read is on its way until its answer is drained.
LEMMA OnItsWayStep ==
    ASSUME DbTypeOK, NEW id, NEW kind \in Reads, NEW generation, NEW about,
           IsRead(id, kind, generation, about), ChannelStep,
           OnItsWay(id), worker' # "stopped",
           ReceiveStep => results[1].id # id
    PROVE  OnItsWay(id)'
<1> USE DEF OnItsWay
<1>1. /\ requests \in Seq(Request) /\ results \in Seq(Result)
      /\ reply \in Result \cup {None}
      /\ (worker = "replying") = (reply # None)
  BY DEF DbTypeOK
<1>2. CASE SendStep /\ UNCHANGED <<results, workerVars>>
  <2>1. PICK r \in Request : requests' = Append(requests, r)
    BY <1>2, SentRequest DEF SendStep
  <2>2. \A i \in DOMAIN requests : i \in DOMAIN requests' /\ requests'[i] = requests[i]
    BY <1>1, <2>1
  <2> QED BY <1>2, <2>2 DEF workerVars
<1>3. CASE ReceiveStep
  <2>1. /\ results # <<>> /\ results' = Tail(results) /\ UNCHANGED <<requests, reply>>
    BY <1>3 DEF ReceiveStep, Received, workerVars
  <2>2. \A i \in DOMAIN results : i = 1 \/ (i - 1 \in DOMAIN results' /\ results'[i - 1] = results[i])
    BY <1>1, <2>1, RestElements
  <2> QED BY <1>3, <2>1, <2>2
<1>4. CASE Worker \/ Panic
  <2>1. CASE Open
    <3>1. UNCHANGED <<requests, results>> /\ reply = None
      BY <1>1, <2>1 DEF Open
    <3> QED BY <3>1
  <2>2. CASE SendReply
    <3>1. /\ results' = Append(results, reply) /\ requests' = requests
          /\ reply \in Result
      BY <1>1, <2>2 DEF SendReply, ThreadEnds
    <3>2. /\ \A i \in DOMAIN results : i \in DOMAIN results' /\ results'[i] = results[i]
          /\ Len(results) + 1 \in DOMAIN results' /\ results'[Len(results) + 1] = reply
      BY <1>1, <3>1
    <3> QED BY <3>1, <3>2
  <2>3. CASE Serve
    <3>1. requests' = Tail(requests) /\ results' = results /\ requests # <<>> /\ reply = None
      BY <1>1, <2>3 DEF Serve
    <3>2. \A i \in DOMAIN requests :
             i = 1 \/ (i - 1 \in DOMAIN requests' /\ requests'[i - 1] = requests[i])
      BY <1>1, <3>1, RestElements
    <3>3. requests[1].id = id => reply' # None /\ reply'.id = id
      <4> SUFFICES ASSUME requests[1].id = id PROVE reply' # None /\ reply'.id = id
        OBVIOUS
      <4>1. 1 \in DOMAIN requests
        BY <1>1, <3>1, TailElements
      <4>2. requests[1].kind \in Reads
        BY <4>1 DEF IsRead
      <4> QED BY <2>3, <4>2, ServeCases DEF Answers, Reads, LiveReads
    <3> QED BY <3>1, <3>2, <3>3
  <2>4. CASE worker' = "stopped"
    BY <2>4
  <2> QED BY <1>4, <2>1, <2>2, <2>3, <2>4, WorkerSteps
<1>5. CASE QuietStep
  BY <1>5 DEF QuietStep, workerVars
<1> QED
  BY <1>2, <1>3, <1>4, <1>5 DEF ChannelStep

=============================================================================
