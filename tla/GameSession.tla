---------------------------- MODULE GameSession ----------------------------
(***************************************************************************)
(* A playthrough and the commands that change it (gameplay, session.rs,    *)
(* commands.rs, world_runtime.rs, conversation.rs).                        *)
(*                                                                         *)
(* A command is one transaction, and so is each piece of work it leaves    *)
(* behind: a trigger that listens for what changed, a conversation to      *)
(* start, a walk whose time ran out.  What a transaction still has to do   *)
(* is its `agenda`.  The actions of content are `Deeds`; any of them may   *)
(* be refused, for reasons (a dead character, a script's error, a graph    *)
(* that cannot be read) the model leaves out.                              *)
(***************************************************************************)
EXTENDS GameplayTx, SequencesExt

CONSTANTS
    Actors, Areas, Conversations, Variables, Triggers,
    ModeOf,         \* "blocking" or "ambient", by conversation
    LinesOf,        \* the deeds of each line, by conversation
    ListensTo,      \* the signals a trigger subscribes to
    DeedsOf,        \* what a trigger does
    Once,           \* the triggers that fire once
    WALK_TIME,      \* how long a walk may take
    SETTLE_STEPS,
    MaxTime,        \* bound on the clock
    MaxRefusals,    \* bound on refused deeds
    MaxCommands     \* bound on commands

Pending == <<"pending">>
Floor == <<"floor">>
Talk(c) == <<"talk", c>>
Movement(a) == <<"movement", a>>
Location(a) == <<"location", a>>
Variable(v) == <<"variable", v>>
Fired(t) == <<"fired", t>>

SessionRecords ==
    {Pending, Floor} \cup {Talk(c) : c \in Conversations}
      \cup {Movement(a) : a \in Actors} \cup {Location(a) : a \in Actors}
      \cup {Variable(v) : v \in Variables} \cup {Fired(t) : t \in Triggers}

ASSUME SessionAssumption == SessionRecords \subseteq Records

Modes == {"blocking", "ambient"}

\* What a line or a trigger may do.
Deed == [do : {"set"}, variable : Variables, value : Nat]
          \cup [do : {"flip"}, variable : Variables]
          \cup [do : {"move"}, actor : Actors, to : Areas]
          \cup [do : {"queue"}, conversation : Conversations]

ASSUME ContentAssumption ==
    /\ IsFiniteSet(Conversations) /\ IsFiniteSet(Triggers)
    /\ ModeOf \in [Conversations -> Modes]
    /\ LinesOf \in [Conversations -> Seq(Seq(Deed))]
    /\ DeedsOf \in [Triggers -> Seq(Deed)]

VARIABLES
    agenda,         \* the steps left of the transaction
    doing,          \* "nothing", a "command", queued "work", or a "drop" of it
    settled,        \* pieces of work carried out for this command
    commands, refusals

sessionVars == <<agenda, doing, settled, commands, refusals>>

time == scalars
Active(c) == state[Talk(c)] # None /\ state[Talk(c)].status = "active"

NewState ==
    [k \in Records |->
        CASE k = Pending -> <<>>
          [] k = Floor -> [m \in Modes |-> <<>>]
          [] k \in {Location(a) : a \in Actors} -> {}
          [] k \in {Variable(v) : v \in Variables} -> 0
          [] k \in {Fired(t) : t \in Triggers} -> FALSE
          [] OTHER -> None]

SessionInit ==
    /\ state = NewState
    /\ scalars = 0
    /\ events = <<>> /\ scopes = <<>> /\ copies = <<>> /\ playthrough = 0
    /\ agenda = <<>>
    /\ doing = "nothing"
    /\ settled = 0 /\ commands = 0 /\ refusals = 0

-----------------------------------------------------------------------------
(* Transactions (session.rs, transact and finish).                         *)

Closing == << [do |-> "turns"], [do |-> "announce"] >>

Transact(what, steps) ==
    /\ ~Open
    /\ EnterScope
    /\ doing' = what
    /\ agenda' = steps \o Closing

Step(name) == Open /\ agenda # <<>> /\ agenda[1].do = name
Rest == Tail(agenda)

Only(k, value) == [r \in {k} |-> value]

\* A step that writes records, raises signals and reports events.
Does(written, signals, reported) ==
    /\ Work(written, scalars, signals, reported)
    /\ agenda' = Rest
    /\ UNCHANGED <<doing, settled, commands, refusals>>

\* retain: the queue without c.
Retained(queue, c) ==
    LET kept[n \in 0 .. Len(queue)] ==
          IF n = 0 THEN <<>>
          ELSE IF queue[n] = c THEN kept[n - 1] ELSE Append(kept[n - 1], queue[n])
    IN  kept[Len(queue)]

\* take_turns: a conversation that started waits behind those of its kind,
\* one that ended gives its turn up.
Turns(queues, c) ==
    LET m == ModeOf[c]
        waiting == \E i \in DOMAIN queues[m] : queues[m][i] = c
    IN  CASE Active(c) /\ ~waiting -> [queues EXCEPT ![m] = Append(@, c)]
          [] ~Active(c) /\ waiting -> [queues EXCEPT ![m] = Retained(@, c)]
          [] OTHER -> queues

\* Mutant of TouchedTalks: only the conversations held for the first time.
NewTalks == {c \in Conversations : Talk(c) \in DOMAIN Inner.before /\ Inner.before[Talk(c)] = None}

TouchedTalks == {c \in Conversations : Talk(c) \in DOMAIN Inner.before}

TurnsOfAll(talks) ==
    LET queues[n \in 0 .. Len(talks)] ==
          IF n = 0 THEN state[Floor] ELSE Turns(queues[n - 1], talks[n])
    IN  queues[Len(talks)]

TakeTurns ==
    /\ Step("turns")
    /\ LET queues == TurnsOfAll(SetToSeq(TouchedTalks))
       IN  Does(IF queues = state[Floor] THEN NoRecords ELSE Only(Floor, queues), {}, <<>>)

\* signals: what the transaction changed, however it changed it.
Before(k) == IF k \in DOMAIN Inner.before THEN Inner.before[k] ELSE state[k]

ChangedSignals ==
    {<<"variable", v>> : v \in {v \in Variables : Before(Variable(v)) # state[Variable(v)]}}
      \cup {<<"completed", c>> : c \in {c \in Conversations :
              /\ Before(Talk(c)) # state[Talk(c)]
              /\ state[Talk(c)].status = "completed"}}
      \cup UNION {{<<"entered", a, at>> : at \in state[Location(a)] \ Before(Location(a))}
                    \cup {<<"exited", a, at>> : at \in Before(Location(a)) \ state[Location(a)]}
                  : a \in Actors}

Subscribed(signals) == {s \in signals : \E t \in Triggers : s \in ListensTo[t]}
SignalWork(s) == [kind |-> "signal", signal |-> s]

Announce ==
    /\ Step("announce")
    /\ LET news == Subscribed(Inner.signals \cup ChangedSignals)
           work == [i \in 1 .. Cardinality(news) |-> SignalWork(SetToSeq(news)[i])]
       IN  Does(IF news = {} THEN NoRecords ELSE Only(Pending, state[Pending] \o work), {}, <<>>)

Commit ==
    /\ Top = 1 /\ agenda = <<>>
    /\ KeepScope
    /\ doing' = "settling"
    /\ settled' = IF doing = "command" THEN 0 ELSE settled
    /\ UNCHANGED <<agenda, commands, refusals>>

-----------------------------------------------------------------------------
(* Nested scopes (tx.rs, attempt).                                         *)

Attempt(steps, done, failed) ==
    /\ EnterScope
    /\ agenda' = steps \o << [do |-> "keep", done |-> done, failed |-> failed] >> \o Rest
    /\ UNCHANGED <<doing, settled, commands, refusals>>

KeepAttempt ==
    /\ Step("keep")
    /\ KeepScope
    /\ agenda' = << [do |-> "report", event |-> agenda[1].done] >> \o Rest
    /\ UNCHANGED <<doing, settled, commands, refusals>>

ReportEvent ==
    /\ Step("report")
    /\ Does(NoRecords, {}, << agenda[1].event >>)

Refusable == {"set", "flip", "move", "queue", "begin", "turns", "announce"}

\* Mutant of UndoAttempt: the failure is reported, what was done stays.
UndoAttemptInName ==
    /\ Top > 1 /\ agenda[1].do \in Refusable
    /\ refusals < MaxRefusals
    /\ KeepScope
    /\ LET end == CHOOSE i \in DOMAIN agenda :
                     /\ agenda[i].do = "keep"
                     /\ \A j \in 1 .. i - 1 : agenda[j].do # "keep"
       IN  agenda' = << [do |-> "report", event |-> agenda[end].failed] >>
                       \o SubSeq(agenda, end + 1, Len(agenda))
    /\ refusals' = refusals + 1
    /\ UNCHANGED <<doing, settled, commands>>

\* A deed fails inside an attempt: what it did is undone, the failure reported
\* and the transaction goes on.
UndoAttempt ==
    /\ Top > 1 /\ agenda[1].do \in Refusable
    /\ refusals < MaxRefusals
    /\ UndoScope
    /\ LET end == CHOOSE i \in DOMAIN agenda :
                     /\ agenda[i].do = "keep"
                     /\ \A j \in 1 .. i - 1 : agenda[j].do # "keep"
       IN  agenda' = << [do |-> "report", event |-> agenda[end].failed] >>
                       \o SubSeq(agenda, end + 1, Len(agenda))
    /\ refusals' = refusals + 1
    /\ UNCHANGED <<doing, settled, commands>>

\* A deed fails outside every attempt: the transaction is rolled back.  A
\* command is rejected, work is dropped, and settling stops when not even that
\* works.
RollBack ==
    /\ Top = 1 /\ agenda # <<>> /\ agenda[1].do \in Refusable
    /\ refusals < MaxRefusals
    /\ UndoScope
    /\ agenda' = <<>>
    /\ doing' = IF doing = "work" THEN "failed" ELSE "nothing"
    /\ refusals' = refusals + 1
    /\ UNCHANGED <<settled, commands>>

-----------------------------------------------------------------------------
(* What content does (actions.rs, run_action).                             *)

SetVariable ==
    /\ Step("set")
    /\ Does(Only(Variable(agenda[1].variable), agenda[1].value), {}, <<>>)

\* An action that sets a variable by what it is.
FlipVariable ==
    /\ Step("flip")
    /\ LET k == Variable(agenda[1].variable) IN Does(Only(k, 1 - state[k]), {}, <<>>)

\* request_move
RequestMove ==
    /\ Step("move")
    /\ LET a == agenda[1].actor
           to == agenda[1].to
           k == Movement(a)
       IN  IF to \in state[Location(a)]
           THEN Does(Only(k, None), {<<"arrived", a, to>>}, << <<"arrived", a, to>> >>)
           ELSE IF state[k] # None /\ state[k].to = to
           THEN Does(NoRecords, {}, <<>>)
           ELSE Does(Only(k, [to |-> to, deadline |-> time + WALK_TIME]), {}, << <<"walk", a, to>> >>)

\* Action::StartDialogue
QueueStart ==
    /\ Step("queue")
    /\ LET work == [kind |-> "start", conversation |-> agenda[1].conversation]
       IN  Does(Only(Pending, Append(state[Pending], work)), {}, <<>>)

-----------------------------------------------------------------------------
(* Conversations (conversation.rs).                                        *)

\* proceed: the next line is shown, or the conversation is complete.
Proceeds(c, run, line) ==
    [run |-> run, line |-> line,
     status |-> IF line > Len(LinesOf[c]) THEN "completed" ELSE "active"]

RunOf(c) == IF state[Talk(c)] = None THEN 0 ELSE state[Talk(c)].run

\* start
BeginTalk ==
    /\ Step("begin")
    /\ LET c == agenda[1].conversation
       IN  /\ ~Active(c)
           /\ Does(Only(Talk(c), Proceeds(c, RunOf(c) + 1, 1)), {}, << <<"started", c>> >>)

\* take, after the actions of the node it was given
PresentLine ==
    /\ Step("present")
    /\ LET c == agenda[1].conversation
       IN  Does(Only(Talk(c), Proceeds(c, RunOf(c), agenda[1].line + 1)), {}, <<>>)

InterruptTalk ==
    /\ Step("interrupt")
    /\ LET c == agenda[1].conversation
       IN  Does(Only(Talk(c), [run |-> RunOf(c), line |-> state[Talk(c)].line,
                               status |-> "interrupted"]), {}, <<>>)

-----------------------------------------------------------------------------
(* The engine's reports and the clock (world_runtime.rs, commands.rs).     *)

\* WorldCommand::Observe
ObserveAreas ==
    /\ Step("observe")
    /\ LET a == agenda[1].actor
           walk == state[Movement(a)]
           arrived == walk # None /\ walk.to \in agenda[1].areas
           report == IF arrived THEN <<"arrived", a, walk.to>> ELSE None
           written == {Location(a)} \cup IF arrived THEN {Movement(a)} ELSE {}
       IN  Does([k \in written |-> IF k = Location(a) THEN agenda[1].areas ELSE None],
                IF arrived THEN {report} ELSE {}, IF arrived THEN <<report>> ELSE <<>>)

FailMove ==
    /\ Step("fail")
    /\ LET a == agenda[1].actor
       IN  Does(Only(Movement(a), None), {<<"failed", a>>}, << <<"failed", a>> >>)

\* A conversation on screen holds the world still.
AdvanceTime ==
    /\ Step("tick")
    /\ Work(NoRecords, IF state[Floor]["blocking"] = <<>> THEN time + 1 ELSE time, {}, <<>>)
    /\ agenda' = Rest
    /\ UNCHANGED <<doing, settled, commands, refusals>>

-----------------------------------------------------------------------------
(* Queued work (session.rs, settle; world_runtime.rs).                     *)

\* timed_out: of several, the one whose time ran out first.
TimedOut ==
    {a \in Actors :
        /\ state[Movement(a)] # None /\ state[Movement(a)].deadline <= time
        /\ \A b \in Actors : state[Movement(b)] # None =>
              state[Movement(b)].deadline >= state[Movement(a)].deadline}

WorkPending == state[Pending] # <<>> \/ TimedOut # {}

Subscribers(s) == SetToSeq({t \in Triggers : s \in ListensTo[t]})

StepsOf(work) ==
    IF work.kind = "start"
    THEN << [do |-> "start", conversation |-> work.conversation] >>
    ELSE [i \in DOMAIN Subscribers(work.signal) |->
            [do |-> "try", trigger |-> Subscribers(work.signal)[i]]]

\* process_next: the work is taken off the queue first.
ProcessNext ==
    /\ doing = "settling" /\ WorkPending /\ settled < SETTLE_STEPS
    /\ IF TimedOut # {}
       THEN \E a \in TimedOut : Transact("work", << [do |-> "fail", actor |-> a] >>)
       ELSE Transact("work", << [do |-> "pop"] >> \o StepsOf(Head(state[Pending])))
    /\ settled' = settled + 1
    /\ UNCHANGED <<commands, refusals>>

PopWork ==
    /\ Step("pop")
    /\ Does(Only(Pending, Tail(state[Pending])), {}, <<>>)

\* drop_next
DropNext ==
    /\ doing = "failed"
    /\ Transact("drop", << IF TimedOut # {} THEN [do |-> "forget", actor |-> CHOOSE a \in TimedOut : TRUE]
                           ELSE [do |-> "pop"] >>)
    /\ UNCHANGED <<settled, commands, refusals>>

ForgetMove ==
    /\ Step("forget")
    /\ Does(Only(Movement(agenda[1].actor), None), {}, <<>>)

\* Nothing is left, or the rest waits for the next command.
Settled ==
    /\ doing = "settling" /\ (~WorkPending \/ settled = SETTLE_STEPS)
    /\ doing' = "nothing"
    /\ UNCHANGED <<txVars, agenda, settled, commands, refusals>>

\* run_trigger: one that may not fire is passed over.  Conditions are left out:
\* a false one leaves the records as a refusal of the first deed does.
TryTrigger ==
    /\ Step("try")
    /\ LET t == agenda[1].trigger
       IN  \/ /\ ~(t \in Once /\ state[Fired(t)])
              /\ Attempt(DeedsOf[t] \o << [do |-> "fired", trigger |-> t] >>,
                         <<"fired", t>>, <<"not fired", t>>)
           \/ /\ t \in Once /\ state[Fired(t)]
              /\ Does(NoRecords, {}, <<>>)

MarkFired ==
    /\ Step("fired")
    /\ Does(Only(Fired(agenda[1].trigger), TRUE), {}, <<>>)

\* A conversation already under way is refused; so is one that cannot start.
StartTalk ==
    /\ Step("start")
    /\ LET c == agenda[1].conversation
       IN  IF Active(c) THEN Does(NoRecords, {}, << <<"refused", c>> >>)
           ELSE Attempt(<< [do |-> "begin", conversation |-> c] >>,
                        <<"heard", c>>, <<"refused", c>>)

-----------------------------------------------------------------------------
(* Commands.  One the rules refuse at once changes nothing and is left     *)
(* out.                                                                    *)

Command(steps) ==
    /\ doing = "nothing" /\ commands < MaxCommands
    /\ Transact("command", steps)
    /\ commands' = commands + 1
    /\ UNCHANGED <<settled, refusals>>

StartDialogue(c) == ~Active(c) /\ Command(<< [do |-> "begin", conversation |-> c] >>)

AdvanceLine(c) ==
    /\ Active(c)
    /\ LET line == state[Talk(c)].line
       IN  Command(LinesOf[c][line] \o << [do |-> "present", conversation |-> c, line |-> line] >>)

InterruptDialogue(c) == Active(c) /\ Command(<< [do |-> "interrupt", conversation |-> c] >>)

Observe(a, areas) ==
    /\ state[Location(a)] # areas
    /\ Command(<< [do |-> "observe", actor |-> a, areas |-> areas] >>)

MoveFailed(a) == state[Movement(a)] # None /\ Command(<< [do |-> "fail", actor |-> a] >>)

PassTime == time < MaxTime /\ Command(<< [do |-> "tick"] >>)

Commands ==
    \/ \E c \in Conversations : StartDialogue(c) \/ AdvanceLine(c) \/ InterruptDialogue(c)
    \/ \E a \in Actors : MoveFailed(a) \/ \E areas \in SUBSET Areas : Observe(a, areas)
    \/ PassTime

SessionWork ==
    \/ TakeTurns \/ Announce \/ Commit \/ KeepAttempt \/ ReportEvent \/ UndoAttempt \/ RollBack
    \/ SetVariable \/ FlipVariable \/ RequestMove \/ QueueStart
    \/ BeginTalk \/ PresentLine \/ InterruptTalk
    \/ ObserveAreas \/ FailMove \/ AdvanceTime
    \/ ProcessNext \/ PopWork \/ DropNext \/ ForgetMove \/ Settled
    \/ TryTrigger \/ MarkFired \/ StartTalk

SessionNext == Commands \/ SessionWork

=============================================================================
