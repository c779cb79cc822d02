------------------------------- MODULE Story -------------------------------
(***************************************************************************)
(* A game played from a save directory (app_game, story.rs): saving and    *)
(* loading happen between commands, on the thread that runs them, so a     *)
(* save is of a settled playthrough.  When the machine stops the next game *)
(* starts anew with the saves it left.                                     *)
(***************************************************************************)
EXTENDS GameSession, SaveSlots

CONSTANT MaxLoads       \* bound on loads

VARIABLE loads

storyVars == <<txVars, sessionVars, savesVars, loads>>

StoryInit == SessionInit /\ SavesInit /\ loads = 0

Play == staged = Empty /\ SessionNext /\ UNCHANGED <<savesVars, loads>>

Saving ==
    /\ doing = "nothing"
    /\ Quicksave(Now) \/ SaveSteps
    /\ UNCHANGED <<txVars, sessionVars, loads>>

\* Another session takes over, with nothing under way.
TakeOver(records, clock) ==
    /\ Resume(records, clock)
    /\ agenda' = <<>>
    /\ doing' = "nothing"
    /\ settled' = 0
    /\ UNCHANGED <<commands, refusals>>

Quickload ==
    /\ doing = "nothing" /\ staged = Empty
    /\ loads < MaxLoads /\ Usable(QuickSlot)
    /\ TakeOver(files[QuickSlot].content.state, files[QuickSlot].content.scalars)
    /\ loads' = loads + 1
    /\ UNCHANGED savesVars

StopGame == Stop /\ TakeOver(NewState, 0) /\ UNCHANGED loads

StoryNext == Play \/ Saving \/ Quickload \/ StopGame

StorySpec == StoryInit /\ [][StoryNext]_storyVars

-----------------------------------------------------------------------------
(* What must hold.                                                         *)

\* Between transactions, the floor holds exactly the conversations under way,
\* each once and in the queue of its kind, whatever was undone on the way: a
\* conversation missing there is never shown, one left behind holds the world
\* still for good.
FloorIsTheActive ==
    ~Open =>
        \A m \in Modes :
            /\ IsInjective(state[Floor][m])
            /\ ToSet(state[Floor][m]) = {c \in Conversations : ModeOf[c] = m /\ Active(c)}

\* Whether what the deeds of a trigger set is set.
Done(t, records) ==
    \A i \in DOMAIN DeedsOf[t] :
        DeedsOf[t][i].do = "set" => records[Variable(DeedsOf[t][i].variable)] = DeedsOf[t][i].value

Sets(t) == \E i \in DOMAIN DeedsOf[t] : DeedsOf[t][i].do = "set"

\* A trigger takes effect whole or not at all: between attempts, what its
\* deeds set is set exactly when it counts as fired.
TriggersAreWhole ==
    Len(scopes) <= 1 => \A t \in Once : Sets(t) => state[Fired(t)] = Done(t, state)

\* What this asks of content: nothing else writes what a trigger that fires
\* once sets, nor is it set before.
Writes(deed, v) == deed.do \in {"set", "flip"} /\ deed.variable = v

OwnDeeds ==
    /\ Once \subseteq Triggers
    /\ \A t \in Once : Sets(t) =>
          \E i \in DOMAIN DeedsOf[t] : DeedsOf[t][i].do = "set" /\ DeedsOf[t][i].value # 0
    /\ \A t \in Once : \A i \in DOMAIN DeedsOf[t] : DeedsOf[t][i].do = "set" =>
          LET v == DeedsOf[t][i].variable
          IN  /\ \A u \in Triggers : \A j \in DOMAIN DeedsOf[u] :
                    Writes(DeedsOf[u][j], v) => u = t /\ DeedsOf[u][j] = DeedsOf[t][i]
              /\ \A c \in Conversations : \A n \in DOMAIN LinesOf[c] :
                    \A j \in DOMAIN LinesOf[c][n] : ~Writes(LinesOf[c][n][j], v)

=============================================================================
