------------------------------ MODULE MCStory ------------------------------
EXTENDS Story

CONSTANTS talk, bark, guard, gate, open, alarm, opens, rings

MCConversations == {talk, bark}
MCActors == {guard}
MCAreas == {gate}
MCVariables == {open, alarm}
MCTriggers == {opens, rings}
MCModes == talk :> "blocking" @@ bark :> "ambient"

\* The talk sends the guard to the gate and sets the alarm; the guard barks
\* when it gets there; the alarm rings on and on.
MCLines == talk :> << << [do |-> "move", actor |-> guard, to |-> gate] >>,
                      << [do |-> "flip", variable |-> alarm] >> >>
             @@ bark :> << <<>> >>
MCListens == opens :> {<<"arrived", guard, gate>>, <<"failed", guard>>}
               @@ rings :> {<<"variable", alarm>>}
MCDeeds == opens :> << [do |-> "set", variable |-> open, value |-> 1],
                       [do |-> "queue", conversation |-> bark] >>
             @@ rings :> << [do |-> "flip", variable |-> alarm] >>
MCOnce == {opens}

\* Nothing else opens what the first of them opens.
ASSUME MCContent == OwnDeeds

MCRecords == {<<"pending">>, <<"floor">>}
               \cup ({"talk"} \X MCConversations) \cup ({"movement", "location"} \X MCActors)
               \cup ({"variable"} \X MCVariables) \cup ({"fired"} \X MCTriggers)

=============================================================================
