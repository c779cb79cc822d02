----------------------------- MODULE Publication -----------------------------
(***************************************************************************)
(* What adopting a published generation promises to the rest of the        *)
(* program, with no worker, channels or handshake: the open generation     *)
(* changes in one step, to exactly the generation asked for, when the      *)
(* request is answered Ok; a failed request changes nothing.  Requests are *)
(* single-flight.                                                          *)
(***************************************************************************)
CONSTANTS Generations, None

VARIABLES
    open,       \* the generation the game runs on
    wanted,     \* the generation asked for, until answered
    outcome     \* the answer, until taken

Failed == [ok |-> FALSE, generation |-> None]

Init == open = None /\ wanted = None /\ outcome = None

Open == /\ open = None
        /\ open' \in Generations
        /\ UNCHANGED <<wanted, outcome>>

Ask == /\ wanted = None
       /\ wanted' \in Generations
       /\ outcome' = None
       /\ UNCHANGED open

Adopt == /\ wanted # None
         /\ open' = wanted
         /\ outcome' = [ok |-> TRUE, generation |-> wanted]
         /\ wanted' = None

Refuse == /\ wanted # None
          /\ outcome' = Failed
          /\ wanted' = None
          /\ UNCHANGED open

Take == outcome' = None /\ UNCHANGED <<open, wanted>>

Next == Open \/ Ask \/ Adopt \/ Refuse \/ Take

Spec == Init /\ [][Next]_<<open, wanted, outcome>>

=============================================================================
