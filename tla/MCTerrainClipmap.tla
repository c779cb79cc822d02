-------------------------- MODULE MCTerrainClipmap --------------------------
EXTENDS ClipmapProperties, TLC

CONSTANTS g1, g2, s1, near, far, n1, n2

MCGenerations == {g1, g2}
MCSpaces == {s1}
MCViews == {near, far}
MCOneView == {near}
MCNodes == {n1, n2}
MCQueries == [query : {"Roots", "Surfaces"}, nodes : {{}}]
               \cup [query : {"Nodes"}, nodes : SUBSET MCNodes]
MCTopics == [space : MCSpaces, view : MCViews] \cup MCQueries
MCOneSpace == [g \in Generations |-> MCSpaces]
MCCellSizes == [g \in Generations |-> [s \in MCSpaces |-> 16]]
MCDefault == [g \in Generations |-> s1]

\* Two views of neighbouring windows; the second generation lost a node.
MCWindowOf == near :> {n1, n2} @@ far :> {n2}
MCDemandOf == near :> {n1, n2} @@ far :> {n2}
MCNearOf == [v \in MCOneView |-> {n1, n2}]
MCNodesIn == g1 :> {n1, n2} @@ g2 :> {n2}
MCSame == [g \in Generations |-> "same"]

=============================================================================
