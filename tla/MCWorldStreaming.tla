-------------------------- MODULE MCWorldStreaming --------------------------
EXTENDS StreamingProperties, TLC

CONSTANTS g1, g2, s1, s2, near, far

MCGenerations == {g1, g2}
MCSpaces == {s1, s2}
MCViews == {near, far}
MCWindows == [space : MCSpaces, view : MCViews]
MCDefault == [g \in MCGenerations |-> s1]

\* g2 removes s2.
MCRemoves == g1 :> {s1, s2} @@ g2 :> {s1}
\* g2 changes the cell size of s2.
MCCellSizes == g1 :> [s \in MCSpaces |-> 16] @@ g2 :> (s1 :> 16 @@ s2 :> 32)

=============================================================================
