------------------------- MODULE MCSourceResidency -------------------------
EXTENDS ResidencyProperties, TLC

CONSTANTS g1, g2, s1, s2, near, far, tree, rock, hill, oak

MCGenerations == {g1, g2}
MCSpaces == {s1, s2}
MCOneSpace == {s1}
MCViews == {near, far}
MCPages == {tree, rock, hill}
MCTopics == [space : MCSpaces, view : MCViews] \cup MCPages
MCSpacesOf == [g \in MCGenerations |-> MCSpaces]
MCOneSpaceOf == [g \in MCGenerations |-> MCOneSpace]
MCCellSizes == [g \in MCGenerations |-> [s \in MCSpaces |-> 16]]
MCDefault == [g \in MCGenerations |-> s1]

\* Only the start space has pages.  The tree is left behind by moving on, the
\* second generation has no rock.
MCPagesAround == [w \in [space : MCSpaces, view : MCViews] |->
    IF w.space # s1 THEN {} ELSE IF w.view = near THEN {tree, rock} ELSE {rock, hill}]
MCAllAround == [w \in [space : MCSpaces, view : MCViews] |->
    IF w.view = near THEN MCPages ELSE {hill}]
MCPagesIn == g1 :> MCPages @@ g2 :> {tree, hill}

\* All share an asset.  In budgets of 3 and 5 the tree and the rock exceed the
\* GPU's, the tree and the hill the decoded one, and the rock and the hill just
\* fit, because the asset counts once.
MCDecodedBytes == tree :> 2 @@ rock :> 1 @@ hill :> 2
MCOwnGpuBytes == tree :> 1 @@ rock :> 2 @@ hill :> 0
MCVariantsOf == [p \in MCPages |-> {oak}]
MCVariantGpuBytes == oak :> 3

=============================================================================
