------------------------- MODULE ClipmapProperties -------------------------
(***************************************************************************)
(* What the drawn ground owes the player across publications, evictions    *)
(* and failures.                                                           *)
(***************************************************************************)
EXTENDS TerrainClipmap

\* Ground that is not marked to be read again is of the publication drawn:
\* no reply or decode of an earlier one lands after it was superseded.
GroundIsOfThePublication ==
    \A n \in Resident : n \in stale \/ resident[n] = identity.generation

\* A node marked as asked for is on its way: in a request in flight, received
\* or decoding.  One that is not would never be asked for again and stay a
\* hole in the ground.
AskedNodesArrive ==
    failure \/
    \A n \in requested :
        \/ \E p \in pending : n \in p.about.nodes
        \/ \E b \in received \cup decoding : n \in b.nodes

\* Resident ground leaves only when it leaves the windows, is missing from
\* the new publication, or everything is read from scratch.
GroundLeavesForAReason ==
    [][\A n \in Resident :
         resident'[n] = None =>
            \/ n \notin window'
            \/ n \in absent'
            \/ StartsOver]_clipmapVars

\* terrain_clipmap.rs:10-12: "a new publication of the drawn space is read
\* again in place: the old ground stays drawn until each node's new version
\* replaces it".
PublicationKeepsGround ==
    [][identity # None /\ identity' # identity
         /\ identity'.space = identity.space /\ ~rebuild
         => Resident \subseteq {n \in Nodes : resident'[n] # None}]_clipmapVars

\* The ground catches up with the view: once nothing changes any more, every
\* node the view needs is resident in its current version or does not exist,
\* also after a failure started it over.
GroundCatchesUp ==
    <>[](phase = "Ready" =>
         /\ viewpoint # None
         /\ \A n \in DemandOf[viewpoint.view] :
               n \in absent \/ resident[n] = manifest)

\* A failure is not for good: the ground starts over after the retry delay,
\* whatever failed and however often (terrain_clipmap.rs:836-849).
FailureIsRetried == failure ~> ~failure

=============================================================================
