------------------------ MODULE ResidencyProperties ------------------------
(***************************************************************************)
(* What the residency of source pages keeps true while demand, generations *)
(* and spaces change under pages in every stage.                           *)
(***************************************************************************)
EXTENDS SourceResidency

\* Whatever is prepared, drawn or cooling is of the open generation: no page
\* read for an earlier one survives an adoption or arrives after it.
PagesAreCurrent ==
    \A p \in In({"Prepared", "Resident", "Cooling"}) :
        pages[p].generation = manifest

\* A page on its way really is: its read is queued, answered or decoding.  One
\* that is not would count as pending forever and never be asked for again.
PagesOnTheirWayArrive ==
    /\ \A t \in tasks : pages[t.page].state = "Decoding"
    /\ \A p \in In({"Decoding"}) : \E t \in tasks : t.page = p /\ t.id = pages[p].id
    /\ worker # "stopped" =>
         \A p \in In({"Loading"}) :
            \/ \E i \in DOMAIN requests : requests[i].id = pages[p].id
            \/ \E i \in DOMAIN results : results[i].id = pages[p].id
            \/ reply # None /\ reply.id = pages[p].id

\* What is attached, cooling pages included, stays within both budgets, each
\* shared asset counted once, though admission goes by the previous frame's
\* statistics.
BudgetHolds ==
    /\ Decoded(Attached) <= MAX_RESIDENT_DECODED_BYTES
    /\ Gpu(Attached) <= MAX_RESIDENT_GPU_BYTES_ESTIMATE

\* A page attached and still demanded is not taken away, except with everything
\* else when the generation or the space changes.
DemandedPagesStay ==
    [][\A p \in Attached \cap desired :
          pages'[p] = Gone => desired' = {}]_residencyVars

\* Once nothing changes any more, the coordinator comes to rest with its index,
\* and every demanded page is attached or failed, or waits for room in the
\* budgets, or behind a full backlog of pages that do: an index of before the
\* adoption, or a page withdrawn on its way, never stays.
DemandIsServed ==
    LET NoRoom == {p \in In({"Prepared"}) : ~Fits(p)} IN
    <>[](/\ phase = "Ready"
         /\ \A p \in desired :
              \/ pages[p].state \in {"Resident", "Failed"}
              \/ p \in NoRoom
              \/ pages[p].state = "gone"
                   /\ Cardinality(NoRoom) = MAX_PENDING_SOURCE_PAGES)

=============================================================================
