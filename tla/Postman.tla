------------------------------ MODULE Postman ------------------------------
(***************************************************************************)
(* Postman: an event goes to the filters in the order they were installed, *)
(* until one accepts it, and otherwise to its target.  deliverEvent runs   *)
(* over m_filters itself while handlers run, so a filter whose handler     *)
(* installs or removes filters has to accept the event: the loop then      *)
(* returns without another look at its iterators.                          *)
(***************************************************************************)
EXTENDS Naturals, SequencesExt

CONSTANTS Filters, MaxFilters  \* bound: filters installed at once

VARIABLES
    filters,  \* m_filters
    stage,    \* "idle", "filter" or "target": whose handler runs
    at,       \* the place of the filter whose handler runs
    changed,  \* that handler has installed or removed a filter
    asked     \* the filters this event has been shown to, in order

vars == <<filters, stage, at, changed, asked>>

TypeOK ==
    /\ filters \in Seq(Filters) /\ Len(filters) <= MaxFilters
    /\ stage \in {"idle", "filter", "target"}
    /\ at \in 0..MaxFilters
    /\ changed \in BOOLEAN
    /\ asked \in Seq(Filters)

Init ==
    /\ filters = <<>>
    /\ stage = "idle"
    /\ at = 0
    /\ changed = FALSE
    /\ asked = <<>>

AddFilter(f) ==
    /\ Len(filters) < MaxFilters
    /\ filters' = Append(filters, f)
    /\ changed' = (stage = "filter")
    /\ UNCHANGED <<stage, at, asked>>

\* The first occurrence of f, if there is one.
RemoveFilter(f) ==
    /\ filters' = RemoveFirst(filters, f)
    /\ changed' = (changed \/ stage = "filter")
    /\ UNCHANGED <<stage, at, asked>>

\* The step of the loop over the filters, from the place after i.
Asks(i, shown) ==
    IF i < Len(filters)
      THEN stage' = "filter" /\ at' = i + 1 /\ asked' = Append(shown, filters[i + 1])
      ELSE stage' = "target" /\ at' = 0 /\ asked' = shown

DeliverEvent ==
    /\ stage = "idle"
    /\ Asks(0, <<>>)
    /\ UNCHANGED <<filters, changed>>

\* Mutant: the iterator is advanced past the end.
FilterAcceptsMutant ==
    /\ stage = "filter"
    /\ stage' = "idle" /\ at' = at + 1 /\ changed' = FALSE
    /\ UNCHANGED <<filters, asked>>

FilterAccepts ==
    /\ stage = "filter"
    /\ stage' = "idle" /\ at' = 0 /\ changed' = FALSE
    /\ UNCHANGED <<filters, asked>>

\* Mutant: the place is kept although the filters have changed.
FilterPassesMutant ==
    /\ stage = "filter"
    /\ Asks(at, asked)
    /\ changed' = FALSE
    /\ UNCHANGED filters

FilterPasses ==
    /\ stage = "filter" /\ ~changed
    /\ Asks(at, asked)
    /\ UNCHANGED <<filters, changed>>

TargetReturns ==
    /\ stage = "target"
    /\ stage' = "idle"
    /\ UNCHANGED <<filters, at, changed, asked>>

Next ==
    \/ DeliverEvent \/ FilterAccepts \/ FilterPasses \/ TargetReturns
    \/ \E f \in Filters : AddFilter(f) \/ RemoveFilter(f)

Spec == Init /\ [][Next]_vars
-----------------------------------------------------------------------------
(* The target gets an event only after every filter installed when the     *)
(* event was sent has passed it on, in the order of installation, once for *)
(* each time it was installed; and a filter is asked only while installed. *)
FiltersGoFirst ==
    (stage' # stage \/ at' # at) =>
        /\ stage' = "target" => asked' = filters
        /\ stage' = "filter" => asked' = SubSeq(filters, 1, at')
=============================================================================
