---------------------------- MODULE LayerPinner -----------------------------
(***************************************************************************)
(* AdaptiveLayerPinner of model/cache.rs: counts the accesses of each      *)
(* layer, lets the counts decay, and pins the hottest layers in the cache. *)
(***************************************************************************)
EXTENDS Integers, FiniteSets

CONSTANTS Layers,
          MaxPinned,      \* max_pinned
          MinAccesses,    \* min_accesses
          DecayInterval   \* decay_interval (500 in the code)

ASSUME PinnerAssumption ==
    /\ IsFiniteSet(Layers)
    /\ MaxPinned \in Nat
    /\ MinAccesses \in Nat
    /\ DecayInterval \in Nat \ {0}

VARIABLES access_counts,         \* 0: not in the map
          accesses_since_decay,
          pin_set                 \* the cache's pin set

pinnerVars == <<access_counts, accesses_since_decay, pin_set>>

PinsInit ==
    /\ access_counts = [l \in Layers |-> 0]
    /\ accesses_since_decay = 0
    /\ pin_set = {}

\* Mutant: nothing decays.
DecayedNot(c) == c

\* Mutant: the decayed count is rounded up.
DecayedUp(c) == (c * 9 + 9) \div 10

\* decay multiplies by 0.9 and truncates; a zero count leaves the map.
Decayed(c) == (c * 9) \div 10

RecordAccess(l) ==
    LET counted == [access_counts EXCEPT ![l] = @ + 1] IN
    /\ IF accesses_since_decay + 1 >= DecayInterval
       THEN /\ access_counts' = [k \in Layers |-> Decayed(counted[k])]
            /\ accesses_since_decay' = 0
       ELSE /\ access_counts' = counted
            /\ accesses_since_decay' = accesses_since_decay + 1
    /\ UNCHANGED pin_set

Candidates == {l \in Layers : access_counts[l] > 0 /\ access_counts[l] >= MinAccesses}

\* recommended_pins: the hottest candidates; the sort leaves ties in the
\* hash map's order, so any of them.
Recommended(R) ==
    /\ R \subseteq Candidates
    /\ Cardinality(R) = IF Cardinality(Candidates) < MaxPinned
                        THEN Cardinality(Candidates) ELSE MaxPinned
    /\ \A r \in R, l \in Candidates \ R : access_counts[r] >= access_counts[l]

\* Mutant: layers that are no longer hot stay pinned.
ApplyAddsOnly(R) ==
    /\ Recommended(R)
    /\ pin_set' = pin_set \cup R
    /\ UNCHANGED <<access_counts, accesses_since_decay>>

\* apply_to_cache: what is pinned and not recommended is unpinned, whoever
\* pinned it; the rest of the recommended layers are pinned.
ApplyToCache(R) ==
    /\ Recommended(R)
    /\ pin_set' = (pin_set \cap R) \cup R
    /\ UNCHANGED <<access_counts, accesses_since_decay>>

PinsNext == \/ \E l \in Layers : RecordAccess(l)
        \/ \E R \in SUBSET Layers : ApplyToCache(R)

\* A caller that records every access and applies the pins again and again, as
\* the unit tests do: accesses go on, and an application that would change the
\* pin set is not put off for ever.
PinsSpec == /\ PinsInit /\ [][PinsNext]_pinnerVars
        /\ WF_pinnerVars(\E l \in Layers : RecordAccess(l))
        /\ SF_pinnerVars(\E R \in SUBSET Layers : ApplyToCache(R))

-----------------------------------------------------------------------------
\* A count never exceeds what ten decay intervals can add: the decay keeps the
\* counters bounded however long the server runs.
CountsBounded ==
    /\ accesses_since_decay \in 0..DecayInterval - 1
    /\ \A l \in Layers :
          access_counts[l] \in 0..9 * DecayInterval + accesses_since_decay

\* Never more layers are pinned than configured, so the rest of the budget can
\* always be evicted.
PinsBounded == Cardinality(pin_set) <= MaxPinned

\* A layer that is no longer accessed does not stay pinned.
StalePinsLeave ==
    \A l \in Layers :
        <>[][~RecordAccess(l)]_pinnerVars => <>[](l \notin pin_set)

\* The two bounds, with the type of the counters that the decay step needs.
PinnerInv ==
    /\ access_counts \in [Layers -> Nat]
    /\ CountsBounded
    /\ PinsBounded

=============================================================================
