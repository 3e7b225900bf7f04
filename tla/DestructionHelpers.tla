------------------------- MODULE DestructionHelpers -------------------------
(***************************************************************************)
(* destruction_helpers.h: containers that hold pointers to dependencies    *)
(* learn of their destruction, through a DestructionHelperManager or       *)
(* through a Property that is emptied.  A connection to the `destroyed` of *)
(* an object is a pair (emitter, receiver); emission and the slots it runs *)
(* are one step, on one thread.                                            *)
(***************************************************************************)
EXTENDS Naturals, FiniteSets, Functions

CONSTANTS Containers, Dependencies, None,
          Managers,
          ManagerOf   \* [Containers -> Managers]: where a container registers

VARIABLES
    living,     \* containers and dependencies that are alive
    wanted,     \* the pairs registered by the program and not unregistered
    depToCont,  \* m_depToContMap of each manager
    contToDep,  \* m_contToDepMap of each manager
    depSlots,   \* connections to `destroyed` of dependencies
    contSlots,  \* connections to `destroyed` of containers
    property,   \* the Property of each container
    handle,     \* the dependency its connection handle is connected to
    cleaned     \* the pairs whose cleanup functor has run

vars == <<living, wanted, depToCont, contToDep, depSlots, contSlots,
          property, handle, cleaned>>

Pairs == Containers \X Dependencies

TypeOK ==
    /\ living \subseteq Containers \cup Dependencies
    /\ {wanted, depSlots, contSlots, cleaned} \subseteq SUBSET Pairs
    /\ depToCont \in [Managers -> SUBSET Pairs]
    /\ contToDep \in [Managers -> SUBSET Pairs]
    /\ property \in [Containers -> Dependencies \cup {None}]
    /\ handle \in [Containers -> Dependencies \cup {None}]

Init ==
    /\ living = Containers \cup Dependencies
    /\ wanted = {} /\ depSlots = {} /\ contSlots = {} /\ cleaned = {}
    /\ depToCont = [m \in Managers |-> {}]
    /\ contToDep = [m \in Managers |-> {}]
    /\ property = [c \in Containers |-> None]
    /\ handle = [c \in Containers |-> None]

Registered(map, c, d) == [map EXCEPT ![ManagerOf[c]] = @ \cup {<<c, d>>}]

Erased(map, pairs) == [m \in Managers |-> map[m] \ {p \in pairs : ManagerOf[p[1]] = m}]
-----------------------------------------------------------------------------
(* registerDestructionHelper and unregisterDestructionHelper with a        *)
(* manager; a pair is registered once.                                     *)
Register(c, d) ==
    /\ {c, d} \subseteq living /\ <<c, d>> \notin wanted \cup cleaned
    /\ wanted' = wanted \cup {<<c, d>>}
    /\ depSlots' = depSlots \cup {<<c, d>>}
    /\ contSlots' = contSlots \cup {<<c, d>>}
    /\ depToCont' = Registered(depToCont, c, d)
    /\ contToDep' = Registered(contToDep, c, d)
    /\ UNCHANGED <<living, property, handle, cleaned>>

\* Mutant: forgets the pair before it disconnects.
UnregisterMutant(c, d) ==
    /\ {c, d} \subseteq living /\ <<c, d>> \in wanted
    /\ wanted' = wanted \ {<<c, d>>}
    /\ depToCont' = Erased(depToCont, {<<c, d>>})
    /\ contToDep' = Erased(contToDep, {<<c, d>>})
    /\ UNCHANGED <<living, property, handle, cleaned, depSlots, contSlots>>

\* Disconnects what the maps know, and forgets it.
Unregister(c, d) ==
    /\ {c, d} \subseteq living /\ <<c, d>> \in wanted
    /\ wanted' = wanted \ {<<c, d>>}
    /\ depSlots' = depSlots \ ({<<c, d>>} \cap depToCont[ManagerOf[c]])
    /\ contSlots' = contSlots \ ({<<c, d>>} \cap contToDep[ManagerOf[c]])
    /\ depToCont' = Erased(depToCont, {<<c, d>>})
    /\ contToDep' = Erased(contToDep, {<<c, d>>})
    /\ UNCHANGED <<living, property, handle, cleaned>>
-----------------------------------------------------------------------------
\* Mutant: the handle is not connected to the new value.
SetPropertyMutant(c, d) ==
    /\ c \in living /\ d \in living \cup {None}
    /\ property[c] # d
    /\ property' = [property EXCEPT ![c] = d]
    /\ UNCHANGED <<living, wanted, depToCont, contToDep, depSlots, contSlots, cleaned, handle>>

(* The helper for a Property: the handle follows the value.                *)
SetProperty(c, d) ==
    /\ c \in living /\ d \in living \cup {None}
    /\ property[c] # d
    /\ property' = [property EXCEPT ![c] = d]
    /\ handle' = [handle EXCEPT ![c] = d]
    /\ UNCHANGED <<living, wanted, depToCont, contToDep, depSlots, contSlots, cleaned>>

\* `destroyed` of a dependency: cleanup functors and emptied properties.
DestroyDependency(d) ==
    LET hit == {p \in depSlots : p[2] = d} IN
    /\ d \in living
    /\ living' = living \ {d}
    /\ cleaned' = cleaned \cup hit
    /\ wanted' = wanted \ {p \in wanted : p[2] = d}
    /\ depSlots' = depSlots \ hit
    /\ depToCont' = Erased(depToCont, hit)
    /\ property' = [c \in Containers |-> IF handle[c] = d THEN None ELSE property[c]]
    /\ handle' = [c \in Containers |-> IF handle[c] = d THEN None ELSE handle[c]]
    /\ UNCHANGED <<contToDep, contSlots>>

\* `destroyed` of a container: clearDepToContConnections clears the manager.
DestroyContainer(c) ==
    LET mine == {p \in contSlots : p[1] = c}
        m == ManagerOf[c]
    IN
    /\ c \in living
    /\ living' = living \ {c}
    /\ wanted' = wanted \ {p \in wanted : p[1] = c}
    /\ depSlots' = IF mine = {} THEN depSlots ELSE depSlots \ depToCont[m]
    /\ depToCont' = IF mine = {} THEN depToCont ELSE [depToCont EXCEPT ![m] = {}]
    /\ contToDep' = Erased(contToDep, mine)
    /\ contSlots' = contSlots \ mine
    /\ handle' = [handle EXCEPT ![c] = None]
    /\ UNCHANGED <<property, cleaned>>

Next ==
    \/ \E c \in Containers, d \in Dependencies : Register(c, d) \/ Unregister(c, d)
    \/ \E c \in Containers, d \in Dependencies \cup {None} : SetProperty(c, d)
    \/ \E d \in Dependencies : DestroyDependency(d)
    \/ \E c \in Containers : DestroyContainer(c)

Spec == Init /\ [][Next]_vars
-----------------------------------------------------------------------------
(* A cleanup functor, which uses its container, runs for living containers *)
(* only, and runs for every registered one when the dependency goes.  With *)
(* one manager for several containers it does not: the destruction of one  *)
(* container disconnects the dependencies of all.                          *)
CleansUpTheLiving ==
    \A p \in Pairs :
        /\ p \in cleaned' \ cleaned => p[1] \in living
        /\ p \in wanted /\ p[2] \in living \ living' => p \in cleaned'

(* The property of a living container never keeps a pointer to a destroyed *)
(* dependency, and no handle of a destroyed container stays connected.     *)
PropertiesAreLive ==
    \A c \in Containers :
        /\ c \in living /\ property[c] # None => property[c] \in living
        /\ c \notin living => handle[c] = None
=============================================================================
