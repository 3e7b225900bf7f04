---------------------------- MODULE FileMappers ----------------------------
(***************************************************************************)
(* KDUtils::FileMapper: objects that own at most one mapping of a file,    *)
(* for reading or for writing, and may be moved into one another.          *)
(***************************************************************************)
EXTENDS Naturals

CONSTANTS
    Mappers,
    Addresses,   \* bound: where the system may put a mapping, 0 not among them
    NoMap        \* m_map is null

VARIABLES
    file,      \* what of it exists, may be written, is not empty
    named,     \* the mappers whose m_path names the file
    map,       \* m_map: which of the two maps it holds, where it is mapped or 0, and
               \* which range of the file that is
    mappings,  \* the mappings the system keeps for the program
    told       \* the call that has returned: whose, the range asked for, the answer

fmVars == <<file, named, map, mappings, told>>

\* An offset and a length; those left out stand for the whole file.
Ranges == {"whole", "part"}

Maps == [writable : BOOLEAN, at : Addresses \cup {0}, range : Ranges \cup {"none"}]

Silent == [call |-> "none", of |-> NoMap, range |-> "none", answer |-> FALSE]

FmInit ==
    /\ file \in [exists : BOOLEAN, writable : BOOLEAN, filled : BOOLEAN]
    /\ named = Mappers /\ map = [x \in Mappers |-> NoMap] /\ mappings = {}
    /\ told = Silent

\* What m_map holds or held, of which the mapping goes with it.
Held(m) == IF m = NoMap THEN {} ELSE {m.at} \ {0}

\* mmap through mio: a range in a file that can be opened that way, or an error.
MayMap(x, writable) ==
    x \in named /\ file.exists /\ file.filled /\ (writable => file.writable)

\* What mmap, after an unmap that left these, makes of a map.
Fresh(x, writable, range, left) ==
    {[map |-> [writable |-> writable, at |-> at, range |-> IF at = 0 THEN "none" ELSE range],
      left |-> left \cup ({at} \ {0})] :
        at \in {0} \cup IF MayMap(x, writable) THEN Addresses \ left ELSE {}}

IsMapped(m, writable) == m # NoMap /\ m.writable = writable /\ m.at # 0

\* Mutant: a map of the other kind is replaced without being unmapped.
MapsToMutant(x, m, writable, range, left) ==
    IF IsMapped(m, writable) THEN {[map |-> m, left |-> left]}
    ELSE Fresh(x, writable, range, left)

\* mapImpl: the map of the right kind that is mapped already stays as it is,
\* whatever range is asked for.  The results, with the mappings there are then.
MapsTo(x, m, writable, range, left) ==
    IF IsMapped(m, writable) THEN {[map |-> m, left |-> left]}
    ELSE Fresh(x, writable, range, left \ Held(m))

Map(x) ==
    /\ \E writable \in BOOLEAN, range \in Ranges :
       \E r \in MapsTo(x, map[x], writable, range, mappings) :
          /\ map' = [map EXCEPT ![x] = r.map] /\ mappings' = r.left
          /\ told' = [call |-> "map", of |-> x, range |-> range, answer |-> r.map.at # 0]
    /\ UNCHANGED <<file, named>>

\* unmap, with a pointer or with nullptr.  A pointer is compared with what map()
\* returns, the one for writing also when the mapping is for reading; if it is
\* another one, there is a warning and nothing else.
Unmap(x) ==
    /\ \E given \in BOOLEAN, synced \in BOOLEAN :
       \E r \in IF given /\ map[x] # NoMap THEN MapsTo(x, map[x], TRUE, "whole", mappings)
                ELSE {[map |-> map[x], left |-> mappings]} :
          LET unmaps == r.map # NoMap /\ (r.map.writable => r.map.at # 0 /\ synced)
          IN  /\ map' = [map EXCEPT ![x] = IF unmaps THEN [r.map EXCEPT !.at = 0, !.range = "none"]
                                           ELSE r.map]
              /\ mappings' = IF unmaps THEN r.left \ Held(r.map) ELSE r.left
              /\ told' = [call |-> "unmap", of |-> x, range |-> "none", answer |-> unmaps]
    /\ UNCHANGED <<file, named>>

\* operator= of two mappers: the one moved from has neither a map nor a path.
Move(x, y) ==
    /\ x # y
    /\ map' = [map EXCEPT ![x] = map[y], ![y] = NoMap]
    /\ mappings' = mappings \ Held(map[x])
    /\ named' = IF y \in named THEN (named \cup {x}) \ {y} ELSE named \ {x}
    /\ told' = Silent /\ UNCHANGED file

FileChanges ==
    /\ \E f \in [exists : BOOLEAN, writable : BOOLEAN, filled : BOOLEAN] :
          f # file /\ file' = f
    /\ told' = Silent /\ UNCHANGED <<named, map, mappings>>

FmNext ==
    \/ \E x \in Mappers : Map(x) \/ Unmap(x)
    \/ \E x, y \in Mappers : Move(x, y)
    \/ FileChanges

FmSpec == FmInit /\ [][FmNext]_fmVars
-----------------------------------------------------------------------------
\* Every mapping of the system belongs to one mapper, also after a failed unmap
\* and after moves, and a mapper whose unmap has answered true has none.
MappingsAreOwned ==
    /\ \A x \in Mappers : map[x] = NoMap \/ map[x] \in Maps
    /\ mappings = UNION {Held(map[x]) : x \in Mappers}
    /\ \A x, y \in Mappers : x # y => Held(map[x]) \cap Held(map[y]) = {}
    /\ told.call = "unmap" /\ told.answer => Held(map[told.of]) = {}

\* What map returns is a mapping of the range that was asked for; one that there
\* was before is closed (FileMapper::map).
MapGivesTheRange ==
    told.call = "map" /\ told.answer => map[told.of].range = told.range
=============================================================================
