------------------------------ MODULE Library ------------------------------
(***************************************************************************)
(* The parts of KDFoundation and KDUtils that run on one thread and know   *)
(* nothing of one another: the object tree, the postman, the destruction   *)
(* helpers with a manager for each container, file mappers and files.      *)
(***************************************************************************)
EXTENDS ObjectTree

CONSTANTS Filters, MaxFilters, Containers, Dependencies,
          Mappers, Addresses, NoMap, Letters, MaxFile

VARIABLES
    filters, stage, at, changed, asked,
    living, wanted, depToCont, contToDep, depSlots, contSlots, property, handle, cleaned,
    file, named, map, mappings, answered,
    storage, linked, content, stream, good, place, unwritten, read

Post == INSTANCE Postman

Helpers == INSTANCE DestructionHelpers
             WITH Managers <- Containers, ManagerOf <- [x \in Containers |-> x]

Mapped == INSTANCE FileMappers WITH told <- answered

Disk == INSTANCE Files WITH MaxLength <- MaxFile

(* The two roles of the destruction helpers are kept apart: an object that *)
(* holds pointers and is pointed to counts as two.  A map is not a null    *)
(* pointer, and a file has room for a byte.                                *)
ASSUME LibraryAssumption ==
    /\ MaxFilters \in Nat
    /\ Containers \cap Dependencies = {} /\ None \notin Containers \cup Dependencies
    /\ NoMap \notin Mapped!Maps
    /\ MaxFile \in Nat \ {0}

postVars == <<filters, stage, at, changed, asked>>

helperVars == <<living, wanted, depToCont, contToDep, depSlots, contSlots,
                property, handle, cleaned>>

mapVars == <<file, named, map, mappings, answered>>

diskVars == <<storage, linked, content, stream, good, place, unwritten, read>>

objectVars == <<vars, postVars, helperVars>>

fileVars == <<mapVars, diskVars>>
-----------------------------------------------------------------------------
(* What listeners keep of other objects is right: the children they were   *)
(* told of, and the pointers that destruction has to empty.                *)
ListenersHoldTheLiving ==
    Post!TypeOK /\ Helpers!TypeOK /\ ListenersAgree /\ Helpers!PropertiesAreLive

(* What a step may never do: show an event to the target before the        *)
(* filters, destroy a child unannounced, clean up a destroyed container,   *)
(* read a file from its middle.                                            *)
StepsAreInOrder ==
    [][/\ AnnouncedDies
       /\ Post!FiltersGoFirst
       /\ Helpers!CleansUpTheLiving
       /\ Disk!ReadsFromTheStart]_<<objectVars, fileVars>>

(* Every mapping of a file has one owner, and File keeps its types.        *)
FilesAgree == Mapped!MappingsAreOwned /\ Disk!FiTypeOK

(* A file mapped again is mapped as asked ("Closes and makes invalid any   *)
(* existing mappings", FileMapper::map).                                   *)
MapsAgain == Mapped!MapGivesTheRange
=============================================================================
