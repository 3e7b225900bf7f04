--------------------------- MODULE WaylandGlobals ---------------------------
(***************************************************************************)
(* LinuxWaylandPlatformIntegration: the globals the Wayland server         *)
(* announces and removes, in any order, and the objects bound to them.     *)
(***************************************************************************)
EXTENDS Naturals, SequencesExt

CONSTANT Globals     \* records [kind, name]: what the server may announce

Core == {"compositor", "shm", "shell"}
Managers == {"relative", "constraints"}
Singles == Core \cup Managers \cup {"decoration", "data manager"}

VARIABLES
    phase,      \* "connect", "init" (in the round trip), "running", "aborted"
    announced,  \* the globals that exist at the server
    bound,      \* the objects of the globals there is one of, by kind: [global, alive], or {}
    inputs,     \* m_inputs: the seats
    outputs,    \* m_outputs
    objects,    \* by manager: the seats whose pointer has an object of it
    device      \* the seat of the clipboard's data device, {} for none

wgVars == <<phase, announced, bound, inputs, outputs, objects, device>>

Members(s) == {s[i] : i \in DOMAIN s}

WgTypeOK ==
    /\ phase \in {"connect", "init", "running", "aborted"}
    /\ announced \subseteq Globals
    /\ \A k \in Singles : Cardinality(bound[k]) <= 1
          /\ \A b \in bound[k] : b.global.kind = k /\ b.alive \in BOOLEAN
    /\ \A i \in DOMAIN inputs : inputs[i].kind = "seat"
    /\ \A i \in DOMAIN outputs : outputs[i].kind = "output"
    /\ objects \in [Managers -> SUBSET Members(inputs)]
    /\ Cardinality(device) <= 1

WgInit ==
    /\ phase = "connect" /\ announced = {} /\ bound = [k \in Singles |-> {}]
    /\ inputs = <<>> /\ outputs = <<>> /\ objects = [k \in Managers |-> {}] /\ device = {}

Alive(k) == \E b \in bound[k] : b.alive

Connect ==
    /\ phase = "connect" /\ phase' \in {"init", "aborted"}
    /\ UNCHANGED <<announced, bound, inputs, outputs, objects, device>>

\* global: the data manager opens a device for every seat that is there, and
\* keeps the last.
Global(g) ==
    /\ phase \in {"init", "running"} /\ g \notin announced
    /\ announced' = announced \cup {g}
    /\ bound' = IF g.kind \in Singles
                THEN [bound EXCEPT ![g.kind] = {[global |-> g, alive |-> TRUE]}] ELSE bound
    /\ inputs' = IF g.kind = "seat" THEN Append(inputs, g) ELSE inputs
    /\ outputs' = IF g.kind = "output" THEN Append(outputs, g) ELSE outputs
    /\ device' = IF g.kind = "data manager" /\ inputs # <<>>
                 THEN {inputs[Len(inputs)]} ELSE device
    /\ UNCHANGED <<phase, objects>>

\* init, after the round trip: no compositor, shell or shm is an error.
InitChecksMutant ==
    /\ phase = "init"
    /\ phase' = IF Alive("compositor") /\ Alive("shm") THEN "running" ELSE "aborted"
    /\ UNCHANGED <<announced, bound, inputs, outputs, objects, device>>

InitChecks ==
    /\ phase = "init"
    /\ phase' = IF \A k \in Core : Alive(k) THEN "running" ELSE "aborted"
    /\ UNCHANGED <<announced, bound, inputs, outputs, objects, device>>

\* A seat gets a pointer, or locks it, before the manager goes: after that the
\* object would be made with the destroyed one (initPointer, pointerLock).
Obtain(k, g) ==
    /\ phase = "running" /\ g \in Members(inputs)
    /\ Alive(k) /\ objects' = [objects EXCEPT ![k] = @ \cup {g}]
    /\ UNCHANGED <<phase, announced, bound, inputs, outputs, device>>

\* The pointer is unlocked, or destroyed (pointerUnlock, destroyPointer).
GiveBack(kinds, g) ==
    /\ phase = "running"
    /\ objects' = [k \in Managers |-> IF k \in kinds THEN objects[k] \ {g} ELSE objects[k]]
    /\ UNCHANGED <<phase, announced, bound, inputs, outputs, device>>

\* erase of what find_if finds.
Without(s, g) ==
    RemoveAt(s, CHOOSE i \in DOMAIN s : s[i] = g /\ \A j \in 1..i - 1 : s[j] # g)

\* The identifier kept with the object of that kind: the one announced last.
IsBound(g) == g.kind \in Singles /\ \E b \in bound[g.kind] : b.global = g

\* globalRemove: the first match of the identifier ends it.
RemoveCore(g) ==
    /\ g.kind \in Core /\ IsBound(g) /\ phase' = "aborted"
    /\ UNCHANGED <<bound, inputs, outputs, objects, device>>

RemoveSeat(g) ==
    /\ g \in Members(inputs) /\ inputs' = Without(inputs, g)
    /\ objects' = [k \in Managers |-> objects[k] \ {g}]
    /\ UNCHANGED <<phase, bound, outputs, device>>

\* Mutant: an output is looked for among the seats.
RemoveOutputMutant(g) ==
    /\ g.kind = "output" /\ UNCHANGED <<phase, bound, inputs, outputs, objects, device>>

RemoveOutput(g) ==
    /\ g \in Members(outputs) /\ outputs' = Without(outputs, g)
    /\ UNCHANGED <<phase, bound, inputs, objects, device>>

\* Mutant: the manager goes before the seats give its objects back.
RemoveManagerMutant(g) ==
    /\ g.kind \in Managers /\ IsBound(g)
    /\ bound' = [bound EXCEPT ![g.kind] = {[global |-> g, alive |-> FALSE]}]
    /\ UNCHANGED <<phase, inputs, outputs, objects, device>>

\* The manager's own object is destroyed, and its record keeps the pointer to it.
RemoveManager(g) ==
    /\ g.kind \in Managers /\ IsBound(g)
    /\ bound' = [bound EXCEPT ![g.kind] = {[global |-> g, alive |-> FALSE]}]
    /\ objects' = [objects EXCEPT ![g.kind] = {}]
    /\ UNCHANGED <<phase, inputs, outputs, device>>

\* No identifier matches: those of the decoration and data managers are not looked
\* at, and another object may have taken the place of the one bound to g.
RemoveIgnored(g) ==
    /\ g \notin Members(inputs) \cup Members(outputs)
    /\ g.kind \in Core \cup Managers => ~IsBound(g)
    /\ UNCHANGED <<phase, bound, inputs, outputs, objects, device>>

GlobalRemove(g) ==
    /\ phase \in {"init", "running"} /\ g \in announced /\ announced' = announced \ {g}
    /\ \/ RemoveCore(g) \/ RemoveSeat(g) \/ RemoveOutput(g) \/ RemoveManager(g)
       \/ RemoveIgnored(g)

WgNext ==
    \/ Connect \/ InitChecks
    \/ \E g \in Globals :
          \/ Global(g) \/ GlobalRemove(g)
          \/ \E k \in Managers : Obtain(k, g)
          \/ \E kinds \in {{"constraints"}, Managers} : GiveBack(kinds, g)

WgSpec == WgInit /\ [][WgNext]_wgVars
-----------------------------------------------------------------------------
\* An integration that runs has what every window needs, bound and announced
\* (init, globalRemove).
RunsWithCore ==
    phase = "running" => \A k \in Core : \E b \in bound[k] : b.alive /\ b.global \in announced

\* The inputs and outputs are the server's, each one once.
FollowsServer ==
    /\ Members(inputs) \cup Members(outputs) = {g \in announced : g.kind \in {"seat", "output"}}
    /\ Len(inputs) + Len(outputs) = Cardinality(Members(inputs) \cup Members(outputs))

\* No pointer keeps a relative pointer or a lock of a manager that was destroyed.
ManagersOutliveTheirs == \A k \in Managers : objects[k] # {} => Alive(k)

\* In whatever order globals come and go, an integration that runs has bound
\* a compositor, a shell and shared memory that the server has, its seats and
\* outputs are the server's, and no pointer holds on to a manager that went
\* (global and globalRemove).
GlobalsAgree == WgTypeOK /\ RunsWithCore /\ FollowsServer /\ ManagersOutliveTheirs
=============================================================================
