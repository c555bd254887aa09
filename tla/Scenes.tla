------------------------------- MODULE Scenes -------------------------------
(***************************************************************************)
(* The components that share no state with each other are checked side by  *)
(* side in one run.  A behaviour belongs to one component; its scene says   *)
(* to which, and which events that are not the component's own doing       *)
(* (failures, clicks, late answers) can happen in it.  A component whose    *)
(* turn it is not rests in its initial state.                               *)
(***************************************************************************)

VARIABLE scene      \* [part : the component at work, events : a set of events]

Plays(part) == scene.part = part

May(event) == event \in scene.events

\* The scenes of a component, one for each set of events.
ScenesOf(part, environments) == {[part |-> part, events |-> e] : e \in environments}
=============================================================================
