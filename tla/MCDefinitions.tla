---------------------------- MODULE MCDefinitions ----------------------------
(***************************************************************************)
(* One run for the two tables of definitions in shared memory and what is  *)
(* made of them.  They share no variable: either moves while the other is  *)
(* in its initial state.                                                   *)
(*                                                                         *)
(* Variables: two devices have a variable of the same name and one variable *)
(* is defined again with another type; of the values, the second one ends   *)
(* outside both blocks and the fourth one inside the larger one only, that  *)
(* of the definitions.  There is an element too few for the last one.       *)
(*                                                                         *)
(* Telemetry: three bools, so that they fill one word and begin another, a *)
(* double, two handles of one byte telemetry, and one whose type is not    *)
(* the defined one.                                                        *)
(***************************************************************************)
EXTENDS VariableDefinitions, TelemetryGroup

V(device, name, type, bytes, at_) ==
  [device |-> device, name |-> name, type |-> type, bytes |-> bytes, at |-> at_]

MCTable == << V(2, 1, 1, 4, 0), V(1, 2, 1, 4, 7), V(2, 1, 2, 4, 4), V(1, 1, 1, 8, 2),
              V(1, 3, 1, 4, 0) >>

D(i, n, c) == [id |-> i, name |-> n, class |-> c]
H(n, c)    == [name |-> n, class |-> c]

MCDefinition ==
  <<D(7, "abs", 0), D(9, "tc", 0), D(3, "speed", 1), D(5, "gear", 4), D(2, "pit", 0)>>
MCHandle ==
  [h1 |-> H("abs", 0), h2 |-> H("pit", 0), h3 |-> H("speed", 1), h4 |-> H("gear", 4),
   h5 |-> H("gear", 4), h6 |-> H("gear", 2), h7 |-> H("tc", 0)]
MCHandles == DOMAIN MCHandle
MCLists   == {<<"h4", "h5", "h3">>, <<"h7", "h6", "h1">>}

MCInit == Init /\ TelInit

(* Telemetry needs one of the initial states of the variables only. *)
VariablesAtRest == Init /\ written = 0 /\ pc = "start"

VariablesStep == TelInit /\ Next /\ UNCHANGED telVars
TelemetryStep == VariablesAtRest /\ TelNext /\ UNCHANGED vars

MCNext == VariablesStep \/ TelemetryStep

MCSpec == MCInit /\ [][MCNext]_<<vars, telVars>>
==============================================================================
