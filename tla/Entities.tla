------------------------------ MODULE Entities ------------------------------
(***************************************************************************)
(* The reactive entities over one wire.  An entity is one of five kinds;   *)
(* Init picks it, and the state of the other kinds stays as it is.         *)
(***************************************************************************)
EXTENDS RdProperty, RdMap, RdList, RdSet, Interning

VARIABLE kind

vars == <<kind, endVars, propertyVars, mapVars, listVars, setVars, internVars>>

(* A property and an intern root have no contents to send when they are
   bound; the others may be filled before.  Only properties and maps look at
   is_master. *)
Filled == {"map", "list", "set"}
Mastered == {"property", "map"}

Init ==
  /\ kind \in {"property", "map", "list", "set", "intern"}
  /\ EndsInit
  /\ bound = [e \in Ends |-> kind \notin Filled]
  /\ kind \notin Mastered => master = None
  /\ PropertyInit /\ MapInit /\ ListInit /\ SetInit /\ InternInit

PropertyStep ==
  /\ kind = "property" /\ PropertyNext
  /\ UNCHANGED <<kind, mapVars, listVars, setVars, internVars>>

MapStep ==
  /\ kind = "map" /\ MapNext
  /\ UNCHANGED <<kind, propertyVars, listVars, setVars, internVars>>

ListStep ==
  /\ kind = "list" /\ ListNext
  /\ UNCHANGED <<kind, propertyVars, mapVars, setVars, internVars>>

SetStep ==
  /\ kind = "set" /\ SetNext
  /\ UNCHANGED <<kind, propertyVars, mapVars, listVars, internVars>>

InternStep ==
  /\ kind = "intern" /\ InternNext
  /\ UNCHANGED <<kind, propertyVars, mapVars, listVars, setVars>>

Next == PropertyStep \/ MapStep \/ ListStep \/ SetStep \/ InternStep

Spec == Init /\ [][Next]_vars

=============================================================================
