---------------------------- MODULE RdProperty ----------------------------
(***************************************************************************)
(* RdPropertyBase.h: one value with a replica at either end.  A change is  *)
(* applied at once where it is made and sent with the number of the        *)
(* master's last change its maker knows of; the master refuses what was    *)
(* sent without knowledge of its own last change.                          *)
(***************************************************************************)
EXTENDS TwoEnds

VARIABLES
  value,          \* value[e]
  master_version  \* master_version[e]

propertyVars == <<value, master_version>>

PropertyInit ==
  /\ \E v \in Values : value = [e \in Ends |-> v]
  /\ master_version = [e \in Ends |-> 0]

(* set: an equal value is no change and fires nothing. *)
PropertySet(e, v) ==
  LET version == IF master = e THEN master_version[e] + 1 ELSE master_version[e]
  IN  /\ value[e] # v
      /\ value' = [value EXCEPT ![e] = v]
      /\ master_version' = [master_version EXCEPT ![e] = version]
      /\ Change(e, <<[version |-> version, value |-> v]>>)

(* mutation: the master accepts whatever it receives *)
AcceptsStale(e, version) == FALSE

Rejected(e, version) == master = e /\ version < master_version[e]

PropertyReceive(e) ==
  LET m == Arriving(e)
  IN  /\ Receive(e, <<>>)
      /\ IF Rejected(e, m.version)
         THEN UNCHANGED propertyVars
         ELSE /\ value' = [value EXCEPT ![e] = m.value]
              /\ master_version' = [master_version EXCEPT ![e] = m.version]

PropertyNext ==
  \E e \in Ends :
    \/ \E v \in Values : PropertySet(e, v)
    \/ PropertyReceive(e)

-----------------------------------------------------------------------------

(* Whatever changes cross, the replicas of a property with a master agree
   when every message has arrived. *)
PropertyConverges ==
  Quiet /\ master # None => \A e, f \in Ends : value[e] = value[f]

=============================================================================
