----------------------------- MODULE OrderedMap -----------------------------
(***************************************************************************)
(* What a search tree promises its caller: a map from keys to data, one    *)
(* call at a time.  A call to put takes effect once, before it returns; a  *)
(* call to clear removes one key after the other until there is none.      *)
(***************************************************************************)
CONSTANTS Keys, Data, NoData

VARIABLES
  map,     \* Keys -> Data, or NoData
  call     \* the call under way

Idle      == [name |-> "none"]
Put(k, d) == [name |-> "put", key |-> k, data |-> d]
Clearing  == [name |-> "clear"]

Init == map = [k \in Keys |-> NoData] /\ call = Idle

CallPut   == call = Idle /\ (\E k \in Keys, d \in Data : call' = Put(k, d)) /\ UNCHANGED map
CallClear == call = Idle /\ call' = Clearing /\ UNCHANGED map

DoPut == call.name = "put" /\ map' = [map EXCEPT ![call.key] = call.data] /\ UNCHANGED call
Drop  == call.name = "clear" /\ (\E k \in Keys : map' = [map EXCEPT ![k] = NoData]) /\ UNCHANGED call

ReturnPut   == call.name = "put" /\ map[call.key] = call.data /\ call' = Idle /\ UNCHANGED map
ReturnClear == call.name = "clear" /\ (\A k \in Keys : map[k] = NoData) /\ call' = Idle /\ UNCHANGED map

Next == CallPut \/ CallClear \/ DoPut \/ Drop \/ ReturnPut \/ ReturnClear

Step == [Next]_<<map, call>>
Spec == Init /\ [][Next]_<<map, call>>

=============================================================================
