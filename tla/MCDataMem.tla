----------------------------- MODULE MCDataMem -----------------------------
(* Two devices as rh_mem_map_init lays them out: each has one data object   *)
(* of two 2-byte items, the second device's object follows the first's.     *)
EXTENDS DataMem

Types == <<[tag |-> "Ua", offset |-> 0, len |-> 2], [tag |-> "Ub", offset |-> 2, len |-> 2]>>

MCIedList == << [tag |-> "ied1", pn |-> 1, dos |-> <<[tag |-> "Pow", offset |-> 0, types |-> Types]>>],
                [tag |-> "ied2", pn |-> 2, dos |-> <<[tag |-> "Pow", offset |-> 4, types |-> Types]>>] >>

MCIdList == << [id |-> "idUa", do |-> "Pow", type |-> "Ua"], [id |-> "idUb", do |-> "Pow", type |-> "Ub"],
               [id |-> "idX",  do |-> "Var", type |-> "Ua"], [id |-> "idY", do |-> "Pow", type |-> "Uc"] >>

(* the last points name a device, an object and an item that do not exist *)
MCPointList ==
  [YC |-> << [addr |-> 1, ied |-> "ied1", do |-> "Pow", type |-> "Ua"],
             [addr |-> 2, ied |-> "ied2", do |-> "Pow", type |-> "Ub"],
             [addr |-> 3, ied |-> "ied9", do |-> "Pow", type |-> "Ua"],
             [addr |-> 4, ied |-> "ied1", do |-> "Var", type |-> "Ua"],
             [addr |-> 5, ied |-> "ied1", do |-> "Pow", type |-> "Uc"] >>]

(* writes of either value, and reads that find the item or fail in each way *)
OopOps ==
  {[api |-> "write_oop", pn |-> 1, di |-> "idUa", len |-> 2, val |-> v] : v \in {1, 2}}
    \cup {[api |-> "read_oop", pn |-> 1, di |-> d, len |-> 2] : d \in {"idUa", "idX", "idY", "idZ"}}
    \cup {[api |-> "read_oop", pn |-> 3, di |-> d, len |-> 2] : d \in {"idUa", "idZ"}}

WriteIec(x) == [api |-> "write_iec", list |-> "YC", addr |-> x, len |-> 2, val |-> 2]
ReadIec(x, k) == [api |-> "read_iec", list |-> "YC", addr |-> x, n |-> k, len |-> 3]

(* the IEC operations on the paths that unlock what they have locked *)
CleanOps ==
  OopOps \cup {WriteIec(x) : x \in {3, 4, 6}}
         \cup {ReadIec(1, 1), ReadIec(1, 2)} \cup {ReadIec(x, 1) : x \in {4, 5, 6}}

(* and on all paths *)
AllOps == CleanOps \cup {WriteIec(x) : x \in {1, 2, 5}} \cup {ReadIec(3, 1)}

(* the tables and calls meet what the proofs ask of them *)
ASSUME ProperTables == SoundIndex /\ SoundCalls /\ Inside /\ Layout
ASSUME ProperCalls == Ops = CleanOps => CleanCalls
=============================================================================
