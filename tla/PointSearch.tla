---------------------------- MODULE PointSearch ----------------------------
(* The binary search of rh_mem_data_write_iec and rh_mem_data_read_iec for   *)
(* the point with address addr_start. pList->point is allocated for nNum     *)
(* points, the "num" of the list in meter.xml, and filled with the points    *)
(* the list really has. The search starts with nEnd = nNum: it may look at   *)
(* a point that was never filled, or at the memory behind the last one; what *)
(* it finds there is any address.                                            *)
EXTENDS Integers

CONSTANTS
  Addr,         \* the addresses points may have, and memory may show
  MaxNum,       \* bound on nNum
  Short         \* by how much a list may fall short of its "num": 0 in a proper file

ASSUME SearchAssumption ==
  /\ Addr \subseteq Int
  /\ MaxNum \in Nat
  /\ Short \in Nat

VARIABLES
  nNum,         \* pList->nNum
  nFilled,      \* points rh_point_list_load has filled
  addr,         \* addr[i]: pList->point[i].addr for i < nFilled
  addr_start,   \* the address looked for
  nStart, nEnd, nMid,
  pc            \* "loop", "found" (break) or "failed" (nStart > nEnd)

given == <<nNum, nFilled, addr, addr_start>>
vars == <<given, nStart, nEnd, nMid, pc>>

Points == 0 .. (nFilled - 1)

(* rh_point_list_load keeps the order of the file; a file in order of        *)
(* address is what the search is written for                                 *)
Sorted == \A i, j \in Points : i < j => addr[i] < addr[j]

Init ==
  /\ nNum \in 0 .. MaxNum
  /\ nFilled \in {n \in 0 .. nNum : n + Short >= nNum}
  /\ addr \in [Points -> Addr]
  /\ Sorted
  /\ addr_start \in Addr
  /\ nStart = 0
  /\ nEnd = nNum
  /\ nMid = 0
  /\ pc = "loop"

(* what pList->point[i].addr may read *)
AddrAt(i) == IF i \in Points THEN {addr[i]} ELSE Addr

(* mutants: the middle is rounded up; the last interval is not searched *)
MiddleUp == (nStart + nEnd + 1) \div 2

MoreStrict == nStart < nEnd

Middle == (nStart + nEnd) \div 2

More == nStart <= nEnd

(* mutant of Search: nStart = nMid *)
SearchStuck ==
  /\ pc = "loop"
  /\ More
  /\ nMid' = Middle
  /\ \E a \in AddrAt(Middle) :
       \/ a = addr_start /\ pc' = "found" /\ UNCHANGED <<nStart, nEnd>>
       \/ a < addr_start /\ nStart' = Middle /\ UNCHANGED <<nEnd, pc>>
       \/ a > addr_start /\ nEnd' = Middle - 1 /\ UNCHANGED <<nStart, pc>>
  /\ UNCHANGED given

(* one turn of the while loop *)
Search ==
  /\ pc = "loop"
  /\ More
  /\ nMid' = Middle
  /\ \E a \in AddrAt(Middle) :
       \/ a = addr_start /\ pc' = "found" /\ UNCHANGED <<nStart, nEnd>>
       \/ a < addr_start /\ nStart' = Middle + 1 /\ UNCHANGED <<nEnd, pc>>
       \/ a > addr_start /\ nEnd' = Middle - 1 /\ UNCHANGED <<nStart, pc>>
  /\ UNCHANGED given

(* the loop runs out: the operation returns -1 *)
Fail ==
  /\ pc = "loop"
  /\ ~More
  /\ pc' = "failed"
  /\ UNCHANGED <<given, nStart, nEnd, nMid>>

Next == Search \/ Fail

Spec == Init /\ [][Next]_vars

(* a loop of one thread runs on *)
FairSpec == Spec /\ WF_vars(Next)

(***************************************************************************)
(* Properties.                                                             *)
(***************************************************************************)

(* Every variable has its type; the search looks at most one point past the *)
(* nNum it was told of.                                                     *)
TypeOK ==
  /\ nNum \in Nat
  /\ nFilled \in 0 .. nNum /\ nFilled + Short >= nNum
  /\ addr \in [Points -> Addr]
  /\ addr_start \in Addr
  /\ nStart \in 0 .. (nNum + 1)
  /\ nEnd \in -1 .. nNum
  /\ nMid \in 0 .. nNum
  /\ pc \in {"loop", "found", "failed"}

(* A point of the list is found, wherever in the list it is and whatever    *)
(* the memory behind the list holds: the search fails only for an address   *)
(* that no point has.                                                       *)
NotMissed == pc = "failed" => \A i \in Points : addr[i] # addr_start

(* The search for a point of the list ends at that point, not behind it. *)
FoundIt ==
  pc = "found" /\ (\E i \in Points : addr[i] = addr_start) =>
    nMid \in Points /\ addr[nMid] = addr_start

(* A search that ends inside the list ends at the address looked for, even  *)
(* when points were not filled: it may miss a point, not give a wrong one.  *)
NeverWrong == pc = "found" /\ nMid \in Points => addr[nMid] = addr_start

(* Every turn that goes on at least halves the points that are left, so     *)
(* that a search of nNum points takes as many turns as nNum + 1 has binary  *)
(* digits, and one to fail, whatever the memory it looks at holds.          *)
SearchHalves ==
  [][pc' = "loop" => 2 * (nEnd' - nStart' + 1) <= nEnd - nStart + 1]_vars

(* Every search ends. *)
SearchEnds == <>(pc # "loop")

(***************************************************************************)
(* The inductive invariant: a point with the address is still between      *)
(* nStart and nEnd, which keeps nMid inside the list.                      *)
(***************************************************************************)
Between ==
  \A i \in Points : addr[i] = addr_start =>
    CASE pc = "loop"   -> nStart <= i /\ i <= nEnd
      [] pc = "found"  -> nMid = i
      [] pc = "failed" -> FALSE

SearchInv == TypeOK /\ Sorted /\ Between
=============================================================================
