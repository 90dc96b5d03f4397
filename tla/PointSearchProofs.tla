------------------------- MODULE PointSearchProofs -------------------------
(* For every list length and every content of the memory behind the list,   *)
(* the binary search of mem.c finds each point of a properly filled list.    *)
EXTENDS PointSearch, TLAPS

(* The initial state satisfies the invariant: 0 .. nNum covers the list. *)
LEMMA SearchInitInv == Init => SearchInv
<1> SUFFICES ASSUME Init PROVE SearchInv
  OBVIOUS
<1> USE SearchAssumption DEF Init, Points
<1>1. TypeOK
  BY DEF TypeOK
<1>2. Sorted
  OBVIOUS
<1>3. Between
  BY DEF Between
<1> QED
  BY <1>1, <1>2, <1>3 DEF SearchInv

(* nMid lies between nStart and nEnd, and before nEnd when they differ. *)
LEMMA MiddleBetween ==
  ASSUME NEW s \in Int, NEW e \in Int, s <= e
  PROVE  /\ (s + e) \div 2 \in Int
         /\ s <= (s + e) \div 2
         /\ (s + e) \div 2 <= e
         /\ s < e => (s + e) \div 2 < e
  OBVIOUS

(* Half of what is left lies on either side of nMid. *)
LEMMA MiddleHalves ==
  ASSUME NEW s \in Int, NEW e \in Int, s <= e
  PROVE  /\ 2 * (e - (s + e) \div 2) <= e - s + 1
         /\ 2 * ((s + e) \div 2 - s) <= e - s + 1
  OBVIOUS

(* A step keeps the types, however many points were not filled, *)
LEMMA SearchTypes ==
  ASSUME TypeOK, [Next]_vars
  PROVE  TypeOK'
<1> DEFINE M == (nStart + nEnd) \div 2
<1>t. /\ nNum \in Nat /\ nFilled \in 0 .. nNum /\ nFilled + Short >= nNum
      /\ addr \in [Points -> Addr] /\ addr_start \in Addr
      /\ nStart \in 0 .. (nNum + 1) /\ nEnd \in -1 .. nNum /\ nMid \in 0 .. nNum
  BY DEF TypeOK
<1>1. CASE Search
  <2>1. /\ pc = "loop" /\ nStart <= nEnd /\ nMid' = M /\ UNCHANGED given
    BY <1>1 DEF Search, More, Middle
  <2>2. M \in 0 .. nNum
    BY <1>t, <2>1, MiddleBetween
  <2>3. \/ pc' = "found" /\ UNCHANGED <<nStart, nEnd>>
        \/ nStart' = M + 1 /\ UNCHANGED <<nEnd, pc>>
        \/ nEnd' = M - 1 /\ UNCHANGED <<nStart, pc>>
    BY <1>1 DEF Search, Middle
  <2> HIDE DEF M
  <2>4. nStart' \in 0 .. (nNum + 1) /\ nEnd' \in -1 .. nNum /\ nMid' \in 0 .. nNum
    BY <1>t, <2>1, <2>2, <2>3
  <2>5. pc' \in {"loop", "found", "failed"}
    BY <2>1, <2>3
  <2> QED
    BY <1>t, <2>1, <2>4, <2>5 DEF TypeOK, given, Points
<1>2. CASE Fail
  BY <1>2 DEF TypeOK, Fail, given, Points
<1>3. CASE UNCHANGED vars
  BY <1>3 DEF TypeOK, vars, given, Points
<1> QED
  BY <1>1, <1>2, <1>3 DEF Next

(* and a turn that goes on leaves half of the points at most. *)
LEMMA SearchHalf ==
  ASSUME TypeOK, [Next]_vars
  PROVE  [pc' = "loop" => 2 * (nEnd' - nStart' + 1) <= nEnd - nStart + 1]_vars
<1> DEFINE M == (nStart + nEnd) \div 2
<1>1. CASE Search
  <2>1. nStart <= nEnd /\ nStart \in Int /\ nEnd \in Int
    BY <1>1 DEF TypeOK, Search, More
  <2>2. M \in Int /\ 2 * (nEnd - M) <= nEnd - nStart + 1 /\ 2 * (M - nStart) <= nEnd - nStart + 1
    BY <2>1, MiddleBetween, MiddleHalves
  <2>3. \/ pc' = "found"
        \/ nStart' = M + 1 /\ nEnd' = nEnd
        \/ nEnd' = M - 1 /\ nStart' = nStart
    BY <1>1 DEF Search, Middle
  <2> HIDE DEF M
  <2> QED
    BY <2>1, <2>2, <2>3
<1>2. CASE Fail
  BY <1>2 DEF Fail
<1>3. CASE UNCHANGED vars
  BY <1>3
<1> QED
  BY <1>1, <1>2, <1>3 DEF Next

(* A turn of the loop in a list without unfilled points keeps the point      *)
(* between nStart and nEnd, and types hold.                                  *)
LEMMA SearchStep ==
  ASSUME SearchInv, Short = 0, Search
  PROVE  SearchInv'
<1> USE SearchAssumption
<1> DEFINE M == (nStart + nEnd) \div 2
<1>t. /\ nNum \in Nat /\ nFilled \in Nat /\ nFilled = nNum
      /\ addr \in [Points -> Addr] /\ addr_start \in Addr
      /\ nStart \in 0 .. (nNum + 1) /\ nEnd \in -1 .. nNum /\ nMid \in 0 .. nNum
  BY DEF SearchInv, TypeOK
<1>g. /\ pc = "loop" /\ nStart <= nEnd /\ nMid' = M
      /\ UNCHANGED given
  BY DEF Search, More, Middle
<1>m. /\ M \in Int /\ nStart <= M /\ M <= nEnd /\ (nStart < nEnd => M < nEnd)
  BY <1>t, <1>g, MiddleBetween
<1>n. M \in 0 .. nNum
  BY <1>t, <1>g, <1>m
<1>a. PICK a \in AddrAt(M) :
        \/ a = addr_start /\ pc' = "found" /\ UNCHANGED <<nStart, nEnd>>
        \/ a < addr_start /\ nStart' = M + 1 /\ UNCHANGED <<nEnd, pc>>
        \/ a > addr_start /\ nEnd' = M - 1 /\ UNCHANGED <<nStart, pc>>
  BY DEF Search, Middle
<1>u. /\ nNum' = nNum /\ nFilled' = nFilled /\ addr' = addr /\ addr_start' = addr_start
      /\ Points' = Points
  BY <1>g DEF given, Points
<1> HIDE DEF M
<1>1. TypeOK'
  <2>1. nStart' \in 0 .. (nNum + 1) /\ nEnd' \in -1 .. nNum
    BY <1>a, <1>n, <1>t
  <2>2. pc' \in {"loop", "found", "failed"}
    BY <1>a, <1>g
  <2>3. nMid' \in 0 .. nNum
    BY <1>g, <1>n
  <2> QED
    BY <2>1, <2>2, <2>3, <1>u, <1>t DEF TypeOK
<1>2. Sorted'
  BY <1>u DEF Sorted, SearchInv
<1>3. ASSUME NEW i \in Points, addr[i] = addr_start
      PROVE  CASE pc' = "loop"   -> nStart' <= i /\ i <= nEnd'
               [] pc' = "found"  -> nMid' = i
               [] pc' = "failed" -> FALSE
  <2>1. i \in Int /\ 0 <= i /\ i < nNum
    BY <1>3, <1>t DEF Points
  <2>2. nStart <= i /\ i <= nEnd
    BY <1>3, <1>g DEF SearchInv, Between
  <2>3. M \in Points
    BY <2>1, <2>2, <1>t, <1>m, <1>n DEF Points
  <2>4. a = addr[M]
    BY <2>3, <1>a DEF AddrAt
  <2>5. addr[M] \in Int /\ addr_start \in Int
    BY <2>3, <1>t
  <2>6. M < i => addr[M] < addr_start
    BY <2>3, <1>3 DEF SearchInv, Sorted
  <2>7. i < M => addr_start < addr[M]
    BY <2>3, <1>3 DEF SearchInv, Sorted
  <2>8. CASE a = addr_start /\ pc' = "found"
    <3>1. M = i
      BY <2>8, <2>1, <2>4, <2>5, <2>6, <2>7, <1>m
    <3> QED
      BY <3>1, <2>8, <1>g
  <2>9. CASE a < addr_start /\ nStart' = M + 1 /\ UNCHANGED <<nEnd, pc>>
    <3>1. M < i
      BY <2>9, <2>1, <2>4, <2>5, <2>7, <1>m, <1>3
    <3> QED
      BY <3>1, <2>1, <2>2, <2>9, <1>g, <1>m
  <2>10. CASE a > addr_start /\ nEnd' = M - 1 /\ UNCHANGED <<nStart, pc>>
    <3>1. i < M
      BY <2>10, <2>1, <2>4, <2>5, <2>6, <1>m, <1>3
    <3> QED
      BY <3>1, <2>1, <2>2, <2>10, <1>g, <1>m
  <2> QED
    BY <1>a, <2>8, <2>9, <2>10
<1>4. Between'
  BY <1>3, <1>u DEF Between
<1> QED
  BY <1>1, <1>2, <1>4 DEF SearchInv

(* With no point left between nStart and nEnd, none has the address. *)
LEMMA FailStep ==
  ASSUME SearchInv, Fail
  PROVE  SearchInv'
<1>1. TypeOK'
  BY DEF SearchInv, TypeOK, Fail, given, Points
<1>2. Sorted'
  BY DEF SearchInv, Sorted, Fail, given, Points
<1>3. \A i \in Points : addr[i] # addr_start
  <2> SUFFICES ASSUME NEW i \in Points, addr[i] = addr_start PROVE FALSE
    OBVIOUS
  <2>1. nStart <= i /\ i <= nEnd
    BY DEF SearchInv, Between, Fail
  <2> QED
    BY <2>1 DEF SearchInv, TypeOK, Fail, More, Points
<1>4. Between'
  BY <1>3 DEF Between, Fail, given, Points
<1> QED
  BY <1>1, <1>2, <1>4 DEF SearchInv

(* The search never looks further than one point past the list, even in a   *)
(* list that falls short of its num, whatever its memory holds.             *)
THEOREM OnePastTheList == Spec => []TypeOK
<1>1. Init => TypeOK
  BY SearchInitInv DEF SearchInv
<1>2. TypeOK /\ [Next]_vars => TypeOK'
  BY SearchTypes
<1> QED
  BY <1>1, <1>2, PTL DEF Spec

(* Whatever was not filled, the search never ends at a filled point with    *)
(* another address: it may miss an item, not read or write the wrong one.   *)
THEOREM NeverTheWrongPoint == Spec => []NeverWrong
<1>1. Init => NeverWrong
  BY DEF Init, NeverWrong
<1>2. NeverWrong /\ [Next]_vars => NeverWrong'
  <2> SUFFICES ASSUME NeverWrong, [Next]_vars PROVE NeverWrong'
    OBVIOUS
  <2>1. CASE Search
    BY <2>1 DEF Search, AddrAt, NeverWrong, given, Points
  <2>2. CASE Fail
    BY <2>2 DEF Fail, NeverWrong, given, Points
  <2>3. CASE UNCHANGED vars
    BY <2>3 DEF NeverWrong, vars, given, Points
  <2> QED
    BY <2>1, <2>2, <2>3 DEF Next
<1> QED
  BY <1>1, <1>2, PTL DEF Spec

(* Every turn of the while loop that goes on halves what is left, so that   *)
(* rh_mem_data_write_iec and rh_mem_data_read_iec, which search with the    *)
(* list locked, do so for logarithmically many turns.                       *)
THEOREM SearchIsBinary == Spec => SearchHalves
<1>1. TypeOK /\ [Next]_vars =>
        [pc' = "loop" => 2 * (nEnd' - nStart' + 1) <= nEnd - nStart + 1]_vars
  BY SearchHalf
<1> QED
  BY <1>1, OnePastTheList, PTL DEF Spec, SearchHalves

(* In a list whose points are all filled, SearchInv holds throughout the     *)
(* search of rh_mem_data_write_iec and rh_mem_data_read_iec.                 *)
THEOREM SearchInvariant ==
  ASSUME Short = 0
  PROVE  Spec => []SearchInv
<1>1. SearchInv /\ [Next]_vars => SearchInv'
  <2> SUFFICES ASSUME SearchInv, [Next]_vars PROVE SearchInv'
    OBVIOUS
  <2>1. CASE Search
    BY <2>1, SearchStep
  <2>2. CASE Fail
    BY <2>2, FailStep
  <2>3. CASE UNCHANGED vars
    BY <2>3 DEF SearchInv, TypeOK, Sorted, Between, Points, vars, given
  <2> QED
    BY <2>1, <2>2, <2>3 DEF Next
<1> QED
  BY <1>1, SearchInitInv, PTL DEF Spec

(* The search of a filled, sorted list fails only for an address that no     *)
(* point has, although it starts one past the end and may look there.        *)
THEOREM PointsAreFound ==
  ASSUME Short = 0
  PROVE  Spec => []NotMissed
<1>1. SearchInv => NotMissed
  BY DEF SearchInv, Between, NotMissed
<1> QED
  BY <1>1, SearchInvariant, PTL

(* When a point has the address, the search stops at that point and not at   *)
(* what it read past the end of the list.                                    *)
THEOREM FoundInTheList ==
  ASSUME Short = 0
  PROVE  Spec => []FoundIt
<1>1. SearchInv => FoundIt
  BY DEF SearchInv, Between, FoundIt
<1> QED
  BY <1>1, SearchInvariant, PTL
=============================================================================
