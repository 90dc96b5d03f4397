--------------------------- MODULE DataMemProofs ---------------------------
(* For any threads, devices, lists and calls of the data memory: a read     *)
(* sees one write of its item, and on the paths that unlock what they lock  *)
(* no operation returns with a lock held.                                   *)
EXTENDS DataMem, TLAPS, WellFoundedInduction

(* A set of numbers that is not empty has a least one, which Min is. *)
LEMMA MinOfNat ==
  ASSUME NEW S \in SUBSET Nat, S # {}
  PROVE  Min(S) \in S /\ \A y \in S : Min(S) <= y
<1> DEFINE R == {ss \in Nat \X Nat : ss[1] < ss[2]}
<1>1. IsWellFoundedOn(R, Nat)
  BY NatLessThanWellFounded, Zenon DEF OpToRel
<1>2. PICK x \in S : \A y \in S : ~(<<y, x>> \in R)
  <2> HIDE DEF R
  <2> QED
    BY <1>1, WFMin
<1>3. \A y \in S : x <= y
  <2>1. SUFFICES ASSUME NEW y \in S PROVE ~(y < x)
    OBVIOUS
  <2>2. <<y, x>> \in Nat \X Nat /\ <<y, x>>[1] = y /\ <<y, x>>[2] = x
    OBVIOUS
  <2> QED
    BY <1>2, <2>1, <2>2
<1> QED
  BY <1>3 DEF Min

(* A search that failed has found no item. *)
LEMMA FailedNotFound ==
  ASSUME NEW x, NEW why, why # "item", x = [found |-> why]
  PROVE  x.found # "item"
  OBVIOUS

(* The lookups that succeed lead to a device of s_memMap. *)
LEMMA FoundIed ==
  ASSUME NEW op \in Ops, Found[op].found = "item"
  PROVE  Found[op].ied \in 1 .. Len(IedList)
<1>1. ASSUME NEW ieds \in SUBSET (1 .. Len(IedList)), NEW d, NEW k,
             FindItem(ieds, d, k).found = "item"
       PROVE  FindItem(ieds, d, k).ied \in 1 .. Len(IedList)
  <2>1. ieds # {}
    BY <1>1 DEF FindItem
  <2>2. Min(ieds) \in ieds
    BY <2>1, MinOfNat, ConstAssumption
  <2>3. FindItem(ieds, d, k).ied = Min(ieds)
    BY <1>1, <2>1 DEF FindItem
  <2> QED
    BY <2>2, <2>3
<1>2. CASE op.api \in {"write_oop", "read_oop"}
  <2> DEFINE ieds == {i \in DOMAIN IedList : IedList[i].pn = op.pn}
             ids  == {i \in DOMAIN IdList : IdList[i].id = op.di}
             id   == IdList[Min(ids)]
  <2>1. Found[op] = FindOop(op.pn, op.di)
    BY <1>2 DEF Found
  <2>2. FindOop(op.pn, op.di) = IF ieds # {} /\ ids = {} THEN [found |-> "no id"]
                                ELSE FindItem(ieds, id.do, id.type)
    BY Zenon DEF FindOop
  <2>3. ieds \in SUBSET (1 .. Len(IedList))
    BY ConstAssumption
  <2> HIDE DEF ieds, ids, id
  <2> QED
    <3>1. CASE ieds # {} /\ ids = {}
      BY <2>1, <2>2, <3>1, FailedNotFound
    <3>2. CASE ~(ieds # {} /\ ids = {})
      BY <1>1, <2>1, <2>2, <2>3, <3>2
    <3> QED
      BY <3>1, <3>2
<1>3. CASE op.api \notin {"write_oop", "read_oop"}
  <2> DEFINE points == {i \in DOMAIN PointList[op.list] : PointList[op.list][i].addr = op.addr}
             p    == PointList[op.list][Min(points)]
             ieds == {i \in DOMAIN IedList : IedList[i].tag = p.ied}
  <2>1. Found[op] = FindIec(op.list, op.addr)
    BY <1>3 DEF Found
  <2>2. FindIec(op.list, op.addr) = IF points = {} THEN [found |-> "no addr"]
                                    ELSE FindItem(ieds, p.do, p.type)
    BY Zenon DEF FindIec
  <2>3. ieds \in SUBSET (1 .. Len(IedList))
    BY ConstAssumption
  <2> HIDE DEF ieds, points, p
  <2> QED
    <3>1. CASE points = {}
      BY <2>1, <2>2, <3>1, FailedNotFound
    <3>2. CASE ~(points = {})
      BY <1>1, <2>1, <2>2, <2>3, <3>2
    <3> QED
      BY <3>1, <3>2
<1> QED
  BY <1>2, <1>3

(* What FindItem finds is a data item of the index. *)
LEMMA ItemFound ==
  ASSUME SoundIndex, NEW ieds \in SUBSET (1 .. Len(IedList)), NEW doTag, NEW typeTag,
         FindItem(ieds, doTag, typeTag).found = "item"
  PROVE  \E x \in DataItem :
           /\ FindItem(ieds, doTag, typeTag).ied = x[1]
           /\ FindItem(ieds, doTag, typeTag).start = ItemStart(x)
           /\ FindItem(ieds, doTag, typeTag).lens[1] = ItemLen(x)
<1> DEFINE i     == Min(ieds)
           dos   == {d \in DOMAIN IedList[i].dos : IedList[i].dos[d].tag = doTag}
           d     == Min(dos)
           do    == IedList[i].dos[d]
           types == {k \in DOMAIN do.types : do.types[k].tag = typeTag}
           k     == Min(types)
           found == [found |-> "item", ied |-> i, start |-> do.offset + do.types[k].offset,
                     lens |-> [n \in 1 .. (Len(do.types) - k + 1) |-> do.types[k + n - 1].len]]
<1>1. ieds # {} /\ dos # {} /\ types # {}
  BY DEF FindItem
<1>2. FindItem(ieds, doTag, typeTag) = found
  BY <1>1 DEF FindItem
<1>3. i \in ieds /\ i \in Nat /\ i \in DOMAIN IedList
  <2>1. ieds \in SUBSET Nat
    BY ConstAssumption
  <2>2. i \in ieds
    BY <1>1, <2>1, MinOfNat
  <2> HIDE DEF i
  <2> QED
    BY <2>1, <2>2, ConstAssumption
<1>4. d \in dos /\ d \in Nat /\ d \in DOMAIN IedList[i].dos
  <2>1. dos \in SUBSET Nat
    BY <1>3 DEF SoundIndex
  <2> HIDE DEF i
  <2>2. d \in dos
    BY <1>1, <2>1, MinOfNat
  <2> QED
    BY <2>1, <2>2
<1>5. k \in types /\ k \in Nat /\ k \in DOMAIN do.types
  <2>1. types \in SUBSET Nat
    BY <1>3, <1>4 DEF SoundIndex
  <2> HIDE DEF do
  <2>2. k \in types
    BY <1>1, <2>1, MinOfNat
  <2> QED
    BY <2>1, <2>2
<1>6. Len(do.types) \in Nat /\ k <= Len(do.types)
  <2> HIDE DEF d, i, k
  <2> QED
    BY <1>3, <1>4, <1>5 DEF SoundIndex
<1>7. <<i, d, k>> \in DataItem
  <2> HIDE DEF d, i, k
  <2> QED
    BY <1>3, <1>4, <1>5 DEF DataItem, ItemsOf
<1>8. /\ found.ied = i /\ found.start = do.offset + do.types[k].offset
      /\ found.lens = [n \in 1 .. (Len(do.types) - k + 1) |-> do.types[k + n - 1].len]
  <2> HIDE DEF d, i, k, do
  <2> QED
    OBVIOUS
<1>9. found.lens[1] = do.types[k].len
  <2>1. 1 \in 1 .. (Len(do.types) - k + 1) /\ k + 1 - 1 = k
    <3> HIDE DEF k, do
    <3> QED
      BY <1>5, <1>6
  <2> HIDE DEF d, i, k, do, found
  <2> QED
    BY <1>8, <2>1
<1>10. ItemStart(<<i, d, k>>) = do.offset + do.types[k].offset /\ ItemLen(<<i, d, k>>) = do.types[k].len
  <2> HIDE DEF d, i, k
  <2> QED
    BY DEF ItemStart, ItemLen
<1> HIDE DEF i, d, k, do, found
<1> QED
  BY <1>2, <1>7, <1>8, <1>9, <1>10

(* What the lookups of a call find is a data item of the index. *)
LEMMA CallFindsItem ==
  ASSUME SoundIndex, NEW op \in Ops, Found[op].found = "item"
  PROVE  \E x \in DataItem : /\ Found[op].ied = x[1] /\ Found[op].start = ItemStart(x)
                             /\ Found[op].lens[1] = ItemLen(x)
<1>1. \E ieds \in SUBSET (1 .. Len(IedList)) : \E doTag, typeTag :
         Found[op] = FindItem(ieds, doTag, typeTag)
  <2>2. CASE op.api \in {"write_oop", "read_oop"}
    <3> DEFINE ieds == {i \in DOMAIN IedList : IedList[i].pn = op.pn}
               ids  == {i \in DOMAIN IdList : IdList[i].id = op.di}
               id   == IdList[Min(ids)]
    <3>1. Found[op] = FindOop(op.pn, op.di)
      BY <2>2 DEF Found
    <3>2. FindOop(op.pn, op.di) = IF ieds # {} /\ ids = {} THEN [found |-> "no id"]
                                  ELSE FindItem(ieds, id.do, id.type)
      BY Zenon DEF FindOop
    <3>3. ieds \in SUBSET (1 .. Len(IedList))
      BY ConstAssumption
    <3> HIDE DEF ieds, ids, id
    <3>4. ~(ieds # {} /\ ids = {})
      BY <3>1, <3>2, FailedNotFound
    <3> QED
      BY <3>1, <3>2, <3>3, <3>4
  <2>3. CASE op.api \notin {"write_oop", "read_oop"}
    <3> DEFINE points == {i \in DOMAIN PointList[op.list] : PointList[op.list][i].addr = op.addr}
               p    == PointList[op.list][Min(points)]
               ieds == {i \in DOMAIN IedList : IedList[i].tag = p.ied}
    <3>1. Found[op] = FindIec(op.list, op.addr)
      BY <2>3 DEF Found
    <3>2. FindIec(op.list, op.addr) = IF points = {} THEN [found |-> "no addr"]
                                      ELSE FindItem(ieds, p.do, p.type)
      BY Zenon DEF FindIec
    <3>3. ieds \in SUBSET (1 .. Len(IedList))
      BY ConstAssumption
    <3> HIDE DEF ieds, points, p
    <3>4. points # {}
      BY <3>1, <3>2, FailedNotFound
    <3> QED
      BY <3>1, <3>2, <3>3, <3>4
  <2> QED
    BY <2>2, <2>3
<1> QED
  BY <1>1, ItemFound

(* In a sound index sound calls keep inside the memory, and two of them     *)
(* name one data item or items that share no byte.                          *)
THEOREM IndexIsSound ==
  ASSUME SoundIndex, SoundCalls
  PROVE  Inside /\ Layout
<1>1. ASSUME NEW op \in Ops, Copies(op)
      PROVE  /\ Found[op].start \in Nat /\ Found[op].lens[1] \in Nat
             /\ Found[op].start + Found[op].lens[1] <= MemLen
             /\ \E x \in DataItem : /\ Found[op].ied = x[1] /\ Found[op].start = ItemStart(x)
                                    /\ Found[op].lens[1] = ItemLen(x)
  BY <1>1, CallFindsItem DEF SoundIndex, Copies
<1>2. ASSUME NEW op \in Ops, Copies(op)
      PROVE  /\ CopyLen(op, Found[op]) \in Nat
             /\ Found[op].start + CopyLen(op, Found[op]) <= MemLen
  <2>1. CASE op.api \in Writes
    BY <1>1, <1>2, <2>1 DEF SoundCalls, CopyLen, Writes
  <2>2. CASE op.api = "read_oop"
    <3>1. CopyLen(op, Found[op]) = Min({op.len, Found[op].lens[1]})
      BY <2>2 DEF CopyLen
    <3>2. op.len \in Nat /\ Found[op].lens[1] \in Nat
      BY <1>1, <1>2, <2>2 DEF SoundCalls
    <3> DEFINE m == Min({op.len, Found[op].lens[1]})
    <3>3. m \in Nat /\ m <= Found[op].lens[1]
      BY <3>2, MinOfNat
    <3>4. MemLen \in Nat
      BY ConstAssumption
    <3> HIDE DEF m
    <3> QED
      BY <1>1, <1>2, <3>1, <3>3, <3>4 DEF m
  <2>3. CASE op.api = "read_iec"
    BY <1>2, <2>3 DEF SoundCalls, CopyLen
  <2> QED
    BY <2>1, <2>2, <2>3, OpsAssumption DEF Writes, Reads
<1>3. ASSUME NEW p \in Ops, NEW q \in Ops, Copies(p), Copies(q)
      PROVE  SameItem(p, q) \/ Extent(p) \cap Extent(q) = {}
  <2>1. PICK x \in DataItem : /\ Found[p].ied = x[1] /\ Found[p].start = ItemStart(x)
                              /\ Found[p].lens[1] = ItemLen(x)
    BY <1>1, <1>3
  <2>2. PICK y \in DataItem : /\ Found[q].ied = y[1] /\ Found[q].start = ItemStart(y)
                              /\ Found[q].lens[1] = ItemLen(y)
    BY <1>1, <1>3
  <2>3. CASE x = y
    BY <2>1, <2>2, <2>3 DEF SameItem
  <2>4. CASE x # y
    <3>1. ItemBytes(x) \cap ItemBytes(y) = {}
      BY <2>4 DEF SoundIndex
    <3> QED
      BY <2>1, <2>2, <3>1 DEF Extent, ItemBytes
  <2> QED
    BY <2>3, <2>4
<1>4. Inside
  BY <1>1, <1>2 DEF Inside
<1>5. Layout
  BY <1>1, <1>3 DEF Layout, SoundCalls
<1> QED
  BY <1>4, <1>5

(* The device and the list of a call have a lock, and they differ. *)
LEMMA LocksOfCall ==
  ASSUME NEW op \in Ops
  PROVE  /\ Copies(op) => IedLock(Found[op]) \in Locks
         /\ op.api \in {"write_iec", "read_iec"} => ListLock(op) \in Locks
         /\ \A p \in Ops : IedLock(Found[op]) # ListLock(p)
<1>1. Copies(op) => IedLock(Found[op]) \in Locks
  BY FoundIed DEF Copies, IedLock, Locks
<1>2. op.api \in {"write_iec", "read_iec"} => ListLock(op) \in Locks
  BY OpsAssumption DEF ListLock, Locks
<1>3. \A p \in Ops : IedLock(Found[op]) # ListLock(p)
  BY DEF IedLock, ListLock
<1> QED
  BY <1>1, <1>2, <1>3

(* The invariants hold at the start. *)
LEMMA InitInv ==
  ASSUME Init
  PROVE  /\ TypeOK /\ PlaceInv /\ HoldInv
         /\ Inside /\ Layout => ItemInv
<1> USE DEF Init
<1>1. TypeOK
  <2>1. (CHOOSE op \in Ops : TRUE) \in Ops
    BY OpsAssumption
  <2> QED
    BY <2>1, ConstAssumption DEF TypeOK
<1>2. PlaceInv /\ HoldInv
  BY ConstAssumption DEF PlaceInv, Placed, HoldInv, Holds
<1>3. ASSUME Inside, Layout PROVE ItemInv
  <2>1. ASSUME NEW op \in Ops, Copies(op) PROVE Extent(op) \subseteq 0 .. (MemLen - 1)
    BY <1>3, <2>1, ConstAssumption DEF Inside, Layout, Extent
  <2>2. ASSUME NEW op \in Ops, Copies(op) PROVE Uniform(op)
    BY <2>1, <2>2 DEF Uniform
  <2> QED
    BY <2>2 DEF ItemInv, Writing, Reading
<1> QED
  BY <1>1, <1>2, <1>3

(* Every step keeps the types. *)
LEMMA TypeStep ==
  ASSUME Inside, TypeOK, PlaceInv, [Next]_vars
  PROVE  TypeOK'
<1>typed. /\ owner \in [Locks -> Thread \cup {NoLock}]
      /\ pc \in [Thread -> {"idle", "list", "find", "ied", "copy"}]
      /\ call \in [Thread -> Ops] /\ pos \in [Thread -> Nat] /\ buf \in [Thread -> Seq(Value)]
      /\ ret \in [Thread -> {"none", "ok", "fail"}] /\ DOMAIN item = Thread
      /\ mem \in [0 .. (MemLen - 1) -> Value]
  BY DEF TypeOK
<1>1. ASSUME NEW t \in Thread, NEW op \in Ops, OopCall(t, op)
      PROVE  TypeOK'
  <2>1. /\ pc' \in [Thread -> {"idle", "list", "find", "ied", "copy"}] /\ pc'[t] # "copy"
        /\ ret' \in [Thread -> {"none", "ok", "fail"}]
        /\ \A u \in Thread : u # t => pc'[u] = pc[u]
    BY <1>1, <1>typed DEF OopCall, Finish
  <2>2. /\ call' \in [Thread -> Ops] /\ pos' \in [Thread -> Nat] /\ buf' \in [Thread -> Seq(Value)]
        /\ DOMAIN item' = Thread /\ call'[t] = op /\ item'[t] = Found[op]
        /\ \A u \in Thread : u # t => call'[u] = call[u] /\ item'[u] = item[u] /\ pos'[u] = pos[u]
    BY <1>1, <1>typed DEF OopCall
  <2>3. mem' = mem /\ owner' = owner
    BY <1>1 DEF OopCall
  <2> QED
    BY <2>1, <2>2, <2>3 DEF TypeOK
<1>2. ASSUME NEW t \in Thread, NEW op \in Ops, IecCall(t, op)
      PROVE  TypeOK'
  BY <1>2, <1>typed DEF IecCall, TypeOK
<1>3. ASSUME NEW t \in Thread, IecLockList(t)
      PROVE  TypeOK'
  BY <1>3, <1>typed DEF IecLockList, Lock, TypeOK
<1>4. ASSUME NEW t \in Thread, WriteIecFind(t)
      PROVE  TypeOK'
  BY <1>4, <1>typed DEF WriteIecFind, Finish, TypeOK
<1>5. ASSUME NEW t \in Thread, ReadIecFind(t)
      PROVE  TypeOK'
  BY <1>5, <1>typed DEF ReadIecFind, Finish, TypeOK
<1>6. ASSUME NEW t \in Thread, LockIed(t)
      PROVE  TypeOK'
  <2>1. /\ item[t] = Found[call[t]] /\ pos[t] = 0 /\ call[t] \in Ops /\ Copies(call[t])
    BY <1>6, <1>typed DEF LockIed, PlaceInv, Placed
  <2>2. pos[t] <= CopyLen(call[t], item[t])
    BY <2>1 DEF Inside
  <2>3. owner' \in [Locks -> Thread \cup {NoLock}]
    BY <1>6, <1>typed DEF LockIed, Lock
  <2> QED
    BY <1>6, <1>typed, <2>2, <2>3 DEF LockIed, TypeOK
<1>7. ASSUME NEW t \in Thread, WriteByte(t)
      PROVE  TypeOK'
  <2>1. /\ call[t] \in Ops /\ CopyLen(call[t], item[t]) \in Nat
    BY <1>7, <1>typed DEF WriteByte, PlaceInv, Placed, Inside
  <2>2. mem' \in [0 .. (MemLen - 1) -> Value]
    BY <1>7, <1>typed, <2>1, OpsAssumption DEF WriteByte, Writes
  <2>3. pos' \in [Thread -> Nat] /\ pos'[t] <= CopyLen(call[t], item[t]) /\ \A u \in Thread : u # t => pos'[u] = pos[u]
    BY <1>7, <1>typed, <2>1 DEF WriteByte
  <2>4. UNCHANGED <<owner, pc, call, item, buf, ret>>
    BY <1>7 DEF WriteByte
  <2> QED
    BY <2>2, <2>3, <2>4 DEF TypeOK
<1>8. ASSUME NEW t \in Thread, ReadByte(t)
      PROVE  TypeOK'
  <2>1. /\ call[t] \in Ops /\ Copies(call[t]) /\ item[t] = Found[call[t]]
    BY <1>8, <1>typed DEF ReadByte, PlaceInv, Placed
  <2>2. CopyLen(call[t], item[t]) \in Nat /\ item[t].start + pos[t] \in 0 .. (MemLen - 1)
    BY <1>8, <1>typed, <2>1, ConstAssumption DEF ReadByte, Inside
  <2>3. buf' \in [Thread -> Seq(Value)]
    BY <1>8, <1>typed, <2>2 DEF ReadByte
  <2>4. pos' \in [Thread -> Nat] /\ pos'[t] <= CopyLen(call[t], item[t]) /\ \A u \in Thread : u # t => pos'[u] = pos[u]
    BY <1>8, <1>typed, <2>2 DEF ReadByte
  <2>5. UNCHANGED <<mem, owner, pc, call, item, ret>>
    BY <1>8 DEF ReadByte
  <2> QED
    BY <2>3, <2>4, <2>5 DEF TypeOK
<1>9. ASSUME NEW t \in Thread, CopyDone(t)
      PROVE  TypeOK'
  BY <1>9, <1>typed DEF CopyDone, Finish, TypeOK
<1>10. CASE UNCHANGED vars
  BY <1>10, <1>typed DEF vars, TypeOK
<1> QED
  BY <1>1, <1>2, <1>3, <1>4, <1>5, <1>6, <1>7, <1>8, <1>9, <1>10 DEF Next, Step

(* A thread that does not move, and whose device stays its own, is placed. *)
LEMMA PlacedKept ==
  ASSUME NEW u \in Thread, Placed(u), pc'[u] = pc[u], call'[u] = call[u], item'[u] = item[u],
         pos'[u] = pos[u], buf'[u] = buf[u],
         pc[u] = "copy" => owner'[IedLock(item[u])] = u
  PROVE  Placed(u)'
  BY DEF Placed

(* Every step keeps what a thread has found and holds at its place. *)
LEMMA PlaceStep ==
  ASSUME Inside, TypeOK, PlaceInv, [Next]_vars
  PROVE  PlaceInv'
<1>typed. /\ owner \in [Locks -> Thread \cup {NoLock}]
      /\ pc \in [Thread -> {"idle", "list", "find", "ied", "copy"}]
      /\ call \in [Thread -> Ops] /\ pos \in [Thread -> Nat] /\ buf \in [Thread -> Seq(Value)]
      /\ ret \in [Thread -> {"none", "ok", "fail"}] /\ DOMAIN item = Thread
      /\ mem \in [0 .. (MemLen - 1) -> Value]
  BY DEF TypeOK
<1>place. \A t \in Thread : Placed(t)
  BY DEF PlaceInv
<1>locks. ASSUME NEW t \in Thread, pc[t] = "copy"
          PROVE  /\ IedLock(item[t]) \in Locks /\ owner[IedLock(item[t])] = t
                 /\ \A op \in Ops : IedLock(item[t]) # ListLock(op)
  <2>1. call[t] \in Ops /\ Copies(call[t]) /\ item[t] = Found[call[t]] /\ owner[IedLock(item[t])] = t
    BY <1>locks, <1>typed, <1>place DEF Placed
  <2> QED
    BY <2>1, LocksOfCall
<1>1. ASSUME NEW t \in Thread, NEW op \in Ops, OopCall(t, op)
      PROVE  PlaceInv'
  <2>1. \A u \in Thread : u # t => /\ pc'[u] = pc[u] /\ call'[u] = call[u] /\ item'[u] = item[u]
                                    /\ pos'[u] = pos[u] /\ buf'[u] = buf[u]
    BY <1>1, <1>typed DEF OopCall, Finish
  <2>2. ASSUME NEW u \in Thread, u # t, pc[u] = "copy"
        PROVE  owner'[IedLock(item[u])] = u
    BY <1>1, <1>typed, <1>locks, <2>2 DEF OopCall, Finish
  <2>3. Placed(t)'
    <3>1. pc'[t] \in {"idle", "ied"} /\ item'[t] = Found[op] /\ call'[t] = op /\ pos'[t] = 0 /\ buf'[t] = <<>>
      BY <1>1, <1>typed DEF OopCall, Finish
    <3>2. pc'[t] = "ied" => Copies(op)
      BY <1>1, <1>typed DEF OopCall, Finish, Copies
    <3> QED
      BY <3>1, <3>2 DEF Placed
  <2>4. ASSUME NEW u \in Thread PROVE Placed(u)'
    <3>1. CASE u = t
      BY <2>3, <3>1
    <3>2. CASE u # t
      BY <2>1, <2>2, <3>2, <1>place, PlacedKept
    <3> QED
      BY <3>1, <3>2
  <2> QED
    BY <2>4 DEF PlaceInv
<1>2. ASSUME NEW t \in Thread, NEW op \in Ops, IecCall(t, op)
      PROVE  PlaceInv'
  <2>1. \A u \in Thread : u # t => /\ pc'[u] = pc[u] /\ call'[u] = call[u] /\ item'[u] = item[u]
                                    /\ pos'[u] = pos[u] /\ buf'[u] = buf[u]
    BY <1>2, <1>typed DEF IecCall
  <2>2. ASSUME NEW u \in Thread, u # t, pc[u] = "copy"
        PROVE  owner'[IedLock(item[u])] = u
    BY <1>2, <1>typed, <1>locks, <2>2 DEF IecCall
  <2>3. Placed(t)'
    BY <1>2, <1>typed DEF IecCall, Placed
  <2>4. ASSUME NEW u \in Thread PROVE Placed(u)'
    <3>1. CASE u = t
      BY <2>3, <3>1
    <3>2. CASE u # t
      BY <2>1, <2>2, <3>2, <1>place, PlacedKept
    <3> QED
      BY <3>1, <3>2
  <2> QED
    BY <2>4 DEF PlaceInv
<1>3. ASSUME NEW t \in Thread, IecLockList(t)
      PROVE  PlaceInv'
  <2>1. \A u \in Thread : u # t => /\ pc'[u] = pc[u] /\ call'[u] = call[u] /\ item'[u] = item[u]
                                    /\ pos'[u] = pos[u] /\ buf'[u] = buf[u]
    BY <1>3, <1>typed DEF IecLockList, Lock
  <2>2. ASSUME NEW u \in Thread, u # t, pc[u] = "copy"
        PROVE  owner'[IedLock(item[u])] = u
    BY <1>3, <1>typed, <1>locks, <2>2, ConstAssumption DEF IecLockList, Lock
  <2>3. Placed(t)'
    BY <1>3, <1>typed, <1>place DEF IecLockList, Placed
  <2>4. ASSUME NEW u \in Thread PROVE Placed(u)'
    <3>1. CASE u = t
      BY <2>3, <3>1
    <3>2. CASE u # t
      BY <2>1, <2>2, <3>2, <1>place, PlacedKept
    <3> QED
      BY <3>1, <3>2
  <2> QED
    BY <2>4 DEF PlaceInv
<1>4. ASSUME NEW t \in Thread, WriteIecFind(t)
      PROVE  PlaceInv'
  <2>1. \A u \in Thread : u # t => /\ pc'[u] = pc[u] /\ call'[u] = call[u] /\ item'[u] = item[u]
                                    /\ pos'[u] = pos[u] /\ buf'[u] = buf[u]
    BY <1>4, <1>typed DEF WriteIecFind, Finish
  <2>2. ASSUME NEW u \in Thread, u # t, pc[u] = "copy"
        PROVE  owner'[IedLock(item[u])] = u
    <3>1. IedLock(item[u]) \in Locks /\ owner[IedLock(item[u])] = u /\ IedLock(item[u]) # ListLock(call[t])
      BY <1>typed, <1>locks, <2>2
    <3>2. owner' = owner \/ owner' = [owner EXCEPT ![ListLock(call[t])] = NoLock]
      BY <1>4 DEF WriteIecFind
    <3> QED
      BY <3>1, <3>2, <1>typed
  <2>3. Placed(t)'
    <3>1. pc'[t] \in {"idle", "ied"} /\ item'[t] = Found[call[t]] /\ call' = call /\ pos' = pos /\ buf' = buf /\ pc[t] = "find"
      BY <1>4, <1>typed DEF WriteIecFind, Finish
    <3>2. pc'[t] = "ied" => Copies(call[t])
      BY <1>4, <1>typed DEF WriteIecFind, Finish, Copies
    <3> QED
      BY <3>1, <3>2, <1>place DEF Placed
  <2>4. ASSUME NEW u \in Thread PROVE Placed(u)'
    <3>1. CASE u = t
      BY <2>3, <3>1
    <3>2. CASE u # t
      BY <2>1, <2>2, <3>2, <1>place, PlacedKept
    <3> QED
      BY <3>1, <3>2
  <2> QED
    BY <2>4 DEF PlaceInv
<1>5. ASSUME NEW t \in Thread, ReadIecFind(t)
      PROVE  PlaceInv'
  <2>1. \A u \in Thread : u # t => /\ pc'[u] = pc[u] /\ call'[u] = call[u] /\ item'[u] = item[u]
                                    /\ pos'[u] = pos[u] /\ buf'[u] = buf[u]
    BY <1>5, <1>typed DEF ReadIecFind, Finish
  <2>2. ASSUME NEW u \in Thread, u # t, pc[u] = "copy"
        PROVE  owner'[IedLock(item[u])] = u
    <3>1. IedLock(item[u]) \in Locks /\ owner[IedLock(item[u])] = u /\ IedLock(item[u]) # ListLock(call[t])
      BY <1>typed, <1>locks, <2>2
    <3>2. owner' = owner \/ owner' = [owner EXCEPT ![ListLock(call[t])] = NoLock]
      BY <1>5 DEF ReadIecFind
    <3> QED
      BY <3>1, <3>2, <1>typed
  <2>3. Placed(t)'
    <3>1. pc'[t] \in {"idle", "ied"} /\ item'[t] = Found[call[t]] /\ call' = call /\ pos' = pos /\ buf' = buf /\ pc[t] = "find"
      BY <1>5, <1>typed DEF ReadIecFind, Finish
    <3>2. pc'[t] = "ied" => Copies(call[t])
      BY <1>5, <1>typed DEF ReadIecFind, Finish, Copies
    <3> QED
      BY <3>1, <3>2, <1>place DEF Placed
  <2>4. ASSUME NEW u \in Thread PROVE Placed(u)'
    <3>1. CASE u = t
      BY <2>3, <3>1
    <3>2. CASE u # t
      BY <2>1, <2>2, <3>2, <1>place, PlacedKept
    <3> QED
      BY <3>1, <3>2
  <2> QED
    BY <2>4 DEF PlaceInv
<1>6. ASSUME NEW t \in Thread, LockIed(t)
      PROVE  PlaceInv'
  <2>1. \A u \in Thread : u # t => /\ pc'[u] = pc[u] /\ call'[u] = call[u] /\ item'[u] = item[u]
                                    /\ pos'[u] = pos[u] /\ buf'[u] = buf[u]
    BY <1>6, <1>typed DEF LockIed, Lock
  <2>2. ASSUME NEW u \in Thread, u # t, pc[u] = "copy"
        PROVE  owner'[IedLock(item[u])] = u
    BY <1>6, <1>typed, <1>locks, <2>2, ConstAssumption DEF LockIed, Lock
  <2>3. Placed(t)'
    <3>1. pc[t] = "ied" /\ pc'[t] = "copy" /\ item' = item /\ call' = call /\ item[t] = Found[call[t]] /\ Copies(call[t])
      BY <1>6, <1>typed, <1>place DEF LockIed, Placed
    <3>2. IedLock(item[t]) \in Locks
      BY <3>1, <1>typed, LocksOfCall
    <3>3. owner'[IedLock(item[t])] = t
      BY <1>6, <3>2, <1>typed DEF LockIed, Lock
    <3> QED
      BY <3>1, <3>3 DEF Placed
  <2>4. ASSUME NEW u \in Thread PROVE Placed(u)'
    <3>1. CASE u = t
      BY <2>3, <3>1
    <3>2. CASE u # t
      BY <2>1, <2>2, <3>2, <1>place, PlacedKept
    <3> QED
      BY <3>1, <3>2
  <2> QED
    BY <2>4 DEF PlaceInv
<1>7. ASSUME NEW t \in Thread, WriteByte(t)
      PROVE  PlaceInv'
  <2>1. \A u \in Thread : u # t => /\ pc'[u] = pc[u] /\ call'[u] = call[u] /\ item'[u] = item[u]
                                    /\ pos'[u] = pos[u] /\ buf'[u] = buf[u]
    BY <1>7, <1>typed DEF WriteByte
  <2>2. ASSUME NEW u \in Thread, u # t, pc[u] = "copy"
        PROVE  owner'[IedLock(item[u])] = u
    BY <1>7, <1>typed, <1>locks, <2>2 DEF WriteByte
  <2>3. Placed(t)'
    BY <1>7, <1>typed, <1>place DEF WriteByte, Placed
  <2>4. ASSUME NEW u \in Thread PROVE Placed(u)'
    <3>1. CASE u = t
      BY <2>3, <3>1
    <3>2. CASE u # t
      BY <2>1, <2>2, <3>2, <1>place, PlacedKept
    <3> QED
      BY <3>1, <3>2
  <2> QED
    BY <2>4 DEF PlaceInv
<1>8. ASSUME NEW t \in Thread, ReadByte(t)
      PROVE  PlaceInv'
  <2>1. \A u \in Thread : u # t => /\ pc'[u] = pc[u] /\ call'[u] = call[u] /\ item'[u] = item[u]
                                    /\ pos'[u] = pos[u] /\ buf'[u] = buf[u]
    BY <1>8, <1>typed DEF ReadByte
  <2>2. ASSUME NEW u \in Thread, u # t, pc[u] = "copy"
        PROVE  owner'[IedLock(item[u])] = u
    BY <1>8, <1>typed, <1>locks, <2>2 DEF ReadByte
  <2>3. Placed(t)'
    BY <1>8, <1>typed, <1>place DEF ReadByte, Placed
  <2>4. ASSUME NEW u \in Thread PROVE Placed(u)'
    <3>1. CASE u = t
      BY <2>3, <3>1
    <3>2. CASE u # t
      BY <2>1, <2>2, <3>2, <1>place, PlacedKept
    <3> QED
      BY <3>1, <3>2
  <2> QED
    BY <2>4 DEF PlaceInv
<1>9. ASSUME NEW t \in Thread, CopyDone(t)
      PROVE  PlaceInv'
  <2>1. \A u \in Thread : u # t => /\ pc'[u] = pc[u] /\ call'[u] = call[u] /\ item'[u] = item[u]
                                    /\ pos'[u] = pos[u] /\ buf'[u] = buf[u]
    BY <1>9, <1>typed DEF CopyDone, Finish
  <2>2. ASSUME NEW u \in Thread, u # t, pc[u] = "copy"
        PROVE  owner'[IedLock(item[u])] = u
    BY <1>9, <1>typed, <1>locks, <2>2 DEF CopyDone, Finish, Unlocked
  <2>3. Placed(t)'
    BY <1>9, <1>typed DEF CopyDone, Finish, Placed
  <2>4. ASSUME NEW u \in Thread PROVE Placed(u)'
    <3>1. CASE u = t
      BY <2>3, <3>1
    <3>2. CASE u # t
      BY <2>1, <2>2, <3>2, <1>place, PlacedKept
    <3> QED
      BY <3>1, <3>2
  <2> QED
    BY <2>4 DEF PlaceInv
<1>10. CASE UNCHANGED vars
  BY <1>10, <1>place DEF vars, PlaceInv, Placed
<1> QED
  BY <1>1, <1>2, <1>3, <1>4, <1>5, <1>6, <1>7, <1>8, <1>9, <1>10 DEF Next, Step

(* Every step keeps the locks that no path leaves behind to the calls that  *)
(* took them.                                                               *)
LEMMA LeakStep ==
  ASSUME TypeOK, PlaceInv, LeakInv, [Next]_vars
  PROVE  LeakInv'
<1>typed. /\ owner \in [Locks -> Thread \cup {NoLock}]
      /\ pc \in [Thread -> {"idle", "list", "find", "ied", "copy"}]
      /\ call \in [Thread -> Ops] /\ pos \in [Thread -> Nat] /\ buf \in [Thread -> Seq(Value)]
      /\ ret \in [Thread -> {"none", "ok", "fail"}] /\ DOMAIN item = Thread
      /\ mem \in [0 .. (MemLen - 1) -> Value]
  BY DEF TypeOK
<1>hold. \A t \in Thread : \A l \in Locks \ Leaked : owner[l] = t => Holds(t, l)
  BY DEF LeakInv
<1>place. \A t \in Thread : Placed(t)
  BY DEF PlaceInv
<1>leaked. ASSUME NEW op \in Ops
           PROVE  /\ op.api = "write_iec" /\ Found[op].found = "item" => IedLock(Found[op]) \in Leaked
                  /\ op.api = "write_iec" /\ Found[op].found = "no type" => ListLock(op) \in Leaked
                  /\ op.api = "read_iec" /\ Found[op].found = "no ied" => ListLock(op) \in Leaked
  BY DEF Leaked
<1>1. ASSUME NEW t \in Thread, NEW op \in Ops, OopCall(t, op)
      PROVE  LeakInv'
  <2>1. \A u \in Thread : u # t => pc'[u] = pc[u] /\ call'[u] = call[u] /\ item'[u] = item[u]
    BY <1>1, <1>typed DEF OopCall, Finish
  <2>2. \A u \in Thread : u # t => \A l \in Locks \ Leaked : owner'[l] = u => owner[l] = u
    BY <1>1, <1>typed, ConstAssumption DEF OopCall, Finish
  <2>3. ASSUME NEW l \in Locks \ Leaked, owner'[l] = t PROVE Holds(t, l)'
    <3>1. ~Holds(t, l) /\ owner[l] = t
      BY <1>1, <2>3 DEF OopCall, Holds
    <3> QED
      BY <3>1, <1>hold
  <2>4. ASSUME NEW u \in Thread, NEW l \in Locks \ Leaked, owner'[l] = u PROVE Holds(u, l)'
    <3>1. CASE u = t
      BY <2>3, <2>4, <3>1
    <3>2. CASE u # t
      BY <2>1, <2>2, <2>4, <3>2, <1>hold DEF Holds
    <3> QED
      BY <3>1, <3>2
  <2> QED
    BY <2>4 DEF LeakInv
<1>2. ASSUME NEW t \in Thread, NEW op \in Ops, IecCall(t, op)
      PROVE  LeakInv'
  <2>1. \A u \in Thread : u # t => pc'[u] = pc[u] /\ call'[u] = call[u] /\ item'[u] = item[u]
    BY <1>2, <1>typed DEF IecCall
  <2>2. \A u \in Thread : u # t => \A l \in Locks \ Leaked : owner'[l] = u => owner[l] = u
    BY <1>2, <1>typed, ConstAssumption DEF IecCall
  <2>3. ASSUME NEW l \in Locks \ Leaked, owner'[l] = t PROVE Holds(t, l)'
    <3>1. ~Holds(t, l) /\ owner[l] = t
      BY <1>2, <2>3 DEF IecCall, Holds
    <3> QED
      BY <3>1, <1>hold
  <2>4. ASSUME NEW u \in Thread, NEW l \in Locks \ Leaked, owner'[l] = u PROVE Holds(u, l)'
    <3>1. CASE u = t
      BY <2>3, <2>4, <3>1
    <3>2. CASE u # t
      BY <2>1, <2>2, <2>4, <3>2, <1>hold DEF Holds
    <3> QED
      BY <3>1, <3>2
  <2> QED
    BY <2>4 DEF LeakInv
<1>3. ASSUME NEW t \in Thread, IecLockList(t)
      PROVE  LeakInv'
  <2>1. \A u \in Thread : u # t => pc'[u] = pc[u] /\ call'[u] = call[u] /\ item'[u] = item[u]
    BY <1>3, <1>typed DEF IecLockList, Lock
  <2>2. \A u \in Thread : u # t => \A l \in Locks \ Leaked : owner'[l] = u => owner[l] = u
    BY <1>3, <1>typed, ConstAssumption DEF IecLockList, Lock
  <2>3. ASSUME NEW l \in Locks \ Leaked, owner'[l] = t PROVE Holds(t, l)'
    <3>1. pc[t] = "list" /\ pc'[t] = "find" /\ call' = call /\ call[t].api \in {"write_iec", "read_iec"}
      BY <1>3, <1>typed, <1>place DEF IecLockList, Placed
    <3>2. owner[l] # t
      BY <3>1, <1>hold DEF Holds
    <3>3. l = ListLock(call[t])
      BY <1>3, <2>3, <3>2, <1>typed DEF IecLockList, Lock
    <3> QED
      BY <3>1, <3>3 DEF Holds
  <2>4. ASSUME NEW u \in Thread, NEW l \in Locks \ Leaked, owner'[l] = u PROVE Holds(u, l)'
    <3>1. CASE u = t
      BY <2>3, <2>4, <3>1
    <3>2. CASE u # t
      BY <2>1, <2>2, <2>4, <3>2, <1>hold DEF Holds
    <3> QED
      BY <3>1, <3>2
  <2> QED
    BY <2>4 DEF LeakInv
<1>4. ASSUME NEW t \in Thread, WriteIecFind(t)
      PROVE  LeakInv'
  <2>1. \A u \in Thread : u # t => pc'[u] = pc[u] /\ call'[u] = call[u] /\ item'[u] = item[u]
    BY <1>4, <1>typed DEF WriteIecFind, Finish
  <2>2. \A u \in Thread : u # t => \A l \in Locks \ Leaked : owner'[l] = u => owner[l] = u
    BY <1>4, <1>typed, ConstAssumption DEF WriteIecFind, Finish
  <2>3. ASSUME NEW l \in Locks \ Leaked, owner'[l] = t PROVE Holds(t, l)'
    <3>1. pc[t] = "find" /\ call[t].api = "write_iec" /\ call[t] \in Ops /\ call' = call
      BY <1>4, <1>typed DEF WriteIecFind
    <3>2. owner[l] = t
      BY <1>4, <2>3, <1>typed, ConstAssumption DEF WriteIecFind, Finish
    <3>3. l = ListLock(call[t])
      BY <3>1, <3>2, <1>hold DEF Holds
    <3>4. pc'[t] = "ied" \/ owner' = [owner EXCEPT ![ListLock(call[t])] = NoLock]
      <4>1. Found[call[t]].found # "no type"
        BY <2>3, <3>1, <3>3, <1>leaked
      <4> QED
        BY <1>4, <3>1, <4>1, <1>typed DEF WriteIecFind, Finish
    <3>5. pc'[t] = "ied"
      BY <2>3, <3>3, <3>4, <1>typed, ConstAssumption
    <3> QED
      BY <3>1, <3>3, <3>5 DEF Holds
  <2>4. ASSUME NEW u \in Thread, NEW l \in Locks \ Leaked, owner'[l] = u PROVE Holds(u, l)'
    <3>1. CASE u = t
      BY <2>3, <2>4, <3>1
    <3>2. CASE u # t
      BY <2>1, <2>2, <2>4, <3>2, <1>hold DEF Holds
    <3> QED
      BY <3>1, <3>2
  <2> QED
    BY <2>4 DEF LeakInv
<1>5. ASSUME NEW t \in Thread, ReadIecFind(t)
      PROVE  LeakInv'
  <2>1. \A u \in Thread : u # t => pc'[u] = pc[u] /\ call'[u] = call[u] /\ item'[u] = item[u]
    BY <1>5, <1>typed DEF ReadIecFind, Finish
  <2>2. \A u \in Thread : u # t => \A l \in Locks \ Leaked : owner'[l] = u => owner[l] = u
    BY <1>5, <1>typed, ConstAssumption DEF ReadIecFind, Finish
  <2>3. ASSUME NEW l \in Locks \ Leaked, owner'[l] = t PROVE Holds(t, l)'
    <3>1. pc[t] = "find" /\ call[t].api = "read_iec" /\ call[t] \in Ops /\ call' = call
      BY <1>5, <1>typed DEF ReadIecFind
    <3>2. owner[l] = t
      BY <1>5, <2>3, <1>typed, ConstAssumption DEF ReadIecFind, Finish
    <3>3. l = ListLock(call[t])
      BY <3>1, <3>2, <1>hold DEF Holds
    <3>4. pc'[t] = "ied" \/ owner' = [owner EXCEPT ![ListLock(call[t])] = NoLock]
      <4>1. Found[call[t]].found # "no ied"
        BY <2>3, <3>1, <3>3, <1>leaked
      <4> QED
        BY <1>5, <3>1, <4>1, <1>typed DEF ReadIecFind, Finish
    <3>5. pc'[t] = "ied"
      BY <2>3, <3>3, <3>4, <1>typed, ConstAssumption
    <3> QED
      BY <3>1, <3>3, <3>5 DEF Holds
  <2>4. ASSUME NEW u \in Thread, NEW l \in Locks \ Leaked, owner'[l] = u PROVE Holds(u, l)'
    <3>1. CASE u = t
      BY <2>3, <2>4, <3>1
    <3>2. CASE u # t
      BY <2>1, <2>2, <2>4, <3>2, <1>hold DEF Holds
    <3> QED
      BY <3>1, <3>2
  <2> QED
    BY <2>4 DEF LeakInv
<1>6. ASSUME NEW t \in Thread, LockIed(t)
      PROVE  LeakInv'
  <2>1. \A u \in Thread : u # t => pc'[u] = pc[u] /\ call'[u] = call[u] /\ item'[u] = item[u]
    BY <1>6, <1>typed DEF LockIed, Lock
  <2>2. \A u \in Thread : u # t => \A l \in Locks \ Leaked : owner'[l] = u => owner[l] = u
    BY <1>6, <1>typed, ConstAssumption DEF LockIed, Lock
  <2>3. ASSUME NEW l \in Locks \ Leaked, owner'[l] = t PROVE Holds(t, l)'
    <3>1. pc[t] = "ied" /\ pc'[t] = "copy" /\ call' = call /\ item' = item
      BY <1>6, <1>typed DEF LockIed
    <3>2. CASE owner[l] = t
      BY <3>1, <3>2, <1>hold DEF Holds
    <3>3. CASE owner[l] # t
      <4>1. l = IedLock(item[t])
        BY <1>6, <2>3, <3>3, <1>typed DEF LockIed, Lock
      <4> QED
        BY <3>1, <4>1 DEF Holds
    <3> QED
      BY <3>2, <3>3
  <2>4. ASSUME NEW u \in Thread, NEW l \in Locks \ Leaked, owner'[l] = u PROVE Holds(u, l)'
    <3>1. CASE u = t
      BY <2>3, <2>4, <3>1
    <3>2. CASE u # t
      BY <2>1, <2>2, <2>4, <3>2, <1>hold DEF Holds
    <3> QED
      BY <3>1, <3>2
  <2> QED
    BY <2>4 DEF LeakInv
<1>7. ASSUME NEW t \in Thread, WriteByte(t)
      PROVE  LeakInv'
  BY <1>7, <1>hold DEF WriteByte, LeakInv, Holds
<1>8. ASSUME NEW t \in Thread, ReadByte(t)
      PROVE  LeakInv'
  BY <1>8, <1>hold DEF ReadByte, LeakInv, Holds
<1>9. ASSUME NEW t \in Thread, CopyDone(t)
      PROVE  LeakInv'
  <2>1. \A u \in Thread : u # t => pc'[u] = pc[u] /\ call'[u] = call[u] /\ item'[u] = item[u]
    BY <1>9, <1>typed DEF CopyDone, Finish
  <2>2. \A u \in Thread : u # t => \A l \in Locks \ Leaked : owner'[l] = u => owner[l] = u
    BY <1>9, <1>typed, ConstAssumption DEF CopyDone, Finish
  <2>3. ASSUME NEW l \in Locks \ Leaked, owner'[l] = t PROVE Holds(t, l)'
    <3>1. pc[t] = "copy" /\ call[t] \in Ops /\ Copies(call[t]) /\ item[t] = Found[call[t]]
      BY <1>9, <1>typed, <1>place DEF CopyDone, Placed
    <3>2. owner[l] = t /\ l \notin Unlocked(call[t], item[t])
      BY <1>9, <2>3, <1>typed, ConstAssumption DEF CopyDone
    <3>3. call[t].api # "write_iec" \/ l # IedLock(item[t])
      BY <2>3, <3>1, <1>leaked DEF Copies
    <3>4. Holds(t, l)
      BY <2>3, <3>2, <1>hold
    <3> QED
      BY <3>2, <3>3, <3>4 DEF Holds, Unlocked
  <2>4. ASSUME NEW u \in Thread, NEW l \in Locks \ Leaked, owner'[l] = u PROVE Holds(u, l)'
    <3>1. CASE u = t
      BY <2>3, <2>4, <3>1
    <3>2. CASE u # t
      BY <2>1, <2>2, <2>4, <3>2, <1>hold DEF Holds
    <3> QED
      BY <3>1, <3>2
  <2> QED
    BY <2>4 DEF LeakInv
<1>10. CASE UNCHANGED vars
  BY <1>10, <1>hold DEF vars, LeakInv, Holds
<1> QED
  BY <1>1, <1>2, <1>3, <1>4, <1>5, <1>6, <1>7, <1>8, <1>9, <1>10 DEF Next, Step

(* Clean calls leave no lock behind. *)
LEMMA NothingLeaked ==
  ASSUME CleanCalls
  PROVE  Leaked = {} /\ (LeakInv <=> HoldInv)
<1>1. Leaked = {}
  BY DEF CleanCalls, Leaked
<1> QED
  BY <1>1 DEF LeakInv, HoldInv

(* Where no byte and no copying thread changes, the items are as they were. *)
LEMMA ItemKept ==
  ASSUME ItemInv, mem' = mem,
         \A u \in Thread : pc'[u] = "copy" <=> pc[u] = "copy",
         \A u \in Thread : pc[u] = "copy" => /\ call'[u] = call[u] /\ item'[u] = item[u]
                                             /\ pos'[u] = pos[u] /\ buf'[u] = buf[u]
  PROVE  ItemInv'
<1>1. \A u \in Thread : /\ Writing(u)' <=> Writing(u)
                        /\ Reading(u)' <=> Reading(u)
  BY DEF Writing, Reading
<1>2. \A op \in Ops : Copies(op) =>
        Uniform(op)' \/ \E t \in Thread : Writing(t)' /\ SameItem(call'[t], op)
  BY <1>1 DEF ItemInv, Uniform, Writing
<1>3. \A t \in Thread : Writing(t)' =>
        \A x \in Extent(call'[t]) : x < item'[t].start + pos'[t] => mem'[x] = call'[t].val
  BY <1>1 DEF ItemInv, Writing
<1>4. \A t \in Thread : Reading(t)' =>
        /\ Len(buf'[t]) = pos'[t]
        /\ \A i \in 1 .. Len(buf'[t]) : i <= item'[t].lens[1] => buf'[t][i] = mem'[item'[t].start]
  BY <1>1 DEF ItemInv, Reading
<1> QED
  BY <1>2, <1>3, <1>4 DEF ItemInv

(* A thread that copies has found an item inside the memory; two threads    *)
(* that copy the same item are one.                                         *)
LEMMA CopyFacts ==
  ASSUME Inside, Layout, TypeOK, PlaceInv, NEW t \in Thread, pc[t] = "copy"
  PROVE  /\ call[t] \in Ops /\ Copies(call[t]) /\ item[t] = Found[call[t]]
         /\ item[t].start \in Nat /\ item[t].lens[1] \in Nat /\ pos[t] \in Nat
         /\ Extent(call[t]) = item[t].start .. (item[t].start + item[t].lens[1] - 1)
         /\ Extent(call[t]) \subseteq 0 .. (MemLen - 1)
         /\ call[t].api \in Writes => CopyLen(call[t], item[t]) = item[t].lens[1]
         /\ \A u \in Thread : pc[u] = "copy" /\ SameItem(call[u], call[t]) => u = t
<1>1. call[t] \in Ops /\ Copies(call[t]) /\ item[t] = Found[call[t]] /\ pos[t] \in Nat
  BY DEF TypeOK, PlaceInv, Placed
<1>2. /\ item[t].start \in Nat /\ item[t].lens[1] \in Nat
      /\ item[t].start + item[t].lens[1] <= MemLen
      /\ call[t].api \in Writes => call[t].len = item[t].lens[1]
  BY <1>1 DEF Inside, Layout
<1>3. Extent(call[t]) = item[t].start .. (item[t].start + item[t].lens[1] - 1)
  BY <1>1 DEF Extent
<1>4. Extent(call[t]) \subseteq 0 .. (MemLen - 1)
  BY <1>2, <1>3, ConstAssumption
<1>5. call[t].api \in Writes => CopyLen(call[t], item[t]) = item[t].lens[1]
  BY <1>2 DEF CopyLen, Writes
<1>6. ASSUME NEW u \in Thread, pc[u] = "copy", SameItem(call[u], call[t]) PROVE u = t
  <2>1. item[u] = Found[call[u]] /\ owner[IedLock(item[u])] = u /\ owner[IedLock(item[t])] = t
    BY <1>6 DEF PlaceInv, Placed
  <2>2. IedLock(item[u]) = IedLock(item[t])
    BY <1>1, <1>6, <2>1 DEF SameItem, IedLock
  <2> QED
    BY <2>1, <2>2
<1> QED
  BY <1>1, <1>2, <1>3, <1>4, <1>5, <1>6

(* Every step keeps the items whole. *)
LEMMA ItemStep ==
  ASSUME Inside, Layout, TypeOK, PlaceInv, ItemInv, [Next]_vars
  PROVE  ItemInv'
<1>typed. /\ owner \in [Locks -> Thread \cup {NoLock}]
      /\ pc \in [Thread -> {"idle", "list", "find", "ied", "copy"}]
      /\ call \in [Thread -> Ops] /\ pos \in [Thread -> Nat] /\ buf \in [Thread -> Seq(Value)]
      /\ ret \in [Thread -> {"none", "ok", "fail"}] /\ DOMAIN item = Thread
      /\ mem \in [0 .. (MemLen - 1) -> Value]
  BY DEF TypeOK
<1>1. ASSUME NEW t \in Thread, NEW op \in Ops, OopCall(t, op)
      PROVE  ItemInv'
  <2>1. mem' = mem
    BY <1>1 DEF OopCall, Finish
  <2>2. \A u \in Thread : pc'[u] = "copy" <=> pc[u] = "copy"
    BY <1>1, <1>typed DEF OopCall, Finish
  <2>3. \A u \in Thread : pc[u] = "copy" => /\ call'[u] = call[u] /\ item'[u] = item[u]
                                            /\ pos'[u] = pos[u] /\ buf'[u] = buf[u]
    BY <1>1, <1>typed DEF OopCall, Finish
  <2> QED
    BY <2>1, <2>2, <2>3, ItemKept
<1>2. ASSUME NEW t \in Thread, NEW op \in Ops, IecCall(t, op)
      PROVE  ItemInv'
  <2>1. mem' = mem
    BY <1>2 DEF IecCall
  <2>2. \A u \in Thread : pc'[u] = "copy" <=> pc[u] = "copy"
    BY <1>2, <1>typed DEF IecCall
  <2>3. \A u \in Thread : pc[u] = "copy" => /\ call'[u] = call[u] /\ item'[u] = item[u]
                                            /\ pos'[u] = pos[u] /\ buf'[u] = buf[u]
    BY <1>2, <1>typed DEF IecCall
  <2> QED
    BY <2>1, <2>2, <2>3, ItemKept
<1>3. ASSUME NEW t \in Thread, IecLockList(t)
      PROVE  ItemInv'
  <2>1. mem' = mem
    BY <1>3 DEF IecLockList, Lock
  <2>2. \A u \in Thread : pc'[u] = "copy" <=> pc[u] = "copy"
    BY <1>3, <1>typed DEF IecLockList, Lock
  <2>3. \A u \in Thread : pc[u] = "copy" => /\ call'[u] = call[u] /\ item'[u] = item[u]
                                            /\ pos'[u] = pos[u] /\ buf'[u] = buf[u]
    BY <1>3, <1>typed DEF IecLockList, Lock
  <2> QED
    BY <2>1, <2>2, <2>3, ItemKept
<1>4. ASSUME NEW t \in Thread, WriteIecFind(t)
      PROVE  ItemInv'
  <2>1. mem' = mem
    BY <1>4 DEF WriteIecFind, Finish
  <2>2. \A u \in Thread : pc'[u] = "copy" <=> pc[u] = "copy"
    BY <1>4, <1>typed DEF WriteIecFind, Finish
  <2>3. \A u \in Thread : pc[u] = "copy" => /\ call'[u] = call[u] /\ item'[u] = item[u]
                                            /\ pos'[u] = pos[u] /\ buf'[u] = buf[u]
    BY <1>4, <1>typed DEF WriteIecFind, Finish
  <2> QED
    BY <2>1, <2>2, <2>3, ItemKept
<1>5. ASSUME NEW t \in Thread, ReadIecFind(t)
      PROVE  ItemInv'
  <2>1. mem' = mem
    BY <1>5 DEF ReadIecFind, Finish
  <2>2. \A u \in Thread : pc'[u] = "copy" <=> pc[u] = "copy"
    BY <1>5, <1>typed DEF ReadIecFind, Finish
  <2>3. \A u \in Thread : pc[u] = "copy" => /\ call'[u] = call[u] /\ item'[u] = item[u]
                                            /\ pos'[u] = pos[u] /\ buf'[u] = buf[u]
    BY <1>5, <1>typed DEF ReadIecFind, Finish
  <2> QED
    BY <2>1, <2>2, <2>3, ItemKept
<1>6. ASSUME NEW t \in Thread, LockIed(t)
      PROVE  ItemInv'
  <2>1. mem' = mem /\ call' = call /\ item' = item /\ pos' = pos /\ buf' = buf
    BY <1>6 DEF LockIed
  <2>2. pc[t] = "ied" /\ pc'[t] = "copy" /\ \A u \in Thread : u # t => pc'[u] = pc[u]
    BY <1>6, <1>typed DEF LockIed
  <2>3. pos[t] = 0 /\ buf[t] = <<>> /\ item[t] = Found[call[t]] /\ Copies(call[t]) /\ call[t] \in Ops
    BY <2>2, <1>typed DEF PlaceInv, Placed
  <2>4. \A op \in Ops : Copies(op) =>
          Uniform(op)' \/ \E u \in Thread : Writing(u)' /\ SameItem(call'[u], op)
    <3>1. \A u \in Thread : Writing(u) => Writing(u)'
      BY <2>1, <2>2 DEF Writing
    <3> QED
      BY <2>1, <3>1 DEF ItemInv, Uniform
  <2>5. ASSUME NEW u \in Thread, Writing(u)', NEW x \in Extent(call[u]), x < item[u].start + pos[u]
        PROVE  mem[x] = call[u].val
    <3>1. CASE u = t
      <4>1. item[t].start \in Nat /\ Extent(call[t]) = item[t].start .. (item[t].start + item[t].lens[1] - 1)
        BY <2>3 DEF Inside, Extent
      <4> QED
        BY <2>3, <2>5, <3>1, <4>1
    <3>2. CASE u # t
      BY <2>1, <2>2, <2>5, <3>2 DEF ItemInv, Writing
    <3> QED
      BY <3>1, <3>2
  <2>6. ASSUME NEW u \in Thread, Reading(u)'
        PROVE  /\ Len(buf[u]) = pos[u]
               /\ \A i \in 1 .. Len(buf[u]) : i <= item[u].lens[1] => buf[u][i] = mem[item[u].start]
    <3>1. CASE u = t
      BY <2>3, <3>1
    <3>2. CASE u # t
      BY <2>1, <2>2, <2>6, <3>2 DEF ItemInv, Reading
    <3> QED
      BY <3>1, <3>2
  <2> QED
    BY <2>1, <2>4, <2>5, <2>6 DEF ItemInv
<1>7. ASSUME NEW t \in Thread, WriteByte(t)
      PROVE  ItemInv'
  <2> DEFINE a == item[t].start + pos[t]
  <2>1. pc[t] = "copy" /\ call[t].api \in Writes /\ pos[t] < CopyLen(call[t], item[t]) /\ Writing(t)
    BY <1>7 DEF WriteByte, Writes, Writing
  <2>2. /\ pc' = pc /\ call' = call /\ item' = item /\ buf' = buf
        /\ pos'[t] = pos[t] + 1 /\ \A u \in Thread : u # t => pos'[u] = pos[u]
    BY <1>7, <1>typed DEF WriteByte
  <2>3. a \in Extent(call[t]) /\ a \in 0 .. (MemLen - 1) /\ a \in Nat
    BY <2>1, CopyFacts
  <2>4. mem'[a] = call[t].val /\ \A x \in 0 .. (MemLen - 1) : x # a => mem'[x] = mem[x]
    BY <1>7, <2>3, <1>typed DEF WriteByte
  <2>5. ASSUME NEW op \in Ops, Copies(op), ~SameItem(call[t], op)
        PROVE  /\ Extent(op) \subseteq 0 .. (MemLen - 1)
               /\ \A x \in Extent(op) : mem'[x] = mem[x]
    <3>1. Extent(op) \subseteq 0 .. (MemLen - 1)
      BY <2>5, ConstAssumption DEF Inside, Layout, Extent
    <3>2. Extent(call[t]) \cap Extent(op) = {}
      BY <2>1, <2>5, CopyFacts DEF Layout
    <3> QED
      BY <2>3, <2>4, <3>1, <3>2
  <2>6. ASSUME NEW u \in Thread, u # t, pc[u] = "copy"
        PROVE  call[u] \in Ops /\ Copies(call[u]) /\ ~SameItem(call[t], call[u])
    BY <2>1, <2>6, CopyFacts
  <2>7. ASSUME NEW op \in Ops, Copies(op)
        PROVE  Uniform(op)' \/ \E u \in Thread : Writing(u)' /\ SameItem(call[u], op)
    <3>1. CASE SameItem(call[t], op)
      BY <2>1, <2>2, <3>1 DEF Writing
    <3>2. CASE ~SameItem(call[t], op)
      <4>1. \A u \in Thread : Writing(u) => Writing(u)'
        BY <2>2 DEF Writing
      <4>2. Uniform(op) => Uniform(op)'
        BY <2>5, <2>7, <3>2 DEF Uniform
      <4> QED
        BY <2>7, <4>1, <4>2 DEF ItemInv
    <3> QED
      BY <3>1, <3>2
  <2>8. ASSUME NEW u \in Thread, Writing(u)', NEW x \in Extent(call[u]), x < item[u].start + pos'[u]
        PROVE  mem'[x] = call[u].val
    <3>1. Writing(u)
      BY <2>2, <2>8 DEF Writing
    <3>2. CASE u = t /\ x = a
      BY <2>4, <3>2
    <3>3. CASE u = t /\ x # a
      <4>1. x \in 0 .. (MemLen - 1) /\ x < item[t].start + pos[t]
        BY <2>1, <2>2, <2>3, <2>8, <3>3, CopyFacts, ConstAssumption
      <4>2. mem[x] = call[t].val
        BY <2>1, <2>8, <3>3, <4>1 DEF ItemInv
      <4> QED
        BY <2>4, <3>3, <4>1, <4>2
    <3>4. CASE u # t
      BY <2>2, <2>5, <2>6, <2>8, <3>1, <3>4 DEF ItemInv, Writing
    <3> QED
      BY <3>2, <3>3, <3>4
  <2>9. ASSUME NEW u \in Thread, Reading(u)'
        PROVE  /\ Len(buf[u]) = pos'[u]
               /\ \A i \in 1 .. Len(buf[u]) : i <= item[u].lens[1] => buf[u][i] = mem'[item[u].start]
    <3>1. Reading(u) /\ pc[u] = "copy" /\ u # t
      BY <2>1, <2>2, <2>9 DEF Reading, Writes, Reads
    <3>2. Len(buf[u]) = pos'[u] /\ Len(buf[u]) \in Nat
      BY <2>2, <3>1, <1>typed DEF ItemInv
    <3>3. ASSUME NEW i \in 1 .. Len(buf[u]), i <= item[u].lens[1]
          PROVE  buf[u][i] = mem'[item[u].start]
      <4>1. item[u].start \in Extent(call[u])
        BY <3>1, <3>2, <3>3, CopyFacts
      <4>2. mem'[item[u].start] = mem[item[u].start]
        BY <2>5, <2>6, <3>1, <4>1
      <4> QED
        BY <3>1, <3>3, <4>2 DEF ItemInv
    <3> QED
      BY <3>2, <3>3
  <2> QED
    BY <2>2, <2>7, <2>8, <2>9 DEF ItemInv
<1>8. ASSUME NEW t \in Thread, ReadByte(t)
      PROVE  ItemInv'
  <2> DEFINE a == item[t].start + pos[t]
  <2>1. pc[t] = "copy" /\ call[t].api \in Reads /\ Reading(t)
    BY <1>8 DEF ReadByte, Reads, Reading
  <2>2. /\ pc' = pc /\ call' = call /\ item' = item /\ mem' = mem
        /\ pos'[t] = pos[t] + 1 /\ \A u \in Thread : u # t => pos'[u] = pos[u]
        /\ buf'[t] = Append(buf[t], mem[a]) /\ \A u \in Thread : u # t => buf'[u] = buf[u]
    BY <1>8, <1>typed DEF ReadByte
  <2>3. ASSUME pos[t] < item[t].lens[1] PROVE mem[a] = mem[item[t].start]
    <3>1. ~\E u \in Thread : Writing(u) /\ SameItem(call[u], call[t])
      BY <2>1, CopyFacts DEF Writing, Writes, Reads
    <3>2. Uniform(call[t])
      BY <2>1, <3>1, CopyFacts DEF ItemInv
    <3>3. a \in Extent(call[t]) /\ item[t].start \in Extent(call[t])
      BY <2>1, <2>3, CopyFacts
    <3> QED
      BY <3>2, <3>3 DEF Uniform
  <2>4. \A op \in Ops : Copies(op) =>
          Uniform(op)' \/ \E u \in Thread : Writing(u)' /\ SameItem(call'[u], op)
    BY <2>2 DEF ItemInv, Uniform, Writing
  <2>5. ASSUME NEW u \in Thread, Writing(u)'
        PROVE  \A x \in Extent(call[u]) : x < item[u].start + pos'[u] => mem[x] = call[u].val
    <3>1. Writing(u) /\ u # t
      BY <2>1, <2>2, <2>5 DEF Writing, Writes, Reads
    <3> QED
      BY <2>2, <3>1 DEF ItemInv
  <2>6. ASSUME NEW u \in Thread, Reading(u)'
        PROVE  /\ Len(buf'[u]) = pos'[u]
               /\ \A i \in 1 .. Len(buf'[u]) : i <= item[u].lens[1] => buf'[u][i] = mem[item[u].start]
    <3>1. CASE u # t
      BY <2>2, <2>6, <3>1 DEF ItemInv, Reading
    <3>2. CASE u = t
      <4>1. /\ Len(buf[t]) = pos[t] /\ Len(buf[t]) \in Nat
            /\ \A i \in 1 .. Len(buf[t]) : i <= item[t].lens[1] => buf[t][i] = mem[item[t].start]
        BY <2>1, <1>typed DEF ItemInv
      <4>2. /\ Len(buf'[t]) = Len(buf[t]) + 1
            /\ \A i \in 1 .. Len(buf[t]) : buf'[t][i] = buf[t][i]
            /\ buf'[t][Len(buf[t]) + 1] = mem[a]
        <5>1. buf[t] \in Seq(Value)
          BY <1>typed
        <5> QED
          BY <2>2, <4>1, <5>1
      <4>3. item[t].lens[1] \in Nat
        BY <2>1, CopyFacts
      <4>4. ASSUME NEW i \in 1 .. Len(buf'[t]), i <= item[t].lens[1]
            PROVE  buf'[t][i] = mem[item[t].start]
        <5>1. CASE i <= Len(buf[t])
          BY <4>1, <4>2, <4>4, <5>1
        <5>2. CASE i = Len(buf[t]) + 1
          BY <2>3, <4>1, <4>2, <4>3, <4>4, <5>2
        <5> QED
          BY <4>1, <4>2, <5>1, <5>2
      <4> QED
        BY <2>2, <3>2, <4>1, <4>2, <4>4
    <3> QED
      BY <3>1, <3>2
  <2> QED
    BY <2>2, <2>4, <2>5, <2>6 DEF ItemInv
<1>9. ASSUME NEW t \in Thread, CopyDone(t)
      PROVE  ItemInv'
  <2>1. mem' = mem /\ call' = call /\ item' = item /\ pos' = pos /\ buf' = buf
    BY <1>9 DEF CopyDone
  <2>2. pc[t] = "copy" /\ pc'[t] = "idle" /\ \A u \in Thread : u # t => pc'[u] = pc[u]
    BY <1>9, <1>typed DEF CopyDone, Finish
  <2>3. ASSUME NEW op \in Ops, Copies(op)
        PROVE  Uniform(op)' \/ \E u \in Thread : Writing(u)' /\ SameItem(call[u], op)
    <3>1. CASE Uniform(op)
      BY <2>1, <3>1 DEF Uniform
    <3>2. CASE Writing(t) /\ SameItem(call[t], op)
      <4>1. pos[t] >= item[t].lens[1]
        BY <1>9, <2>2, <3>2, CopyFacts DEF CopyDone, Writing
      <4>2. \A x \in Extent(call[t]) : mem[x] = call[t].val
        BY <2>2, <3>2, <4>1, CopyFacts DEF ItemInv
      <4>3. Extent(op) = Extent(call[t])
        BY <3>2 DEF SameItem, Extent
      <4> QED
        BY <2>1, <4>2, <4>3 DEF Uniform
    <3>3. CASE \E u \in Thread : u # t /\ Writing(u) /\ SameItem(call[u], op)
      BY <2>1, <2>2, <3>3 DEF Writing
    <3> QED
      BY <2>3, <3>1, <3>2, <3>3 DEF ItemInv
  <2>4. \A u \in Thread : (Writing(u)' => Writing(u)) /\ (Reading(u)' => Reading(u))
    BY <2>1, <2>2 DEF Writing, Reading
  <2> QED
    BY <2>1, <2>3, <2>4 DEF ItemInv
<1>10. CASE UNCHANGED vars
  BY <1>10, ItemKept DEF vars
<1> QED
  BY <1>1, <1>2, <1>3, <1>4, <1>5, <1>6, <1>7, <1>8, <1>9, <1>10 DEF Next, Step

(* What a thread has read stands until its next call. *)
LEMMA ReadKept ==
  ASSUME NEW u \in Thread, ReadWhole(u), pc'[u] = pc[u], ret'[u] = ret[u], call'[u] = call[u],
         buf'[u] = buf[u], item'[u] = item[u]
  PROVE  ReadWhole(u)'
  BY Zenon DEF ReadWhole

(* What a read keeps when it returns is what it has read. *)
LEMMA ReadStep ==
  ASSUME Inside, Layout, TypeOK, PlaceInv, ItemInv, ReadsAreWhole, [Next]_vars
  PROVE  ReadsAreWhole'
<1>typed. /\ owner \in [Locks -> Thread \cup {NoLock}]
      /\ pc \in [Thread -> {"idle", "list", "find", "ied", "copy"}]
      /\ call \in [Thread -> Ops] /\ pos \in [Thread -> Nat] /\ buf \in [Thread -> Seq(Value)]
      /\ ret \in [Thread -> {"none", "ok", "fail"}] /\ DOMAIN item = Thread
      /\ mem \in [0 .. (MemLen - 1) -> Value]
  BY DEF TypeOK
<1>1. ASSUME NEW t \in Thread, NEW op \in Ops, OopCall(t, op)
      PROVE  ReadsAreWhole'
  <2>1. \A u \in Thread : u # t =>
          pc'[u] = pc[u] /\ ret'[u] = ret[u] /\ call'[u] = call[u] /\ buf'[u] = buf[u] /\ item'[u] = item[u]
    BY <1>1, <1>typed DEF OopCall, Finish
  <2>2. ~(pc'[t] = "idle" /\ ret'[t] = "ok" /\ call'[t].api \in Reads)
    BY <1>1, <1>typed DEF OopCall, Finish, Reads
  <2>3. ReadWhole(t)'
    BY <2>2 DEF ReadWhole
  <2>4. ASSUME NEW u \in Thread, u # t
        PROVE  ReadWhole(u)'
    BY <2>1, <2>4, ReadKept DEF ReadsAreWhole
  <2> QED
    BY <2>3, <2>4 DEF ReadsAreWhole
<1>2. ASSUME NEW t \in Thread, NEW op \in Ops, IecCall(t, op)
      PROVE  ReadsAreWhole'
  <2>1. \A u \in Thread : u # t =>
          pc'[u] = pc[u] /\ ret'[u] = ret[u] /\ call'[u] = call[u] /\ buf'[u] = buf[u] /\ item'[u] = item[u]
    BY <1>2, <1>typed DEF IecCall
  <2>2. ~(pc'[t] = "idle" /\ ret'[t] = "ok" /\ call'[t].api \in Reads)
    BY <1>2, <1>typed DEF IecCall, Reads
  <2>3. ReadWhole(t)'
    BY <2>2 DEF ReadWhole
  <2>4. ASSUME NEW u \in Thread, u # t
        PROVE  ReadWhole(u)'
    BY <2>1, <2>4, ReadKept DEF ReadsAreWhole
  <2> QED
    BY <2>3, <2>4 DEF ReadsAreWhole
<1>3. ASSUME NEW t \in Thread, IecLockList(t)
      PROVE  ReadsAreWhole'
  <2>1. \A u \in Thread : u # t =>
          pc'[u] = pc[u] /\ ret'[u] = ret[u] /\ call'[u] = call[u] /\ buf'[u] = buf[u] /\ item'[u] = item[u]
    BY <1>3, <1>typed DEF IecLockList, Lock
  <2>2. ~(pc'[t] = "idle" /\ ret'[t] = "ok" /\ call'[t].api \in Reads)
    BY <1>3, <1>typed DEF IecLockList, Lock, Reads
  <2>3. ReadWhole(t)'
    BY <2>2 DEF ReadWhole
  <2>4. ASSUME NEW u \in Thread, u # t
        PROVE  ReadWhole(u)'
    BY <2>1, <2>4, ReadKept DEF ReadsAreWhole
  <2> QED
    BY <2>3, <2>4 DEF ReadsAreWhole
<1>4. ASSUME NEW t \in Thread, WriteIecFind(t)
      PROVE  ReadsAreWhole'
  <2>1. \A u \in Thread : u # t =>
          pc'[u] = pc[u] /\ ret'[u] = ret[u] /\ call'[u] = call[u] /\ buf'[u] = buf[u] /\ item'[u] = item[u]
    BY <1>4, <1>typed DEF WriteIecFind, Finish
  <2>2. ~(pc'[t] = "idle" /\ ret'[t] = "ok" /\ call'[t].api \in Reads)
    BY <1>4, <1>typed DEF WriteIecFind, Finish, Reads
  <2>3. ReadWhole(t)'
    BY <2>2 DEF ReadWhole
  <2>4. ASSUME NEW u \in Thread, u # t
        PROVE  ReadWhole(u)'
    BY <2>1, <2>4, ReadKept DEF ReadsAreWhole
  <2> QED
    BY <2>3, <2>4 DEF ReadsAreWhole
<1>5. ASSUME NEW t \in Thread, ReadIecFind(t)
      PROVE  ReadsAreWhole'
  <2>1. \A u \in Thread : u # t =>
          pc'[u] = pc[u] /\ ret'[u] = ret[u] /\ call'[u] = call[u] /\ buf'[u] = buf[u] /\ item'[u] = item[u]
    BY <1>5, <1>typed DEF ReadIecFind, Finish
  <2>2. ~(pc'[t] = "idle" /\ ret'[t] = "ok" /\ call'[t].api \in Reads)
    BY <1>5, <1>typed DEF ReadIecFind, Finish, Reads
  <2>3. ReadWhole(t)'
    BY <2>2 DEF ReadWhole
  <2>4. ASSUME NEW u \in Thread, u # t
        PROVE  ReadWhole(u)'
    BY <2>1, <2>4, ReadKept DEF ReadsAreWhole
  <2> QED
    BY <2>3, <2>4 DEF ReadsAreWhole
<1>6. ASSUME NEW t \in Thread, LockIed(t)
      PROVE  ReadsAreWhole'
  <2>1. \A u \in Thread : u # t =>
          pc'[u] = pc[u] /\ ret'[u] = ret[u] /\ call'[u] = call[u] /\ buf'[u] = buf[u] /\ item'[u] = item[u]
    BY <1>6, <1>typed DEF LockIed, Lock
  <2>2. ~(pc'[t] = "idle" /\ ret'[t] = "ok" /\ call'[t].api \in Reads)
    BY <1>6, <1>typed DEF LockIed, Lock, Reads
  <2>3. ReadWhole(t)'
    BY <2>2 DEF ReadWhole
  <2>4. ASSUME NEW u \in Thread, u # t
        PROVE  ReadWhole(u)'
    BY <2>1, <2>4, ReadKept DEF ReadsAreWhole
  <2> QED
    BY <2>3, <2>4 DEF ReadsAreWhole
<1>7. ASSUME NEW t \in Thread, WriteByte(t)
      PROVE  ReadsAreWhole'
  <2>1. \A u \in Thread : u # t =>
          pc'[u] = pc[u] /\ ret'[u] = ret[u] /\ call'[u] = call[u] /\ buf'[u] = buf[u] /\ item'[u] = item[u]
    BY <1>7, <1>typed DEF WriteByte
  <2>2. ~(pc'[t] = "idle" /\ ret'[t] = "ok" /\ call'[t].api \in Reads)
    BY <1>7, <1>typed DEF WriteByte, Reads
  <2>3. ReadWhole(t)'
    BY <2>2 DEF ReadWhole
  <2>4. ASSUME NEW u \in Thread, u # t
        PROVE  ReadWhole(u)'
    BY <2>1, <2>4, ReadKept DEF ReadsAreWhole
  <2> QED
    BY <2>3, <2>4 DEF ReadsAreWhole
<1>8. ASSUME NEW t \in Thread, ReadByte(t)
      PROVE  ReadsAreWhole'
  <2>1. \A u \in Thread : u # t =>
          pc'[u] = pc[u] /\ ret'[u] = ret[u] /\ call'[u] = call[u] /\ buf'[u] = buf[u] /\ item'[u] = item[u]
    BY <1>8, <1>typed DEF ReadByte
  <2>2. ~(pc'[t] = "idle" /\ ret'[t] = "ok" /\ call'[t].api \in Reads)
    BY <1>8, <1>typed DEF ReadByte, Reads
  <2>3. ReadWhole(t)'
    BY <2>2 DEF ReadWhole
  <2>4. ASSUME NEW u \in Thread, u # t
        PROVE  ReadWhole(u)'
    BY <2>1, <2>4, ReadKept DEF ReadsAreWhole
  <2> QED
    BY <2>3, <2>4 DEF ReadsAreWhole
<1>9. ASSUME NEW t \in Thread, CopyDone(t)
      PROVE  ReadsAreWhole'
  <2>1. \A u \in Thread : u # t => pc'[u] = pc[u] /\ ret'[u] = ret[u]
    BY <1>9, <1>typed DEF CopyDone, Finish
  <2>2. call' = call /\ buf' = buf /\ item' = item /\ pc[t] = "copy"
    BY <1>9 DEF CopyDone
  <2>3. ASSUME call[t].api \in Reads,
               NEW i \in 1 .. Min({Len(buf[t]), item[t].lens[1]}),
               NEW j \in 1 .. Min({Len(buf[t]), item[t].lens[1]})
        PROVE  buf[t][i] = buf[t][j]
    <3>1. Len(buf[t]) \in Nat /\ item[t].lens[1] \in Nat
      BY <2>2, <1>typed, CopyFacts
    <3>2. /\ Min({Len(buf[t]), item[t].lens[1]}) \in Nat
          /\ Min({Len(buf[t]), item[t].lens[1]}) <= Len(buf[t])
          /\ Min({Len(buf[t]), item[t].lens[1]}) <= item[t].lens[1]
      BY <3>1, MinOfNat
    <3>3. i \in 1 .. Len(buf[t]) /\ i <= item[t].lens[1] /\ j \in 1 .. Len(buf[t]) /\ j <= item[t].lens[1]
      BY <2>3, <3>1, <3>2
    <3> QED
      BY <2>2, <2>3, <3>3 DEF ItemInv, Reading
  <2>4. ReadWhole(t)'
    BY <2>2, <2>3, Zenon DEF ReadWhole
  <2>5. ASSUME NEW u \in Thread, u # t
        PROVE  ReadWhole(u)'
    BY <2>1, <2>2, <2>5, ReadKept DEF ReadsAreWhole
  <2> QED
    BY <2>4, <2>5 DEF ReadsAreWhole
<1>10. CASE UNCHANGED vars
  BY <1>10, ReadKept DEF vars, ReadsAreWhole
<1> QED
  BY <1>1, <1>2, <1>3, <1>4, <1>5, <1>6, <1>7, <1>8, <1>9, <1>10 DEF Next, Step

(* Whatever threads call the four operations, a thread in smallcpy holds    *)
(* the lock of its device, and its copy keeps within its length.            *)
THEOREM MemoryInvariant ==
  ASSUME Inside
  PROVE  Spec => [](TypeOK /\ PlaceInv)
<1>1. Init => TypeOK /\ PlaceInv
  BY InitInv
<1>2. TypeOK /\ PlaceInv /\ [Next]_vars => (TypeOK /\ PlaceInv)'
  BY TypeStep, PlaceStep
<1> QED
  BY <1>1, <1>2, PTL DEF Spec

(* Every lock belongs to the call that its thread is in, or is one that a   *)
(* path of write_iec or read_iec leaves behind, for any threads and calls.  *)
THEOREM LocksFollowCalls ==
  ASSUME Inside
  PROVE  Spec => []LeakInv
<1>1. Init => LeakInv
  BY InitInv DEF LeakInv, HoldInv
<1>2. TypeOK /\ PlaceInv /\ LeakInv /\ [Next]_vars => LeakInv'
  BY LeakStep
<1> QED
  BY <1>1, <1>2, MemoryInvariant, PTL DEF Spec

(* Of all paths through the four operations of mem.c three return with a    *)
(* lock held, and no other does.                                            *)
THEOREM OnlyThreeLeaks ==
  ASSUME Inside
  PROVE  Spec => []LeaksExplained
<1>1. LeakInv => LeaksExplained
  BY DEF LeakInv, LeaksExplained, Holds
<1> QED
  BY <1>1, LocksFollowCalls, PTL

(* Threads wait for a lock that was left behind, or for a thread that can   *)
(* go on: mem.c never locks a list while it holds a device.                 *)
THEOREM NoCircularWait ==
  ASSUME Inside
  PROVE  Spec => []NoCircle
<1>1. ASSUME TypeOK, PlaceInv, LeakInv PROVE NoCircle
  <2>1. SUFFICES ASSUME NEW t \in Thread
                 PROVE  /\ pc[t] = "ied" => HeldAt(IedLock(item[t]), {"copy"})
                        /\ pc[t] = "list" => HeldAt(ListLock(call[t]), {"find", "ied", "copy"})
    BY DEF NoCircle
  <2>2. call[t] \in Ops /\ owner \in [Locks -> Thread \cup {NoLock}] /\ Placed(t)
    BY <1>1 DEF TypeOK, PlaceInv
  <2>3. ASSUME pc[t] = "ied" PROVE HeldAt(IedLock(item[t]), {"copy"})
    <3>1. item[t] = Found[call[t]] /\ Copies(call[t])
      BY <2>2, <2>3 DEF Placed
    <3>2. IedLock(item[t]) \in Locks /\ \A op \in Ops : IedLock(item[t]) # ListLock(op)
      BY <2>2, <3>1, LocksOfCall
    <3>3. ASSUME NEW u \in Thread, owner[IedLock(item[t])] = u, IedLock(item[t]) \notin Leaked
          PROVE  pc[u] = "copy"
      <4>1. Holds(u, IedLock(item[t])) /\ call[u] \in Ops
        BY <1>1, <3>2, <3>3 DEF LeakInv, TypeOK
      <4> QED
        BY <3>2, <4>1 DEF Holds
    <3> QED
      BY <2>2, <3>2, <3>3 DEF HeldAt
  <2>4. ASSUME pc[t] = "list" PROVE HeldAt(ListLock(call[t]), {"find", "ied", "copy"})
    <3>1. ListLock(call[t]) \in Locks
      BY <2>2, <2>4, LocksOfCall DEF Placed
    <3>2. ASSUME NEW u \in Thread, owner[ListLock(call[t])] = u, ListLock(call[t]) \notin Leaked
          PROVE  pc[u] \in {"find", "ied", "copy"}
      BY <1>1, <3>1, <3>2 DEF LeakInv, Holds
    <3> QED
      BY <2>2, <3>1, <3>2 DEF HeldAt
  <2> QED
    BY <2>3, <2>4
<1> QED
  BY <1>1, MemoryInvariant, LocksFollowCalls, PTL

(* What is left of an operation falls with each of its steps. *)
LEMMA OpFalls ==
  ASSUME Inside, NEW op \in Ops, NEW n \in Nat, NEW m \in Nat
  PROVE  /\ OpCost("find", op, m) < OpCost("list", op, n)
         /\ OpCost("idle", op, m) < OpCost("find", op, n)
         /\ Copies(op) => OpCost("ied", op, m) < OpCost("find", op, n)
         /\ Copies(op) => OpCost("copy", op, m) < OpCost("ied", op, n)
         /\ Copies(op) /\ m = n + 1 => OpCost("copy", op, m) < OpCost("copy", op, n)
         /\ Copies(op) /\ n <= CopyLen(op, Found[op]) => OpCost("idle", op, m) < OpCost("copy", op, n)
<1> DEFINE copy == CopyLen(op, Found[op])
<1>1. Copies(op) => copy \in Nat
  BY DEF Inside
<1>2. /\ OpCost("idle", op, m) = 0
      /\ OpCost("copy", op, m) = copy - m + 1 /\ OpCost("copy", op, n) = copy - n + 1
      /\ OpCost("ied", op, m) = copy + 2 /\ OpCost("ied", op, n) = copy + 2
      /\ OpCost("find", op, m) = IF Copies(op) THEN copy + 3 ELSE 1
      /\ OpCost("find", op, n) = IF Copies(op) THEN copy + 3 ELSE 1
      /\ OpCost("list", op, n) = IF Copies(op) THEN copy + 4 ELSE 2
  BY DEF OpCost
<1> HIDE DEF copy
<1> QED
  <2>1. CASE Copies(op)
    BY <1>1, <1>2, <2>1 DEF copy
  <2>2. CASE ~Copies(op)
    BY <1>2, <2>2
  <2> QED
    BY <2>1, <2>2

(* What is left to the operation of t: as much as before, or less. *)
OpNearer(t) ==
  pc[t] # "idle" => \/ UNCHANGED <<pc[t], call[t], item[t], pos[t]>>
                    \/ OpLeft(t)' < OpLeft(t)

(* Every step leaves an operation as it is or brings it closer to its return. *)
LEMMA OpStep ==
  ASSUME Inside, TypeOK, PlaceInv, [Next]_vars, NEW a \in Thread
  PROVE  OpNearer(a)
<1> USE DEF OpNearer, OpLeft
<1>typed. /\ pc \in [Thread -> {"idle", "list", "find", "ied", "copy"}]
          /\ call \in [Thread -> Ops] /\ pos \in [Thread -> Nat] /\ DOMAIN item = Thread
          /\ call[a] \in Ops /\ pos[a] \in Nat
  BY DEF TypeOK
<1>place. /\ pc[a] \in {"ied", "copy"} => item[a] = Found[call[a]] /\ Copies(call[a])
          /\ pc[a] = "copy" => pos[a] <= CopyLen(call[a], Found[call[a]])
  BY DEF TypeOK, PlaceInv, Placed
<1>1. ASSUME NEW t \in Thread, NEW op \in Ops, OopCall(t, op)
      PROVE  OpNearer(a)
  BY <1>1, <1>typed DEF OopCall, Finish
<1>2. ASSUME NEW t \in Thread, NEW op \in Ops, IecCall(t, op)
      PROVE  OpNearer(a)
  BY <1>2, <1>typed DEF IecCall
<1>3. ASSUME NEW t \in Thread, IecLockList(t)
      PROVE  OpNearer(a)
  <2>1. CASE t = a
    <3>1. pc[a] = "list" /\ pc'[a] = "find" /\ call' = call /\ pos' = pos
      BY <1>3, <2>1, <1>typed DEF IecLockList, Lock
    <3> QED
      BY <3>1, <1>typed, <1>place, OpFalls
  <2>2. CASE t # a
    BY <1>3, <2>2, <1>typed DEF IecLockList, Lock
  <2> QED
    BY <2>1, <2>2
<1>4. ASSUME NEW t \in Thread, WriteIecFind(t)
      PROVE  OpNearer(a)
  <2>1. CASE t = a
    <3>1. pc[a] = "find" /\ call' = call /\ pos' = pos /\ pc'[a] \in {"ied", "idle"}
      BY <1>4, <2>1, <1>typed DEF WriteIecFind, Finish
    <3>2. pc'[a] = "ied" => Copies(call[a])
      BY <1>4, <2>1, <1>typed DEF WriteIecFind, Finish, Copies
    <3> QED
      BY <3>1, <3>2, <1>typed, OpFalls
  <2>2. CASE t # a
    BY <1>4, <2>2, <1>typed DEF WriteIecFind, Finish
  <2> QED
    BY <2>1, <2>2
<1>5. ASSUME NEW t \in Thread, ReadIecFind(t)
      PROVE  OpNearer(a)
  <2>1. CASE t = a
    <3>1. pc[a] = "find" /\ call' = call /\ pos' = pos /\ pc'[a] \in {"ied", "idle"}
      BY <1>5, <2>1, <1>typed DEF ReadIecFind, Finish
    <3>2. pc'[a] = "ied" => Copies(call[a])
      BY <1>5, <2>1, <1>typed DEF ReadIecFind, Finish, Copies
    <3> QED
      BY <3>1, <3>2, <1>typed, OpFalls
  <2>2. CASE t # a
    BY <1>5, <2>2, <1>typed DEF ReadIecFind, Finish
  <2> QED
    BY <2>1, <2>2
<1>6. ASSUME NEW t \in Thread, LockIed(t)
      PROVE  OpNearer(a)
  <2>1. CASE t = a
    <3>1. pc[a] = "ied" /\ pc'[a] = "copy" /\ call' = call /\ pos' = pos
      BY <1>6, <2>1, <1>typed DEF LockIed, Lock
    <3> QED
      BY <3>1, <1>typed, <1>place, OpFalls
  <2>2. CASE t # a
    BY <1>6, <2>2, <1>typed DEF LockIed, Lock
  <2> QED
    BY <2>1, <2>2
<1>7. ASSUME NEW t \in Thread, WriteByte(t)
      PROVE  OpNearer(a)
  <2>1. CASE t = a
    <3>1. pc[a] = "copy" /\ call' = call /\ pc' = pc /\ pos'[a] = pos[a] + 1
      BY <1>7, <2>1, <1>typed DEF WriteByte
    <3> QED
      BY <3>1, <1>typed, <1>place, OpFalls
  <2>2. CASE t # a
    BY <1>7, <2>2, <1>typed DEF WriteByte
  <2> QED
    BY <2>1, <2>2
<1>8. ASSUME NEW t \in Thread, ReadByte(t)
      PROVE  OpNearer(a)
  <2>1. CASE t = a
    <3>1. pc[a] = "copy" /\ call' = call /\ pc' = pc /\ pos'[a] = pos[a] + 1
      BY <1>8, <2>1, <1>typed DEF ReadByte
    <3> QED
      BY <3>1, <1>typed, <1>place, OpFalls
  <2>2. CASE t # a
    BY <1>8, <2>2, <1>typed DEF ReadByte
  <2> QED
    BY <2>1, <2>2
<1>9. ASSUME NEW t \in Thread, CopyDone(t)
      PROVE  OpNearer(a)
  <2>1. CASE t = a
    <3>1. pc[a] = "copy" /\ pc'[a] = "idle" /\ call' = call /\ pos' = pos
      BY <1>9, <2>1, <1>typed DEF CopyDone, Finish
    <3> QED
      BY <3>1, <1>typed, <1>place, OpFalls
  <2>2. CASE t # a
    BY <1>9, <2>2, <1>typed DEF CopyDone, Finish
  <2> QED
    BY <2>1, <2>2
<1>10. CASE UNCHANGED vars
  BY <1>10 DEF vars
<1> QED
  BY <1>1, <1>2, <1>3, <1>4, <1>5, <1>6, <1>7, <1>8, <1>9, <1>10 DEF Next, Step

(* An operation of mem.c takes a bounded number of steps of its thread, on  *)
(* every path, so that waiting for a lock is all that can keep it.          *)
THEOREM OpsAreBounded ==
  ASSUME Inside
  PROVE  Spec => OpsBounded
<1>1. TypeOK /\ PlaceInv /\ [Next]_vars =>
        [\A t \in Thread : pc[t] # "idle" =>
           \/ UNCHANGED <<pc[t], call[t], item[t], pos[t]>>
           \/ OpLeft(t)' < OpLeft(t)]_vars
  BY OpStep DEF OpNearer
<1> QED
  BY <1>1, MemoryInvariant, PTL DEF Spec, OpsBounded

(* On the paths of mem.c that unlock what they lock, an operation that has  *)
(* returned holds no lock.                                                  *)
THEOREM ReturnsUnlocked ==
  ASSUME Inside, CleanCalls
  PROVE  Spec => []LocksReleased
<1>1. LeaksExplained => LocksReleased
  BY NothingLeaked DEF LeaksExplained, LocksReleased
<1> QED
  BY <1>1, OnlyThreeLeaks, PTL

(* A read that returns has seen one write of its data item and not a mix of *)
(* two, for any threads and calls, those that forget a lock included: the   *)
(* device lock is taken before the first byte and dropped after the last.   *)
THEOREM ReadsSeeOneWrite ==
  ASSUME Inside, Layout
  PROVE  Spec => []ReadsAreWhole
<1>1. Init => ItemInv /\ ReadsAreWhole
  <2>1. Init => ReadsAreWhole
    BY DEF Init, ReadsAreWhole, ReadWhole
  <2> QED
    BY <2>1, InitInv
<1>2. TypeOK /\ PlaceInv /\ ItemInv /\ ReadsAreWhole /\ [Next]_vars => (ItemInv /\ ReadsAreWhole)'
  BY ItemStep, ReadStep
<1> QED
  BY <1>1, <1>2, MemoryInvariant, PTL DEF Spec

(* All of it together where the index is sound and the calls are clean. *)
THEOREM DataInvariant ==
  ASSUME Inside, Layout, CleanCalls
  PROVE  Spec => []DataInv
<1>1. Init => DataInv
  BY InitInv DEF DataInv
<1>2. ASSUME DataInv, [Next]_vars
      PROVE  DataInv'
  <2>1. TypeOK' /\ PlaceInv' /\ ItemInv'
    BY <1>2, TypeStep, PlaceStep, ItemStep DEF DataInv
  <2>2. LeakInv'
    BY <1>2, LeakStep, NothingLeaked DEF DataInv
  <2>3. HoldInv'
    BY <2>2, NothingLeaked DEF LeakInv, HoldInv
  <2> QED
    BY <2>1, <2>3 DEF DataInv
<1> QED
  BY <1>1, <1>2, PTL DEF Spec

(* With an index such as rh_mem_map_init builds from bin/meter.xml, a read  *)
(* sees one write of its item, for any threads and calls of sound lengths.  *)
THEOREM ReadsOfSoundIndex ==
  ASSUME SoundIndex, SoundCalls
  PROVE  Spec => []ReadsAreWhole
  BY IndexIsSound, ReadsSeeOneWrite, PTL

=============================================================================
