------------------------------ MODULE DataMem ------------------------------
(* The data memory of rhApp (mem.c): one block of bytes, s_pDataMem, found  *)
(* through an index ied -> do -> dotype, and four operations on it that     *)
(* threads of the process call concurrently: rh_mem_data_write_oop and      *)
(* rh_mem_data_read_oop (by device number and data ID; main and the service *)
(* thread) and rh_mem_data_write_iec and rh_mem_data_read_iec (by telemetry *)
(* list and address). Each device has a lock, each telemetry list another.  *)
EXTENDS Naturals, Sequences, FiniteSetsExt

CONSTANTS
  Thread,       \* the threads that call the operations
  IedList,      \* s_memMap: sequence of [tag, pn, dos], dos of [tag, offset, types],
                \* types of [tag, offset, len]
  IdList,       \* s_pointMap.id_list: sequence of [id, do, type]
  PointList,    \* PointList[l]: sequence of [addr, ied, do, type], the points of list l
  MemLen,       \* bytes in s_pDataMem
  Value,        \* what a byte may hold; a writer fills an item with one value
  Ops           \* the calls the threads make

NoLock == "no lock"
Writes == {"write_oop", "write_iec"}
Reads  == {"read_oop", "read_iec"}

ASSUME ConstAssumption ==
  /\ NoLock \notin Thread
  /\ DOMAIN IedList = 1 .. Len(IedList) /\ Len(IedList) \in Nat
  /\ MemLen \in Nat
  /\ 0 \in Value

(* a call is one of the four, with a value to write or a list to look in *)
ASSUME OpsAssumption ==
  /\ Ops # {}
  /\ \A op \in Ops :
       /\ op.api \in Writes \cup Reads
       /\ op.api \in Writes => op.val \in Value
       /\ op.api \in {"write_iec", "read_iec"} => op.list \in DOMAIN PointList
NoItem == [found |-> "not looked for"]

(***************************************************************************)
(* Lookups. Every search loop of mem.c takes the first entry that matches: *)
(* Min of the positions that do.                                           *)
(***************************************************************************)

(* The item of (ied, do, type): where the searches end, or which one fails. *)
(* Items are used from the first matching dotype on, as pDotType[i] is.     *)
FindItem(ieds, doTag, typeTag) ==
  LET ied   == IedList[Min(ieds)]
      dos   == {d \in DOMAIN ied.dos : ied.dos[d].tag = doTag}
      do    == ied.dos[Min(dos)]
      types == {k \in DOMAIN do.types : do.types[k].tag = typeTag}
      k     == Min(types)
  IN  CASE ieds = {}                              -> [found |-> "no ied"]
        [] ieds # {} /\ dos = {}                   -> [found |-> "no do"]
        [] ieds # {} /\ dos # {} /\ types = {}     -> [found |-> "no type"]
        [] ieds # {} /\ dos # {} /\ types # {}     ->
             [found |-> "item", ied |-> Min(ieds), start |-> do.offset + do.types[k].offset,
              lens |-> [n \in 1 .. (Len(do.types) - k + 1) |-> do.types[k + n - 1].len]]

(* by device number and data ID: the device is searched before the ID *)
FindOop(pn, di) ==
  LET ieds == {i \in DOMAIN IedList : IedList[i].pn = pn}
      ids  == {i \in DOMAIN IdList : IdList[i].id = di}
  IN  IF ieds # {} /\ ids = {} THEN [found |-> "no id"]
      ELSE FindItem(ieds, IdList[Min(ids)].do, IdList[Min(ids)].type)

(* by telemetry list and address; the binary search is module PointSearch *)
FindIec(list, addr) ==
  LET points == {i \in DOMAIN PointList[list] : PointList[list][i].addr = addr}
      p      == PointList[list][Min(points)]
  IN  IF points = {} THEN [found |-> "no addr"]
      ELSE FindItem({i \in DOMAIN IedList : IedList[i].tag = p.ied}, p.do, p.type)

(* total length of the first n data items from the one found *)
LenOf(item, n) ==
  LET sum[i \in 0 .. n] == IF i = 0 THEN 0 ELSE sum[i - 1] + item.lens[i]
  IN  sum[n]

(* what the lookups of each call find: the tables do not change *)
Found ==
  [op \in Ops |-> IF op.api \in {"write_oop", "read_oop"} THEN FindOop(op.pn, op.di)
                                                         ELSE FindIec(op.list, op.addr)]

IedLock(found) == <<"ied", found.ied>>
ListLock(op) == <<"list", op.list>>

Locks == ({"ied"} \X (1 .. Len(IedList))) \cup ({"list"} \X DOMAIN PointList)

(* the bytes smallcpy moves *)
CopyLen(op, found) ==
  CASE op.api \in {"write_oop", "write_iec"} -> op.len
    [] op.api = "read_oop" -> Min({op.len, found.lens[1]})
    [] op.api = "read_iec" -> LenOf(found, op.n)

VARIABLES
  mem,          \* s_pDataMem
  owner,        \* owner[l]: the thread that holds lock l
  pc,           \* pc[t]: where thread t is in its call
  call,         \* call[t]: the call it makes, or made last
  item,         \* item[t]: pied and pDotType, what its lookups found
  pos,          \* pos[t]: bytes its smallcpy has moved
  buf,          \* buf[t]: the bytes it has read
  ret           \* ret[t]: "ok", "fail", or "none" while the call lasts

vars == <<mem, owner, pc, call, item, pos, buf, ret>>

Init ==
  /\ mem = [x \in 0 .. (MemLen - 1) |-> 0]
  /\ owner = [l \in Locks |-> NoLock]
  /\ pc = [t \in Thread |-> "idle"]
  /\ call = [t \in Thread |-> CHOOSE op \in Ops : TRUE]
  /\ item = [t \in Thread |-> NoItem]
  /\ pos = [t \in Thread |-> 0]
  /\ buf = [t \in Thread |-> <<>>]
  /\ ret = [t \in Thread |-> "none"]

Lock(t, l) ==
  /\ owner[l] = NoLock
  /\ owner' = [owner EXCEPT ![l] = t]

Finish(t, how) ==
  /\ pc' = [pc EXCEPT ![t] = "idle"]
  /\ ret' = [ret EXCEPT ![t] = how]

(* rh_mem_data_write_oop, rh_mem_data_read_oop: the lookups need no lock *)
OopCall(t, op) ==
  /\ pc[t] = "idle"
  /\ op.api \in {"write_oop", "read_oop"}
  /\ call' = [call EXCEPT ![t] = op]
  /\ item' = [item EXCEPT ![t] = Found[op]]
  /\ pos' = [pos EXCEPT ![t] = 0]
  /\ buf' = [buf EXCEPT ![t] = <<>>]
  /\ IF item'[t].found = "item"
     THEN pc' = [pc EXCEPT ![t] = "ied"] /\ ret' = [ret EXCEPT ![t] = "none"]
     ELSE Finish(t, "fail")
  /\ UNCHANGED <<mem, owner>>

(* rh_mem_data_write_iec, rh_mem_data_read_iec: the list is locked first *)
IecCall(t, op) ==
  /\ pc[t] = "idle"
  /\ op.api \in {"write_iec", "read_iec"}
  /\ call' = [call EXCEPT ![t] = op]
  /\ item' = [item EXCEPT ![t] = NoItem]
  /\ pos' = [pos EXCEPT ![t] = 0]
  /\ buf' = [buf EXCEPT ![t] = <<>>]
  /\ ret' = [ret EXCEPT ![t] = "none"]
  /\ pc' = [pc EXCEPT ![t] = "list"]
  /\ UNCHANGED <<mem, owner>>

IecLockList(t) ==
  /\ pc[t] = "list"
  /\ Lock(t, ListLock(call[t]))
  /\ pc' = [pc EXCEPT ![t] = "find"]
  /\ UNCHANGED <<mem, call, item, pos, buf, ret>>

(* rh_mem_data_write_iec: an unknown dotype returns 0 with the list locked *)
WriteIecFind(t) ==
  LET op    == call[t]
      found == Found[op]
  IN  /\ pc[t] = "find"
      /\ op.api = "write_iec"
      /\ item' = [item EXCEPT ![t] = found]
      /\ CASE found.found = "item" ->
                pc' = [pc EXCEPT ![t] = "ied"] /\ UNCHANGED <<owner, ret>>
           [] found.found = "no type" ->
                Finish(t, "ok") /\ UNCHANGED owner
           [] OTHER ->
                Finish(t, "fail") /\ owner' = [owner EXCEPT ![ListLock(op)] = NoLock]
      /\ UNCHANGED <<mem, call, pos, buf>>

(* rh_mem_data_read_iec: an unknown ied returns -1 with the list locked *)
ReadIecFind(t) ==
  LET op    == call[t]
      found == Found[op]
  IN  /\ pc[t] = "find"
      /\ op.api = "read_iec"
      /\ item' = [item EXCEPT ![t] = found]
      /\ CASE found.found = "item" /\ LenOf(found, op.n) <= op.len ->
                pc' = [pc EXCEPT ![t] = "ied"] /\ UNCHANGED <<owner, ret>>
           [] found.found = "no ied" ->
                Finish(t, "fail") /\ UNCHANGED owner
           [] OTHER ->
                Finish(t, "fail") /\ owner' = [owner EXCEPT ![ListLock(op)] = NoLock]
      /\ UNCHANGED <<mem, call, pos, buf>>

(* mutant of LockIed: the device is not waited for *)
LockIedBarge(t) ==
  /\ pc[t] = "ied"
  /\ owner' = [owner EXCEPT ![IedLock(item[t])] = t]
  /\ pc' = [pc EXCEPT ![t] = "copy"]
  /\ UNCHANGED <<mem, call, item, pos, buf, ret>>

LockIed(t) ==
  /\ pc[t] = "ied"
  /\ Lock(t, IedLock(item[t]))
  /\ pc' = [pc EXCEPT ![t] = "copy"]
  /\ UNCHANGED <<mem, call, item, pos, buf, ret>>

(* mutant of WriteByte: i <= len *)
WriteByteMore(t) ==
  LET op == call[t]
  IN  /\ pc[t] = "copy"
      /\ op.api \in {"write_oop", "write_iec"}
      /\ pos[t] <= CopyLen(op, item[t])
      /\ mem' = [mem EXCEPT ![item[t].start + pos[t]] = op.val]
      /\ pos' = [pos EXCEPT ![t] = @ + 1]
      /\ UNCHANGED <<owner, pc, call, item, buf, ret>>

(* one turn of the byte loop of smallcpy, into s_pDataMem ... *)
WriteByte(t) ==
  LET op == call[t]
  IN  /\ pc[t] = "copy"
      /\ op.api \in {"write_oop", "write_iec"}
      /\ pos[t] < CopyLen(op, item[t])
      /\ mem' = [mem EXCEPT ![item[t].start + pos[t]] = op.val]
      /\ pos' = [pos EXCEPT ![t] = @ + 1]
      /\ UNCHANGED <<owner, pc, call, item, buf, ret>>

(* ... and out of it *)
ReadByte(t) ==
  LET op == call[t]
  IN  /\ pc[t] = "copy"
      /\ op.api \in {"read_oop", "read_iec"}
      /\ pos[t] < CopyLen(op, item[t])
      /\ buf' = [buf EXCEPT ![t] = Append(@, mem[item[t].start + pos[t]])]
      /\ pos' = [pos EXCEPT ![t] = @ + 1]
      /\ UNCHANGED <<mem, owner, pc, call, item, ret>>

(* mutant of Unlocked: read_oop forgets the device, as write_iec does *)
UnlockedNotRead(op, found) ==
  CASE op.api = "write_iec" -> {ListLock(op)}
    [] op.api = "read_iec"  -> {IedLock(found), ListLock(op)}
    [] op.api = "write_oop" -> {IedLock(found)}
    [] OTHER                -> {}

(* what each operation unlocks when its copy is done: write_iec never       *)
(* unlocks the device                                                       *)
Unlocked(op, found) ==
  CASE op.api = "write_iec" -> {ListLock(op)}
    [] op.api = "read_iec"  -> {IedLock(found), ListLock(op)}
    [] OTHER                -> {IedLock(found)}

CopyDone(t) ==
  LET op == call[t]
  IN  /\ pc[t] = "copy"
      /\ pos[t] >= CopyLen(op, item[t])
      /\ owner' = [l \in Locks |-> IF l \in Unlocked(op, item[t]) THEN NoLock ELSE owner[l]]
      /\ Finish(t, "ok")
      /\ UNCHANGED <<mem, call, item, pos, buf>>

Step(t) ==
  \/ IecLockList(t)
  \/ WriteIecFind(t)
  \/ ReadIecFind(t)
  \/ LockIed(t)
  \/ WriteByte(t)
  \/ ReadByte(t)
  \/ CopyDone(t)

Next ==
  \E t \in Thread :
    \/ \E op \in Ops : OopCall(t, op) \/ IecCall(t, op)
    \/ Step(t)

Spec == Init /\ [][Next]_vars

(* Threads run; a mutex that is released again and again is obtained. *)
FairSpec ==
  /\ Spec
  /\ \A t \in Thread : WF_vars(Step(t)) /\ SF_vars(LockIed(t)) /\ SF_vars(IecLockList(t))

(***************************************************************************)
(* Properties.                                                             *)
(***************************************************************************)

(* Every variable has its type, and no copy passes its length. *)
TypeOK ==
  /\ mem \in [0 .. (MemLen - 1) -> Value]
  /\ owner \in [Locks -> Thread \cup {NoLock}]
  /\ pc \in [Thread -> {"idle", "list", "find", "ied", "copy"}]
  /\ call \in [Thread -> Ops]
  /\ DOMAIN item = Thread /\ \A t \in Thread : item[t] \in {NoItem, Found[call[t]]}
  /\ pos \in [Thread -> Nat]
  /\ \A t \in Thread : pc[t] = "copy" => pos[t] <= CopyLen(call[t], item[t])
  /\ buf \in [Thread -> Seq(Value)]
  /\ ret \in [Thread -> {"none", "ok", "fail"}]

(* what the last call of t has read of the first data item is one value *)
ReadWhole(t) ==
  pc[t] = "idle" /\ ret[t] = "ok" /\ call[t].api \in Reads =>
    \A i, j \in 1 .. Min({Len(buf[t]), item[t].lens[1]}) : buf[t][i] = buf[t][j]

(* A read that returns never mixes two writes of the item: smallcpy moves   *)
(* byte by byte, and the device lock is what makes a read of the first data *)
(* item see one write, whichever operations and threads are involved.       *)
ReadsAreWhole == \A t \in Thread : ReadWhole(t)

(* An operation that has returned holds no lock. *)
LocksReleased ==
  \A t \in Thread : pc[t] = "idle" => \A l \in Locks : owner[l] # t

(* Every operation returns: nobody waits for ever for a device or a list. *)
CallsReturn == \A t \in Thread : pc[t] # "idle" ~> pc[t] = "idle"

(***************************************************************************)
(* What the proofs take from the index and from the callers.               *)
(***************************************************************************)

(* the lookups of op succeed and its copy is reached *)
Copies(op) ==
  /\ Found[op].found = "item"
  /\ op.api = "read_iec" => LenOf(Found[op], op.n) <= op.len

(* every copy lies inside s_pDataMem *)
Inside ==
  \A op \in Ops : Copies(op) =>
    /\ Found[op].start \in Nat
    /\ CopyLen(op, Found[op]) \in Nat
    /\ Found[op].start + CopyLen(op, Found[op]) <= MemLen

SameItem(p, q) ==
  /\ Found[p].ied = Found[q].ied
  /\ Found[p].start = Found[q].start
  /\ Found[p].lens[1] = Found[q].lens[1]

(* the bytes of the data item found *)
Extent(op) == Found[op].start .. (Found[op].start + Found[op].lens[1] - 1)

(* data items lie in the memory and share no byte, and a writer fills the   *)
(* item it found                                                            *)
Layout ==
  /\ \A op \in Ops : Copies(op) =>
       /\ Found[op].lens[1] \in Nat
       /\ Found[op].start + Found[op].lens[1] <= MemLen
       /\ op.api \in Writes => op.len = Found[op].lens[1]
  /\ \A p, q \in Ops : Copies(p) /\ Copies(q) =>
       SameItem(p, q) \/ Extent(p) \cap Extent(q) = {}

(* Both follow from what can be said of the index and the calls by          *)
(* themselves. The data item <<i, d, k>> is the k-th of the d-th object of  *)
(* device i. rh_mem_map_init places the objects apart, and within the       *)
(* memory (module MemMap); that the items of an object keep within it and   *)
(* apart is up to its doType, and so it is in bin/meter.xml.                *)
ItemsOf(i, d) == {<<i, d, k>> : k \in DOMAIN IedList[i].dos[d].types}
DataItem ==
  UNION {UNION {ItemsOf(i, d) : d \in DOMAIN IedList[i].dos} : i \in DOMAIN IedList}

ItemStart(x) == IedList[x[1]].dos[x[2]].offset + IedList[x[1]].dos[x[2]].types[x[3]].offset
ItemLen(x)   == IedList[x[1]].dos[x[2]].types[x[3]].len
ItemBytes(x) == ItemStart(x) .. (ItemStart(x) + ItemLen(x) - 1)

SoundIndex ==
  /\ \A i \in DOMAIN IedList :
       /\ DOMAIN IedList[i].dos \subseteq Nat
       /\ \A d \in DOMAIN IedList[i].dos :
            /\ DOMAIN IedList[i].dos[d].types \subseteq Nat
            /\ Len(IedList[i].dos[d].types) \in Nat
            /\ \A k \in DOMAIN IedList[i].dos[d].types : k <= Len(IedList[i].dos[d].types)
  /\ \A x \in DataItem : /\ ItemStart(x) \in Nat /\ ItemLen(x) \in Nat
                         /\ ItemStart(x) + ItemLen(x) <= MemLen
  /\ \A x, y \in DataItem : x = y \/ ItemBytes(x) \cap ItemBytes(y) = {}

(* a write has the length of its item, and the items that a read_iec asks   *)
(* for lie in the memory                                                    *)
SoundCalls ==
  \A op \in Ops : Copies(op) =>
    /\ op.api \in Writes => op.len = Found[op].lens[1]
    /\ op.api = "read_oop" => op.len \in Nat
    /\ op.api = "read_iec" => /\ LenOf(Found[op], op.n) \in Nat
                              /\ Found[op].start + LenOf(Found[op], op.n) <= MemLen

(* no call takes one of the paths of write_iec and read_iec that return     *)
(* with a lock held                                                         *)
CleanCalls ==
  \A op \in Ops :
    /\ op.api = "write_iec" => Found[op].found \notin {"item", "no type"}
    /\ op.api = "read_iec" => Found[op].found # "no ied"

(* the locks with which a call on one of those paths returns *)
Leaked ==
  LET device == {op \in Ops : op.api = "write_iec" /\ Found[op].found = "item"}
      list   == {op \in Ops : <<op.api, Found[op].found>> \in
                               {<<"write_iec", "no type">>, <<"read_iec", "no ied">>}}
  IN  {IedLock(Found[op]) : op \in device} \cup {ListLock(op) : op \in list}

(***************************************************************************)
(* The inductive invariants.                                               *)
(***************************************************************************)

(* a thread that copies has found its item, and holds the device of it *)
Placed(t) ==
  /\ pc[t] \in {"list", "find"} => call[t].api \in {"write_iec", "read_iec"}
  /\ pc[t] \in {"list", "find", "ied"} => pos[t] = 0 /\ buf[t] = <<>>
  /\ pc[t] \in {"ied", "copy"} => item[t] = Found[call[t]] /\ Copies(call[t])
  /\ pc[t] = "copy" => owner[IedLock(item[t])] = t

PlaceInv == \A t \in Thread : Placed(t)

(* every lock is held for the call that its thread is in *)
Holds(t, l) ==
  \/ /\ call[t].api \in {"write_iec", "read_iec"}
     /\ pc[t] \in {"find", "ied", "copy"}
     /\ l = ListLock(call[t])
  \/ pc[t] = "copy" /\ l = IedLock(item[t])

HoldInv == \A t \in Thread : \A l \in Locks : owner[l] = t => Holds(t, l)

(* the same of the locks that no path leaves behind, whatever the calls *)
LeakInv == \A t \in Thread : \A l \in Locks \ Leaked : owner[l] = t => Holds(t, l)

(* An operation that has returned holds no lock but the device of a         *)
(* write_iec that found its item, the list of one that found no type, or    *)
(* the list of a read_iec that found no device: mem.c has no fourth leak.   *)
LeaksExplained ==
  \A t \in Thread : pc[t] = "idle" => \A l \in Locks : owner[l] = t => l \in Leaked

(* the thread that holds l is at one of the places P, or l was left behind *)
HeldAt(l, P) == owner[l] = NoLock \/ l \in Leaked \/ pc[owner[l]] \in P

(* Threads do not wait in a circle: lists are locked before devices, so     *)
(* whoever holds a device that another waits for is copying and waits for   *)
(* nothing, and whoever holds a list waits for a device at most.            *)
NoCircle ==
  \A t \in Thread :
    /\ pc[t] = "ied" => HeldAt(IedLock(item[t]), {"copy"})
    /\ pc[t] = "list" => HeldAt(ListLock(call[t]), {"find", "ied", "copy"})

(* steps left to an operation op at place p that has copied n bytes *)
OpCost(p, op, n) ==
  LET copy == CopyLen(op, Found[op])
  IN  CASE p = "idle" -> 0
        [] p = "copy" -> copy - n + 1
        [] p = "ied"  -> copy + 2
        [] p = "find" -> IF Copies(op) THEN copy + 3 ELSE 1
        [] p = "list" -> IF Copies(op) THEN copy + 4 ELSE 2

OpLeft(t) == OpCost(pc[t], call[t], pos[t])

(* An operation takes at most four steps more than it copies bytes: every   *)
(* step of its thread leaves fewer, and other threads leave them alone.     *)
OpsBounded ==
  [][\A t \in Thread : pc[t] # "idle" =>
       \/ UNCHANGED <<pc[t], call[t], item[t], pos[t]>>
       \/ OpLeft(t)' < OpLeft(t)]_vars

Writing(t) == pc[t] = "copy" /\ call[t].api \in Writes
Reading(t) == pc[t] = "copy" /\ call[t].api \in Reads

Uniform(op) == \A x, y \in Extent(op) : mem[x] = mem[y]

(* a data item holds one value unless it is being written, from the front   *)
(* with the value of the write; what a read has of it is that value         *)
ItemInv ==
  /\ \A op \in Ops : Copies(op) =>
       Uniform(op) \/ \E t \in Thread : Writing(t) /\ SameItem(call[t], op)
  /\ \A t \in Thread : Writing(t) =>
       \A x \in Extent(call[t]) : x < item[t].start + pos[t] => mem[x] = call[t].val
  /\ \A t \in Thread : Reading(t) =>
       /\ Len(buf[t]) = pos[t]
       /\ \A i \in 1 .. Len(buf[t]) : i <= item[t].lens[1] => buf[t][i] = mem[item[t].start]

(* The data memory is sound: a thread that copies holds the device of its   *)
(* item, which no other thread is writing, so an item is torn only for the  *)
(* thread that writes it; and no lock outlives the call it was taken for.   *)
DataInv == TypeOK /\ PlaceInv /\ HoldInv /\ ItemInv

=============================================================================
