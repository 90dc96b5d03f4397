---------------------------- MODULE MemMapProofs ----------------------------
(* Theorems about rh_mem_init for every meter.xml: the objects and their    *)
(* items share no bytes, the service thread has the memory it needs, and    *)
(* what goes wrong with a bad file goes wrong in known ways only.           *)
EXTENDS MemMap, SequenceTheorems, TLAPS

(* The smaller of two numbers is one of them and at most the other. *)
LEMMA MinOfTwo ==
  ASSUME NEW a \in Nat, NEW b \in Nat
  PROVE  Min({a, b}) \in {a, b} /\ Min({a, b}) <= b
<1>1. \E x \in {a, b} : \A y \in {a, b} : x <= y
  <2>1. CASE a <= b
    BY <2>1
  <2>2. CASE b <= a
    BY <2>2
  <2> QED
    BY <2>1, <2>2
<1>2. Min({a, b}) \in {a, b} /\ \A y \in {a, b} : Min({a, b}) <= y
  BY <1>1, Zenon DEF Min
<1> QED
  BY <1>2

(* The items an object is loaded with are items. *)
LEMMA LoadedItems ==
  ASSUME NEW d \in Do
  PROVE  Loaded(d) \in Seq(Item)
<1>1. d.num \in Int /\ d.items \in Seq(Item)
  BY DEF Do
<1>2. CASE d.num <= 0
  BY <1>2, EmptySeq DEF Loaded
<1>3. CASE ~(d.num <= 0)
  <2> DEFINE s == d.items
             n == d.num
             m == Min({n, Len(s)})
  <2>1. Len(s) \in Nat /\ n \in Nat
    BY <1>1, <1>3, LenProperties
  <2>2. m \in 0 .. Len(s)
    <3>1. m \in {n, Len(s)} /\ m <= Len(s)
      BY <2>1, MinOfTwo
    <3> QED
      BY <2>1, <3>1
  <2>3. \A i \in 1 .. m : s[i] \in Item
    <3> HIDE DEF m
    <3> QED
      BY <1>1, <2>1, <2>2, ElementOfSeq
  <2>4. Loaded(d) = SubSeq(s, 1, m)
    BY <1>3 DEF Loaded
  <2> HIDE DEF m
  <2>5. SubSeq(s, 1, m) \in Seq(Item)
    BY <1>1, <2>1, <2>2, <2>3, SubSeqProperties
  <2> QED
    BY <2>4, <2>5
<1> QED
  BY <1>2, <1>3

(* meter.xml is one of the files. *)
LEMMA FileType ==
  ASSUME TypeOK
  PROVE  /\ file \in File
         /\ Len(file.ieds) \in Nat
         /\ \A n \in 1 .. Len(file.ieds) : file.ieds[n] \in Ied
<1>1. file \in File
  BY FilesAssumption DEF TypeOK
<1>2. file.ieds \in Seq(Ied)
  BY <1>1 DEF File
<1> QED
  BY <1>1, <1>2, LenProperties, ElementOfSeq

(* With nothing loaded the invariant holds. *)
LEMMA MapInit == Init => MapInv
<1> SUFFICES ASSUME Init PROVE MapInv
  OBVIOUS
<1>1. file \in File /\ Len(file.ieds) \in Nat
  <2>1. file \in File
    BY FilesAssumption DEF Init
  <2>2. file.ieds \in Seq(Ied)
    BY <2>1 DEF File
  <2> QED
    BY <2>1, <2>2, LenProperties
<1>2. Len(List) = 4
  BY DEF List
<1>3. TypeOK
  <2>1. objs \in Seq(Obj)
    BY EmptySeq DEF Init
  <2>2. filled \in [1 .. Len(List) -> Nat] /\ list \in 1 .. Len(List)
    BY <1>2 DEF Init
  <2>3. iedN \in 0 .. Len(file.ieds) /\ doN \in Nat /\ len \in Int
    BY <1>1 DEF Init
  <2> QED
    BY <2>1, <2>2, <2>3 DEF Init, TypeOK
<1>4. ObjectsApart /\ (NoMinus => len >= 0)
  BY DEF Init, ObjectsApart
<1> QED
  BY <1>3, <1>4 DEF Init, MapInv

(* The object that rh_mem_map_init is at. *)
LEMMA CurDoType ==
  ASSUME MapInv, pc = "do", doN < Len(CurIed.dos)
  PROVE  CurDo \in Do
<1>1. TypeOK /\ iedN < Len(file.ieds)
  BY DEF MapInv
<1>2. iedN + 1 \in 1 .. Len(file.ieds)
  BY <1>1, FileType DEF TypeOK
<1>3. CurIed \in Ied
  BY <1>1, <1>2, FileType DEF CurIed
<1>4. CurIed.dos \in Seq(Do)
  BY <1>3 DEF Ied
<1>5. doN + 1 \in 1 .. Len(CurIed.dos)
  BY <1>1, <1>4, LenProperties DEF TypeOK
<1> QED
  BY <1>4, <1>5, ElementOfSeq DEF CurDo

(* An object that is put at the end of what is counted is apart from the    *)
(* others, and stays so when its length is counted.                         *)
LEMMA PutBehind ==
  ASSUME MapInv, NEW o \in Obj, o.offset = len, objs' = Append(objs, o),
         len' \in Int, len' = len + o.len
  PROVE  /\ objs' \in Seq(Obj)
         /\ ObjectsApart'
         /\ NoMinus' => len' >= 0
<1>1. objs \in Seq(Obj) /\ len \in Int
  BY DEF MapInv, TypeOK
<1>2. o.len \in Int
  BY DEF Obj
<1>3. /\ DOMAIN objs = 1 .. Len(objs) /\ Len(objs) \in Nat
      /\ \A i \in 1 .. Len(objs) : objs[i] \in Obj
  BY <1>1, LenProperties, ElementOfSeq
<1>4. /\ objs' \in Seq(Obj)
      /\ DOMAIN objs' = 1 .. (Len(objs) + 1)
      /\ \A i \in 1 .. Len(objs) : objs'[i] = objs[i]
      /\ objs'[Len(objs) + 1] = o
  BY <1>1, AppendProperties, LenProperties
<1>5. \A i \in 1 .. Len(objs) : objs[i].offset \in Int /\ objs[i].len \in Int
  BY <1>3 DEF Obj
<1>6. ASSUME NoMinus' PROVE ObjectsApart' /\ len' >= 0
  <2>1. o.len >= 0
    <3>1. Len(objs) + 1 \in DOMAIN objs'
      BY <1>3, <1>4
    <3>2. objs'[Len(objs) + 1].len >= 0
      BY <1>6, <3>1 DEF NoMinus
    <3> QED
      BY <1>4, <3>2
  <2>2. NoMinus
    <3>1. \A i \in 1 .. Len(objs) : i \in DOMAIN objs'
      BY <1>3, <1>4
    <3>2. \A i \in 1 .. Len(objs) : objs'[i].len >= 0
      BY <1>6, <3>1 DEF NoMinus
    <3> QED
      BY <1>3, <1>4, <3>2 DEF NoMinus
  <2>3. len >= 0 /\ ObjectsApart
    BY <2>2 DEF MapInv
  <2>4. \A i \in 1 .. Len(objs) :
          /\ objs[i].offset >= 0
          /\ objs[i].offset + objs[i].len <= len
          /\ \A j \in 1 .. Len(objs) : i < j => objs[i].offset + objs[i].len <= objs[j].offset
    BY <1>3, <2>2, <2>3 DEF ObjectsApart
  <2>5. \A i \in 1 .. (Len(objs) + 1) :
          objs'[i].offset >= 0 /\ objs'[i].offset + objs'[i].len <= len'
    <3> SUFFICES ASSUME NEW i \in 1 .. (Len(objs) + 1)
                 PROVE  objs'[i].offset >= 0 /\ objs'[i].offset + objs'[i].len <= len'
      OBVIOUS
    <3>1. CASE i \in 1 .. Len(objs)
      <4>1. /\ objs'[i] = objs[i] /\ objs[i].offset >= 0 /\ objs[i].offset + objs[i].len <= len
            /\ objs[i].offset \in Int /\ objs[i].len \in Int
        BY <1>4, <1>5, <2>4, <3>1
      <4> QED
        BY <1>1, <1>2, <2>1, <4>1
    <3>2. CASE i = Len(objs) + 1
      BY <1>1, <1>2, <1>4, <2>1, <2>3, <3>2
    <3> QED
      BY <1>3, <3>1, <3>2
  <2>6. ASSUME NEW i \in 1 .. (Len(objs) + 1), NEW j \in 1 .. (Len(objs) + 1), i < j
        PROVE  objs'[i].offset + objs'[i].len <= objs'[j].offset
    <3>1. i \in 1 .. Len(objs)
      BY <1>3, <2>6
    <3>2. CASE j = Len(objs) + 1
      BY <3>1, <3>2, <1>4, <2>4
    <3>3. CASE j \in 1 .. Len(objs)
      BY <3>1, <3>3, <1>4, <2>4, <2>6
    <3> QED
      BY <3>2, <3>3, <1>3
  <2>7. len' >= 0
    BY <1>1, <1>2, <2>1, <2>3
  <2> QED
    BY <1>4, <2>5, <2>6, <2>7 DEF ObjectsApart
<1> QED
  BY <1>4, <1>6 DEF ObjectsApart

(* The next object is put behind all the others. *)
LEMMA MapDoStep ==
  ASSUME MapInv, MapDo
  PROVE  MapInv'
<1> DEFINE o == [offset |-> len, len |-> CurDo.len, items |-> Loaded(CurDo),
                 junk |-> Len(CurDo.items) < CurDo.num]
<1>1. TypeOK /\ len \in Int /\ doN \in Nat
  BY DEF MapInv, TypeOK
<1>2. CurDo \in Do
  BY CurDoType DEF MapDo
<1>3. CurDo.len \in Int /\ Loaded(CurDo) \in Seq(Item)
  BY <1>2, LoadedItems DEF Do
<1>4. (Len(CurDo.items) < CurDo.num) \in BOOLEAN
  OBVIOUS
<1>5. o \in Obj /\ o.offset = len /\ o.len = CurDo.len
  BY <1>1, <1>3, <1>4 DEF Obj
<1>6. /\ objs' = Append(objs, o) /\ len' = len + CurDo.len /\ doN' = doN + 1
      /\ UNCHANGED <<file, pc, list, filled, iedN, mem, service>>
  BY DEF MapDo
<1> HIDE DEF o
<1>7. len' \in Int /\ len' = len + o.len
  BY <1>1, <1>3, <1>5, <1>6
<1>8. objs' \in Seq(Obj) /\ ObjectsApart' /\ (NoMinus' => len' >= 0)
  BY <1>5, <1>6, <1>7, PutBehind
<1>9. TypeOK'
  BY <1>1, <1>6, <1>7, <1>8 DEF TypeOK
<1>10. pc = "do" /\ ~service
  BY DEF MapDo, MapInv
<1> QED
  BY <1>6, <1>8, <1>9, <1>10 DEF MapInv

(* An object that cannot be read leaves the others where they are. *)
LEMMA MapDoFailsStep ==
  ASSUME MapInv, MapDoFails
  PROVE  MapInv'
<1> DEFINE o == [offset |-> len, len |-> 0, items |-> <<>>, junk |-> TRUE]
<1>1. /\ pc = "do" /\ pc' = "failed" /\ ~service
      /\ UNCHANGED <<file, list, filled, iedN, doN, len, mem, service>>
      /\ UNCHANGED objs \/ objs' = Append(objs, o)
  BY DEF MapDoFails, MapInv
<1>2. o \in Obj /\ o.offset = len /\ o.len = 0 /\ len \in Int
  BY EmptySeq DEF Obj, MapInv, TypeOK
<1> HIDE DEF o
<1>3. objs' \in Seq(Obj) /\ ObjectsApart' /\ (NoMinus' => len' >= 0)
  <2>1. CASE UNCHANGED objs
    BY <1>1, <2>1 DEF MapInv, TypeOK, ObjectsApart, NoMinus
  <2>2. CASE objs' = Append(objs, o)
    <3>1. len' \in Int /\ len' = len + o.len
      BY <1>1, <1>2
    <3> QED
      BY <1>2, <2>2, <3>1, PutBehind
  <2> QED
    BY <1>1, <2>1, <2>2
<1>4. TypeOK'
  BY <1>1, <1>3 DEF MapInv, TypeOK
<1> QED
  BY <1>1, <1>3, <1>4 DEF MapInv

(* Every step of rh_mem_init and of main keeps MapInv. *)
LEMMA MapStep == MapInv /\ [Next]_vars => MapInv'
<1> SUFFICES ASSUME MapInv, [Next]_vars PROVE MapInv'
  OBVIOUS
<1>a. TypeOK /\ ObjectsApart
  BY DEF MapInv
<1>b. Len(file.ieds) \in Nat /\ iedN \in 0 .. Len(file.ieds) /\ len \in Int
  BY <1>a, FileType DEF TypeOK
<1>c. Len(List) = 4
  BY DEF List
<1>o. ASSUME UNCHANGED <<objs, len>> PROVE ObjectsApart' /\ (NoMinus' => len' >= 0)
  BY <1>o DEF ObjectsApart, NoMinus, MapInv
<1>1. CASE NoPoints
  <2>1. TypeOK'
    BY <1>1, <1>a DEF NoPoints, TypeOK
  <2> QED
    BY <1>1, <1>o, <2>1 DEF NoPoints, MapInv
<1>2. CASE LoadEntry
  <2>1. filled' \in [1 .. Len(List) -> Nat]
    <3>1. filled' \in {filled, [filled EXCEPT ![list] = @ + 1]}
      BY <1>2 DEF LoadEntry
    <3> QED
      BY <1>a, <3>1 DEF TypeOK
  <2>2. pc' \in {"points", "failed", "crashed"} /\ pc = "points"
    BY <1>2 DEF LoadEntry
  <2>3. UNCHANGED <<file, list, iedN, doN, objs, len, mem, service>>
    BY <1>2 DEF LoadEntry
  <2>4. TypeOK'
    BY <1>a, <2>1, <2>2, <2>3 DEF TypeOK
  <2> QED
    BY <1>o, <2>2, <2>3, <2>4 DEF MapInv
<1>3. CASE ListLoaded
  <2>1. /\ UNCHANGED <<file, filled, iedN, doN, objs, len, mem, service>>
        /\ pc' \in {"points", "map"} /\ pc = "points"
    BY <1>3 DEF ListLoaded
  <2>2. list' \in 1 .. Len(List)
    BY <1>3, <1>a, <1>c DEF ListLoaded, TypeOK
  <2>3. TypeOK'
    BY <1>a, <2>1, <2>2 DEF TypeOK
  <2> QED
    BY <1>o, <2>1, <2>3 DEF MapInv
<1>4. CASE MapBegin
  <2>1. TypeOK'
    BY <1>4, <1>a DEF MapBegin, TypeOK
  <2> QED
    BY <1>4, <1>o, <2>1 DEF MapBegin, MapInv
<1>5. CASE MapIed
  <2>1. /\ pc' \in {"alloc", "failed", "do"} /\ pc = "ied" /\ doN' = 0
        /\ UNCHANGED <<file, list, filled, iedN, objs, len, mem, service>>
    BY <1>5 DEF MapIed
  <2>2. pc' = "do" => iedN # Len(file.ieds)
    BY <1>5 DEF MapIed
  <2>3. TypeOK'
    BY <1>a, <2>1 DEF TypeOK
  <2> QED
    BY <1>b, <1>o, <2>1, <2>2, <2>3 DEF MapInv
<1>6. CASE MapDo
  BY <1>6, MapDoStep
<1>7. CASE IedMapped
  <2>1. /\ pc = "do" /\ pc' = "ied" /\ iedN' = iedN + 1
        /\ UNCHANGED <<file, list, filled, doN, objs, len, mem, service>>
    BY <1>7 DEF IedMapped
  <2>2. iedN' \in 0 .. Len(file.ieds)
    BY <1>b, <2>1 DEF MapInv
  <2>3. TypeOK'
    BY <1>a, <2>1, <2>2 DEF TypeOK
  <2> QED
    BY <1>o, <2>1, <2>3 DEF MapInv
<1>8. CASE MemAlloc
  <2>1. /\ pc' \in {"up", "failed"} /\ (mem' = mem \/ (mem' = len /\ len >= 0))
        /\ service' \in {TRUE, service}
        /\ UNCHANGED <<file, list, filled, iedN, doN, objs, len>>
        /\ pc = "alloc"
    BY <1>8 DEF MemAlloc
  <2>2. TypeOK'
    <3>1. mem' \in Nat \cup {None}
      BY <1>a, <1>b, <2>1 DEF TypeOK
    <3> QED
      BY <1>a, <2>1, <3>1 DEF TypeOK
  <2> QED
    BY <1>8, <1>o, <2>1, <2>2 DEF MapInv, MemAlloc
<1>9. CASE MainWrite \/ HeapDeath \/ BadNum
  <2>1. /\ pc' \in {pc, "crashed", "failed"}
        /\ pc' = "failed" => pc \in {"failed", "points"}
        /\ UNCHANGED <<file, list, filled, iedN, doN, objs, len, mem, service>>
    <3>1. CASE MainWrite
      BY <3>1 DEF MainWrite
    <3>2. CASE HeapDeath
      BY <3>2 DEF HeapDeath
    <3>3. CASE BadNum
      BY <3>3 DEF BadNum
    <3> QED
      BY <1>9, <3>1, <3>2, <3>3
  <2>2. TypeOK'
    BY <1>a, <2>1 DEF TypeOK
  <2> QED
    BY <1>o, <2>1, <2>2 DEF MapInv
<1>10. CASE MapDoFails
  BY <1>10, MapDoFailsStep
<1>11. CASE UNCHANGED vars
  <2>1. TypeOK'
    BY <1>11, <1>a DEF vars, TypeOK
  <2> QED
    BY <1>11, <1>o, <2>1 DEF vars, MapInv
<1> QED
  BY <1>1, <1>2, <1>3, <1>4, <1>5, <1>6, <1>7, <1>8, <1>9, <1>10, <1>11 DEF Next

(* The inductive invariant holds in every reachable state, for every file. *)
THEOREM MapInvariant == Spec => []MapInv
  BY MapInit, MapStep, PTL DEF Spec

(* rh_mem_init starts the service thread only with memory, and with enough  *)
(* of it for every object when no object has a negative length.             *)
THEOREM ServiceAfterMemory == Spec => []ServiceHasMemory
<1>1. MapInv => ServiceHasMemory
  <2> SUFFICES ASSUME MapInv, service
               PROVE  /\ mem # None
                      /\ NoMinus => \A i \in DOMAIN objs : objs[i].offset + objs[i].len <= mem
    BY DEF ServiceHasMemory
  <2>1. mem = len /\ len >= 0 /\ mem # None
    BY DEF MapInv, None
  <2>2. NoMinus => \A i \in DOMAIN objs : objs[i].offset + objs[i].len <= mem
    BY <2>1 DEF MapInv, ObjectsApart
  <2> QED
    BY <2>1, <2>2
<1> QED
  BY <1>1, MapInvariant, PTL

(* Items that fit their objects never share a byte with those of another    *)
(* object, as rh_mem_map_init places the objects.                           *)
THEOREM ItemsShareNothing == Spec => []ItemsApart
<1>1. MapInv => ItemsApart
  <2> SUFFICES ASSUME MapInv, NoMinus,
                      NEW i \in DOMAIN objs, NEW j \in DOMAIN objs, i < j,
                      NEW a \in DOMAIN objs[i].items, NEW b \in DOMAIN objs[j].items,
                      Fits(objs[i], a), Fits(objs[j], b)
               PROVE  Bytes(objs[i], a) \cap Bytes(objs[j], b) = {}
    BY DEF ItemsApart
  <2>1. objs \in Seq(Obj)
    BY DEF MapInv, TypeOK
  <2>2. objs[i] \in Obj /\ objs[j] \in Obj
    BY <2>1, LenProperties, ElementOfSeq
  <2>3. objs[i].items \in Seq(Item) /\ objs[j].items \in Seq(Item)
    BY <2>2 DEF Obj
  <2>4. objs[i].items[a] \in Item /\ objs[j].items[b] \in Item
    BY <2>3, LenProperties, ElementOfSeq
  <2>5. /\ objs[i].offset \in Int /\ objs[i].len \in Int /\ objs[j].offset \in Int
        /\ objs[i].items[a].offset \in Int /\ objs[i].items[a].len \in Int
        /\ objs[j].items[b].offset \in Int /\ objs[j].items[b].len \in Int
    BY <2>2, <2>4 DEF Obj, Item
  <2>6. objs[i].offset + objs[i].len <= objs[j].offset
    BY DEF MapInv, ObjectsApart
  <2>7. /\ objs[i].items[a].offset + objs[i].items[a].len <= objs[i].len
        /\ objs[j].items[b].offset >= 0
    BY DEF Fits
  <2> QED
    BY <2>5, <2>6, <2>7 DEF Bytes
<1> QED
  BY <1>1, MapInvariant, PTL

(* What rh_mem_map_init builds from a file with proper doTypes is an index  *)
(* in which every item has bytes of its own, and of s_pDataMem.             *)
THEOREM IndexHasOwnBytes == Spec => []IndexSound
<1>1. ASSUME MapInv, ServiceHasMemory, ItemsApart PROVE IndexSound
  <2> SUFFICES ASSUME service, ProperTypes,
                      NEW i \in DOMAIN objs, NEW j \in DOMAIN objs,
                      NEW a \in DOMAIN objs[i].items, NEW b \in DOMAIN objs[j].items
               PROVE  /\ Bytes(objs[i], a) \subseteq 0 .. (mem - 1)
                      /\ (i = j /\ a = b) \/ Bytes(objs[i], a) \cap Bytes(objs[j], b) = {}
    BY DEF IndexSound
  <2>1. objs \in Seq(Obj)
    BY <1>1 DEF MapInv, TypeOK
  <2>2. i \in Nat /\ j \in Nat /\ objs[i] \in Obj
    BY <2>1, LenProperties, ElementOfSeq
  <2>3. objs[i].items \in Seq(Item)
    BY <2>2 DEF Obj
  <2>4. objs[i].items[a] \in Item
    BY <2>3, LenProperties, ElementOfSeq
  <2>5. /\ objs[i].offset \in Int /\ objs[i].len \in Int
        /\ objs[i].items[a].offset \in Int /\ objs[i].items[a].len \in Int
    BY <2>2, <2>4 DEF Obj, Item
  <2>6. NoMinus /\ Fits(objs[i], a) /\ Fits(objs[j], b)
    BY DEF ProperTypes
  <2>7. mem \in Nat /\ objs[i].offset + objs[i].len <= mem /\ objs[i].offset >= 0
    BY <1>1, <2>6 DEF ServiceHasMemory, MapInv, TypeOK, ObjectsApart
  <2>8. Bytes(objs[i], a) \subseteq 0 .. (mem - 1)
    BY <2>5, <2>6, <2>7 DEF Bytes, Fits
  <2>9. CASE i = j
    BY <2>8, <2>9 DEF ProperTypes
  <2>10. CASE i # j
    <3>1. i < j \/ j < i
      BY <2>2, <2>10
    <3>2. Bytes(objs[i], a) \cap Bytes(objs[j], b) = {}
      BY <1>1, <2>6, <3>1 DEF ItemsApart
    <3> QED
      BY <2>8, <3>2
  <2> QED
    BY <2>9, <2>10
<1> QED
  BY <1>1, MapInvariant, ServiceAfterMemory, ItemsShareNothing, PTL

(* While the lists are loaded no object is in the index yet and the service *)
(* thread has not been started.                                             *)
PointsFirst == pc = "points" => objs = <<>> /\ ~service

(* Every step keeps the reasons rhApp may have died of. *)
LEMMA CrashStep ==
  MapInv /\ PointsFirst /\ CrashExplained /\ [Next]_vars => (PointsFirst /\ CrashExplained)'
<1> SUFFICES ASSUME MapInv, PointsFirst, CrashExplained, [Next]_vars
             PROVE  (PointsFirst /\ CrashExplained)'
  OBVIOUS
<1>1. CASE NoPoints
  BY <1>1 DEF NoPoints, PointsFirst, CrashExplained
<1>2. CASE LoadEntry
  <2> DEFINE lacks == Entries[filled[list] + 1]
  <2>1. /\ pc = "points" /\ objs = <<>> /\ ~service /\ filled[list] < Len(Entries)
        /\ UNCHANGED <<file, list, objs, service>>
    BY <1>2 DEF LoadEntry, PointsFirst
  <2>2. CASE Deadly(list, lacks)
    <3>1. UNCHANGED filled /\ pc' \in {"failed", "crashed"}
      BY <1>2, <2>2 DEF LoadEntry
    <3>2. Entries' = Entries /\ (Deadly(list, lacks))' = Deadly(list, lacks)
      BY <2>1, <3>1 DEF Entries, Deadly
    <3>3. KilledByList'
      BY <2>1, <2>2, <3>1, <3>2 DEF KilledByList
    <3> QED
      BY <3>1, <3>3 DEF PointsFirst, CrashExplained
  <2>3. CASE ~Deadly(list, lacks)
    <3>1. pc' \in {"failed", "points"}
      BY <1>2, <2>1, <2>3 DEF LoadEntry
    <3> QED
      BY <2>1, <3>1 DEF PointsFirst, CrashExplained
  <2> QED
    BY <2>2, <2>3
<1>3. CASE ListLoaded
  <2>1. /\ pc = "points" /\ pc' \in {"points", "map"}
        /\ UNCHANGED <<objs, service>>
    BY <1>3 DEF ListLoaded
  <2> QED
    BY <2>1 DEF PointsFirst, CrashExplained
<1>4. CASE MapBegin
  BY <1>4 DEF MapBegin, PointsFirst, CrashExplained
<1>5. CASE MapIed
  <2>1. pc' \in {"alloc", "failed", "do"}
    BY <1>5, Zenon DEF MapIed
  <2> QED
    BY <2>1 DEF PointsFirst, CrashExplained
<1>6. CASE MapDo \/ MapDoFails
  <2>1. pc' \in {"do", "failed"}
    BY <1>6 DEF MapDo, MapDoFails
  <2> QED
    BY <2>1 DEF PointsFirst, CrashExplained
<1>7. CASE IedMapped
  BY <1>7 DEF IedMapped, PointsFirst, CrashExplained
<1>8. CASE MemAlloc
  BY <1>8 DEF MemAlloc, PointsFirst, CrashExplained
<1>9. CASE MainWrite
  <2>1. /\ pc \in {"up", "failed"} /\ pc' \in {pc, "crashed"}
        /\ UNCHANGED <<file, list, filled, objs, mem, service>>
    BY <1>9 DEF MainWrite
  <2>2. mem = None => ~service
    BY DEF MapInv, None
  <2>3. CASE pc' = pc
    BY <2>1, <2>3 DEF PointsFirst, CrashExplained
  <2>4. CASE pc' = "crashed"
    <3>1. pc # "crashed"
      BY <2>1
    <3>2. PICK i \in DOMAIN objs :
            \/ objs[i].junk
            \/ \E k \in DOMAIN objs[i].items :
                 "crashed" \in IF mem = None THEN {"crashed"}
                              ELSE IF Outside(objs[i], k) THEN {pc, "crashed"} ELSE {pc}
      BY <1>9, <2>4 DEF MainWrite
    <3>5. KilledByMain
      <4>1. CASE objs[i].junk
        BY <4>1 DEF KilledByMain
      <4>2. CASE \E k \in DOMAIN objs[i].items :
                   "crashed" \in IF mem = None THEN {"crashed"}
                                ELSE IF Outside(objs[i], k) THEN {pc, "crashed"} ELSE {pc}
        <5>1. PICK k \in DOMAIN objs[i].items : mem = None \/ Outside(objs[i], k)
          BY <3>1, <4>2
        <5>2. objs[i].items # <<>>
          <6>1. objs \in Seq(Obj)
            BY DEF MapInv, TypeOK
          <6>2. objs[i] \in Obj
            BY <6>1, LenProperties, ElementOfSeq
          <6>3. objs[i].items \in Seq(Item)
            BY <6>2 DEF Obj
          <6> QED
            BY <5>1, <6>3, EmptySeq
        <5> QED
          BY <2>2, <5>1, <5>2 DEF KilledByMain
      <4> QED
        BY <3>2, <4>1, <4>2
    <3>6. KilledByMain'
      BY <2>1, <3>5 DEF KilledByMain, Outside, Touched
    <3> QED
      BY <2>4, <3>6 DEF PointsFirst, CrashExplained
  <2> QED
    BY <2>1, <2>3, <2>4
<1>10. CASE HeapDeath
  <2>1. (\E l \in DOMAIN filled : Overrun(l))'
    BY <1>10 DEF HeapDeath, Overrun
  <2> QED
    BY <1>10, <2>1 DEF HeapDeath, PointsFirst, CrashExplained
<1>11. CASE BadNum
  <2>1. /\ objs = <<>> /\ ~service /\ UNCHANGED <<file, list, objs, service>>
        /\ pc' = IF file.lists[list].hasNum THEN "failed" ELSE "crashed"
    BY <1>11 DEF BadNum, PointsFirst
  <2> QED
    BY <2>1 DEF KilledByList, PointsFirst, CrashExplained
<1>12. CASE UNCHANGED vars
  BY <1>12 DEF vars, PointsFirst, CrashExplained, KilledByList, KilledByMain, Overrun, Outside,
               Touched, Entries, Deadly
<1> QED
  BY <1>1, <1>2, <1>3, <1>4, <1>5, <1>6, <1>7, <1>8, <1>9, <1>10, <1>11, <1>12 DEF Next

(* What main and the loading of its lists die of is what the file or a      *)
(* failed allocation gives them to die of, for every file; with the service *)
(* thread started it is one entry too many in a list, an item that main's   *)
(* write does not fit, or an object short of items.                         *)
THEOREM DeathsExplained == Spec => []CrashExplained
<1>1. Init => PointsFirst /\ CrashExplained
  BY DEF Init, PointsFirst, CrashExplained
<1> QED
  BY <1>1, CrashStep, MapInvariant, PTL DEF Spec

(* No step makes a list longer than its allocation but by the one entry that *)
(* the test ycNum > nNum lets pass.                                          *)
LEMMA OverrunStep == MapInv /\ OverrunByOne /\ [Next]_vars => OverrunByOne'
<1> SUFFICES ASSUME MapInv, OverrunByOne, [Next]_vars PROVE OverrunByOne'
  OBVIOUS
<1>1. CASE UNCHANGED <<file, filled>>
  BY <1>1 DEF OverrunByOne
<1>2. CASE LoadEntry /\ filled' = [filled EXCEPT ![list] = @ + 1]
  <2> SUFFICES ASSUME NEW l \in DOMAIN filled, filled'[l] > 0
               PROVE  \/ filled'[l] <= file.lists[l].num
                      \/ List[l] # "ID" /\ filled'[l] = file.lists[l].num + 1
                           /\ Len(file.lists[l].lacks) > file.lists[l].num
    BY <1>2 DEF LoadEntry, OverrunByOne
  <2>1. l \in 1 .. Len(List) /\ filled \in [1 .. Len(List) -> Nat]
    BY DEF MapInv, TypeOK
  <2>2. CASE l # list
    <3>1. filled'[l] = filled[l]
      BY <1>2, <2>1, <2>2
    <3> QED
      BY <3>1 DEF OverrunByOne
  <2>3. CASE l = list
    <3>1. file.lists[l].num \in Int /\ Len(file.lists[l].lacks) \in Nat
      <4>1. file \in File
        BY FilesAssumption DEF MapInv, TypeOK
      <4>2. file.lists[l] \in Nodes
        BY <4>1, <2>1 DEF File
      <4>3. file.lists[l].num \in Int /\ file.lists[l].lacks \in Seq(Entry)
        BY <4>2 DEF Nodes
      <4> QED
        BY <4>3, LenProperties
    <3>2. filled[l] \in Nat /\ filled'[l] = filled[l] + 1
      BY <1>2, <2>1, <2>3
    <3>3. filled[l] < Len(file.lists[l].lacks) /\ ~Full(l)
      BY <1>2, <2>3 DEF LoadEntry, Entries
    <3>4. CASE List[l] = "ID"
      BY <3>1, <3>2, <3>3, <3>4 DEF Full
    <3>5. CASE List[l] # "ID"
      <4>1. filled[l] <= file.lists[l].num
        BY <3>1, <3>2, <3>3, <3>5 DEF Full
      <4> QED
        BY <3>1, <3>2, <3>3, <3>5, <4>1
    <3> QED
      BY <3>4, <3>5
  <2> QED
    BY <2>2, <2>3
<1>3. UNCHANGED <<file, filled>> \/ (LoadEntry /\ filled' = [filled EXCEPT ![list] = @ + 1])
  <2>1. CASE LoadEntry
    <3>1. UNCHANGED file /\ filled' \in {filled, [filled EXCEPT ![list] = @ + 1]}
      BY <2>1 DEF LoadEntry
    <3> QED
      BY <2>1, <3>1
  <2>2. CASE NoPoints \/ BadNum \/ ListLoaded \/ MapBegin \/ MapIed \/ IedMapped \/ MemAlloc
    BY <2>2 DEF NoPoints, BadNum, ListLoaded, MapBegin, MapIed, IedMapped, MemAlloc
  <2>3. CASE MapDo \/ MapDoFails
    BY <2>3 DEF MapDo, MapDoFails
  <2>4. CASE MainWrite \/ HeapDeath
    BY <2>4 DEF MainWrite, HeapDeath
  <2> QED
    BY <2>1, <2>2, <2>3, <2>4 DEF Next, vars
<1> QED
  BY <1>1, <1>2, <1>3

(* rh_point_list_load writes at most one entry past a telemetry list, only   *)
(* when the file has more points than it announces, and none past the ID     *)
(* list.                                                                     *)
THEOREM OneEntryTooMany == Spec => []OverrunByOne
<1>1. Init => OverrunByOne
  BY DEF Init, OverrunByOne
<1> QED
  BY <1>1, OverrunStep, MapInvariant, PTL DEF Spec
=============================================================================
