--------------------------- MODULE ParaLoadProofs ---------------------------
(* For every file: what meter_para_load leaves in g_ParaMet, and that the    *)
(* loop of ParaLoad ends with what the line-loss task starts from.           *)
EXTENDS ParaLoad, MeterParaProofs, FiniteSetTheorems

(* What the invariant says of the children and of the table. *)
LEMMA LoadFacts ==
  ASSUME LoadInv
  PROVE  /\ IsFile(file) /\ Len(file.nodes) \in Nat
         /\ \A j \in 1 .. Len(file.nodes) : file.nodes[j] \in Node(Int, Nat, Nat)
         /\ s.tab \in Meters /\ s.stray \in SUBSET Int /\ s.idx \in Nat
         /\ s.more \in BOOLEAN /\ s.ret \in Int
         /\ Whole \subseteq 1 .. k /\ k \in Nat
<1>1. IsFile(file)
  BY FilesAssumption DEF LoadInv
<1>2. Len(file.nodes) \in Nat /\ \A j \in 1 .. Len(file.nodes) : file.nodes[j] \in Node(Int, Nat, Nat)
  BY <1>1 DEF IsFile
<1>3. /\ s.tab \in Meters /\ s.stray \in SUBSET Int /\ s.idx \in Nat
      /\ s.more \in BOOLEAN /\ s.ret \in Int
  BY DEF LoadInv, Loop
<1>4. k \in Nat /\ s.idx <= k
  BY <1>2, <1>3 DEF LoadInv
<1> QED
  BY <1>1, <1>2, <1>3, <1>4 DEF Whole

(* The loop begins with an empty table. *)
LEMMA LoadInit == Init => LoadInv
<1> SUFFICES ASSUME Init PROVE LoadInv
  OBVIOUS
<1>1. file \in Files /\ k = 0 /\ s = Begin(file.num) /\ IsFile(file)
  BY FilesAssumption DEF Init
<1>2. Len(file.nodes) \in Nat /\ file.num \in Int
  BY <1>1 DEF IsFile
<1>3. s \in Loop
  BY <1>1, <1>2, BeginTyped
<1>4. s.idx = 0 /\ s.tab = [m \in Metid |-> NoMeter]
  BY <1>1 DEF Begin
<1>5. Whole = {}
  BY <1>4 DEF Whole
<1>6. ASSUME NEW m \in Metid PROVE Loaded(m)
  BY <1>4, <1>5 DEF Loaded, Touching
<1> QED
  BY <1>1, <1>2, <1>3, <1>4, <1>5, <1>6 DEF LoadInv

(* What a whole entry leaves of a meter. *)
LEMMA FieldsOfWhole ==
  ASSUME NEW met, NEW e, Complete(e), e.baud \in BOOLEAN, e.proto \in BOOLEAN
  PROVE  /\ Fields(met, e).level = e.level % Byte
         /\ e.port # Missing => Fields(met, e).port = e.port
  BY DEF Complete, Fields

(* An entry writes to the meters it reaches and to no others; of a whole    *)
(* one the meter it names has the fields.                                   *)
LEMMA WrittenTo ==
  ASSUME NEW tab \in Meters, NEW e \in Node(Int, Nat, Nat), e.index # Missing, NEW m \in Metid
  PROVE  /\ m \notin Reach(e) => Written(tab, e)[m] = tab[m]
         /\ m = e.index /\ Complete(e) =>
              /\ Written(tab, e)[m].level = e.level % Byte
              /\ e.port # Missing => Written(tab, e)[m].port = e.port
<1>1. e.index \in Int /\ e.addr \in Spill /\ m \in Int /\ MaxMet \in Nat
  BY ParaAssumption DEF Node, Metid
<1>2. Len(e.addr) \in Nat /\ DOMAIN e.addr = 1 .. Len(e.addr)
  BY <1>1 DEF Spill
<1>3. ASSUME m \notin Reach(e) PROVE Written(tab, e)[m] = tab[m]
  <2>1. m # e.index /\ m \notin e.index .. (e.index + Len(e.addr) - 1)
    BY <1>3 DEF Reach
  <2>2. m - e.index + 1 \notin DOMAIN e.addr
    BY <1>1, <1>2, <2>1
  <2> QED
    BY <2>1, <2>2 DEF Written, Spilt
<1>4. ASSUME m = e.index, Complete(e)
      PROVE  /\ Written(tab, e)[m].level = e.level % Byte
             /\ e.port # Missing => Written(tab, e)[m].port = e.port
  <2>1. Written(tab, e)[m] = Fields(Spilt(tab, e)[m], e)
    BY <1>4 DEF Written
  <2>2. e.baud \in BOOLEAN /\ e.proto \in BOOLEAN
    BY DEF Node
  <2> QED
    BY <1>4, <2>1, <2>2, FieldsOfWhole
<1> QED
  BY <1>3, <1>4

(* A turn over entry e leads from t to u: it returns with nothing stored, or *)
(* stores the entry where it points, and goes on if it is whole.             *)
Turned(t, e, num, u) ==
  \/ /\ ~u.more /\ u.idx = t.idx /\ u.tab = t.tab /\ u.stray = t.stray
     /\ t.idx > num \/ e.index = Missing \/ e.index >= MaxMeter
  \/ /\ t.idx <= num /\ e.index # Missing /\ e.index \in Int /\ e.index < MaxMeter
     /\ IF Complete(e) THEN u.more = t.more /\ u.idx = t.idx + 1
                       ELSE ~u.more /\ u.idx = t.idx /\ u.ret = -1
     /\ u.tab = Written(t.tab, e)
     /\ u.stray = t.stray \cup (Reach(e) \ Metid)

(* That is what the code of a turn does. *)
LEMMA TurnCases ==
  ASSUME NEW t \in Loop, NEW e \in Node(Int, Nat, Nat), NEW num \in Int
  PROVE  Turned(t, e, num, Turn(t, e, num))
<1> DEFINE u == Turn(t, e, num)
<1>0. /\ t.idx \in Nat /\ e.index \in Int \cup {Missing} /\ MaxMeter \in Nat /\ Missing \notin Int
      /\ t = [tab |-> t.tab, stray |-> t.stray, idx |-> t.idx, more |-> t.more, ret |-> t.ret]
  BY ParaAssumption DEF Loop, Node
<1>1. ASSUME NEW v \in Loop, NEW n
      PROVE  /\ ~Return(v, n).more /\ Return(v, n).idx = v.idx /\ Return(v, n).tab = v.tab
             /\ Return(v, n).stray = v.stray /\ Return(v, n).ret = n
  BY DEF Return, Loop
<1>2. CASE t.idx > num \/ e.index = Missing \/ e.index >= MaxMeter
  BY <1>0, <1>1, <1>2 DEF Turn, Turned
<1>3. CASE ~(t.idx > num) /\ e.index # Missing /\ ~(e.index >= MaxMeter)
  <2> DEFINE v == Store(t, e)
  <2>1. /\ v.idx = t.idx /\ v.more = t.more /\ v.ret = t.ret
        /\ v.tab = Written(t.tab, e) /\ v.stray = t.stray \cup (Reach(e) \ Metid)
    BY <1>0 DEF Store, Loop
  <2>2. v \in Loop
    BY <1>3, StoreTyped
  <2>3. u = IF Complete(e) THEN [v EXCEPT !.idx = v.idx + 1] ELSE Return(v, -1)
    BY <1>3 DEF Turn
  <2> HIDE DEF v
  <2>4. CASE Complete(e)
    <3>1. /\ u.idx = v.idx + 1 /\ u.more = v.more /\ u.ret = v.ret /\ u.tab = v.tab
          /\ u.stray = v.stray
      BY <2>2, <2>3, <2>4 DEF Loop
    <3> QED
      BY <3>1, <2>1, <2>4, <1>0, <1>3 DEF Turned
  <2>5. CASE ~Complete(e)
    <3>1. /\ u.idx = v.idx /\ ~u.more /\ u.ret = -1 /\ u.tab = v.tab /\ u.stray = v.stray
      BY <2>2, <2>3, <2>5, <1>1
    <3> QED
      BY <3>1, <2>1, <2>5, <1>0, <1>3 DEF Turned
  <2> QED
    BY <2>4, <2>5
<1> QED
  BY <1>0, <1>2, <1>3

(* A step that leaves the table and the entries stored leaves what it has   *)
(* of a meter.                                                              *)
LEMMA LoadedKept ==
  ASSUME NEW m \in Metid, Loaded(m), file' = file, s'.idx = s.idx, s'.tab[m] = s.tab[m]
  PROVE  Loaded(m)'
<1>1. Touching(m, Whole)' = Touching(m, Whole)
  BY DEF Touching, Whole
<1> QED
  BY <1>1, Zenon DEF Loaded

(* Reading one more child keeps the invariant. *)
LEMMA ReadNodeStep ==
  ASSUME LoadInv, ReadNode
  PROVE  LoadInv'
<1> DEFINE e == file.nodes[k + 1]
<1>1. /\ IsFile(file) /\ Len(file.nodes) \in Nat
      /\ \A j \in 1 .. Len(file.nodes) : file.nodes[j] \in Node(Int, Nat, Nat)
      /\ s.tab \in Meters /\ s.idx \in Nat /\ s \in Loop /\ file \in Files
  BY LoadFacts DEF LoadInv
<1>2. /\ s.more /\ k < Len(file.nodes) /\ k' = k + 1 /\ file' = file
      /\ s' = Turn(s, e, file.num) /\ k = s.idx /\ k \in Nat
  BY <1>1 DEF ReadNode, LoadInv
<1>3. e \in Node(Int, Nat, Nat) /\ file.num \in Int
  BY <1>1, <1>2 DEF IsFile
<1>4. s' \in Loop /\ k' \in 0 .. Len(file'.nodes)
  BY <1>1, <1>2, <1>3, TurnTyped
<1>5. \A m \in Metid : Loaded(m)
  BY <1>2 DEF LoadInv, GaveUpAt
<1>6. \A j \in Whole : file.nodes[j].index # Missing /\ Complete(file.nodes[j])
  BY DEF LoadInv
<1>7. Turned(s, e, file.num, s')
  <2> HIDE DEF e
  <2> QED
    BY <1>1, <1>2, <1>3, TurnCases
<1>8. CASE ~s'.more /\ s'.idx = s.idx /\ s'.tab = s.tab
  <2>1. Whole' = Whole
    BY <1>8 DEF Whole
  <2>2. \A m \in Metid : Loaded(m)'
    BY <1>2, <1>5, <1>8, LoadedKept
  <2> QED
    BY <1>1, <1>2, <1>4, <1>6, <1>8, <2>1, <2>2 DEF LoadInv
<1>9. CASE /\ s.idx <= file.num /\ e.index # Missing /\ e.index \in Int /\ e.index < MaxMeter
           /\ s'.tab = Written(s.tab, e)
           /\ ~Complete(e) /\ ~s'.more /\ s'.idx = s.idx /\ s'.ret = -1
  <2>1. Whole' = Whole
    BY <1>9 DEF Whole
  <2>2. k' \in Broken' /\ file'.nodes[k'] = e
    BY <1>1, <1>2, <1>9 DEF Broken
  <2>3. ASSUME NEW m \in Metid PROVE Loaded(m)' \/ GaveUpAt(m)'
    <3>1. CASE m \in Reach(e)
      BY <3>1, <2>2, <1>9 DEF GaveUpAt
    <3>2. CASE m \notin Reach(e)
      <4>1. s'.tab[m] = s.tab[m]
        <5> HIDE DEF e
        <5> QED
          BY <3>2, <1>1, <1>3, <1>9, WrittenTo
      <4> QED
        BY <4>1, <1>2, <1>5, <1>9, LoadedKept
    <3> QED
      BY <3>1, <3>2
  <2> QED
    BY <1>1, <1>2, <1>4, <1>6, <1>9, <2>1, <2>3 DEF LoadInv
<1>10. CASE /\ e.index # Missing /\ e.index \in Int /\ e.index < MaxMeter
            /\ s'.tab = Written(s.tab, e)
            /\ Complete(e) /\ s'.more = s.more /\ s'.idx = s.idx + 1
  <2>1. Whole' = Whole \cup {k + 1} /\ \A j \in Whole : j \in Nat /\ j < k + 1
    BY <1>2, <1>10 DEF Whole
  <2>2. \A j \in Whole' : file'.nodes[j].index # Missing /\ Complete(file'.nodes[j])
    BY <2>1, <1>2, <1>6, <1>10
  <2>3. ASSUME NEW m \in Metid PROVE Loaded(m)'
    <3>0. /\ m \notin Reach(e) => s'.tab[m] = s.tab[m]
          /\ e.index = m => /\ s'.tab[m].level = e.level % Byte
                            /\ e.port # Missing => s'.tab[m].port = e.port
      <4> HIDE DEF e
      <4> QED
        BY <1>1, <1>3, <1>10, WrittenTo
    <3>1. CASE m \in Reach(e)
      <4>1. Touching(m, Whole)' = Touching(m, Whole) \cup {k + 1}
        BY <3>1, <2>1, <1>2 DEF Touching
      <4>2. \A i \in Touching(m, Whole)' : i <= k + 1
        BY <4>1, <2>1, <1>2 DEF Touching
      <4>3. file'.nodes[k + 1].index = m =>
              /\ s'.tab[m].level = file'.nodes[k + 1].level % Byte
              /\ file'.nodes[k + 1].port # Missing => s'.tab[m].port = file'.nodes[k + 1].port
        BY <3>0, <1>2
      <4> QED
        BY <4>1, <4>2, <4>3, Zenon DEF Loaded
    <3>2. CASE m \notin Reach(e)
      <4>1. s'.tab[m] = s.tab[m]
        BY <3>0, <3>2
      <4>2. Touching(m, Whole)' = Touching(m, Whole)
        BY <3>2, <2>1, <1>2 DEF Touching
      <4>3. Loaded(m)
        BY <1>5
      <4> QED
        BY <4>1, <4>2, <4>3, <1>2, Zenon DEF Loaded
    <3> QED
      BY <3>1, <3>2
  <2> QED
    BY <1>1, <1>2, <1>4, <1>10, <2>2, <2>3 DEF LoadInv
<1> QED
  <2> HIDE DEF e
  <2> QED
    BY <1>7, <1>8, <1>9, <1>10 DEF Turned

(* So does every step. *)
LEMMA LoadStep == LoadInv /\ [Next]_vars => LoadInv'
<1> SUFFICES ASSUME LoadInv, [Next]_vars PROVE LoadInv'
  OBVIOUS
<1>1. CASE ReadNode
  BY <1>1, ReadNodeStep
<1>2. CASE NoMoreNodes
  <2>1. s \in Loop /\ s.idx \in Int /\ file \in Files /\ k = s.idx /\ s.more
    BY <1>2, LoadFacts DEF LoadInv, NoMoreNodes
  <2>2. /\ s' \in Loop /\ ~s'.more /\ s'.idx = s.idx /\ s'.tab = s.tab /\ file' = file /\ k' = k
    <3>1. s' = Return(s, s.idx) /\ file' = file /\ k' = k
      BY <1>2 DEF NoMoreNodes
    <3> QED
      BY <2>1, <3>1, ReturnTyped DEF Return, Loop
  <2>3. \A m \in Metid : Loaded(m)
    BY <2>1 DEF LoadInv, GaveUpAt
  <2>4. \A m \in Metid : Loaded(m)'
    BY <2>2, <2>3, LoadedKept
  <2>5. Whole' = Whole
    BY <2>2 DEF Whole
  <2> QED
    BY <2>1, <2>2, <2>4, <2>5 DEF LoadInv
<1>3. CASE UNCHANGED vars
  BY <1>3 DEF vars, LoadInv, Loaded, GaveUpAt, Touching, Whole, Broken
<1> QED
  BY <1>1, <1>2, <1>3 DEF Next

(* For every file the loop of meter_para_load keeps its invariant: whole    *)
(* entries are in the table as they are, but for the meters that the one it *)
(* gave up at wrote to.                                                     *)
THEOREM LoadInvariant == Spec => []LoadInv
  BY LoadInit, LoadStep, PTL DEF Spec

(* For every file a meter that was written to last by a whole entry of its  *)
(* own has the port and the level of it, although str2dec writes each       *)
(* number over its neighbours and str2hex a long addr over all of them, and *)
(* one that no entry names or reaches is empty.                             *)
THEOREM MetersAreLoaded == Spec => []EntriesLoaded
<1>1. LoadInv => EntriesLoaded
  <2> SUFFICES ASSUME LoadInv, NEW m \in Metid
               PROVE  /\ \A j \in Whole : LastTouching(m, j) /\ file.nodes[j].index = m =>
                           /\ s.tab[m].level = file.nodes[j].level % Byte
                           /\ file.nodes[j].port # Missing => s.tab[m].port = file.nodes[j].port
                      /\ Touching(m, Stored) = {} => s.tab[m] = NoMeter
    BY DEF EntriesLoaded
  <2>1. CASE GaveUpAt(m)
    <3>1. k \in Touching(m, Stored)
      BY <2>1 DEF GaveUpAt, Touching, Stored
    <3>2. \A j \in Whole : j \in Nat /\ j < k /\ k \in Nat
      BY <2>1, LoadFacts DEF GaveUpAt, Broken, Whole
    <3>3. ASSUME NEW j \in Whole PROVE ~LastTouching(m, j)
      BY <3>1, <3>2 DEF LastTouching
    <3> QED
      BY <3>1, <3>3
  <2>2. CASE Loaded(m)
    <3>1. CASE Touching(m, Whole) = {}
      <4>1. \A j \in Whole : ~LastTouching(m, j)
        BY <3>1 DEF LastTouching, Touching
      <4> QED
        BY <3>1, <4>1, <2>2 DEF Loaded
    <3>2. CASE Touching(m, Whole) # {}
      <4>1. PICK i \in Touching(m, Whole) :
               /\ \A n \in Touching(m, Whole) : n <= i
               /\ file.nodes[i].index = m =>
                    /\ s.tab[m].level = file.nodes[i].level % Byte
                    /\ file.nodes[i].port # Missing => s.tab[m].port = file.nodes[i].port
        BY <3>2, <2>2, Zenon DEF Loaded
      <4>2. ASSUME NEW j \in Whole, LastTouching(m, j) PROVE j = i
        <5>1. j \in Touching(m, Whole) /\ i <= j
          BY <4>2, <4>1 DEF LastTouching, Touching, Stored
        <5>2. i \in Nat /\ j \in Nat
          BY <4>1, <4>2 DEF Touching, Whole
        <5> QED
          BY <4>1, <5>1, <5>2
      <4>3. Touching(m, Stored) # {}
        BY <4>1 DEF Touching, Stored
      <4> QED
        BY <4>1, <4>2, <4>3
    <3> QED
      BY <3>1, <3>2
  <2> QED
    BY <2>1, <2>2 DEF LoadInv
<1> QED
  BY <1>1, LoadInvariant, PTL

(* For every file at most one meter that no other entry wrote over is left  *)
(* to be polled at a level its entry does not give, and only when the load  *)
(* gave up.                                                                 *)
THEOREM OnlyTheLastMisplaced == Spec => []OneMisplaced
<1>1. LoadInv => OneMisplaced
  <2> SUFFICES ASSUME LoadInv PROVE OneMisplaced
    OBVIOUS
  <2>1. ASSUME NEW m \in Misplaced PROVE GaveUpAt(m) /\ file.nodes[k].index = m
    <3>1. /\ m \in Metid /\ s.tab[m].port # 0
          /\ \A j \in 1 .. Len(file.nodes) : file.nodes[j].index = m =>
               (file.nodes[j].level = Missing \/ s.tab[m].level # file.nodes[j].level % Byte)
          /\ \A j \in Touching(m, Stored) : file.nodes[j].index = m
      BY <2>1 DEF Misplaced
    <3>2. ~Loaded(m)
      <4> SUFFICES ASSUME Loaded(m) PROVE FALSE
        OBVIOUS
      <4>1. Touching(m, Whole) # {}
        BY <3>1 DEF Loaded, NoMeter
      <4>2. PICK i \in Touching(m, Whole) :
               file.nodes[i].index = m => s.tab[m].level = file.nodes[i].level % Byte
        BY <4>1, Zenon DEF Loaded
      <4>3. i \in Touching(m, Stored) /\ i \in Whole
        BY <4>2 DEF Touching, Stored
      <4>4. i \in 1 .. Len(file.nodes) /\ Complete(file.nodes[i])
        BY <4>3, LoadFacts DEF LoadInv
      <4> QED
        BY <3>1, <4>2, <4>3, <4>4 DEF Complete
    <3>3. GaveUpAt(m)
      BY <3>1, <3>2 DEF LoadInv
    <3>4. k \in Touching(m, Stored)
      BY <3>3 DEF GaveUpAt, Touching, Stored
    <3> QED
      BY <3>1, <3>3, <3>4
  <2>2. CASE Misplaced = {}
    BY <2>2, FS_EmptySet DEF OneMisplaced
  <2>3. CASE Misplaced # {}
    <3>1. PICK m : m \in Misplaced
      BY <2>3
    <3>2. Misplaced = {m}
      BY <2>1, <3>1
    <3>3. Cardinality(Misplaced) = 1
      BY <3>2, FS_Singleton
    <3> QED
      BY <2>1, <3>1, <3>3 DEF GaveUpAt, OneMisplaced
  <2> QED
    BY <2>2, <2>3
<1> QED
  BY <1>1, LoadInvariant, PTL

(* Reading a child adds to what is written outside g_ParaMet what that      *)
(* child writes there, if it is among the first num + 1 and is stored.      *)
LEMMA StrayRead ==
  ASSUME LoadInv, StrayExplained, ReadNode
  PROVE  StrayExplained'
<1> DEFINE e == file.nodes[k + 1]
<1>1. /\ Len(file.nodes) \in Nat /\ s.idx \in Nat /\ s \in Loop /\ k \in Nat
      /\ \A j \in 1 .. Len(file.nodes) : file.nodes[j] \in Node(Int, Nat, Nat)
      /\ file.num \in Int /\ MaxMeter \in Nat /\ Missing \notin Int
  BY LoadFacts, ParaAssumption DEF LoadInv, IsFile
<1>2. /\ k < Len(file.nodes) /\ k' = k + 1 /\ file' = file
      /\ s' = Turn(s, e, file.num) /\ s.more /\ k = s.idx
  BY <1>1 DEF ReadNode, LoadInv
<1>3. e \in Node(Int, Nat, Nat)
  BY <1>1, <1>2
<1>4. e.index \in Int \cup {Missing}
  BY <1>3 DEF Node
<1>5. Broken = {} /\ Stored = Whole /\ Whole = 1 .. k
  BY <1>1, <1>2 DEF Broken, Stored, Whole
<1>6. Turned(s, e, file.num, s')
  <2> HIDE DEF e
  <2> QED
    BY <1>1, <1>2, <1>3, TurnCases
<1>7. CASE /\ ~s'.more /\ s'.idx = s.idx /\ s'.tab = s.tab /\ s'.stray = s.stray
           /\ s.idx > file.num \/ e.index = Missing \/ e.index >= MaxMeter
  <2>1. k + 1 \notin Broken'
    BY <1>1, <1>2, <1>4, <1>7 DEF Broken
  <2>2. Broken' = {} /\ Whole' = Whole
    BY <1>1, <1>2, <1>7, <2>1 DEF Broken, Whole
  <2> QED
    BY <1>2, <1>5, <1>7, <2>2 DEF StrayExplained, Stored
<1>8. CASE /\ s.idx <= file.num /\ e.index # Missing /\ e.index \in Int /\ e.index < MaxMeter
           /\ IF Complete(e) THEN s'.more = s.more /\ s'.idx = s.idx + 1
                             ELSE ~s'.more /\ s'.idx = s.idx /\ s'.ret = -1
           /\ s'.stray = s.stray \cup (Reach(e) \ Metid)
  <2>1. Stored' = 1 .. (k + 1)
    <3>1. CASE Complete(e)
      BY <1>1, <1>2, <1>8, <3>1 DEF Stored, Whole, Broken
    <3>2. CASE ~Complete(e)
      BY <1>1, <1>2, <1>8, <3>2 DEF Stored, Whole, Broken
    <3> QED
      BY <3>1, <3>2
  <2> DEFINE U(f, S) == UNION {Reach(f.nodes[j]) : j \in S}
  <2>2. s.stray = U(file, 1 .. k) \ Metid
    <3>1. s.stray = U(file, Stored) \ Metid
      BY SMT DEF StrayExplained
    <3> HIDE DEF U
    <3> QED
      BY <1>5, <3>1, Zenon
  <2>3. \A j : j \in 1 .. (k + 1) <=> j \in 1 .. k \/ j = k + 1
    BY <1>1
  <2>4. \A x : x \in U(file, 1 .. (k + 1)) <=> x \in U(file, 1 .. k) \/ x \in Reach(e)
    <3>1. \A x, S : x \in U(file, S) <=> \E j \in S : x \in Reach(file.nodes[j])
      BY Zenon
    <3> HIDE DEF U
    <3> QED
      BY <3>1, <2>3, Zenon
  <2>5. s'.stray = U(file', Stored') \ Metid
    <3> HIDE DEF U, e
    <3> QED
      BY <1>2, <1>8, <2>1, <2>2, <2>4, Zenon
  <2>6. \A j \in 1 .. (k + 1) : j <= file.num + 1
    BY <1>1, <1>2, <1>8
  <2> QED
    <3>1. \A j \in Stored' : j <= file'.num + 1
      BY <1>2, <2>1, <2>6
    <3> QED
      BY <2>5, <3>1 DEF StrayExplained
<1> QED
  <2> HIDE DEF e
  <2> QED
    BY <1>6, <1>7, <1>8 DEF Turned

(* For every file, what is written outside g_ParaMet is what the first      *)
(* num + 1 children write there by their number or the length of their      *)
(* addr.                                                                    *)
THEOREM StraysExplained == Spec => []StrayExplained
<1>1. Init => StrayExplained
  <2> SUFFICES ASSUME Init PROVE StrayExplained
    OBVIOUS
  <2>1. s.idx = 0 /\ s.stray = {} /\ k = 0
    BY DEF Init, Begin
  <2>2. Stored = {}
    BY <2>1 DEF Stored, Whole, Broken
  <2> QED
    BY <2>1, <2>2 DEF StrayExplained
<1>2. LoadInv /\ StrayExplained /\ [Next]_vars => StrayExplained'
  <2> SUFFICES ASSUME LoadInv, StrayExplained, [Next]_vars PROVE StrayExplained'
    OBVIOUS
  <2>1. CASE ReadNode
    BY <2>1, StrayRead
  <2>2. CASE NoMoreNodes
    <3>1. s \in Loop /\ s' = Return(s, s.idx) /\ file' = file /\ k' = k
      BY <2>2 DEF NoMoreNodes, LoadInv
    <3>2. s'.idx = s.idx /\ s'.stray = s.stray
      BY <3>1 DEF Return, Loop
    <3>3. Stored' = Stored
      BY <3>1, <3>2 DEF Stored, Whole, Broken
    <3> QED
      BY <3>1, <3>2, <3>3 DEF StrayExplained
  <2>3. CASE UNCHANGED vars
    BY <2>3 DEF vars, StrayExplained, Stored, Whole, Broken
  <2> QED
    BY <2>1, <2>2, <2>3 DEF Next
<1> QED
  BY <1>1, <1>2, LoadInvariant, PTL DEF Spec

(* Once the loop has returned it does not move. *)
LEMMA RunEnds ==
  ASSUME NEW f, NEW n \in Nat, NEW g, Runs(f, n, g), NEW i \in 0 .. n, ~g[i].more
  PROVE  g[n] = g[i]
<1> DEFINE S == {d \in Nat : i + d <= n => g[i + d] = g[i]}
<1>1. 0 \in S
  OBVIOUS
<1>2. ASSUME NEW d \in Nat, d \in S PROVE d + 1 \in S
  <2>1. ASSUME i + (d + 1) <= n PROVE g[i + (d + 1)] = g[i]
    <3>1. /\ i + (d + 1) \in 0 .. n /\ i + (d + 1) # 0 /\ (i + (d + 1)) - 1 = i + d
          /\ i + d <= n
      BY <2>1
    <3>2. g[i + (d + 1)] = Visit(f, i + (d + 1), g[i + d])
      BY <3>1 DEF Runs
    <3>3. g[i + d] = g[i]
      BY <3>1, <1>2
    <3> QED
      BY <3>2, <3>3 DEF Visit
  <2> QED
    BY <2>1
<1> HIDE DEF S
<1>3. \A d \in Nat : d \in S
  BY <1>1, <1>2, NatSetInduction
<1>4. n - i \in Nat /\ i + (n - i) = n
  OBVIOUS
<1>5. n - i \in S
  BY <1>3, <1>4
<1> QED
  BY <1>4, <1>5 DEF S

(* The loop is at a state of the run of its file, or at its result. *)
OnRun ==
  \E g : /\ Runs(file, Len(file.nodes), g)
         /\ meter_para_load(file) =
              LET t == g[Len(file.nodes)] IN IF t.more THEN Return(t, t.idx) ELSE t
         /\ s = IF s.more THEN g[k] ELSE meter_para_load(file)

(* For every file the loop, step by step, ends with what the recursive      *)
(* definition of the load gives, from which the line-loss task starts.      *)
THEOREM LoopIsLoad == Spec => []LoadIsCall
<1>1. LoadInv /\ Init => OnRun
  <2> SUFFICES ASSUME LoadInv, Init PROVE OnRun
    OBVIOUS
  <2> DEFINE n == Len(file.nodes)
  <2>1. n \in Nat /\ k = 0 /\ s = Begin(file.num)
    BY LoadFacts DEF Init
  <2>2. PICK g : /\ Runs(file, n, g)
                 /\ meter_para_load(file) = LET t == g[n] IN IF t.more THEN Return(t, t.idx) ELSE t
    BY <2>1, LoadIsRun
  <2>3. g[0] = s /\ 0 \in 0 .. n
    BY <2>1, <2>2 DEF Runs
  <2>4. ~s.more => meter_para_load(file) = s
    BY <2>1, <2>2, <2>3, RunEnds
  <2> QED
    BY <2>1, <2>2, <2>3, <2>4 DEF OnRun
<1>2. LoadInv /\ OnRun /\ [Next]_vars => OnRun'
  <2> SUFFICES ASSUME LoadInv, OnRun, [Next]_vars PROVE OnRun'
    OBVIOUS
  <2> DEFINE n == Len(file.nodes)
  <2>1. n \in Nat /\ k \in 0 .. n /\ s \in Loop
    BY LoadFacts DEF LoadInv
  <2>2. PICK g : /\ Runs(file, n, g)
                 /\ meter_para_load(file) = LET t == g[n] IN IF t.more THEN Return(t, t.idx) ELSE t
                 /\ s = IF s.more THEN g[k] ELSE meter_para_load(file)
    BY DEF OnRun
  <2>3. CASE ReadNode
    <3>1. s.more /\ k + 1 \in 0 .. n /\ k' = k + 1 /\ file' = file /\ (k + 1) - 1 = k /\ k + 1 # 0
      BY <2>1, <2>3 DEF ReadNode
    <3>2. s' = Visit(file, k + 1, g[k])
      BY <2>2, <2>3, <3>1 DEF ReadNode, Visit
    <3>3. s' = g[k']
      BY <2>2, <3>1, <3>2 DEF Runs
    <3>4. ~s'.more => meter_para_load(file) = s'
      <4>1. ~g[k + 1].more => g[n] = g[k + 1]
        BY <2>1, <2>2, <3>1, RunEnds
      <4> QED
        BY <2>2, <3>1, <3>3, <4>1
    <3> QED
      BY <2>2, <3>1, <3>3, <3>4 DEF OnRun
  <2>4. CASE NoMoreNodes
    <3>1. s.more /\ k = n /\ s' = Return(s, s.idx) /\ UNCHANGED <<file, k>>
      BY <2>4 DEF NoMoreNodes
    <3>2. ~s'.more
      BY <2>1, <3>1 DEF Return, Loop
    <3>3. s' = meter_para_load(file)
      BY <2>2, <3>1
    <3> QED
      BY <2>2, <3>1, <3>2, <3>3 DEF OnRun
  <2>5. CASE UNCHANGED vars
    BY <2>5 DEF vars, OnRun
  <2> QED
    BY <2>3, <2>4, <2>5 DEF Next
<1>3. OnRun => LoadIsCall
  BY DEF OnRun, LoadIsCall
<1> QED
  BY <1>1, <1>2, <1>3, LoadInvariant, PTL DEF Spec

=============================================================================
