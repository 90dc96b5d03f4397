-------------------------- MODULE MeterParaProofs --------------------------
(* What meter_para_load returns, for every file: the recursion of MeterPara *)
(* is the loop over the children, and the table it fills is a table.        *)
EXTENDS MeterPara, TLAPS, WellFoundedInduction

(* A set of numbers that is not empty has a least one. *)
LEMMA LeastNumber ==
  ASSUME NEW S \in SUBSET Nat, S # {}
  PROVE  \E x \in S : \A y \in S : x <= y
<1> DEFINE R == {ss \in Nat \X Nat : ss[1] < ss[2]}
<1>1. IsWellFoundedOn(R, Nat)
  BY NatLessThanWellFounded, Zenon DEF OpToRel
<1>2. PICK x \in S : \A y \in S : ~(<<y, x>> \in R)
  <2> HIDE DEF R
  <2> QED
    BY <1>1, WFMin
<1>3. ASSUME NEW y \in S PROVE x <= y
  <2>1. <<y, x>> \in Nat \X Nat /\ <<y, x>>[1] = y /\ <<y, x>>[2] = x
    OBVIOUS
  <2> QED
    BY <1>2, <2>1
<1> QED
  BY <1>3

(* Induction over the natural numbers, for a set. *)
LEMMA NatSetInduction ==
  ASSUME NEW S, 0 \in S, \A n \in Nat : n \in S => n + 1 \in S
  PROVE  \A n \in Nat : n \in S
<1> DEFINE C == Nat \ S
<1>1. SUFFICES ASSUME C # {} PROVE FALSE
  OBVIOUS
<1>2. PICK x \in C : \A y \in C : x <= y
  BY <1>1, LeastNumber
<1>3. x \in Nat /\ x # 0 /\ x - 1 \in Nat /\ x = (x - 1) + 1 /\ ~(x <= x - 1)
  BY <1>2
<1>4. x - 1 \in S
  BY <1>2, <1>3
<1> QED
  BY <1>2, <1>3, <1>4

(* The states of the loop after 0, 1, ... m children of a file. *)
Runs(file, m, g) ==
  g = [k \in 0 .. m |-> IF k = 0 THEN Begin(file.num) ELSE Visit(file, k, g[k - 1])]

(* They exist for every m. *)
LEMMA RunExists ==
  ASSUME NEW file, NEW n \in Nat
  PROVE  \E g : Runs(file, n, g)
<1> DEFINE S == {m \in Nat : \E g : Runs(file, m, g)}
<1>1. 0 \in S
  <2> DEFINE g == [k \in 0 .. 0 |-> Begin(file.num)]
  <2>1. g = [k \in 0 .. 0 |-> IF k = 0 THEN Begin(file.num) ELSE Visit(file, k, g[k - 1])]
    OBVIOUS
  <2>2. Runs(file, 0, g)
    BY <2>1, Zenon DEF Runs
  <2> QED
    BY <2>2
<1>2. ASSUME NEW m \in Nat, m \in S
      PROVE  m + 1 \in S
  <2>1. PICK g : Runs(file, m, g)
    BY <1>2
  <2> DEFINE h == [k \in 0 .. (m + 1) |-> IF k <= m THEN g[k] ELSE Visit(file, k, g[m])]
  <2>2. ASSUME NEW k \in 0 .. (m + 1)
        PROVE  h[k] = IF k = 0 THEN Begin(file.num) ELSE Visit(file, k, h[k - 1])
    <3>1. CASE k <= m
      <4>1. k \in 0 .. m /\ (k # 0 => k - 1 \in 0 .. (m + 1) /\ k - 1 <= m)
        BY <3>1
      <4>2. h[k] = g[k] /\ (k # 0 => h[k - 1] = g[k - 1])
        BY <3>1, <4>1
      <4>3. g[k] = IF k = 0 THEN Begin(file.num) ELSE Visit(file, k, g[k - 1])
        BY <2>1, <4>1 DEF Runs
      <4> QED
        BY <4>2, <4>3
    <3>2. CASE ~(k <= m)
      <4>1. k = m + 1 /\ k # 0 /\ k - 1 = m /\ m \in 0 .. (m + 1)
        BY <3>2
      <4>2. h[k] = Visit(file, k, g[m]) /\ h[m] = g[m]
        BY <3>2, <4>1
      <4> QED
        BY <4>1, <4>2
    <3> QED
      BY <3>1, <3>2
  <2>3. Runs(file, m + 1, h)
    <3>1. h = [k \in 0 .. (m + 1) |-> h[k]]
      OBVIOUS
    <3>2. h = [k \in 0 .. (m + 1) |-> IF k = 0 THEN Begin(file.num) ELSE Visit(file, k, h[k - 1])]
      <4> HIDE DEF h
      <4> QED
        BY <3>1, <2>2
    <3> QED
      BY <3>2, Zenon DEF Runs
  <2> QED
    BY <2>3
<1> HIDE DEF S
<1>3. \A m \in Nat : m \in S
  BY <1>1, <1>2, NatSetInduction
<1> QED
  BY <1>3 DEF S

(* What the load returns is where the loop ends. *)
LEMMA LoadIsRun ==
  ASSUME NEW file, Len(file.nodes) \in Nat
  PROVE  \E g : /\ Runs(file, Len(file.nodes), g)
                /\ meter_para_load(file) =
                     LET s == g[Len(file.nodes)] IN IF s.more THEN Return(s, s.idx) ELSE s
<1> DEFINE n == Len(file.nodes)
           g == CHOOSE f : f = [k \in 0 .. n |-> IF k = 0 THEN Begin(file.num) ELSE Visit(file, k, f[k - 1])]
<1>1. Runs(file, n, g)
  BY RunExists, Zenon DEF Runs
<1>2. meter_para_load(file) = LET s == g[n] IN IF s.more THEN Return(s, s.idx) ELSE s
  BY Zenon DEF meter_para_load
<1> QED
  BY <1>1, <1>2

(* What a byte keeps of a number, and what is left of a port whose low bytes *)
(* are cleared, are numbers.                                                *)
LEMMA ByteArithmetic ==
  ASSUME NEW x \in Nat, NEW n \in Nat \ {0}
  PROVE  x % n \in Nat /\ x \div n \in Nat /\ Clear(x, n) \in Nat
<1>1. x % n \in Nat
  OBVIOUS
<1>2. x \div n \in Nat
  OBVIOUS
<1>3. x - (x % n) \in Nat
  OBVIOUS
<1> QED
  BY <1>1, <1>2, <1>3 DEF Clear

(* Storing the fields of an entry leaves a meter. *)
LEMMA FieldsTyped ==
  ASSUME NEW met \in [port : Nat, level : Nat], NEW e \in Node(Int, Nat, Nat)
  PROVE  Fields(met, e) \in [port : Nat, level : Nat]
<1> USE ParaAssumption
<1>1. met.port \in Nat /\ met.level \in Nat
  OBVIOUS
<1>2. /\ e.port \in Nat \cup {Missing} /\ e.userType \in Nat \cup {Missing}
      /\ e.level \in Nat \cup {Missing}
  BY DEF Node
<1>3. Byte \in Nat \ {0} /\ Byte * Byte \in Nat \ {0}
  OBVIOUS
<1>4. /\ Clear(met.port, Byte) \in Nat /\ Clear(met.port, Byte * Byte) \in Nat
      /\ e.userType # Missing => (e.userType \div Byte) % Byte \in Nat
      /\ e.level # Missing => e.level % Byte \in Nat
  BY <1>1, <1>2, <1>3, ByteArithmetic
<1> DEFINE port == IF e.port = Missing THEN Clear(met.port, Byte * Byte) ELSE e.port
<1>5. port \in Nat
  BY <1>2, <1>4
<1> HIDE DEF port
<1>6. /\ [met EXCEPT !.port = Clear(met.port, Byte)] \in [port : Nat, level : Nat]
      /\ [met EXCEPT !.port = port] \in [port : Nat, level : Nat]
  BY <1>4, <1>5
<1> QED
  BY <1>4, <1>5, <1>6 DEF Fields, port

(* Returning changes nothing but more and the result. *)
LEMMA ReturnTyped ==
  ASSUME NEW t \in Loop, NEW n \in Int
  PROVE  Return(t, n) \in Loop
  BY DEF Return, Loop

(* A number with a patch over its low bytes is a number. *)
LEMMA OverTyped ==
  ASSUME NEW x \in Nat, NEW p \in Patch
  PROVE  Over(x, p) \in Nat
<1>1. p.n \in Nat \ {0} /\ p.v \in Nat
  BY DEF Patch
<1>2. Clear(x, p.n) \in Nat
  BY <1>1, ByteArithmetic
<1> QED
  BY <1>1, <1>2 DEF Over

(* An element of a sequence is what the sequence is of. *)
LEMMA Element ==
  ASSUME NEW S, NEW q \in Seq(S), NEW i \in DOMAIN q
  PROVE  q[i] \in S
  OBVIOUS

(* Storing an addr, however long, leaves a table. *)
LEMMA SpiltTyped ==
  ASSUME NEW tab \in Meters, NEW e \in Node(Int, Nat, Nat)
  PROVE  Spilt(tab, e) \in Meters
<1> SUFFICES ASSUME NEW m \in Metid PROVE Spilt(tab, e)[m] \in [port : Nat, level : Nat]
  BY DEF Spilt, Meters
<1>1. tab[m] \in [port : Nat, level : Nat]
  BY DEF Meters
<1>2. CASE m - e.index + 1 \in DOMAIN e.addr
  <2> DEFINE c == e.addr[m - e.index + 1]
  <2>1. e.addr \in Seq([port : Patch, level : Patch])
    BY DEF Node, Spill
  <2>2. c \in [port : Patch, level : Patch]
    BY <1>2, <2>1, Element
  <2>3. Over(tab[m].port, c.port) \in Nat /\ Over(tab[m].level, c.level) \in Nat
    BY <1>1, <2>2, OverTyped
  <2>4. Spilt(tab, e)[m] = [port |-> Over(tab[m].port, c.port), level |-> Over(tab[m].level, c.level)]
    BY <1>2 DEF Spilt
  <2> QED
    BY <2>3, <2>4
<1>3. CASE ~(m - e.index + 1 \in DOMAIN e.addr)
  BY <1>1, <1>3 DEF Spilt
<1> QED
  BY <1>2, <1>3

(* Storing an entry that names a number keeps the table a table. *)
LEMMA StoreTyped ==
  ASSUME NEW s \in Loop, NEW e \in Node(Int, Nat, Nat), e.index # Missing
  PROVE  Store(s, e) \in Loop
<1>1. s.tab \in Meters /\ s.stray \in SUBSET Int /\ e.index \in Int /\ e.addr \in Spill
  BY DEF Loop, Node
<1>2. Spilt(s.tab, e) \in Meters
  BY <1>1, SpiltTyped
<1>3. Written(s.tab, e) \in Meters
  <2> SUFFICES ASSUME NEW m \in Metid PROVE Written(s.tab, e)[m] \in [port : Nat, level : Nat]
    BY DEF Written, Meters
  <2>1. Spilt(s.tab, e)[m] \in [port : Nat, level : Nat]
    BY <1>2 DEF Meters
  <2>2. Fields(Spilt(s.tab, e)[m], e) \in [port : Nat, level : Nat]
    BY <2>1, FieldsTyped
  <2> QED
    BY <2>1, <2>2 DEF Written
<1>4. Reach(e) \ Metid \in SUBSET Int
  <2>1. Len(e.addr) \in Nat
    BY <1>1 DEF Spill
  <2> QED
    BY <1>1, <2>1 DEF Reach
<1>5. Store(s, e) = [s EXCEPT !.tab = Written(s.tab, e), !.stray = s.stray \cup (Reach(e) \ Metid)]
  BY DEF Store, Loop
<1> QED
  BY <1>1, <1>3, <1>4, <1>5 DEF Loop

(* One turn of the loop keeps the table a table. *)
LEMMA TurnTyped ==
  ASSUME NEW s \in Loop, NEW e \in Node(Int, Nat, Nat), NEW num
  PROVE  Turn(s, e, num) \in Loop
<1>1. /\ s.tab \in Meters /\ s.stray \in SUBSET Int /\ s.idx \in Nat /\ s.more \in BOOLEAN
      /\ s.ret \in Int /\ e.index \in Int \cup {Missing}
  BY DEF Loop, Node
<1>2. ASSUME NEW n \in Int, NEW t \in Loop PROVE Return(t, n) \in Loop
  BY ReturnTyped
<1>3. ASSUME e.index # Missing PROVE Store(s, e) \in Loop
  BY <1>3, StoreTyped
<1>4. ASSUME NEW t \in Loop PROVE [t EXCEPT !.idx = t.idx + 1] \in Loop
  BY DEF Loop
<1> QED
  BY <1>1, <1>2, <1>3, <1>4 DEF Turn

(* The table begins empty. *)
LEMMA BeginTyped ==
  ASSUME NEW num \in Int
  PROVE  Begin(num) \in Loop
  BY DEF Begin, Loop, Meters, NoMeter

(* Whatever the file, what the load returns has its type. *)
LEMMA LoadTyped ==
  ASSUME NEW file, IsFile(file)
  PROVE  meter_para_load(file) \in Loop
<1> DEFINE n == Len(file.nodes)
<1>1. n \in Nat /\ \A k \in 1 .. n : file.nodes[k] \in Node(Int, Nat, Nat)
  BY DEF IsFile
<1>2. PICK g : /\ Runs(file, n, g)
               /\ meter_para_load(file) = LET s == g[n] IN IF s.more THEN Return(s, s.idx) ELSE s
  BY <1>1, LoadIsRun
<1> DEFINE S == {k \in Nat : k <= n => g[k] \in Loop}
<1>3. 0 \in S
  BY <1>1, <1>2, BeginTyped DEF Runs, IsFile
<1>4. ASSUME NEW k \in Nat, k \in S PROVE k + 1 \in S
  <2>1. ASSUME k + 1 <= n PROVE g[k + 1] \in Loop
    <3>1. k + 1 \in 0 .. n /\ k + 1 \in 1 .. n /\ k + 1 # 0 /\ (k + 1) - 1 = k
      BY <2>1, <1>1
    <3>2. g[k + 1] = Visit(file, k + 1, g[k])
      BY <3>1, <1>2 DEF Runs
    <3>3. g[k] \in Loop
      BY <1>1, <1>4, <2>1
    <3> QED
      BY <3>1, <3>2, <3>3, <1>1, TurnTyped DEF Visit
  <2> QED
    BY <2>1
<1> HIDE DEF S
<1>5. \A k \in Nat : k \in S
  BY <1>3, <1>4, NatSetInduction
<1>6. g[n] \in Loop
  BY <1>1, <1>5 DEF S
<1>7. g[n].idx \in Int
  BY <1>6 DEF Loop
<1>8. Return(g[n], g[n].idx) \in Loop
  BY <1>6, <1>7, ReturnTyped
<1> QED
  BY <1>2, <1>6, <1>8

=============================================================================
