-------------------------- MODULE EnergyLossProofs --------------------------
(* For any file, any number of meters, levels and registers, any failures,   *)
(* replacements and restarts: no meter is charged for energy it has not used *)
(* (and the account implements Ledger), none is let off while no meter is    *)
(* replaced, the totals of the levels are the sums over their meters, what   *)
(* rhApp confirmed is what it shows, and all it shows was used.              *)
EXTENDS EnergyLoss, MeterParaProofs, FiniteSetTheorems

Table == [Metid -> [Reg -> Nat]]
Marks == [Metid -> [Reg -> Nat \cup {NotRead}]]
Items == [Metid -> [Reg -> Reading]]

(* Changing a table at a place outside it changes nothing. *)
LEMMA OutsideTable ==
  ASSUME NEW V, NEW f \in [Metid -> [Reg -> V]], NEW m, NEW r, NEW v,
         ~(m \in Metid /\ r \in Reg)
  PROVE  [f EXCEPT ![m][r] = v] = f
<1>1. CASE m \notin Metid
  BY <1>1
<1>2. CASE m \in Metid /\ r \notin Reg
  <2>1. f[m] \in [Reg -> V]
    BY <1>2
  <2>2. [f[m] EXCEPT ![r] = v] = f[m]
    BY <2>1, <1>2
  <2> QED
    BY <2>2, <1>2
<1> QED
  BY <1>1, <1>2

(* Changing it at a place inside changes that place. *)
LEMMA InsideTable ==
  ASSUME NEW V, NEW f \in [Metid -> [Reg -> V]], NEW m \in Metid, NEW r \in Reg, NEW v \in V
  PROVE  /\ [f EXCEPT ![m][r] = v] \in [Metid -> [Reg -> V]]
         /\ \A n \in Metid, q \in Reg :
              [f EXCEPT ![m][r] = v][n][q] = IF n = m /\ q = r THEN v ELSE f[n][q]
  OBVIOUS

(* Before the first reading nothing is charged. *)
LEMMA ChargeInit == Init => ChargeInv
<1> SUFFICES ASSUME Init PROVE ChargeInv
  OBVIOUS
<1>1. meter \in Table
  BY ELConstAssumption DEF Init, Table
<1>2. bak = Zero /\ burned = Zero /\ counted = Zero /\ first = NoReading /\ last = NoReading
      /\ reg = NoItems /\ at = Sleep /\ ans = NoAns
  BY DEF Init
<1>3. ChargeTypes
  BY <1>1, <1>2 DEF ChargeTypes, Table, Zero, NoReading, NoItems, Cleared, Reading, NotRead, Sleep
<1>4. ASSUME NEW m \in Metid, NEW r \in Reg PROVE ChargeAt(m, r)
  <2>1. /\ bak[m][r] = 0 /\ burned[m][r] = 0 /\ counted[m][r] = 0
        /\ first[m][r] = NotRead /\ last[m][r] = NotRead
        /\ reg[m][r] = Cleared /\ meter[m][r] \in Nat
    BY <1>1, <1>2 DEF Zero, NoReading, NoItems, Table
  <2>2. ans.of # Read(m, r)
    BY <1>2 DEF NoAns, Sleep, Read
  <2> QED
    BY <2>1, <2>2 DEF ChargeAt, AccountAt, MemoryAt, AnswerAt, Before, Now, Filled, Cleared, NotRead
<1> QED
  BY <1>3, <1>4 DEF ChargeInv

(* What meter_ene_update returns: the difference to the backup, if the       *)
(* reading is not lower and not the first, and the new backup.               *)
LEMMA UpdateIsDifference ==
  ASSUME NEW c \in Nat, NEW b \in Nat
  PROVE  LET u == meter_ene_update(c, b)
         IN  /\ u.used \in Nat /\ u.bak \in Nat
             /\ b = 0 => u.used = 0 /\ u.bak = c
             /\ b # 0 /\ c < b => u.used = 0 /\ u.bak = b
             /\ b # 0 /\ c >= b => u.used = c - b /\ u.bak = c
  BY DEF meter_ene_update

(* The places of the task stay what they are. *)
LEMMA PlaceAfterRead ==
  ASSUME NEW m, NEW r, at' = AfterRead(m, r)
  PROVE  at'.at = "read" => at' = Read(at'.m, at'.r)
  BY DEF AfterRead, ReadMeter, Read, Proc

(* and so do those it writes from. *)
LEMMA PlaceAfterWrite ==
  ASSUME NEW S, NEW l, NEW p, NEW i, at' = AfterWrite(l, p, i) \/ at' = WriteLevel(S)
  PROVE  at'.at # "read"
  BY DEF AfterWrite, WriteLevel, Write, Sleep

(* An account whose register, memory and answer stay is not disturbed. *)
LEMMA SameAccount ==
  ASSUME ChargeInv, NEW m \in Metid, NEW r \in Reg,
         bak'[m][r] = bak[m][r], counted'[m][r] = counted[m][r],
         first'[m][r] = first[m][r], last'[m][r] = last[m][r],
         reg'[m][r] = reg[m][r], meter'[m][r] = meter[m][r], burned'[m][r] = burned[m][r],
         ans' = ans \/ ans'.of # Read(m, r)
  PROVE  ChargeAt(m, r)'
<1>1. ChargeAt(m, r)
  BY DEF ChargeInv
<1> QED
  BY <1>1 DEF ChargeAt, AccountAt, MemoryAt, AnswerAt, Before, Now, Filled, Older

(* Taking an answer, or giving up, leaves no answer to the call. *)
LEMMA ForgetAnswer ==
  ASSUME Forget, NEW m, NEW r
  PROVE  ans' = ans \/ ans'.of # Read(m, r)
  BY DEF Forget, NoAns, Sleep, Read

(* A successful reading charges at most what was used since the reading      *)
(* before it.                                                                *)
LEMMA ReadCharge ==
  ASSUME ChargeInv, ReadOk
  PROVE  ChargeInv'
<1> DEFINE m == at.m
           r == at.r
           t == ans.item
           u == meter_ene_update(t.v, bak[m][r])
           f == IF first[m][r] = NotRead /\ t.v # 0 THEN t.b ELSE first[m][r]
           l == IF t.v # 0 THEN t.b ELSE last[m][r]
<1>t. /\ bak \in Table /\ counted \in Table /\ meter \in Table /\ burned \in Table
      /\ first \in Marks /\ last \in Marks /\ reg \in Items
  BY DEF ChargeInv, ChargeTypes, Table, Marks, Items
<1>s. /\ bak' = [bak EXCEPT ![m][r] = u.bak]
      /\ counted' = [counted EXCEPT ![m][r] = counted[m][r] + u.used]
      /\ first' = [first EXCEPT ![m][r] = f]
      /\ last' = [last EXCEPT ![m][r] = l]
      /\ reg' = reg /\ meter' = meter /\ burned' = burned
  BY DEF ReadOk, memVars
<1>f. Forget /\ ans.of = at /\ at = Read(m, r) /\ at' = AfterRead(m, r)
  BY DEF ReadOk, ChargeInv, ChargeTypes
<1>p. at'.at = "read" => at' = Read(at'.m, at'.r)
  BY <1>f, PlaceAfterRead
<1>1. CASE m \in Metid /\ r \in Reg
  <2>i. ChargeAt(m, r)
    BY <1>1 DEF ChargeInv
  <2>c. /\ t \in Reading /\ bak[m][r] \in Nat /\ counted[m][r] \in Nat
        /\ meter[m][r] \in Nat /\ burned[m][r] \in Nat /\ reg[m][r] \in Reading
        /\ first[m][r] \in Nat \cup {NotRead} /\ last[m][r] \in Nat \cup {NotRead}
    BY <1>t, <1>1, <1>f, <2>i DEF Table, Marks, Items, ChargeAt, AnswerAt
  <2>v. t.v \in Nat /\ t.b \in Nat \cup {NotRead}
    BY <2>c DEF Reading
  <2>u. /\ u.used \in Nat /\ u.bak \in Nat
        /\ bak[m][r] = 0 => u.used = 0 /\ u.bak = t.v
        /\ bak[m][r] # 0 /\ t.v < bak[m][r] => u.used = 0 /\ u.bak = bak[m][r]
        /\ bak[m][r] # 0 /\ t.v >= bak[m][r] => u.used = t.v - bak[m][r] /\ u.bak = t.v
    BY <2>c, <2>v, UpdateIsDifference
  <2> DEFINE k == counted[m][r] + u.used
             b == u.bak
  <2>k. k \in Nat /\ b \in Nat /\ f \in Nat \cup {NotRead} /\ l \in Nat \cup {NotRead}
    BY <2>c, <2>v, <2>u
  <2>a. /\ t.v # 0 => /\ t.b # NotRead
                      /\ Older(t, Now(m, r)) /\ Before(m, r, t)
                      /\ Filled(reg[m][r]) => Older(t, reg[m][r])
    BY <2>i, <1>f DEF ChargeAt, AnswerAt, Filled
  <2> HIDE DEF u
  <2>b. ASSUME NEW w, w.v \in Nat, w.b \in Nat, Before(m, r, w), t.v # 0 => Older(t, w)
        PROVE  l <= w.b /\ (b # 0 => k + f + w.v <= w.b + b)
    <3>1. last[m][r] <= w.b /\ (bak[m][r] # 0 => counted[m][r] + first[m][r] + w.v <= w.b + bak[m][r])
      BY <2>b DEF Before
    <3>2. bak[m][r] = 0 <=> first[m][r] = NotRead
      BY <2>i DEF ChargeAt, AccountAt
    <3>3. first[m][r] = NotRead => counted[m][r] = 0
      BY <2>i DEF ChargeAt, AccountAt
    <3>4. t.v # 0 => t.b \in Nat /\ t.b <= w.b /\ w.v + t.b <= t.v + w.b
      BY <2>b, <2>a, <2>v DEF Older
    <3> QED
      BY <2>b, <2>c, <2>v, <2>u, <3>1, <3>2, <3>3, <3>4 DEF NotRead
  <2>d. /\ b = 0 <=> f = NotRead
        /\ f = NotRead => k = 0 /\ l = NotRead
        /\ k + f <= l
    <3>1. /\ bak[m][r] = 0 <=> first[m][r] = NotRead
          /\ first[m][r] = NotRead => counted[m][r] = 0 /\ last[m][r] = NotRead
          /\ counted[m][r] + first[m][r] <= last[m][r]
      BY <2>i DEF ChargeAt, AccountAt
    <3>2. t.v # 0 => /\ t.b \in Nat /\ last[m][r] <= t.b
                     /\ bak[m][r] # 0 => counted[m][r] + first[m][r] + t.v <= t.b + bak[m][r]
      BY <2>a, <2>v DEF Before
    <3>3. CASE t.v = 0
      BY <2>c, <2>u, <3>1, <3>3 DEF NotRead
    <3>4. CASE t.v # 0 /\ bak[m][r] = 0
      BY <2>c, <2>v, <2>u, <3>1, <3>2, <3>4 DEF NotRead
    <3>5. CASE t.v # 0 /\ bak[m][r] # 0 /\ t.v < bak[m][r]
      BY <2>c, <2>v, <2>u, <3>1, <3>2, <3>5 DEF NotRead
    <3>6. CASE t.v # 0 /\ bak[m][r] # 0 /\ t.v >= bak[m][r]
      BY <2>c, <2>v, <2>u, <3>1, <3>2, <3>6 DEF NotRead
    <3> QED
      BY <2>c, <2>v, <3>3, <3>4, <3>5, <3>6
  <2> HIDE DEF k, b, f, l, m, r
  <2>1. /\ bak' \in Table
        /\ \A n \in Metid, q \in Reg : bak'[n][q] = IF n = m /\ q = r THEN b ELSE bak[n][q]
    BY <1>t, <1>s, <1>1, <2>k, InsideTable DEF Table, b
  <2>2. /\ counted' \in Table
        /\ \A n \in Metid, q \in Reg : counted'[n][q] = IF n = m /\ q = r THEN k ELSE counted[n][q]
    BY <1>t, <1>s, <1>1, <2>k, InsideTable DEF Table, k
  <2>3. /\ first' \in Marks
        /\ \A n \in Metid, q \in Reg : first'[n][q] = IF n = m /\ q = r THEN f ELSE first[n][q]
    BY <1>t, <1>s, <1>1, <2>k, InsideTable DEF Marks
  <2>4. /\ last' \in Marks
        /\ \A n \in Metid, q \in Reg : last'[n][q] = IF n = m /\ q = r THEN l ELSE last[n][q]
    BY <1>t, <1>s, <1>1, <2>k, InsideTable DEF Marks
  <2>5. ChargeTypes'
    BY <2>1, <2>2, <2>3, <2>4, <1>t, <1>s, <1>p DEF ChargeTypes, Table, Marks, Items
  <2>6. ASSUME NEW n \in Metid, NEW q \in Reg PROVE ChargeAt(n, q)'
    <3>1. CASE ~(n = m /\ q = r)
      <4>1. /\ bak'[n][q] = bak[n][q] /\ counted'[n][q] = counted[n][q]
            /\ first'[n][q] = first[n][q] /\ last'[n][q] = last[n][q]
        BY <3>1, <2>1, <2>2, <2>3, <2>4
      <4>2. reg'[n][q] = reg[n][q] /\ meter'[n][q] = meter[n][q] /\ burned'[n][q] = burned[n][q]
        BY <1>s
      <4>3. ans' = ans \/ ans'.of # Read(n, q)
        BY <1>f, ForgetAnswer
      <4> QED
        BY <4>1, <4>2, <4>3, SameAccount
    <3>2. CASE n = m /\ q = r
      <4>1. /\ bak'[m][r] = b /\ counted'[m][r] = k /\ first'[m][r] = f /\ last'[m][r] = l
            /\ reg'[m][r] = reg[m][r] /\ meter'[m][r] = meter[m][r] /\ burned'[m][r] = burned[m][r]
        BY <2>1, <2>2, <2>3, <2>4, <1>1, <1>s
      <4>2. ans'.of # Read(m, r)
        BY <1>f DEF Forget, NoAns, Sleep, Read
      <4>3. l <= Now(m, r).b /\ (b # 0 => k + f + Now(m, r).v <= Now(m, r).b + b)
        <5>1. Now(m, r).v \in Nat /\ Now(m, r).b \in Nat
          BY <2>c DEF Now
        <5>2. Before(m, r, Now(m, r))
          BY <2>i DEF ChargeAt, AccountAt
        <5> QED
          BY <5>1, <5>2, <2>a, <2>b
      <4>4. Filled(reg[m][r]) =>
              /\ Older(reg[m][r], Now(m, r))
              /\ l <= reg[m][r].b /\ (b # 0 => k + f + reg[m][r].v <= reg[m][r].b + b)
        <5> SUFFICES ASSUME Filled(reg[m][r])
                     PROVE  /\ Older(reg[m][r], Now(m, r))
                            /\ l <= reg[m][r].b /\ (b # 0 => k + f + reg[m][r].v <= reg[m][r].b + b)
          OBVIOUS
        <5>1. reg[m][r].v \in Nat /\ reg[m][r].b \in Nat
          BY <2>c DEF Reading, Filled
        <5>2. Before(m, r, reg[m][r]) /\ Older(reg[m][r], Now(m, r))
          BY <2>i DEF ChargeAt, MemoryAt
        <5> QED
          BY <5>1, <5>2, <2>a, <2>b
      <4>5. ~Filled(reg[m][r]) => reg[m][r].v = 0
        BY <2>i DEF ChargeAt, MemoryAt
      <4>6. AccountAt(n, q)'
        <5>1. /\ bak'[n][q] = b /\ counted'[n][q] = k /\ first'[n][q] = f /\ last'[n][q] = l
              /\ Now(n, q)' = Now(m, r)
          BY <3>2, <4>1 DEF Now
        <5> QED
          BY <5>1, <4>3, <2>d DEF AccountAt, Before
      <4>7. MemoryAt(n, q)'
        <5>1. /\ bak'[n][q] = b /\ counted'[n][q] = k /\ first'[n][q] = f /\ last'[n][q] = l
              /\ Now(n, q)' = Now(m, r) /\ reg'[n][q] = reg[m][r]
          BY <3>2, <4>1 DEF Now
        <5> QED
          BY <5>1, <4>4, <4>5 DEF MemoryAt, Before, Older, Filled
      <4> QED
        BY <3>2, <4>2, <4>6, <4>7 DEF ChargeAt, AnswerAt
    <3> QED
      BY <3>1, <3>2
  <2> QED
    BY <2>5, <2>6 DEF ChargeInv
<1>2. CASE ~(m \in Metid /\ r \in Reg)
  <2> HIDE DEF m, r, t, u, f, l
  <2>1. bak' = bak /\ counted' = counted /\ first' = first /\ last' = last
    BY <1>2, <1>s, <1>t, OutsideTable DEF Table, Marks
  <2>2. ChargeTypes'
    BY <2>1, <1>s, <1>p DEF ChargeTypes, ChargeInv
  <2>3. ASSUME NEW n \in Metid, NEW q \in Reg PROVE ChargeAt(n, q)'
    <3>1. ans' = ans \/ ans'.of # Read(n, q)
      BY <1>f, ForgetAnswer
    <3> QED
      BY <3>1, <2>1, <1>s, SameAccount
  <2> QED
    BY <2>2, <2>3 DEF ChargeInv
<1> QED
  BY <1>1, <1>2

(* Energy used: the meter shows as much more as was used. *)
LEMMA ConsumeCharge ==
  ASSUME ChargeInv, NEW m \in Metid, NEW r \in Reg, Consume(m, r)
  PROVE  ChargeInv'
<1>t. meter \in Table /\ burned \in Table
  BY DEF ChargeInv, ChargeTypes, Table
<1>n. meter[m][r] \in Nat /\ burned[m][r] \in Nat
  BY <1>t DEF Table
<1>1. /\ meter' \in Table
      /\ \A n \in Metid, q \in Reg :
           meter'[n][q] = IF n = m /\ q = r THEN meter[m][r] + 1 ELSE meter[n][q]
  BY <1>t, <1>n, InsideTable DEF Consume, Table
<1>2. /\ burned' \in Table
      /\ \A n \in Metid, q \in Reg :
           burned'[n][q] = IF n = m /\ q = r THEN burned[m][r] + 1 ELSE burned[n][q]
  BY <1>t, <1>n, InsideTable DEF Consume, Table
<1>u. /\ bak' = bak /\ counted' = counted /\ first' = first /\ last' = last
      /\ reg' = reg /\ ans' = ans /\ at' = at
  BY DEF Consume, elVars, histVars, memVars
<1>3. ChargeTypes'
  BY <1>1, <1>2, <1>u DEF ChargeInv, ChargeTypes, Table
<1>4. ASSUME NEW n \in Metid, NEW q \in Reg PROVE ChargeAt(n, q)'
  <2>1. CASE ~(n = m /\ q = r)
    BY <2>1, <1>1, <1>2, <1>u, SameAccount
  <2>2. CASE n = m /\ q = r
    <3>1. ChargeAt(n, q) /\ ChargeTypes
      BY DEF ChargeInv
    <3>2. /\ bak[n][q] \in Nat /\ counted[n][q] \in Nat /\ reg[n][q] \in Reading
          /\ first[n][q] \in Nat \cup {NotRead} /\ last[n][q] \in Nat \cup {NotRead}
      BY <3>1 DEF ChargeTypes
    <3>3. meter'[n][q] = meter[n][q] + 1 /\ burned'[n][q] = burned[n][q] + 1
      BY <2>2, <1>1, <1>2
    <3>4. meter[n][q] \in Nat /\ burned[n][q] \in Nat
      BY <2>2, <1>n
    <3>5. AccountAt(n, q)'
      BY <3>1, <3>2, <3>3, <3>4, <1>u DEF ChargeAt, AccountAt, Before, Now, NotRead
    <3>6. MemoryAt(n, q)'
      BY <3>1, <3>2, <3>3, <3>4, <1>u
      DEF ChargeAt, MemoryAt, Before, Now, Filled, Older, Reading, NotRead
    <3>7. AnswerAt(n, q)'
      BY <3>1, <3>2, <3>3, <3>4, <1>u
      DEF ChargeAt, AnswerAt, Before, Now, Filled, Older, Reading, NotRead
    <3> QED
      BY <3>5, <3>6, <3>7 DEF ChargeAt
  <2> QED
    BY <2>1, <2>2
<1> QED
  BY <1>3, <1>4 DEF ChargeInv

(* A new meter shows 0, less than any reading before. *)
LEMMA ReplaceCharge ==
  ASSUME ChargeInv, NEW m \in Metid, Replace(m)
  PROVE  ChargeInv'
<1>t. meter \in Table /\ burned \in Table
  BY DEF ChargeInv, ChargeTypes, Table
<1>1. meter' = [meter EXCEPT ![m] = [r \in Reg |-> 0]]
  BY DEF Replace
<1>2. /\ meter' \in Table
      /\ \A n \in Metid, q \in Reg : meter'[n][q] = IF n = m THEN 0 ELSE meter[n][q]
  BY <1>1, <1>t DEF Table
<1>u. /\ bak' = bak /\ counted' = counted /\ first' = first /\ last' = last
      /\ reg' = reg /\ ans' = ans /\ at' = at /\ burned' = burned
  BY DEF Replace, elVars, histVars, memVars
<1>3. ChargeTypes'
  BY <1>2, <1>u DEF ChargeInv, ChargeTypes, Table
<1>4. ASSUME NEW n \in Metid, NEW q \in Reg PROVE ChargeAt(n, q)'
  <2>1. CASE n # m
    BY <2>1, <1>2, <1>u, SameAccount
  <2>2. CASE n = m
    <3>1. ChargeAt(n, q) /\ ChargeTypes
      BY DEF ChargeInv
    <3>2. /\ bak[n][q] \in Nat /\ counted[n][q] \in Nat /\ reg[n][q] \in Reading
          /\ first[n][q] \in Nat \cup {NotRead} /\ last[n][q] \in Nat \cup {NotRead}
          /\ meter[n][q] \in Nat /\ burned[n][q] \in Nat
      BY <3>1 DEF ChargeTypes
    <3>3. meter'[n][q] = 0
      BY <2>2, <1>2
    <3>4. AccountAt(n, q)'
      BY <3>1, <3>2, <3>3, <1>u DEF ChargeAt, AccountAt, Before, Now, NotRead
    <3>5. MemoryAt(n, q)'
      BY <3>1, <3>2, <3>3, <1>u
      DEF ChargeAt, MemoryAt, Before, Now, Filled, Older, Reading, NotRead
    <3>6. AnswerAt(n, q)'
      BY <3>1, <3>2, <3>3, <1>u
      DEF ChargeAt, AnswerAt, Before, Now, Filled, Older, Reading, NotRead
    <3> QED
      BY <3>4, <3>5, <3>6 DEF ChargeAt
  <2> QED
    BY <2>1, <2>2
<1> QED
  BY <1>3, <1>4 DEF ChargeInv

(* What main puts into the memory is what the meter shows. *)
LEMMA RefreshCharge ==
  ASSUME ChargeInv, NEW m \in Metid, NEW r \in Reg, Refresh(m, r)
  PROVE  ChargeInv'
<1>t. reg \in Items /\ meter \in Table /\ burned \in Table
  BY DEF ChargeInv, ChargeTypes, Table, Items
<1>n. Now(m, r) \in Reading
  BY <1>t DEF Now, Reading, Table
<1>1. /\ reg' \in Items
      /\ \A n \in Metid, q \in Reg : reg'[n][q] = IF n = m /\ q = r THEN Now(m, r) ELSE reg[n][q]
  <2>1. reg' = [reg EXCEPT ![m][r] = Now(m, r)]
    BY DEF Refresh, Now
  <2> QED
    BY <2>1, <1>t, <1>n, InsideTable DEF Items
<1>u. /\ bak' = bak /\ counted' = counted /\ first' = first /\ last' = last
      /\ meter' = meter /\ burned' = burned /\ ans' = ans /\ at' = at
  BY DEF Refresh, elVars, histVars
<1>3. ChargeTypes'
  BY <1>1, <1>u DEF ChargeInv, ChargeTypes, Items
<1>4. ASSUME NEW n \in Metid, NEW q \in Reg PROVE ChargeAt(n, q)'
  <2>1. CASE ~(n = m /\ q = r)
    BY <2>1, <1>1, <1>u, SameAccount
  <2>2. CASE n = m /\ q = r
    <3>1. ChargeAt(n, q)
      BY DEF ChargeInv
    <3>2. reg'[n][q] = Now(n, q) /\ Now(n, q)' = Now(n, q)
      BY <2>2, <1>1, <1>u DEF Now
    <3>3. Filled(Now(n, q)) /\ Older(Now(n, q), Now(n, q))
      BY <1>t DEF Now, Filled, Older, Table, NotRead
    <3>4. AccountAt(n, q)'
      BY <3>1, <3>2, <1>u DEF ChargeAt, AccountAt, Before
    <3>5. MemoryAt(n, q)'
      BY <3>1, <3>2, <3>3, <1>u DEF ChargeAt, AccountAt, MemoryAt, Before, Filled, Older
    <3>6. AnswerAt(n, q)'
      BY <3>1, <3>2, <1>u DEF ChargeAt, AnswerAt, Before, Filled, Older
    <3> QED
      BY <3>4, <3>5, <3>6 DEF ChargeAt
  <2> QED
    BY <2>1, <2>2
<1> QED
  BY <1>3, <1>4 DEF ChargeInv

(* An answer to a read holds what the memory holds. *)
LEMMA AnswerCharge ==
  ASSUME ChargeInv, NEW call, ans'.of = call, ans'.item = ItemOf(call),
         UNCHANGED <<bak, counted, first, last, meter, burned, reg, at>>
  PROVE  ChargeInv'
<1>1. ChargeTypes /\ ChargeTypes'
  BY DEF ChargeInv, ChargeTypes
<1>2. ASSUME NEW n \in Metid, NEW q \in Reg PROVE ChargeAt(n, q)'
  <2>1. CASE call # Read(n, q)
    BY <2>1, SameAccount
  <2>2. CASE call = Read(n, q)
    <3>1. ans'.item = reg[n][q]
      BY <2>2 DEF ItemOf, Read
    <3>2. ChargeAt(n, q)
      BY DEF ChargeInv
    <3>3. reg[n][q] \in Reading
      BY <1>1 DEF ChargeTypes
    <3>4. Filled(reg[n][q]) => Older(reg[n][q], reg[n][q])
      BY <3>3 DEF Filled, Older, Reading
    <3>5. AccountAt(n, q)' /\ MemoryAt(n, q)'
      BY <3>2 DEF ChargeAt, AccountAt, MemoryAt, Before, Now, Filled, Older
    <3>6. AnswerAt(n, q)'
      BY <3>1, <3>2, <3>3, <3>4
      DEF ChargeAt, MemoryAt, AnswerAt, Before, Now, Filled, Older
    <3> QED
      BY <3>5, <3>6 DEF ChargeAt
  <2> QED
    BY <2>1, <2>2
<1> QED
  BY <1>1, <1>2 DEF ChargeInv

(* A memory that was cleared reads 0. *)
LEMMA RhRestartCharge ==
  ASSUME ChargeInv, RhRestart
  PROVE  ChargeInv'
<1>u. /\ bak' = bak /\ counted' = counted /\ first' = first /\ last' = last
      /\ meter' = meter /\ burned' = burned /\ at' = at /\ reg' = NoItems
  BY DEF RhRestart, elVars, histVars
<1>a. ans' = [ans EXCEPT !.own = FALSE]
  BY DEF RhRestart
<1>1. ChargeTypes'
  BY <1>u DEF ChargeInv, ChargeTypes, NoItems, Cleared, Reading
<1>2. ASSUME NEW n \in Metid, NEW q \in Reg PROVE ChargeAt(n, q)'
  <2>1. ChargeAt(n, q)
    BY DEF ChargeInv
  <2>2. reg'[n][q].v = 0 /\ ~Filled(reg'[n][q])
    BY <1>u DEF NoItems, Cleared, Filled
  <2>3. AccountAt(n, q)' /\ MemoryAt(n, q)'
    BY <2>1, <2>2, <1>u DEF ChargeAt, AccountAt, MemoryAt, Before, Now, Filled
  <2>4. AnswerAt(n, q)'
    BY <2>1, <2>2, <1>u, <1>a DEF ChargeAt, AnswerAt, Before, Now, Older, Filled
  <2> QED
    BY <2>3, <2>4 DEF ChargeAt
<1> QED
  BY <1>1, <1>2 DEF ChargeInv

(* el_init closes every account; an answer to the dead process is left. *)
LEMMA RestartCharge ==
  ASSUME ChargeInv, Restart
  PROVE  ChargeInv'
<1>u. /\ bak' = Zero /\ counted' = Zero /\ first' = NoReading /\ last' = NoReading
      /\ meter' = meter /\ burned' = burned /\ reg' = reg /\ at' = Sleep
  BY DEF Restart, memVars
<1>a. ans' = [ans EXCEPT !.own = FALSE]
  BY DEF Restart, Orphan
<1>1. ChargeTypes'
  BY <1>u DEF ChargeInv, ChargeTypes, Zero, NoReading, Sleep
<1>2. ASSUME NEW n \in Metid, NEW q \in Reg PROVE ChargeAt(n, q)'
  <2>1. ChargeAt(n, q) /\ ChargeTypes
    BY DEF ChargeInv
  <2>2. reg[n][q] \in Reading /\ meter[n][q] \in Nat /\ burned[n][q] \in Nat
    BY <2>1 DEF ChargeTypes
  <2>3. bak'[n][q] = 0 /\ counted'[n][q] = 0 /\ first'[n][q] = NotRead /\ last'[n][q] = NotRead
    BY <1>u DEF Zero, NoReading
  <2>4. AccountAt(n, q)'
    BY <2>2, <2>3, <1>u DEF AccountAt, Before, Now, NotRead
  <2>5. MemoryAt(n, q)'
    BY <2>1, <2>2, <2>3, <1>u
    DEF ChargeAt, MemoryAt, Before, Now, Older, Filled, Reading, NotRead
  <2>6. AnswerAt(n, q)'
    BY <2>1, <2>2, <2>3, <1>u, <1>a
    DEF ChargeAt, AnswerAt, Before, Now, Older, Filled, Reading, NotRead
  <2> QED
    BY <2>4, <2>5, <2>6 DEF ChargeAt
<1> QED
  BY <1>1, <1>2 DEF ChargeInv

(* A step that only moves the task, and may drop its answer. *)
LEMMA MoveCharge ==
  ASSUME ChargeInv, UNCHANGED <<bak, counted, first, last, meter, burned, reg>>,
         Forget \/ ans' = ans,
         at'.at = "read" => at' = Read(at'.m, at'.r)
  PROVE  ChargeInv'
<1>1. ChargeTypes'
  BY DEF ChargeInv, ChargeTypes
<1>2. ASSUME NEW n \in Metid, NEW q \in Reg PROVE ChargeAt(n, q)'
  BY ForgetAnswer, SameAccount
<1> QED
  BY <1>1, <1>2 DEF ChargeInv

(* Every step keeps the invariant. *)
LEMMA ChargeStep == ChargeInv /\ [Next]_vars => ChargeInv'
<1> SUFFICES ASSUME ChargeInv, [Next]_vars PROVE ChargeInv'
  OBVIOUS
<1>p. Polled \subseteq Metid
  BY DEF Polled
<1>1. ASSUME NEW m \in Polled, NEW r \in Reg, Consume(m, r) PROVE ChargeInv'
  BY <1>1, <1>p, ConsumeCharge
<1>2. ASSUME NEW m \in Polled, NEW r \in Reg, Refresh(m, r) PROVE ChargeInv'
  BY <1>2, <1>p, RefreshCharge
<1>3. ASSUME NEW m \in Polled, Replace(m) PROVE ChargeInv'
  BY <1>3, <1>p, ReplaceCharge
<1>4. CASE Serve
  BY <1>4, AnswerCharge DEF Serve, elVars, histVars
<1>5. CASE ServeLate
  <2>1. UNCHANGED <<bak, counted, first, last, meter, burned, reg, at>>
    BY <1>5 DEF ServeLate, elVars, histVars
  <2>2. CASE late.old
    BY <1>5, <2>1, <2>2, AnswerCharge DEF ServeLate
  <2>3. CASE ~late.old
    BY <1>5, <2>1, <2>3, MoveCharge DEF ServeLate, ChargeInv, ChargeTypes
  <2> QED
    BY <2>2, <2>3
<1>6. CASE RhRestart
  BY <1>6, RhRestartCharge
<1>7. CASE Wake
  <2>1. at'.at = "read" => at' = Read(at'.m, at'.r)
    BY <1>7 DEF Wake, ReadMeter, Read, Proc
  <2> QED
    BY <1>7, <2>1, MoveCharge DEF Wake, elVars, memVars, histVars
<1>8. CASE ReadOk
  BY <1>8, ReadCharge
<1>9. CASE ReadFail
  <2>1. at'.at = "read" => at' = Read(at'.m, at'.r)
    BY <1>9, PlaceAfterRead DEF ReadFail
  <2> QED
    BY <1>9, <2>1, MoveCharge DEF ReadFail, Fail, elVars, memVars, histVars
<1>10. CASE el_statis_proc
  <2>1. at'.at # "read"
    BY <1>10, PlaceAfterWrite DEF el_statis_proc
  <2> QED
    BY <1>10, <2>1, MoveCharge DEF el_statis_proc, memVars, histVars
<1>11. CASE el_statis_save
  <2>1. at'.at # "read"
    BY <1>11, PlaceAfterWrite DEF el_statis_save, NextItem
  <2>2. Forget
    BY <1>11 DEF el_statis_save, Fail
  <2> QED
    BY <1>11, <2>1, <2>2, MoveCharge DEF el_statis_save, elVars, memVars, histVars
<1>12. CASE Restart
  BY <1>12, RestartCharge
<1>13. CASE UNCHANGED vars
  BY <1>13, MoveCharge DEF vars, elVars, memVars, histVars, ChargeInv, ChargeTypes
<1> QED
  BY <1>1, <1>2, <1>3, <1>4, <1>5, <1>6, <1>7, <1>8, <1>9, <1>10, <1>11, <1>12, <1>13
  DEF Next, Task

(* The inductive invariant of the charges holds in every reachable state of  *)
(* the line-loss task: the account of every register covers what it charges  *)
(* and stands before every reading meter_data_update may still be given.     *)
THEOREM ChargeInvariant == Spec => []ChargeInv
  BY ChargeInit, ChargeStep, PTL DEF Spec

(* No register is charged for energy that was not used between its first and *)
(* its last reading, whatever calls of elAPP fail and whatever dies.         *)
THEOREM NothingInvented == Spec => []NeverInvented
<1>1. ChargeInv => NeverInvented
  <2> SUFFICES ASSUME ChargeInv, NEW m \in Metid, NEW r \in Reg
               PROVE  counted[m][r] <= last[m][r] - first[m][r]
    BY DEF NeverInvented
  <2>1. /\ counted[m][r] \in Nat
        /\ first[m][r] \in Nat \cup {NotRead} /\ last[m][r] \in Nat \cup {NotRead}
    BY DEF ChargeInv, ChargeTypes
  <2>2. counted[m][r] + first[m][r] <= last[m][r]
    BY DEF ChargeInv, ChargeAt, AccountAt
  <2> QED
    BY <2>1, <2>2 DEF NotRead
<1> QED
  BY <1>1, ChargeInvariant, PTL

(* A table seen as a function of pairs: changing a place of the one changes  *)
(* that place of the other.                                                  *)
Flat(f) == [a \in Metid \X Reg |-> f[a[1]][a[2]]]

Changed(g, f, m, r, v) == g = [f EXCEPT ![m][r] = v]

FlatChanged(g, f, m, r, v) == Flat(g) = [Flat(f) EXCEPT ![<<m, r>>] = v]

(* A change of one place of a table of tables is one change over pairs. *)
LEMMA FlatUpdate ==
  ASSUME NEW V, NEW f \in [Metid -> [Reg -> V]], NEW m \in Metid, NEW r \in Reg, NEW v \in V,
         NEW g, Changed(g, f, m, r, v)
  PROVE  FlatChanged(g, f, m, r, v)
<1>1. \A n \in Metid, q \in Reg : g[n][q] = IF n = m /\ q = r THEN v ELSE f[n][q]
  BY InsideTable DEF Changed
<1>2. ASSUME NEW a \in Metid \X Reg
      PROVE  g[a[1]][a[2]] = IF a = <<m, r>> THEN v ELSE f[a[1]][a[2]]
  BY <1>1
<1> QED
  BY <1>2 DEF Flat, FlatChanged

(* A table over pairs has at a pair what the table of tables has there. *)
LEMMA FlatAt ==
  ASSUME NEW f, NEW m \in Metid, NEW r \in Reg
  PROVE  Flat(f)[<<m, r>>] = f[m][r]
  BY DEF Flat

(* The initial tables are an empty ledger. *)
LEMMA RefineInit == Init => Account!Init
  BY DEF Init, Account!Init, Zero, NoReading

(* Energy used is a step of the ledger. *)
LEMMA LedgerUse ==
  ASSUME ChargeInv, NEW m \in Metid, NEW r \in Reg, Consume(m, r)
  PROVE  Account!Use(<<m, r>>)
<1> DEFINE v == burned[m][r] + 1
<1>1. burned \in [Metid -> [Reg -> Nat]] /\ v \in Nat
  BY DEF ChargeInv, ChargeTypes
<1>2. burned' = [burned EXCEPT ![m][r] = v] /\ UNCHANGED <<first, last, counted>>
  BY DEF Consume, histVars
<1>3. Flat(burned)[<<m, r>>] + 1 = v
  BY FlatAt
<1> HIDE DEF v
<1>4. Flat(burned') = [Flat(burned) EXCEPT ![<<m, r>>] = v]
  <2>1. Changed(burned', burned, m, r, v)
    BY <1>2 DEF Changed
  <2>2. FlatChanged(burned', burned, m, r, v)
    BY <1>1, <2>1, FlatUpdate
  <2> QED
    BY <2>2 DEF FlatChanged
<1> QED
  BY <1>2, <1>3, <1>4 DEF Account!Use, Flat

(* A successful reading opens an account, charges it, or does nothing to it. *)
LEMMA LedgerRead ==
  ASSUME ChargeInv, ReadOk
  PROVE  (\E a \in Metid \X Reg : Account!Open(a) \/ Account!Charge(a))
         \/ UNCHANGED <<burned, first, last, counted>>
<1> DEFINE m == at.m
           r == at.r
           t == ans.item
           used == meter_ene_update(t.v, bak[m][r]).used
           k == counted[m][r] + used
           f == IF first[m][r] = NotRead /\ t.v # 0 THEN t.b ELSE first[m][r]
           l == IF t.v # 0 THEN t.b ELSE last[m][r]
<1>t. /\ bak \in Table /\ counted \in Table /\ burned \in Table /\ first \in Marks /\ last \in Marks
  BY DEF ChargeInv, ChargeTypes, Table, Marks
<1>s. /\ counted' = [counted EXCEPT ![m][r] = k]
      /\ first' = [first EXCEPT ![m][r] = f]
      /\ last' = [last EXCEPT ![m][r] = l]
      /\ burned' = burned
  BY DEF ReadOk
<1>f. ans.of = at /\ at = Read(m, r)
  BY DEF ReadOk, ChargeInv, ChargeTypes
<1>1. CASE ~(m \in Metid /\ r \in Reg)
  <2> HIDE DEF m, r, k, f, l
  <2> QED
    BY <1>1, <1>s, <1>t, OutsideTable DEF Table, Marks
<1>2. CASE m \in Metid /\ r \in Reg
  <2>i. ChargeAt(m, r)
    BY <1>2 DEF ChargeInv
  <2>c. /\ t \in Reading /\ bak[m][r] \in Nat /\ counted[m][r] \in Nat /\ burned[m][r] \in Nat
        /\ first[m][r] \in Nat \cup {NotRead} /\ last[m][r] \in Nat \cup {NotRead}
    BY <1>t, <1>2, <1>f, <2>i DEF Table, Marks, ChargeAt, AnswerAt
  <2>v. t.v \in Nat /\ t.b \in Nat \cup {NotRead}
    BY <2>c DEF Reading
  <2>a. t.v # 0 => /\ t.b \in Nat /\ last[m][r] <= t.b /\ t.b <= burned[m][r]
                   /\ bak[m][r] # 0 => counted[m][r] + first[m][r] + t.v <= t.b + bak[m][r]
    BY <2>i, <2>v, <1>f DEF ChargeAt, AnswerAt, Filled, Older, Now, Before
  <2>b. /\ bak[m][r] = 0 <=> first[m][r] = NotRead
        /\ first[m][r] = NotRead => counted[m][r] = 0
        /\ counted[m][r] + first[m][r] <= last[m][r]
    BY <2>i DEF ChargeAt, AccountAt
  <2>u. /\ used \in Nat
        /\ bak[m][r] = 0 => used = 0
        /\ bak[m][r] # 0 /\ t.v < bak[m][r] => used = 0
        /\ bak[m][r] # 0 /\ t.v >= bak[m][r] => used = t.v - bak[m][r]
    BY <2>c, <2>v, UpdateIsDifference
  <2> HIDE DEF used
  <2>e. /\ Flat(counted)[<<m, r>>] = counted[m][r] /\ Flat(burned)[<<m, r>>] = burned[m][r]
        /\ Flat(first)[<<m, r>>] = first[m][r] /\ Flat(last)[<<m, r>>] = last[m][r]
    BY <1>2 DEF Flat
  <2>k. k \in Nat /\ f \in Nat \cup {NotRead} /\ l \in Nat \cup {NotRead}
    BY <2>c, <2>v, <2>u
  <2>x. PICK a \in Metid \X Reg : a = <<m, r>>
    BY <1>2
  <2>w. /\ Flat(counted') = [Flat(counted) EXCEPT ![<<m, r>>] = k]
        /\ Flat(first') = [Flat(first) EXCEPT ![<<m, r>>] = f]
        /\ Flat(last') = [Flat(last) EXCEPT ![<<m, r>>] = l]
    <3> HIDE DEF m, r, k, f, l
    <3>1. /\ Changed(counted', counted, m, r, k) /\ Changed(first', first, m, r, f)
          /\ Changed(last', last, m, r, l)
      BY <1>s DEF Changed
    <3>2. /\ FlatChanged(counted', counted, m, r, k) /\ FlatChanged(first', first, m, r, f)
          /\ FlatChanged(last', last, m, r, l)
      BY <3>1, <1>2, <1>t, <2>k, FlatUpdate DEF Table, Marks
    <3> QED
      BY <3>2 DEF FlatChanged
  <2>1. CASE t.v = 0
    <3>1. k = counted[m][r] /\ f = first[m][r] /\ l = last[m][r]
      BY <2>1, <2>c, <2>u
    <3> QED
      BY <3>1, <1>s, <1>t, <1>2 DEF Table, Marks
  <2>2. CASE t.v # 0 /\ first[m][r] = NotRead
    <3>1. k = counted[m][r] /\ f = t.b /\ l = t.b /\ t.b \in 0 .. burned[m][r]
      BY <2>2, <2>a, <2>b, <2>c, <2>u
    <3> HIDE DEF m, r, t, k, f, l
    <3>2. Flat(counted') = Flat(counted)
      BY <3>1, <2>w, <2>e, <2>x DEF Flat
    <3>3. Account!Open(a)
      BY <3>1, <3>2, <2>2, <2>w, <2>e, <2>x, <1>s DEF Account!Open, Flat
    <3> QED
      BY <3>3
  <2>3. CASE t.v # 0 /\ first[m][r] # NotRead
    <3>1. /\ f = first[m][r] /\ l = t.b /\ t.b \in last[m][r] .. burned[m][r]
          /\ k \in counted[m][r] .. (t.b - first[m][r])
      <4>1. f = first[m][r] /\ l = t.b /\ t.b \in last[m][r] .. burned[m][r]
        BY <2>3, <2>a, <2>c DEF NotRead
      <4>2. CASE t.v < bak[m][r]
        BY <4>2, <2>3, <2>a, <2>b, <2>c, <2>u, <2>v DEF NotRead
      <4>3. CASE ~(t.v < bak[m][r])
        <5>1. bak[m][r] # 0 /\ t.v >= bak[m][r] /\ t.b \in Nat /\ first[m][r] \in Nat
          BY <4>3, <2>3, <2>a, <2>b, <2>c, <2>v
        <5>2. used = t.v - bak[m][r] /\ counted[m][r] + first[m][r] + t.v <= t.b + bak[m][r]
          BY <5>1, <2>3, <2>a, <2>u
        <5> QED
          BY <4>1, <5>1, <5>2, <2>c, <2>v
      <4> QED
        BY <4>1, <4>2, <4>3
    <3> HIDE DEF m, r, t, k, f, l
    <3>2. Flat(first') = Flat(first)
      BY <3>1, <2>w, <2>e, <2>x DEF Flat
    <3>3. \E b \in Flat(last)[a] .. Flat(burned)[a] :
            /\ Flat(last') = [Flat(last) EXCEPT ![a] = b]
            /\ \E c \in Flat(counted)[a] .. (b - Flat(first)[a]) :
                 Flat(counted') = [Flat(counted) EXCEPT ![a] = c]
      BY <3>1, <2>w, <2>e, <2>x
    <3>4. Flat(first)[a] # NotRead /\ Flat(burned') = Flat(burned)
      BY <2>3, <2>e, <2>x, <1>s
    <3>5. Account!Charge(a)
      BY <3>2, <3>3, <3>4 DEF Account!Charge, Flat
    <3> QED
      BY <3>5
  <2> QED
    BY <2>1, <2>2, <2>3
<1> QED
  BY <1>1, <1>2

(* Every step of the task, of rhApp and of the meters is one of the ledger,  *)
(* or leaves it as it is.                                                    *)
LEMMA RefineStep ==
  ChargeInv /\ [Next]_vars => [Account!Next]_(Account!ledgerVars)
<1> SUFFICES ASSUME ChargeInv, [Next]_vars
             PROVE  [Account!Next]_(Account!ledgerVars)
  OBVIOUS
<1>s. UNCHANGED <<burned, first, last, counted>> => UNCHANGED Account!ledgerVars
  BY DEF Account!ledgerVars
<1>1. ASSUME NEW m \in Polled, NEW r \in Reg, Consume(m, r) PROVE Account!Next
  <2>1. m \in Metid
    BY DEF Polled
  <2>2. <<m, r>> \in Metid \X Reg /\ Account!Use(<<m, r>>)
    BY <1>1, <2>1, LedgerUse
  <2> QED
    BY <2>2 DEF Account!Next
<1>2. CASE Restart
  BY <1>2 DEF Restart, Account!Next, Account!Forget, Zero, NoReading
<1>3. CASE ReadOk
  BY <1>3, <1>s, LedgerRead DEF Account!Next
<1>4. CASE UNCHANGED vars
  BY <1>4, <1>s DEF vars, histVars
<1>5. ASSUME NEW m \in Polled, NEW r \in Reg, Refresh(m, r) \/ Replace(m)
      PROVE  UNCHANGED Account!ledgerVars
  BY <1>5, <1>s DEF Refresh, Replace, histVars
<1>6. CASE Serve \/ ServeLate \/ RhRestart
  BY <1>6, <1>s DEF Serve, ServeLate, RhRestart, histVars
<1>7. CASE Wake \/ ReadFail \/ el_statis_proc \/ el_statis_save
  BY <1>7, <1>s DEF Wake, ReadFail, el_statis_proc, el_statis_save, histVars
<1>8. ASSUME NEW m \in Polled, Replace(m) PROVE UNCHANGED Account!ledgerVars
  BY <1>8, <1>s DEF Replace, histVars
<1> QED
  BY <1>1, <1>2, <1>3, <1>4, <1>5, <1>6, <1>7, <1>8 DEF Next, Task

(* The line-loss task implements the ledger: whatever fails or dies, an      *)
(* account is opened at a point of the register's use that was reached,      *)
(* moved on to a later one and charged for no more than lies between, or     *)
(* all of them are forgotten.                                                *)
THEOREM KeepsLedger == Spec => LedgerSpec
<1>1. ChargeInv /\ [Next]_vars => [Account!Next]_(Account!ledgerVars)
  BY RefineStep
<1> QED
  BY <1>1, RefineInit, ChargeInvariant, PTL DEF Spec, LedgerSpec, Account!Spec

(* The types and the promise of Ledger, and its steps, as relations of what *)
(* was used and of the accounts.                                            *)
Sound(R, u, f, t, c) ==
  /\ u \in [R -> Nat] /\ c \in [R -> Nat]
  /\ f \in [R -> Nat \cup {NotRead}] /\ t \in [R -> Nat \cup {NotRead}]
  /\ \A a \in R :
       /\ f[a] = NotRead => t[a] = NotRead /\ c[a] = 0
       /\ f[a] # NotRead => f[a] + c[a] <= t[a] /\ t[a] <= u[a]

Forgets(R, u, f, t, c, u1, f1, t1, c1) ==
  /\ f1 = [a \in R |-> NotRead]
  /\ t1 = [a \in R |-> NotRead]
  /\ c1 = [a \in R |-> 0]
  /\ u1 = u

Uses(R, u, f, t, c, u1, f1, t1, c1) ==
  \E a \in R : u1 = [u EXCEPT ![a] = @ + 1] /\ f1 = f /\ t1 = t /\ c1 = c

Opens(R, u, f, t, c, u1, f1, t1, c1) ==
  \E a \in R :
    /\ f[a] = NotRead
    /\ \E b \in 0 .. u[a] : f1 = [f EXCEPT ![a] = b] /\ t1 = [t EXCEPT ![a] = b]
    /\ u1 = u /\ c1 = c

Charges(R, u, f, t, c, u1, f1, t1, c1) ==
  \E a \in R :
    /\ f[a] # NotRead
    /\ \E b \in t[a] .. u[a] :
         /\ t1 = [t EXCEPT ![a] = b]
         /\ \E n \in c[a] .. (b - f[a]) : c1 = [c EXCEPT ![a] = n]
    /\ u1 = u /\ f1 = f

Moves(R, u, f, t, c, u1, f1, t1, c1) ==
  \/ Forgets(R, u, f, t, c, u1, f1, t1, c1)
  \/ Uses(R, u, f, t, c, u1, f1, t1, c1)
  \/ Opens(R, u, f, t, c, u1, f1, t1, c1)
  \/ Charges(R, u, f, t, c, u1, f1, t1, c1)

(* Using energy, opening, charging and forgetting an account keep it sound. *)
LEMMA SoundAccounts ==
  ASSUME NEW R, NEW u, NEW f, NEW t, NEW c, NEW u1, NEW f1, NEW t1, NEW c1,
         Sound(R, u, f, t, c), Moves(R, u, f, t, c, u1, f1, t1, c1)
  PROVE  Sound(R, u1, f1, t1, c1)
<1>s. /\ u \in [R -> Nat] /\ c \in [R -> Nat]
      /\ f \in [R -> Nat \cup {-1}] /\ t \in [R -> Nat \cup {-1}]
      /\ \A a \in R : /\ f[a] = -1 => t[a] = -1 /\ c[a] = 0
                      /\ f[a] # -1 => f[a] + c[a] <= t[a] /\ t[a] <= u[a]
  BY DEF Sound, NotRead
<1>1. CASE Forgets(R, u, f, t, c, u1, f1, t1, c1)
  BY <1>1, <1>s DEF Forgets, Sound, NotRead
<1>2. CASE Uses(R, u, f, t, c, u1, f1, t1, c1)
  <2>1. PICK a \in R : u1 = [u EXCEPT ![a] = @ + 1] /\ f1 = f /\ t1 = t /\ c1 = c
    BY <1>2 DEF Uses
  <2>2. u1 \in [R -> Nat] /\ \A x \in R : u1[x] \in Nat /\ u[x] \in Nat /\ u[x] <= u1[x]
    BY <2>1, <1>s
  <2>3. ASSUME NEW x \in R, f[x] # -1
        PROVE  t[x] <= u1[x]
    <3>1. t[x] \in Int /\ t[x] <= u[x] /\ u[x] <= u1[x] /\ u[x] \in Nat /\ u1[x] \in Nat
      BY <2>2, <2>3, <1>s
    <3> QED
      BY <3>1
  <2> QED
    BY <2>1, <2>2, <2>3, <1>s DEF Sound, NotRead
<1>3. CASE Opens(R, u, f, t, c, u1, f1, t1, c1)
  <2>1. PICK a \in R : /\ f[a] = -1 /\ u1 = u /\ c1 = c
                       /\ \E b \in 0 .. u[a] : f1 = [f EXCEPT ![a] = b] /\ t1 = [t EXCEPT ![a] = b]
    BY <1>3 DEF Opens, NotRead
  <2>2. PICK b \in 0 .. u[a] : f1 = [f EXCEPT ![a] = b] /\ t1 = [t EXCEPT ![a] = b]
    BY <2>1
  <2> QED
    BY <2>1, <2>2, <1>s DEF Sound, NotRead
<1>4. CASE Charges(R, u, f, t, c, u1, f1, t1, c1)
  <2>1. PICK a \in R :
          /\ f[a] # -1 /\ u1 = u /\ f1 = f
          /\ \E b \in t[a] .. u[a] :
               /\ t1 = [t EXCEPT ![a] = b]
               /\ \E n \in c[a] .. (b - f[a]) : c1 = [c EXCEPT ![a] = n]
    BY <1>4 DEF Charges, NotRead
  <2>2. PICK b \in t[a] .. u[a] :
          /\ t1 = [t EXCEPT ![a] = b]
          /\ \E n \in c[a] .. (b - f[a]) : c1 = [c EXCEPT ![a] = n]
    BY <2>1
  <2>3. PICK n \in c[a] .. (b - f[a]) : c1 = [c EXCEPT ![a] = n]
    BY <2>2
  <2>4. f[a] \in Nat /\ c[a] \in Nat /\ u[a] \in Nat /\ f[a] + c[a] <= t[a] /\ t[a] \in Nat
    BY <2>1, <1>s
  <2>5. b \in Nat /\ n \in Nat /\ b <= u[a] /\ f[a] + n <= b
    BY <2>2, <2>3, <2>4
  <2> QED
    BY <2>1, <2>2, <2>3, <2>4, <2>5, <1>s DEF Sound, NotRead
<1> QED
  BY <1>1, <1>2, <1>3, <1>4 DEF Moves

(* What Ledger allows is what the readers of the accounts may rely on: an   *)
(* account covers a part of what was used and charges no more than it.      *)
THEOREM LedgerKeepsPromise == LedgerSpec => [](Account!TypeOK /\ Account!Promise)
<1> DEFINE R == Metid \X Reg
           U == [a \in Metid \X Reg |-> burned[a[1]][a[2]]]
           F == [a \in Metid \X Reg |-> first[a[1]][a[2]]]
           T == [a \in Metid \X Reg |-> last[a[1]][a[2]]]
           C == [a \in Metid \X Reg |-> counted[a[1]][a[2]]]
<1>1. Account!Init => Account!TypeOK /\ Account!Promise
  BY DEF Account!Init, Account!TypeOK, Account!Promise
<1>2. ASSUME Account!TypeOK, Account!Promise, [Account!Next]_(Account!ledgerVars)
      PROVE  Account!TypeOK' /\ Account!Promise'
  <2>1. Sound(R, U, F, T, C)
    BY <1>2, Zenon DEF Account!TypeOK, Account!Promise, Sound
  <2>2. CASE UNCHANGED Account!ledgerVars
    BY <1>2, <2>2 DEF Account!ledgerVars, Account!TypeOK, Account!Promise
  <2>3. CASE Account!Next
    <3>1. Moves(R, U, F, T, C, U', F', T', C')
      BY <2>3, Zenon DEF Account!Next, Account!Forget, Account!Use, Account!Open,
         Account!Charge, Moves, Forgets, Uses, Opens, Charges
    <3>2. Sound(R, U', F', T', C')
      <4> HIDE DEF R, U, F, T, C
      <4> QED
        BY <2>1, <3>1, SoundAccounts
    <3> QED
      BY <3>2, Zenon DEF Account!TypeOK, Account!Promise, Sound
  <2> QED
    BY <1>2, <2>2, <2>3
<1> QED
  BY <1>1, <1>2, PTL DEF LedgerSpec, Account!Spec

(* So may the readers of what elAPP charges: at any moment, what a meter is *)
(* charged for lies inside what it has used.                                *)
THEOREM AccountsCoverUse == Spec => [](Account!TypeOK /\ Account!Promise)
  BY KeepsLedger, LedgerKeepsPromise, PTL

(* The least of a set of numbers is Min. *)
LEMMA MinOfNat ==
  ASSUME NEW S \in SUBSET Nat, S # {}
  PROVE  Min(S) \in S /\ \A y \in S : Min(S) <= y
<1>1. \E x \in S : \A y \in S : x <= y
  BY LeastNumber
<1> QED
  BY <1>1 DEF Min

Places == {Sleep, Proc} \cup Call

(* Meters, levels and registers are numbers, and the first of them exist. *)
LEMMA Numbers ==
  /\ Metid \subseteq Nat /\ Polled \subseteq Metid /\ Polled \subseteq Nat
  /\ Lev \subseteq Nat /\ Saved \subseteq Lev /\ Saved \subseteq Nat
  /\ \A l : AtLevel(l) \subseteq Metid /\ AtLevel(l) \subseteq Nat
  /\ Reg \subseteq Nat /\ 1 \in Reg /\ Phase \subseteq Reg /\ 1 \in Phase
  /\ Len(Item) \in Nat /\ 1 \in 1 .. Len(Item)
<1>1. Metid \subseteq Nat
  BY ParaAssumption DEF Metid
<1>2. Lev \subseteq Nat
  BY ELConstAssumption DEF Lev
<1>3. Reg \subseteq Nat /\ 1 \in Reg /\ Phase \subseteq Reg /\ 1 \in Phase
  BY ELConstAssumption DEF Reg, Phase
<1>4. Len(Item) \in Nat /\ 1 \in 1 .. Len(Item)
  BY ELConstAssumption
<1> QED
  BY <1>1, <1>2, <1>3, <1>4 DEF Polled, Saved, AtLevel

(* A call is a read of a polled meter or a write of a saved level. *)
LEMMA CallForms ==
  ASSUME NEW c \in Call
  PROVE  /\ c.at \in {"read", "write"} /\ c # Sleep /\ c # Proc
         /\ c.at = "read" => c = Read(c.m, c.r) /\ c.m \in Polled /\ c.r \in Reg
         /\ c.at = "write" => /\ c = Write(c.l, c.p, c.i) /\ c.l \in Saved /\ c.p \in Phase
                              /\ c.i \in 1 .. Len(Item)
<1>1. ASSUME NEW m \in Polled, NEW r \in Reg, c = Read(m, r)
      PROVE  c.at = "read" /\ c.m = m /\ c.r = r
  BY <1>1 DEF Read
<1>2. ASSUME NEW l \in Saved, NEW p \in Phase, NEW i \in 1 .. Len(Item), c = Write(l, p, i)
      PROVE  c.at = "write" /\ c.l = l /\ c.p = p /\ c.i = i
  BY <1>2 DEF Write
<1>3. \/ \E m \in Polled, r \in Reg : c = Read(m, r)
      \/ \E l \in Saved, p \in Phase, i \in 1 .. Len(Item) : c = Write(l, p, i)
  BY DEF Call
<1>4. Sleep.at = "sleep" /\ Proc.at = "proc"
  BY DEF Sleep, Proc
<1> QED
  BY <1>1, <1>2, <1>3, <1>4

(* A place that is a call is one, and asleep or computing the task makes none. *)
LEMMA PlaceForms ==
  ASSUME NEW c \in Places
  PROVE  /\ c.at \in {"read", "write"} => c \in Call
         /\ c # Sleep /\ c # Proc => c \in Call
<1>1. Sleep.at = "sleep" /\ Proc.at = "proc"
  BY DEF Sleep, Proc
<1> QED
  BY <1>1 DEF Places

(* Where the task goes from where it is. *)
LEMMA PlacesReached ==
  /\ \A S \in SUBSET Polled : ReadMeter(S) \in Places
  /\ \A m \in Polled, r \in Reg : AfterRead(m, r) \in Places
  /\ \A S \in SUBSET Saved : WriteLevel(S) \in Places
  /\ \A l \in Saved, p \in Phase, i \in 1 .. Len(Item) : AfterWrite(l, p, i) \in Places
<1>1. /\ \A m \in Polled, r \in Reg : Read(m, r) \in Places
      /\ \A l \in Saved, p \in Phase, i \in 1 .. Len(Item) : Write(l, p, i) \in Places
      /\ Sleep \in Places /\ Proc \in Places
  BY DEF Places, Call
<1>2. ASSUME NEW S \in SUBSET Polled PROVE ReadMeter(S) \in Places
  <2>1. S # {} => Min(S) \in S
    BY Numbers, MinOfNat
  <2> QED
    BY <1>1, <2>1, Numbers DEF ReadMeter
<1>3. ASSUME NEW m \in Polled, NEW r \in Reg PROVE AfterRead(m, r) \in Places
  <2>1. {n \in Polled : n > m} \in SUBSET Polled
    OBVIOUS
  <2>2. r < NReg => r + 1 \in Reg
    BY ELConstAssumption DEF Reg
  <2> QED
    BY <1>1, <1>2, <2>1, <2>2 DEF AfterRead
<1>4. ASSUME NEW S \in SUBSET Saved PROVE WriteLevel(S) \in Places
  <2>1. S # {} => Min(S) \in S
    BY Numbers, MinOfNat
  <2> QED
    BY <1>1, <2>1, Numbers DEF WriteLevel
<1>5. ASSUME NEW l \in Saved, NEW p \in Phase, NEW i \in 1 .. Len(Item)
      PROVE  AfterWrite(l, p, i) \in Places
  <2>1. {j \in Saved : j > l} \in SUBSET Saved
    OBVIOUS
  <2>2. /\ i < Len(Item) => i + 1 \in 1 .. Len(Item)
        /\ p < NPhase => p + 1 \in Phase
    BY ELConstAssumption, Numbers DEF Phase
  <2> QED
    BY <1>1, <1>4, <2>1, <2>2, Numbers DEF AfterWrite
<1> QED
  BY <1>2, <1>3, <1>4, <1>5

(* The fields of the statistics are those of a unit. *)
LEMMA ItemNames ==
  ASSUME NEW i \in 1 .. Len(Item)
  PROVE  Item[i] \in {"sup", "sal", "deliv", "dist", "ratio", "flag"}
  BY ELConstAssumption

(* A unit with one field taken from another is a unit. *)
LEMMA UnitUpdate ==
  ASSUME NEW x \in Stat, NEW u \in Stat, NEW f \in {"sup", "sal", "deliv", "dist", "ratio", "flag"}
  PROVE  /\ [x EXCEPT ![f] = u[f]] \in Stat
         /\ \A g \in {"sup", "sal", "deliv", "dist", "ratio", "flag"} :
              [x EXCEPT ![f] = u[f]][g] = IF g = f THEN u[f] ELSE x[g]
<1>1. [x EXCEPT ![f] = u[f]] \in Stat
  BY DEF Stat
<1>2. DOMAIN x = {"sup", "sal", "deliv", "dist", "ratio", "flag"}
  BY DEF Stat
<1>3. \A g \in {"sup", "sal", "deliv", "dist", "ratio", "flag"} :
        [x EXCEPT ![f] = u[f]][g] = IF g = f THEN u[f] ELSE x[g]
  BY <1>2
<1> QED
  BY <1>1, <1>3

(* The first meter of a saved level is a meter of that level. *)
LEMMA FirstMetAtLevel ==
  ASSUME NEW l \in Saved
  PROVE  FirstMet(l) \in Metid /\ para[FirstMet(l)].level = l
<1>1. AtLevel(l) # {} /\ AtLevel(l) \in SUBSET Nat
  BY Numbers DEF Saved
<1>2. FirstMet(l) \in AtLevel(l)
  BY <1>1, MinOfNat DEF FirstMet
<1> QED
  BY <1>2 DEF AtLevel

Boards == [Metid -> [Phase -> Stat]]

(* Serving a write stores the field it carries and nothing else. *)
LEMMA StoreOne ==
  ASSUME stored \in Boards, NEW c \in Call, c.at = "write", NEW u \in Stat, StoreUnit(c, u)
  PROVE  /\ stored' \in Boards
         /\ \A m \in Metid, p \in Phase, f \in {"sup", "sal", "deliv", "dist", "ratio", "flag"} :
              stored'[m][p][f] = IF m = FirstMet(c.l) /\ p = c.p /\ f = Item[c.i]
                                 THEN u[Item[c.i]] ELSE stored[m][p][f]
<1> DEFINE w == FirstMet(c.l)
           q == c.p
           n == Item[c.i]
           x == [stored[w][q] EXCEPT ![n] = u[n]]
<1>1. c.l \in Saved /\ q \in Phase /\ c.i \in 1 .. Len(Item)
  BY CallForms
<1>2. w \in Metid /\ n \in {"sup", "sal", "deliv", "dist", "ratio", "flag"}
  BY <1>1, FirstMetAtLevel, ItemNames
<1>3. stored' = [stored EXCEPT ![w][q] = x]
  BY DEF StoreUnit
<1>4. stored[w][q] \in Stat
  BY <1>1, <1>2 DEF Boards
<1> HIDE DEF w, q, n
<1>5. x \in Stat /\ \A f \in {"sup", "sal", "deliv", "dist", "ratio", "flag"} :
                      x[f] = IF f = n THEN u[n] ELSE stored[w][q][f]
  BY <1>2, <1>4, UnitUpdate
<1> HIDE DEF x
<1>6. /\ stored' \in Boards
      /\ \A m \in Metid, p \in Phase : stored'[m][p] = IF m = w /\ p = q THEN x ELSE stored[m][p]
  BY <1>1, <1>2, <1>3, <1>5 DEF Boards
<1> QED
  BY <1>5, <1>6 DEF w, q, n

(* The tables of the load are meters, and it does not change. *)
LEMMA ParaLoaded ==
  ASSUME file \in Files
  PROVE  meter_para_load(file).tab \in Meters
<1>1. IsFile(file)
  BY FilesAssumption
<1>2. meter_para_load(file) \in Loop
  BY <1>1, LoadTyped
<1> QED
  BY <1>2 DEF Loop

(* Nothing is in a table at the start, as in any state of its type. *)
LEMMA EmptyTables ==
  /\ Zero \in Table /\ NoReading \in Marks /\ NoItems \in Items
  /\ NoStats \in [Lev -> [Phase -> Stat]] /\ NothingStored \in Boards /\ NoStat \in Stat
  /\ Cleared \in Reading
<1>1. NoStat \in Stat
  BY DEF NoStat, Stat, Float
<1>2. Cleared \in Reading
  BY DEF Cleared, Reading, NotRead
<1> QED
  BY <1>1, <1>2 DEF Zero, Table, NoReading, Marks, NoItems, Items, NoStats, NothingStored, Boards

(* what an answer and a late call are made of *)
AnsSet == [of : {Sleep} \cup Call, item : Reading, own : BOOLEAN]
LateSet == [of : {Sleep} \cup Call, unit : Stat, old : BOOLEAN]

(* The applications start with every variable in its type. *)
LEMMA TypeInit == Init => TypeOK
<1> SUFFICES ASSUME Init PROVE TypeOK
  OBVIOUS
<1>1. file \in Files /\ para = meter_para_load(file).tab /\ para \in Meters
  BY ParaLoaded DEF Init
<1>2. /\ bak \in Table /\ burned \in Table /\ counted \in Table /\ first \in Marks
      /\ last \in Marks /\ reg \in Items /\ stat \in [Lev -> [Phase -> Stat]] /\ stored \in Boards
  BY EmptyTables DEF Init
<1>3. use \in [Lev -> [Reg -> Nat]]
  BY DEF Init
<1>4. meter \in Table
  BY ELConstAssumption DEF Init, Table
<1>5. at \in Places /\ ans \in AnsSet /\ late \in LateSet
  BY EmptyTables DEF Init, Places, AnsSet, LateSet, NoAns, NoLate
<1>6. nupset \in 0 .. MaxUpset /\ nreplace \in 0 .. nupset /\ acked = {}
  BY ELConstAssumption DEF Init
<1> QED
  BY <1>1, <1>2, <1>3, <1>4, <1>5, <1>6
  DEF TypeOK, Table, Marks, Items, Boards, Places, AnsSet, LateSet

(* The types, by the names used here. *)
LEMMA Typed ==
  ASSUME TypeOK
  PROVE  /\ file \in Files /\ para = meter_para_load(file).tab /\ para \in Meters
         /\ bak \in Table /\ burned \in Table /\ counted \in Table /\ meter \in Table
         /\ first \in Marks /\ last \in Marks /\ reg \in Items
         /\ use \in [Lev -> [Reg -> Nat]] /\ stat \in [Lev -> [Phase -> Stat]]
         /\ stored \in Boards /\ at \in Places /\ ans \in AnsSet /\ late \in LateSet
         /\ nupset \in 0 .. MaxUpset /\ nreplace \in 0 .. nupset
         /\ acked \in SUBSET (Saved \X Phase \X (1 .. Len(Item)))
  BY DEF TypeOK, Table, Marks, Items, Boards, Places, AnsSet, LateSet

(* The fields of an answer and of a late call. *)
LEMMA AnswerFields ==
  ASSUME TypeOK
  PROVE  /\ ans.of \in {Sleep} \cup Call /\ ans.item \in Reading /\ ans.own \in BOOLEAN
         /\ late.of \in {Sleep} \cup Call /\ late.unit \in Stat /\ late.old \in BOOLEAN
         /\ \A o \in {Sleep} \cup Call, t \in Reading, b \in BOOLEAN :
              [of |-> o, item |-> t, own |-> b] \in AnsSet
         /\ \A o \in {Sleep} \cup Call, u \in Stat, b \in BOOLEAN :
              [of |-> o, unit |-> u, old |-> b] \in LateSet
         /\ [ans EXCEPT !.own = FALSE] \in AnsSet /\ [late EXCEPT !.old = TRUE] \in LateSet
         /\ NoAns \in AnsSet /\ NoLate \in LateSet
<1>1. ans \in AnsSet /\ late \in LateSet
  BY Typed
<1>2. /\ \A o \in {Sleep} \cup Call, t \in Reading, b \in BOOLEAN :
           [of |-> o, item |-> t, own |-> b] \in AnsSet
      /\ \A o \in {Sleep} \cup Call, u \in Stat, b \in BOOLEAN :
           [of |-> o, unit |-> u, old |-> b] \in LateSet
  BY DEF AnsSet, LateSet
<1>3. NoAns \in AnsSet /\ NoLate \in LateSet
  BY <1>2, EmptyTables DEF NoAns, NoLate
<1>4. /\ ans.of \in {Sleep} \cup Call /\ ans.item \in Reading /\ ans.own \in BOOLEAN
      /\ late.of \in {Sleep} \cup Call /\ late.unit \in Stat /\ late.old \in BOOLEAN
  BY <1>1 DEF AnsSet, LateSet
<1>5. [ans EXCEPT !.own = FALSE] \in AnsSet /\ [late EXCEPT !.old = TRUE] \in LateSet
  BY <1>1 DEF AnsSet, LateSet
<1> QED
  BY <1>2, <1>3, <1>4, <1>5

(* The file and what was loaded of it never change. *)
LEMMA ParaKept ==
  ASSUME TypeOK, [Next]_vars
  PROVE  /\ file' = file /\ para' = para
         /\ Polled' = Polled /\ Saved' = Saved /\ Call' = Call /\ Places' = Places
         /\ AnsSet' = AnsSet /\ LateSet' = LateSet
         /\ \A l : AtLevel(l)' = AtLevel(l) /\ FirstMet(l)' = FirstMet(l)
<1>1. para = meter_para_load(file).tab
  BY Typed
<1>2. file' = file /\ para' = para
  <2>1. CASE Restart
    BY <1>1, <2>1 DEF Restart
  <2>2. CASE ~Restart
    BY <2>2 DEF Next, vars, Task, Consume, Refresh, Replace, Serve, ServeLate, RhRestart, Wake,
                ReadOk, ReadFail, el_statis_proc, el_statis_save
  <2> QED
    BY <2>1, <2>2
<1>3. Polled' = Polled /\ \A l : AtLevel(l)' = AtLevel(l)
  BY <1>2 DEF Polled, AtLevel
<1>4. Saved' = Saved /\ \A l : FirstMet(l)' = FirstMet(l)
  BY <1>3 DEF Saved, FirstMet
<1>5. Call' = Call
  BY <1>3, <1>4 DEF Call
<1> QED
  BY <1>2, <1>3, <1>4, <1>5 DEF Places, AnsSet, LateSet

(* With the file and the meters kept, the types are those of before. *)
LEMMA TypedNext ==
  ASSUME TypeOK, [Next]_vars,
         bak' \in Table, burned' \in Table, counted' \in Table, meter' \in Table,
         first' \in Marks, last' \in Marks, reg' \in Items,
         use' \in [Lev -> [Reg -> Nat]], stat' \in [Lev -> [Phase -> Stat]],
         stored' \in Boards, at' \in Places, ans' \in AnsSet, late' \in LateSet,
         nupset' \in 0 .. MaxUpset, nreplace' \in 0 .. nupset',
         acked' \in SUBSET (Saved \X Phase \X (1 .. Len(Item)))
  PROVE  TypeOK'
<1>1. /\ file' \in Files /\ para' = meter_para_load(file').tab /\ para' \in Meters
  BY Typed, ParaKept
<1>2. at' \in Places' /\ ans' \in AnsSet' /\ late' \in LateSet'
      /\ acked' \in SUBSET (Saved' \X Phase \X (1 .. Len(Item)))
  BY ParaKept
<1> QED
  BY <1>1, <1>2 DEF TypeOK, Table, Marks, Items, Boards, Places, AnsSet, LateSet

(* What is served is a reading, and storing it keeps the board. *)
LEMMA ServeTyped ==
  ASSUME TypeOK, NEW c \in Call, NEW u \in Stat, StoreUnit(c, u)
  PROVE  ItemOf(c) \in Reading /\ stored' \in Boards
<1>1. ItemOf(c) \in Reading
  <2>1. c.at = "read" => c.m \in Metid /\ c.r \in Reg
    BY CallForms, Numbers
  <2>2. reg \in Items /\ Cleared \in Reading
    BY Typed, EmptyTables
  <2> QED
    BY <2>1, <2>2 DEF ItemOf, Items
<1>2. stored' \in Boards
  <2>1. CASE c.at = "write"
    BY <2>1, StoreOne, Typed
  <2>2. CASE c.at # "write"
    BY <2>2, Typed DEF StoreUnit
  <2> QED
    BY <2>1, <2>2
<1> QED
  BY <1>1, <1>2

(* What the task leaves behind of a call is a call it makes. *)
LEMMA PendingTyped ==
  ASSUME TypeOK, NEW b \in BOOLEAN, Calling
  PROVE  /\ at \in Call /\ Pending(b) \in LateSet /\ Pending(b).unit \in Stat
         /\ Pending(b).of = at
         /\ at.at = "write" => Pending(b).unit = stat[at.l][at.p]
<1>1. at \in Call
  BY Typed, PlaceForms DEF Calling
<1>2. (IF at.at = "write" THEN stat[at.l][at.p] ELSE NoStat) \in Stat
  BY <1>1, CallForms, Typed, EmptyTables, Numbers
<1> QED
  BY <1>1, <1>2, AnswerFields DEF Pending

(* Forgetting an answer leaves an answer, or none. *)
LEMMA ForgetTyped ==
  ASSUME TypeOK, Forget
  PROVE  ans' \in AnsSet
  BY Typed, AnswerFields DEF Forget

(* A failed call is counted, and may be left behind. *)
LEMMA FailTyped ==
  ASSUME TypeOK, Fail, Calling
  PROVE  /\ ans' \in AnsSet /\ late' \in LateSet
         /\ nupset' \in 0 .. MaxUpset /\ nreplace \in 0 .. nupset'
<1>1. ans' \in AnsSet
  BY ForgetTyped DEF Fail
<1>2. late' \in LateSet
  BY Typed, PendingTyped DEF Fail
<1> QED
  BY <1>1, <1>2, Typed, ELConstAssumption DEF Fail, Upset

(* Energy is a number, but for what el_ene_get returns past the array. *)
LEMMA EneTyped ==
  ASSUME TypeOK, NEW l \in Lev, NEW p \in Phase, NEW beyond \in BeyondUse
  PROVE  /\ el_ene_get(l, p, beyond) = use[l][p] /\ use[l][p] \in Nat
         /\ l + 1 \in Lev => el_ene_get(l + 1, p, beyond) = use[l + 1][p] /\ use[l + 1][p] \in Nat
         /\ el_ene_get(l + 1, p, beyond) \in Float
<1>1. /\ l \in 0 .. (LevMax - 1) /\ LevMax \in Nat /\ beyond \in Float /\ p \in Reg
      /\ Nat \subseteq Float
  BY ELConstAssumption, Numbers DEF Lev, Float
<1>2. l + 1 < LevMax <=> l + 1 \in Lev
  BY <1>1 DEF Lev
<1> QED
  BY <1>1, <1>2, Typed DEF el_ene_get

(* A difference with something that is no number is none. *)
LEMMA MinusTyped ==
  ASSUME NEW a \in Nat, NEW x \in Float
  PROVE  /\ Minus(a, x) \in Float
         /\ x \in Int => Minus(a, x) = a - x
<1>1. a # NaN /\ NaN \notin Int
  BY ELConstAssumption
<1>2. CASE x = NaN
  BY <1>1, <1>2 DEF Minus, Float
<1>3. CASE x \in Int
  <2>1. Minus(a, x) = a - x
    BY <1>1, <1>3 DEF Minus
  <2> QED
    BY <1>3, <2>1 DEF Float
<1> QED
  BY <1>2, <1>3 DEF Float

(* what a turn of el_statis_proc that is not left early stores *)
Computed(x, a, d) == [x EXCEPT !.sup = a, !.sal = d, !.ratio = <<Minus(a, d), a>>]

(* A turn of el_statis_proc leaves the unit or computes it. *)
LEMMA LossCases ==
  ASSUME TypeOK, NEW l \in Lev, NEW p \in Phase, NEW beyond \in BeyondUse
  PROVE  \/ LossOf(l, p, beyond) = stat[l][p]
         \/ /\ use[l][p] # 0
            /\ LossOf(l, p, beyond) = Computed(stat[l][p], use[l][p], el_ene_get(l + 1, p, beyond))
<1>1. el_ene_get(l, p, beyond) = use[l][p]
  BY EneTyped
<1> QED
  BY <1>1 DEF LossOf, Computed

(* A unit that is computed has the fields of one. *)
LEMMA ComputedFields ==
  ASSUME NEW x \in Stat, NEW a \in Nat, NEW d \in Float
  PROVE  /\ Computed(x, a, d) \in Stat
         /\ Computed(x, a, d).sup = a /\ Computed(x, a, d).sal = d
         /\ Computed(x, a, d).ratio = <<Minus(a, d), a>>
<1>1. <<Minus(a, d), a>> \in Float \X Int
  BY MinusTyped
<1> QED
  BY <1>1 DEF Computed, Stat

(* The statistics of a level are units whatever lies behind the array. *)
LEMMA LossTyped ==
  ASSUME TypeOK, NEW l \in Lev, NEW p \in Phase, NEW beyond \in BeyondUse
  PROVE  LossOf(l, p, beyond) \in Stat
<1>1. stat[l][p] \in Stat
  BY Typed
<1>2. use[l][p] \in Nat /\ el_ene_get(l + 1, p, beyond) \in Float
  BY EneTyped
<1> QED
  BY <1>1, <1>2, LossCases, ComputedFields

(* Every step keeps the types. *)
LEMMA TypeStep == TypeOK /\ [Next]_vars => TypeOK'
<1> SUFFICES ASSUME TypeOK, [Next]_vars PROVE TypeOK'
  OBVIOUS
<1>0. /\ bak \in Table /\ burned \in Table /\ counted \in Table /\ meter \in Table
      /\ first \in Marks /\ last \in Marks /\ reg \in Items
      /\ use \in [Lev -> [Reg -> Nat]] /\ stat \in [Lev -> [Phase -> Stat]]
      /\ stored \in Boards /\ at \in Places /\ ans \in AnsSet /\ late \in LateSet
      /\ nupset \in 0 .. MaxUpset /\ nreplace \in 0 .. nupset /\ MaxUpset \in Nat
      /\ acked \in SUBSET (Saved \X Phase \X (1 .. Len(Item)))
  BY Typed, ELConstAssumption
<1>1. ASSUME NEW m \in Polled, NEW r \in Reg, Consume(m, r) PROVE TypeOK'
  <2>1. m \in Metid /\ meter[m][r] + 1 \in Nat /\ burned[m][r] + 1 \in Nat
    BY <1>0, Numbers DEF Table
  <2>2. meter' \in Table /\ burned' \in Table
    BY <1>0, <1>1, <2>1, InsideTable DEF Consume, Table
  <2> QED
    BY <1>0, <1>1, <2>2, TypedNext DEF Consume, elVars, memVars, histVars
<1>2. ASSUME NEW m \in Polled, NEW r \in Reg, Refresh(m, r) PROVE TypeOK'
  <2>1. m \in Metid /\ [v |-> meter[m][r], b |-> burned[m][r]] \in Reading
    BY <1>0, Numbers DEF Table, Reading
  <2>2. reg' \in Items
    BY <1>0, <1>2, <2>1, InsideTable DEF Refresh, Items
  <2> QED
    BY <1>0, <1>2, <2>2, TypedNext DEF Refresh, elVars, histVars
<1>3. ASSUME NEW m \in Polled, Replace(m) PROVE TypeOK'
  <2>1. meter' \in Table
    BY <1>0, <1>3, Numbers DEF Replace, Table
  <2>2. nupset' \in 0 .. MaxUpset /\ nreplace' \in 0 .. nupset'
    BY <1>0, <1>3 DEF Replace, Upset
  <2> QED
    BY <1>0, <1>3, <2>1, <2>2, TypedNext DEF Replace, elVars, memVars, histVars
<1>4. CASE Serve
  <2>1. at \in Call /\ Pending(FALSE).unit \in Stat
    BY <1>4, PendingTyped DEF Serve
  <2>2. ans' = [of |-> at, item |-> ItemOf(at), own |-> TRUE] /\ late' = NoLate
    BY <1>4 DEF Serve
  <2>3. ItemOf(at) \in Reading /\ stored' \in Boards
    BY <1>4, <2>1, ServeTyped DEF Serve
  <2>4. ans' \in AnsSet /\ late' \in LateSet
    BY <2>1, <2>2, <2>3, AnswerFields
  <2> QED
    BY <1>0, <1>4, <2>3, <2>4, TypedNext DEF Serve, elVars, histVars
<1>5. CASE ServeLate
  <2>1. late.of \in Call /\ late.unit \in Stat
    BY <1>5, AnswerFields DEF ServeLate
  <2>2. ItemOf(late.of) \in Reading /\ stored' \in Boards
    BY <1>5, <2>1, ServeTyped DEF ServeLate
  <2>3. ans' \in AnsSet /\ late' \in LateSet
    BY <1>0, <1>5, <2>1, <2>2, AnswerFields DEF ServeLate
  <2> QED
    BY <1>0, <1>5, <2>2, <2>3, TypedNext DEF ServeLate, elVars, histVars
<1>6. CASE RhRestart
  <2>1. ans' \in AnsSet /\ late' \in LateSet /\ reg' \in Items /\ stored' \in Boards
    BY <1>6, AnswerFields, EmptyTables DEF RhRestart
  <2>2. nupset' \in 0 .. MaxUpset /\ nreplace' \in 0 .. nupset'
    BY <1>0, <1>6 DEF RhRestart, Upset
  <2> QED
    BY <1>0, <1>6, <2>1, <2>2, TypedNext DEF RhRestart, elVars, histVars
<1>7. CASE Wake
  <2>1. at' \in Places
    BY <1>7, PlacesReached DEF Wake
  <2> QED
    BY <1>0, <1>7, <2>1, TypedNext DEF Wake, elVars, memVars, histVars
<1>8. CASE ReadOk
  <2> DEFINE m == at.m
             r == at.r
             t == ans.item
             u == meter_ene_update(t.v, bak[m][r])
             l == para[m].level
  <2>1. at \in Call /\ at.at = "read"
    BY <1>0, <1>8, PlaceForms DEF ReadOk
  <2>2. m \in Polled /\ m \in Metid /\ r \in Reg
    BY <2>1, CallForms, Numbers
  <2>3. l \in Lev
    <3>1. para[m].level \in Nat /\ para[m].level < LevMax /\ LevMax \in Nat
      BY <2>2, Typed, ELConstAssumption DEF Polled, Meters
    <3> QED
      BY <3>1 DEF Lev
  <2>4. t \in Reading /\ t.v \in Nat /\ t.b \in Nat \cup {NotRead} /\ bak[m][r] \in Nat
    BY <1>0, <2>2, AnswerFields DEF Reading, Table
  <2>5. u.used \in Nat /\ u.bak \in Nat
    BY <2>4, UpdateIsDifference
  <2>6. /\ counted[m][r] + u.used \in Nat /\ use[l][r] + u.used \in Nat
    <3>1. counted[m][r] \in Nat /\ use[l][r] \in Nat
      BY <1>0, <2>2, <2>3 DEF Table
    <3> QED
      BY <2>5, <3>1
  <2>7. /\ (IF first[m][r] = NotRead /\ t.v # 0 THEN t.b ELSE first[m][r]) \in Nat \cup {NotRead}
        /\ (IF t.v # 0 THEN t.b ELSE last[m][r]) \in Nat \cup {NotRead}
    BY <1>0, <2>2, <2>4 DEF Marks
  <2>8. /\ bak' = [bak EXCEPT ![m][r] = u.bak]
        /\ use' = [use EXCEPT ![l][r] = use[l][r] + u.used]
        /\ counted' = [counted EXCEPT ![m][r] = counted[m][r] + u.used]
        /\ first' = [first EXCEPT ![m][r] =
                       IF first[m][r] = NotRead /\ t.v # 0 THEN t.b ELSE first[m][r]]
        /\ last' = [last EXCEPT ![m][r] = IF t.v # 0 THEN t.b ELSE last[m][r]]
        /\ at' = AfterRead(m, r) /\ Forget
    BY <1>8 DEF ReadOk
  <2>9. at' \in Places /\ ans' \in AnsSet
    BY <2>2, <2>8, PlacesReached, ForgetTyped
  <2> HIDE DEF m, r, t, u, l
  <2>10. bak' \in Table /\ counted' \in Table /\ first' \in Marks /\ last' \in Marks
    BY <1>0, <2>2, <2>5, <2>6, <2>7, <2>8, InsideTable DEF Table, Marks
  <2>11. use' \in [Lev -> [Reg -> Nat]]
    BY <1>0, <2>2, <2>3, <2>6, <2>8
  <2> QED
    BY <1>0, <1>8, <2>9, <2>10, <2>11, TypedNext DEF ReadOk, memVars
<1>9. CASE ReadFail
  <2>1. at \in Call /\ at.at = "read" /\ Calling
    BY <1>0, <1>9, PlaceForms DEF ReadFail, Calling
  <2>2. at' \in Places
    BY <1>9, <2>1, CallForms, PlacesReached DEF ReadFail
  <2>3. /\ ans' \in AnsSet /\ late' \in LateSet
        /\ nupset' \in 0 .. MaxUpset /\ nreplace \in 0 .. nupset'
    BY <1>9, <2>1, FailTyped DEF ReadFail
  <2> QED
    BY <1>0, <1>9, <2>2, <2>3, TypedNext DEF ReadFail, elVars, memVars, histVars
<1>10. CASE el_statis_proc
  <2>1. at' \in Places
    BY <1>10, PlacesReached DEF el_statis_proc
  <2>2. PICK beyond \in [Phase -> BeyondUse] :
             stat' = [l \in Lev |-> [p \in Phase |-> LossOf(l, p, beyond[p])]]
    BY <1>10 DEF el_statis_proc
  <2>3. stat' \in [Lev -> [Phase -> Stat]]
    BY <2>2, LossTyped
  <2> QED
    BY <1>0, <1>10, <2>1, <2>3, TypedNext DEF el_statis_proc, memVars, histVars
<1>11. CASE el_statis_save
  <2>1. at \in Call /\ at.at = "write" /\ Calling
    BY <1>0, <1>11, PlaceForms DEF el_statis_save, Calling
  <2>2. at.l \in Saved /\ at.p \in Phase /\ at.i \in 1 .. Len(Item)
    BY <2>1, CallForms
  <2>3. at' \in Places
    BY <1>11, <2>2, PlacesReached DEF el_statis_save, NextItem
  <2>4. acked' \in SUBSET (Saved \X Phase \X (1 .. Len(Item)))
    BY <1>0, <1>11, <2>2 DEF el_statis_save
  <2>5. /\ ans' \in AnsSet /\ late' \in LateSet
        /\ nupset' \in 0 .. MaxUpset /\ nreplace \in 0 .. nupset'
    BY <1>0, <1>11, <2>1, FailTyped, ForgetTyped DEF el_statis_save
  <2> QED
    BY <1>0, <1>11, <2>3, <2>4, <2>5, TypedNext DEF el_statis_save, elVars, memVars, histVars
<1>12. CASE Restart
  <2>1. ans' \in AnsSet /\ late' \in LateSet
    BY <1>12, AnswerFields, PendingTyped DEF Restart, Orphan
  <2>2. nupset' \in 0 .. MaxUpset /\ nreplace' \in 0 .. nupset'
    BY <1>0, <1>12 DEF Restart, Upset
  <2>3. /\ bak' \in Table /\ counted' \in Table /\ first' \in Marks /\ last' \in Marks
        /\ stat' \in [Lev -> [Phase -> Stat]] /\ use' \in [Lev -> [Reg -> Nat]]
        /\ at' \in Places /\ acked' = {}
    BY <1>12, EmptyTables DEF Restart, Places
  <2> QED
    BY <1>0, <1>12, <2>1, <2>2, <2>3, TypedNext DEF Restart, memVars
<1>13. CASE UNCHANGED vars
  BY <1>0, <1>13, TypedNext DEF vars, elVars, memVars, histVars
<1> QED
  BY <1>1, <1>2, <1>3, <1>4, <1>5, <1>6, <1>7, <1>8, <1>9, <1>10, <1>11, <1>12, <1>13
  DEF Next, Task

(* For every file, any number of meters, failures and restarts, every       *)
(* variable of the line-loss task and of rhApp has its type: every place of *)
(* elTaskProc is a register of a polled meter or an item of a saved level.  *)
THEOREM EnergyTypes == Spec => []TypeOK
  BY TypeInit, TypeStep, PTL DEF Spec

(* A register whose account, memory and answer stay is as exact as it was. *)
LEMMA SameExact ==
  ASSUME NEW m \in Metid, NEW r \in Reg, ExactAt(m, r),
         bak'[m][r] = bak[m][r], counted'[m][r] = counted[m][r],
         first'[m][r] = first[m][r], last'[m][r] = last[m][r],
         reg'[m][r] = reg[m][r], meter'[m][r] = meter[m][r], burned'[m][r] = burned[m][r],
         ans'.of = Read(m, r) => ans'.of = ans.of /\ ans'.item = ans.item
  PROVE  ExactAt(m, r)'
  BY DEF ExactAt, InStep, Filled

(* The numbers of a register. *)
LEMMA RegisterNumbers ==
  ASSUME TypeOK, NEW m \in Metid, NEW r \in Reg
  PROVE  /\ bak[m][r] \in Nat /\ burned[m][r] \in Nat /\ counted[m][r] \in Nat
         /\ meter[m][r] \in Nat /\ first[m][r] \in Int /\ last[m][r] \in Int
         /\ reg[m][r].v \in Nat /\ reg[m][r].b \in Int
         /\ ans.item.v \in Nat /\ ans.item.b \in Int
<1>1. /\ bak \in Table /\ burned \in Table /\ counted \in Table /\ meter \in Table
      /\ first \in Marks /\ last \in Marks /\ reg \in Items
  BY Typed
<1>2. reg[m][r] \in Reading /\ ans.item \in Reading
  BY <1>1, AnswerFields DEF Items
<1> QED
  BY <1>1, <1>2 DEF Table, Marks, Reading, NotRead

(* A reading taken moves the account of its register on by exactly what the *)
(* meter has used since the last one.                                       *)
LEMMA ReadExact ==
  ASSUME TypeOK, ChargeInv, ReadOk, NEW n \in Metid, NEW q \in Reg, ExactAt(n, q)
  PROVE  ExactAt(n, q)'
<1> DEFINE m == at.m
           r == at.r
           t == ans.item
           u == meter_ene_update(t.v, bak[m][r])
           k == counted[m][r] + u.used
           f == IF first[m][r] = NotRead /\ t.v # 0 THEN t.b ELSE first[m][r]
           l == IF t.v # 0 THEN t.b ELSE last[m][r]
<1>t. bak \in Table /\ counted \in Table /\ first \in Marks /\ last \in Marks
  BY Typed
<1>1. at \in Call /\ at.at = "read" /\ m \in Metid /\ r \in Reg /\ at = Read(m, r)
  BY Typed, PlaceForms, CallForms, Numbers DEF ReadOk
<1>2. /\ bak' = [bak EXCEPT ![m][r] = u.bak]
      /\ counted' = [counted EXCEPT ![m][r] = k]
      /\ first' = [first EXCEPT ![m][r] = f]
      /\ last' = [last EXCEPT ![m][r] = l]
      /\ reg' = reg /\ meter' = meter /\ burned' = burned /\ Forget /\ ans.of = at
  BY DEF ReadOk, memVars
<1>3. ans'.of # Read(m, r) /\ (ans'.of = Read(n, q) => ans' = ans)
  BY <1>1, <1>2 DEF Forget, NoAns, Sleep, Read
<1>4. CASE n = m /\ q = r
  <2>1. /\ bak[m][r] \in Nat /\ burned[m][r] \in Nat /\ counted[m][r] \in Nat
        /\ meter[m][r] \in Nat /\ first[m][r] \in Int /\ last[m][r] \in Int
        /\ reg[m][r].v \in Nat /\ reg[m][r].b \in Int /\ t.v \in Nat /\ t.b \in Int
    BY <1>1, RegisterNumbers
  <2>2. /\ u.used \in Nat /\ u.bak \in Nat
        /\ bak[m][r] = 0 => u.used = 0 /\ u.bak = t.v
        /\ bak[m][r] # 0 /\ t.v < bak[m][r] => u.used = 0 /\ u.bak = bak[m][r]
        /\ bak[m][r] # 0 /\ t.v >= bak[m][r] => u.used = t.v - bak[m][r] /\ u.bak = t.v
    BY <2>1, UpdateIsDifference
  <2>3. /\ bak'[m][r] = u.bak /\ counted'[m][r] = k /\ first'[m][r] = f /\ last'[m][r] = l
        /\ reg'[m][r] = reg[m][r] /\ meter'[m][r] = meter[m][r] /\ burned'[m][r] = burned[m][r]
    BY <1>1, <1>2, <1>t DEF Table, Marks
  <2>4. /\ bak[m][r] = 0 <=> first[m][r] = NotRead
        /\ first[m][r] = NotRead => counted[m][r] = 0
    BY <1>1 DEF ChargeInv, ChargeAt, AccountAt
  <2>5. t.v # 0 => Filled(t) /\ last[m][r] <= t.b
    BY <1>1, <1>2 DEF ChargeInv, ChargeAt, AnswerAt, Before
  <2>6. t.v # 0 => t.v + burned[m][r] = meter[m][r] + t.b
    BY <1>1, <1>2, <1>4, <2>5 DEF ExactAt, InStep
  <2>7. bak[m][r] # 0 => /\ bak[m][r] + burned[m][r] = meter[m][r] + last[m][r]
                         /\ counted[m][r] + first[m][r] = last[m][r]
    BY <1>4 DEF ExactAt, InStep
  <2>8. t.b = NotRead => t.v = 0
    BY <2>5 DEF Filled
  <2> HIDE DEF u, m, r, t
  <2>9. u.bak # 0 => u.bak + burned[m][r] = meter[m][r] + l /\ k + f = l
    <3>1. CASE t.v = 0
      BY <3>1, <2>1, <2>2, <2>7
    <3>2. CASE t.v # 0 /\ bak[m][r] = 0
      BY <3>2, <2>1, <2>2, <2>4, <2>6
    <3>3. CASE t.v # 0 /\ bak[m][r] # 0
      <4>1. t.v >= bak[m][r]
        BY <3>3, <2>1, <2>5, <2>6, <2>7
      <4>2. u.used = t.v - bak[m][r] /\ u.bak = t.v /\ f = first[m][r] /\ l = t.b
        BY <3>3, <4>1, <2>2, <2>4
      <4> QED
        BY <3>3, <4>1, <4>2, <2>1, <2>6, <2>7
    <3> QED
      BY <3>1, <3>2, <3>3
  <2> HIDE DEF k, f, l
  <2>10. Filled(reg[m][r]) => InStep(m, r, reg[m][r].v, reg[m][r].b)
    BY <1>4 DEF ExactAt
  <2> QED
    BY <1>3, <1>4, <2>3, <2>9, <2>10 DEF ExactAt, InStep, Filled
<1>5. CASE ~(n = m /\ q = r)
  <2> HIDE DEF m, r, u, k, f, l
  <2>1. /\ bak'[n][q] = bak[n][q] /\ counted'[n][q] = counted[n][q]
        /\ first'[n][q] = first[n][q] /\ last'[n][q] = last[n][q]
    BY <1>1, <1>2, <1>5, <1>t DEF Table, Marks
  <2> QED
    BY <1>2, <1>3, <2>1, SameExact
<1> QED
  BY <1>4, <1>5

(* Every step keeps the accounts exact, as long as no meter is replaced. *)
LEMMA ExactStep == TypeOK /\ ChargeInv /\ ExactInv /\ [Next]_vars => ExactInv'
<1> SUFFICES ASSUME TypeOK, ChargeInv, ExactInv, [Next]_vars, nreplace' = 0,
                    NEW n \in Metid, NEW q \in Reg
             PROVE  ExactAt(n, q)'
  BY DEF ExactInv
<1>n. nreplace \in Nat
  BY Typed, ELConstAssumption
<1>e. ASSUME nreplace = 0 PROVE ExactAt(n, q)
  BY <1>e DEF ExactInv
<1>a. ASSUME NEW m \in Metid, NEW r \in Reg
      PROVE  NoAns.of # Read(m, r) /\ NoItems[m][r] = Cleared /\ ~Filled(Cleared)
             /\ Zero[m][r] = 0
  BY DEF NoAns, Sleep, Read, NoItems, Filled, Cleared, Zero
<1>1. ASSUME NEW m \in Polled, NEW r \in Reg, Consume(m, r) PROVE ExactAt(n, q)'
  <2>1. /\ bak' = bak /\ counted' = counted /\ first' = first /\ last' = last
        /\ reg' = reg /\ ans' = ans /\ nreplace' = nreplace
        /\ meter' = [meter EXCEPT ![m][r] = meter[m][r] + 1]
        /\ burned' = [burned EXCEPT ![m][r] = burned[m][r] + 1]
    BY <1>1 DEF Consume, elVars, memVars, histVars
  <2>2. m \in Metid /\ meter \in Table /\ burned \in Table /\ ExactAt(n, q)
    BY <1>e, <2>1, Typed, Numbers
  <2>3. CASE n = m /\ q = r
    <3>1. meter'[n][q] = meter[n][q] + 1 /\ burned'[n][q] = burned[n][q] + 1
      BY <2>1, <2>2, <2>3 DEF Table
    <3>2. /\ bak[n][q] \in Nat /\ burned[n][q] \in Nat /\ meter[n][q] \in Nat /\ last[n][q] \in Int
          /\ reg[n][q].v \in Nat /\ reg[n][q].b \in Int
          /\ ans.item.v \in Nat /\ ans.item.b \in Int
      BY RegisterNumbers
    <3> QED
      BY <2>1, <2>2, <3>1, <3>2 DEF ExactAt, InStep, Filled
  <2>4. CASE ~(n = m /\ q = r)
    <3>1. meter'[n][q] = meter[n][q] /\ burned'[n][q] = burned[n][q]
      BY <2>1, <2>2, <2>4 DEF Table
    <3> QED
      BY <2>1, <2>2, <3>1, SameExact
  <2> QED
    BY <2>3, <2>4
<1>2. ASSUME NEW m \in Polled, NEW r \in Reg, Refresh(m, r) PROVE ExactAt(n, q)'
  <2>1. /\ bak' = bak /\ counted' = counted /\ first' = first /\ last' = last
        /\ meter' = meter /\ burned' = burned /\ ans' = ans /\ nreplace' = nreplace
        /\ reg' = [reg EXCEPT ![m][r] = [v |-> meter[m][r], b |-> burned[m][r]]]
    BY <1>2 DEF Refresh, elVars, histVars
  <2>2. m \in Metid /\ reg \in Items /\ ExactAt(n, q)
    BY <1>e, <2>1, Typed, Numbers
  <2>3. CASE n = m /\ q = r
    <3>1. reg'[n][q].v = meter[n][q] /\ reg'[n][q].b = burned[n][q]
      BY <2>1, <2>2, <2>3 DEF Items
    <3>2. burned[n][q] \in Nat /\ meter[n][q] \in Nat
      BY RegisterNumbers
    <3> QED
      BY <2>1, <2>2, <3>1, <3>2 DEF ExactAt, InStep, Filled
  <2>4. CASE ~(n = m /\ q = r)
    <3>1. reg'[n][q] = reg[n][q]
      BY <2>1, <2>2, <2>4 DEF Items
    <3> QED
      BY <2>1, <2>2, <3>1, SameExact
  <2> QED
    BY <2>3, <2>4
<1>3. ASSUME NEW m \in Polled, Replace(m) PROVE ExactAt(n, q)'
  BY <1>3, <1>n DEF Replace
<1>4. ASSUME NEW c \in Call, NEW b, nreplace' = nreplace,
             ans' = ans \/ ans' = [of |-> c, item |-> ItemOf(c), own |-> b],
             UNCHANGED <<bak, counted, first, last, meter, burned, reg>>
      PROVE  ExactAt(n, q)'
  <2>1. ExactAt(n, q)
    BY <1>e, <1>4
  <2>2. CASE ans' = ans
    BY <1>4, <2>1, <2>2, SameExact
  <2>3. CASE ans' = [of |-> c, item |-> ItemOf(c), own |-> b]
    <3>1. c = Read(n, q) => ItemOf(c) = reg[n][q]
      BY DEF Read, ItemOf
    <3>2. ans'.of = Read(n, q) => ans'.item = reg[n][q]
      BY <2>3, <3>1
    <3> QED
      BY <1>4, <2>1, <3>2 DEF ExactAt, InStep, Filled
  <2> QED
    BY <1>4, <2>2, <2>3
<1>5. CASE Serve
  BY <1>4, <1>5, PendingTyped DEF Serve, elVars, histVars
<1>6. CASE ServeLate
  <2>1. late.of \in Call
    BY <1>6, AnswerFields DEF ServeLate
  <2> QED
    BY <1>4, <1>6, <2>1 DEF ServeLate, elVars, histVars
<1>7. CASE RhRestart
  <2>1. /\ UNCHANGED <<bak, counted, first, last, meter, burned, nreplace>>
        /\ reg' = NoItems /\ ans' = [ans EXCEPT !.own = FALSE] /\ ans \in AnsSet
    BY <1>7, Typed DEF RhRestart, elVars, histVars
  <2>2. ans'.of = ans.of /\ ans'.item = ans.item
    BY <2>1 DEF AnsSet
  <2>3. ~Filled(reg'[n][q])
    BY <2>1, <1>a
  <2> QED
    BY <1>e, <2>1, <2>2, <2>3 DEF ExactAt, InStep
<1>8. CASE ReadOk
  BY <1>8, <1>e, ReadExact DEF ReadOk
<1>9. ASSUME UNCHANGED <<bak, counted, first, last, meter, burned, reg, nreplace>>,
             Forget \/ ans' = ans
      PROVE  ExactAt(n, q)'
  <2>1. ans'.of = Read(n, q) => ans' = ans
    BY <1>9, <1>a DEF Forget
  <2> QED
    BY <1>9, <1>e, <2>1, SameExact
<1>10. CASE Wake
  BY <1>9, <1>10 DEF Wake, elVars, memVars, histVars
<1>11. CASE ReadFail
  BY <1>9, <1>11 DEF ReadFail, Fail, elVars, memVars, histVars
<1>12. CASE el_statis_proc
  BY <1>9, <1>12 DEF el_statis_proc, memVars, histVars
<1>13. CASE el_statis_save
  BY <1>9, <1>13 DEF el_statis_save, Fail, elVars, memVars, histVars
<1>14. CASE Restart
  <2>1. /\ UNCHANGED <<reg, meter, burned, nreplace>> /\ bak' = Zero
        /\ ans' = [ans EXCEPT !.own = FALSE] /\ ans \in AnsSet
    BY <1>14, Typed DEF Restart, Orphan, memVars
  <2>2. ans'.of = ans.of /\ ans'.item = ans.item /\ bak'[n][q] = 0
    BY <2>1, <1>a DEF AnsSet
  <2> QED
    BY <1>e, <2>1, <2>2 DEF ExactAt, InStep, Filled
<1>15. CASE UNCHANGED vars
  BY <1>9, <1>15 DEF vars, elVars, memVars, histVars
<1> QED
  BY <1>1, <1>2, <1>3, <1>5, <1>6, <1>7, <1>8, <1>10, <1>11, <1>12, <1>13, <1>14, <1>15
  DEF Next, Task

(* No register has been read at the start. *)
LEMMA ExactInit == Init => ExactInv
<1> SUFFICES ASSUME Init, NEW m \in Metid, NEW r \in Reg PROVE ExactAt(m, r)
  BY DEF ExactInv
<1>1. bak[m][r] = 0 /\ reg[m][r] = Cleared /\ ans = NoAns
  BY DEF Init, Zero, NoItems
<1> QED
  BY <1>1 DEF ExactAt, Filled, Cleared, NoAns, Sleep, Read

(* A meter that is not replaced is charged, at each reading, for all it has *)
(* used since its first reading above 0.00: nothing is lost by failed       *)
(* readings, a cleared memory or an answer that comes late.                 *)
THEOREM AllIsCharged == Spec => []NothingLost
<1>1. Init => ExactInv
  BY ExactInit
<1>2. TypeOK /\ ChargeInv /\ ExactInv => NothingLost
  <2> SUFFICES ASSUME TypeOK, ChargeInv, ExactInv, nreplace = 0, NEW m \in Metid, NEW r \in Reg
               PROVE  counted[m][r] = last[m][r] - first[m][r]
    BY DEF NothingLost
  <2>1. counted[m][r] \in Nat /\ first[m][r] \in Int /\ last[m][r] \in Int
    BY RegisterNumbers
  <2>2. bak[m][r] # 0 => counted[m][r] + first[m][r] = last[m][r]
    BY DEF ExactInv, ExactAt
  <2>3. bak[m][r] = 0 => counted[m][r] = 0 /\ last[m][r] = first[m][r]
    BY DEF ChargeInv, ChargeAt, AccountAt
  <2> QED
    BY <2>1, <2>2, <2>3
<1> QED
  BY <1>1, <1>2, ExactStep, EnergyTypes, ChargeInvariant, PTL DEF Spec

(* What rhApp shows of a level stays as it is while neither side changes it. *)
LEMMA ShownKept ==
  ASSUME TypeOK, [Next]_vars, stored' = stored, stat' = stat, NEW l, NEW p, NEW i
  PROVE  Shown(l, p, i)' = Shown(l, p, i)
  BY ParaKept DEF Shown

(* A write that carries what elAPP has now puts its item on show, and takes *)
(* none off: two levels have no first meter in common.                      *)
LEMMA StoreShows ==
  ASSUME TypeOK, [Next]_vars, NEW c \in Call, c.at = "write", NEW u, u = stat[c.l][c.p],
         StoreUnit(c, u), stat' = stat
  PROVE  /\ Shown(c.l, c.p, c.i)'
         /\ \A l \in Saved, p \in Phase, i \in 1 .. Len(Item) :
              Shown(l, p, i) => Shown(l, p, i)'
<1>1. c.l \in Saved /\ c.p \in Phase /\ c.i \in 1 .. Len(Item)
  BY CallForms
<1>2. u \in Stat /\ stored \in Boards
  BY <1>1, Typed, Numbers
<1>3. \A m \in Metid, p \in Phase, f \in {"sup", "sal", "deliv", "dist", "ratio", "flag"} :
        stored'[m][p][f] = IF m = FirstMet(c.l) /\ p = c.p /\ f = Item[c.i]
                           THEN u[Item[c.i]] ELSE stored[m][p][f]
  BY <1>2, StoreOne
<1>4. ASSUME NEW l \in Saved, NEW p \in Phase, NEW i \in 1 .. Len(Item),
             Shown(l, p, i) \/ (l = c.l /\ p = c.p /\ i = c.i)
      PROVE  Shown(l, p, i)'
  <2>1. /\ FirstMet(l) \in Metid /\ para[FirstMet(l)].level = l
        /\ para[FirstMet(c.l)].level = c.l
    BY <1>1, FirstMetAtLevel
  <2>2. Item[i] \in {"sup", "sal", "deliv", "dist", "ratio", "flag"}
    BY ItemNames
  <2>3. stored'[FirstMet(l)][p][Item[i]] =
          IF FirstMet(l) = FirstMet(c.l) /\ p = c.p /\ Item[i] = Item[c.i]
          THEN u[Item[c.i]] ELSE stored[FirstMet(l)][p][Item[i]]
    BY <1>3, <2>1, <2>2
  <2>4. FirstMet(l) = FirstMet(c.l) => l = c.l
    BY <2>1
  <2>5. stored'[FirstMet(l)][p][Item[i]] = stat[l][p][Item[i]]
    <3>1. CASE FirstMet(l) = FirstMet(c.l) /\ p = c.p /\ Item[i] = Item[c.i]
      BY <2>3, <2>4, <3>1
    <3>2. CASE ~(FirstMet(l) = FirstMet(c.l) /\ p = c.p /\ Item[i] = Item[c.i])
      <4>1. Shown(l, p, i)
        BY <1>4, <3>2
      <4> QED
        BY <2>3, <3>2, <4>1 DEF Shown
    <3> QED
      BY <3>1, <3>2
  <2> QED
    BY <2>5, ParaKept DEF Shown
<1> QED
  BY <1>1, <1>4

(* The item behind a confirmation. *)
LEMMA AckedForm ==
  ASSUME TypeOK, NEW c \in acked
  PROVE  c[1] \in Saved /\ c[2] \in Phase /\ c[3] \in 1 .. Len(Item)
  BY Typed

(* While no answer of this elAPP is out, only what was confirmed counts. *)
LEMMA NoneOwned ==
  ASSUME TypeOK, [Next]_vars, ~ans'.own,
         acked' # {} => (late'.of.at = "write" => late'.unit = stat'[late'.of.l][late'.of.p]),
         \A c \in acked' : Shown(c[1], c[2], c[3])'
  PROVE  ConfirmInv'
  BY DEF ConfirmInv, ServedWrite, ConfirmedIsStored

(* An answer is taken, or given up, with the call it belongs to. *)
LEMMA ForgetOwned ==
  ASSUME TypeOK, ConfirmInv, Forget
  PROVE  ~ans'.own
  BY DEF ConfirmInv, Forget, NoAns

(* Every step keeps what rhApp confirmed on show. *)
LEMMA ConfirmStep == TypeOK /\ ConfirmInv /\ [Next]_vars => ConfirmInv'
<1> SUFFICES ASSUME TypeOK, ConfirmInv, [Next]_vars PROVE ConfirmInv'
  OBVIOUS
<1>a. /\ ans.own => Calling /\ ans.of = at
      /\ ServedWrite => Shown(at.l, at.p, at.i)
      /\ acked # {} \/ ServedWrite =>
           (late.of.at = "write" => late.unit = stat[late.of.l][late.of.p])
      /\ \A c \in acked : Shown(c[1], c[2], c[3])
  BY DEF ConfirmInv, ConfirmedIsStored
<1>b. NoLate.of.at # "write" /\ Sleep.at = "sleep" /\ Proc.at = "proc"
  BY DEF NoLate, Sleep, Proc
<1>c. ASSUME stored' = stored, stat' = stat
      PROVE  \A c \in acked : Shown(c[1], c[2], c[3])'
  BY <1>a, <1>c, ShownKept
<1>1. ASSUME UNCHANGED <<stored, stat, at, ans, late, acked>> PROVE ConfirmInv'
  <2>1. \A l, p, i : Shown(l, p, i)' = Shown(l, p, i)
    BY <1>1, ShownKept
  <2>2. /\ Calling' = Calling /\ ServedWrite' = ServedWrite
    BY <1>1 DEF Calling, ServedWrite
  <2> QED
    BY <1>1, <1>a, <2>1, <2>2 DEF ConfirmInv, ConfirmedIsStored
<1>2. CASE \E m \in Polled, r \in Reg : Consume(m, r) \/ Refresh(m, r)
  BY <1>1, <1>2 DEF Consume, Refresh, elVars, memVars
<1>3. CASE \E m \in Polled : Replace(m)
  BY <1>1, <1>3 DEF Replace, elVars, memVars
<1>4. CASE Serve
  <2>1. /\ at' = at /\ stat' = stat /\ late' = NoLate /\ acked' = acked
        /\ ans' = [of |-> at, item |-> ItemOf(at), own |-> TRUE]
        /\ Calling /\ StoreUnit(at, Pending(FALSE).unit)
    BY <1>4 DEF Serve, elVars
  <2>2. at \in Call /\ (at.at = "write" => Pending(FALSE).unit = stat[at.l][at.p])
    BY <2>1, PendingTyped
  <2>3. at.at = "write" => Shown(at.l, at.p, at.i)'
    BY <2>1, <2>2, StoreShows
  <2>4. \A c \in acked : Shown(c[1], c[2], c[3])'
    <3>1. CASE at.at = "write"
      BY <1>a, <2>1, <2>2, <3>1, StoreShows, AckedForm
    <3>2. CASE at.at # "write"
      BY <1>c, <2>1, <3>2 DEF StoreUnit
    <3> QED
      BY <3>1, <3>2
  <2>5. ans'.of = at /\ Calling'
    BY <2>1 DEF Calling
  <2>6. ServedWrite' => Shown(at.l, at.p, at.i)'
    BY <2>1, <2>3 DEF ServedWrite
  <2> QED
    BY <1>b, <2>1, <2>4, <2>5, <2>6 DEF ConfirmInv, ConfirmedIsStored
<1>5. CASE ServeLate
  <2>1. /\ at' = at /\ stat' = stat /\ late' = NoLate /\ acked' = acked
        /\ ans'.own => ans' = ans
        /\ late.of # Sleep /\ StoreUnit(late.of, late.unit)
    BY <1>5 DEF ServeLate, elVars
  <2>2. late.of \in Call
    BY <2>1, AnswerFields
  <2>3. ASSUME acked # {} \/ ServedWrite, NEW l \in Saved, NEW p \in Phase,
               NEW i \in 1 .. Len(Item), Shown(l, p, i)
        PROVE  Shown(l, p, i)'
    <3>1. CASE late.of.at = "write"
      BY <1>a, <2>1, <2>2, <2>3, <3>1, StoreShows
    <3>2. CASE late.of.at # "write"
      BY <2>1, <2>3, <3>2, ShownKept DEF StoreUnit
    <3> QED
      BY <3>1, <3>2
  <2>4. \A c \in acked : Shown(c[1], c[2], c[3])'
    BY <1>a, <2>3, AckedForm
  <2>5. ServedWrite' => ServedWrite
    BY <2>1 DEF ServedWrite
  <2>6. ServedWrite => at.l \in Saved /\ at.p \in Phase /\ at.i \in 1 .. Len(Item)
    BY Typed, PlaceForms, CallForms DEF ServedWrite
  <2>7. ServedWrite' => Shown(at.l, at.p, at.i)'
    BY <1>a, <2>1, <2>3, <2>5, <2>6
  <2>8. ans'.own => Calling' /\ ans'.of = at'
    BY <1>a, <2>1 DEF Calling
  <2> QED
    BY <1>b, <2>1, <2>4, <2>7, <2>8 DEF ConfirmInv, ConfirmedIsStored
<1>6. CASE RhRestart
  <2>1. ~ans'.own /\ acked' = {}
    BY <1>6, Typed DEF RhRestart, AnsSet
  <2> QED
    BY <2>1, NoneOwned
<1>7. CASE Wake
  <2>1. ~ans.own
    BY <1>7, <1>a, <1>b DEF Wake, Calling
  <2> QED
    BY <1>7, <1>a, <1>c, <2>1, NoneOwned DEF Wake, elVars, memVars
<1>8. CASE ReadOk
  BY <1>8, <1>a, <1>c, ForgetOwned, NoneOwned DEF ReadOk, memVars
<1>9. ASSUME Fail, Calling, UNCHANGED <<stored, stat, acked>>
      PROVE  ConfirmInv'
  <2>1. late' = late \/ late' = Pending(FALSE)
    BY <1>9 DEF Fail
  <2>2. Pending(FALSE).of = at /\ (at.at = "write" => Pending(FALSE).unit = stat[at.l][at.p])
    BY <1>9, PendingTyped
  <2>3. acked' # {} => (late'.of.at = "write" => late'.unit = stat'[late'.of.l][late'.of.p])
    BY <1>9, <1>a, <2>1, <2>2
  <2> QED
    BY <1>9, <1>c, <2>3, ForgetOwned, NoneOwned DEF Fail
<1>10. CASE ReadFail
  BY <1>9, <1>10 DEF ReadFail, Calling, elVars, memVars
<1>11. CASE el_statis_proc
  <2>1. ~ans.own
    BY <1>11, <1>a, <1>b DEF el_statis_proc, Calling
  <2> QED
    BY <1>11, <2>1, NoneOwned DEF el_statis_proc
<1>12. CASE el_statis_save
  <2>1. CASE Fail /\ UNCHANGED acked
    BY <1>9, <1>12, <2>1 DEF el_statis_save, Calling, elVars, memVars
  <2>2. CASE /\ ans.of = at /\ Forget
             /\ acked' = IF ans.own THEN acked \cup {<<at.l, at.p, at.i>>} ELSE acked
             /\ UNCHANGED <<late, nupset>>
    <3>1. at.at = "write" /\ stored' = stored /\ stat' = stat
      BY <1>12 DEF el_statis_save, elVars, memVars
    <3>2. ASSUME ans.own, NEW l, NEW p, NEW i, l = at.l /\ p = at.p /\ i = at.i
          PROVE  Shown(l, p, i)'
      BY <1>a, <3>1, <3>2, ShownKept DEF ServedWrite
    <3>3. \A c \in acked' : Shown(c[1], c[2], c[3])'
      BY <1>c, <2>2, <3>1, <3>2
    <3>4. acked' # {} => acked # {} \/ ServedWrite
      BY <2>2, <3>1 DEF ServedWrite
    <3> QED
      BY <1>a, <2>2, <3>1, <3>3, <3>4, ForgetOwned, NoneOwned
  <2> QED
    BY <1>12, <2>1, <2>2 DEF el_statis_save
<1>13. CASE Restart
  <2>1. ~ans'.own /\ acked' = {}
    BY <1>13, Typed DEF Restart, Orphan, AnsSet
  <2> QED
    BY <2>1, NoneOwned
<1>14. CASE UNCHANGED vars
  BY <1>1, <1>14 DEF vars, elVars, memVars
<1> QED
  BY <1>2, <1>3, <1>4, <1>5, <1>6, <1>7, <1>8, <1>10, <1>11, <1>12, <1>13, <1>14
  DEF Next, Task

(* An item of the current statistics that rhApp has confirmed is on show    *)
(* there: no write that is served late, of an earlier round or of an elAPP  *)
(* that died, replaces it.                                                  *)
THEOREM ConfirmedIsShown == Spec => []ConfirmedIsStored
<1>1. Init => ConfirmInv
  BY DEF Init, ConfirmInv, ConfirmedIsStored, ServedWrite, NoAns
<1>2. ConfirmInv => ConfirmedIsStored
  BY DEF ConfirmInv
<1> QED
  BY <1>1, <1>2, ConfirmStep, EnergyTypes, PTL DEF Spec

(* The element that a fold over sets takes next. *)
Some(s) == CHOOSE x \in s : TRUE

(* The subsets of S with at most n elements. *)
UpTo(S, n) == {s \in SUBSET S : Cardinality(s) <= n}

(* The sums over the sets of D, which has every set that one of its sets    *)
(* leaves when an element is taken.                                         *)
Adds(c, r, D, g) ==
  g = [s \in D |-> IF s = {} THEN 0 ELSE c[Some(s)][r] + g[s \ {Some(s)}]]

(* Taking an element leaves a smaller set. *)
LEMMA TakeOne ==
  ASSUME NEW S, IsFiniteSet(S), NEW s \in SUBSET S
  PROVE  /\ IsFiniteSet(s) /\ Cardinality(s) \in Nat
         /\ Cardinality(s) = 0 <=> s = {}
         /\ s # {} => /\ Some(s) \in s /\ s \ {Some(s)} \in SUBSET S
                      /\ Cardinality(s \ {Some(s)}) = Cardinality(s) - 1
<1>1. IsFiniteSet(s) /\ Cardinality(s) \in Nat
  BY FS_Subset, FS_CardinalityType
<1>2. Cardinality(s) = 0 <=> s = {}
  BY <1>1, FS_EmptySet
<1>3. s # {} => Some(s) \in s
  BY DEF Some
<1> QED
  BY <1>1, <1>2, <1>3, FS_RemoveElement

(* The sums over the subsets of a finite set exist. *)
LEMMA SumsExist ==
  ASSUME NEW c, NEW r, NEW S, IsFiniteSet(S)
  PROVE  \E g : Adds(c, r, SUBSET S, g)
<1> DEFINE N == {n \in Nat : \E g : Adds(c, r, UpTo(S, n), g)}
<1>1. 0 \in N
  <2> DEFINE g == [s \in UpTo(S, 0) |-> 0]
  <2>1. ASSUME NEW s \in UpTo(S, 0) PROVE s = {}
    <3>1. s \in SUBSET S /\ Cardinality(s) <= 0
      BY DEF UpTo
    <3>2. Cardinality(s) \in Nat /\ (Cardinality(s) = 0 <=> s = {})
      BY <3>1, TakeOne
    <3> QED
      BY <3>1, <3>2
  <2>2. g = [s \in UpTo(S, 0) |-> IF s = {} THEN 0 ELSE c[Some(s)][r] + g[s \ {Some(s)}]]
    BY <2>1
  <2>3. Adds(c, r, UpTo(S, 0), g)
    BY <2>2, Zenon DEF Adds
  <2> QED
    BY <2>3
<1>2. ASSUME NEW n \in Nat, n \in N
      PROVE  n + 1 \in N
  <2>1. PICK g : Adds(c, r, UpTo(S, n), g)
    BY <1>2
  <2> DEFINE D == UpTo(S, n + 1)
             h == [s \in D |-> IF s \in UpTo(S, n) THEN g[s]
                               ELSE c[Some(s)][r] + g[s \ {Some(s)}]]
  <2>2. ASSUME NEW s \in D
        PROVE  h[s] = IF s = {} THEN 0 ELSE c[Some(s)][r] + h[s \ {Some(s)}]
    <3>1. /\ s \in SUBSET S /\ Cardinality(s) \in Nat /\ Cardinality(s) <= n + 1
          /\ Cardinality(s) = 0 <=> s = {}
          /\ s # {} => /\ s \ {Some(s)} \in SUBSET S
                       /\ Cardinality(s \ {Some(s)}) = Cardinality(s) - 1
      BY TakeOne DEF UpTo
    <3>2. s # {} => s \ {Some(s)} \in UpTo(S, n) /\ s \ {Some(s)} \in D
      BY <3>1 DEF UpTo
    <3>3. s = {} => s \in UpTo(S, n)
      BY <3>1 DEF UpTo
    <3>4. s # {} => h[s \ {Some(s)}] = g[s \ {Some(s)}]
      BY <3>2
    <3>5. s \in UpTo(S, n) => g[s] = IF s = {} THEN 0 ELSE c[Some(s)][r] + g[s \ {Some(s)}]
      BY <2>1 DEF Adds
    <3>6. h[s] = IF s \in UpTo(S, n) THEN g[s] ELSE c[Some(s)][r] + g[s \ {Some(s)}]
      OBVIOUS
    <3> HIDE DEF h, D
    <3> QED
      BY <3>3, <3>4, <3>5, <3>6
  <2>3. Adds(c, r, D, h)
    <3>1. h = [s \in D |-> h[s]]
      OBVIOUS
    <3> HIDE DEF h, D
    <3>2. h = [s \in D |-> IF s = {} THEN 0 ELSE c[Some(s)][r] + h[s \ {Some(s)}]]
      BY <2>2, <3>1
    <3> QED
      BY <3>2, Zenon DEF Adds
  <2> QED
    BY <2>3
<1> HIDE DEF N
<1>3. \A n \in Nat : n \in N
  BY <1>1, <1>2, NatSetInduction
<1>4. Cardinality(S) \in Nat
  BY FS_CardinalityType
<1>5. UpTo(S, Cardinality(S)) = SUBSET S
  BY FS_Subset DEF UpTo
<1> QED
  BY <1>3, <1>4, <1>5 DEF N

(* A total is the sum over its set. *)
LEMMA TotalIsSum ==
  ASSUME NEW c, NEW r, NEW S, IsFiniteSet(S)
  PROVE  \E g : Adds(c, r, SUBSET S, g) /\ Total(c, r, S) = g[S]
<1> DEFINE g == CHOOSE h : h = [s \in SUBSET S |->
                  IF s = {} THEN 0
                  ELSE c[CHOOSE x \in s : TRUE][r] + h[s \ {CHOOSE x \in s : TRUE}]]
<1>1. Adds(c, r, SUBSET S, g)
  <2>1. PICK h : Adds(c, r, SUBSET S, h)
    BY SumsExist
  <2>2. h = [s \in SUBSET S |->
               IF s = {} THEN 0
               ELSE c[CHOOSE x \in s : TRUE][r] + h[s \ {CHOOSE x \in s : TRUE}]]
    BY <2>1, Zenon DEF Adds, Some
  <2>3. g = [s \in SUBSET S |->
               IF s = {} THEN 0
               ELSE c[CHOOSE x \in s : TRUE][r] + g[s \ {CHOOSE x \in s : TRUE}]]
    BY <2>2, Zenon
  <2> HIDE DEF g
  <2> QED
    BY <2>3, Zenon DEF Adds, Some
<1>2. Total(c, r, S) = g[S]
  BY Zenon DEF Total, MapThenSumSet, MapThenFoldSet
<1> QED
  BY <1>1, <1>2

(* Sums of numbers are numbers. *)
LEMMA SumsTyped ==
  ASSUME NEW c, NEW r, NEW S, IsFiniteSet(S), \A m \in S : c[m][r] \in Nat,
         NEW g, Adds(c, r, SUBSET S, g)
  PROVE  \A s \in SUBSET S : g[s] \in Nat
<1> DEFINE N == {n \in Nat : \A s \in SUBSET S : Cardinality(s) = n => g[s] \in Nat}
<1>0. ASSUME NEW s \in SUBSET S
      PROVE  g[s] = IF s = {} THEN 0 ELSE c[Some(s)][r] + g[s \ {Some(s)}]
  BY DEF Adds
<1>1. 0 \in N
  <2>1. ASSUME NEW s \in SUBSET S, Cardinality(s) = 0 PROVE g[s] \in Nat
    <3>1. s = {}
      BY <2>1, TakeOne
    <3> QED
      BY <1>0, <3>1
  <2> QED
    BY <2>1
<1>2. ASSUME NEW n \in Nat, n \in N PROVE n + 1 \in N
  <2> SUFFICES ASSUME NEW s \in SUBSET S, Cardinality(s) = n + 1 PROVE g[s] \in Nat
    OBVIOUS
  <2>1. s # {} /\ Some(s) \in s /\ s \ {Some(s)} \in SUBSET S /\ Cardinality(s \ {Some(s)}) = n
    BY TakeOne
  <2>2. g[s \ {Some(s)}] \in Nat /\ c[Some(s)][r] \in Nat
    BY <1>2, <2>1
  <2>3. g[s] = c[Some(s)][r] + g[s \ {Some(s)}]
    BY <1>0, <2>1
  <2> QED
    BY <2>2, <2>3
<1> HIDE DEF N
<1>3. \A n \in Nat : n \in N
  BY <1>1, <1>2, NatSetInduction
<1> QED
  BY <1>3, TakeOne DEF N

(* A total of zeroes is zero. *)
LEMMA TotalZero ==
  ASSUME NEW c, NEW r, NEW S, IsFiniteSet(S), \A m \in S : c[m][r] = 0
  PROVE  Total(c, r, S) = 0
<1>1. PICK g : Adds(c, r, SUBSET S, g) /\ Total(c, r, S) = g[S]
  BY TotalIsSum
<1> DEFINE N == {n \in Nat : \A s \in SUBSET S : Cardinality(s) = n => g[s] = 0}
<1>2. ASSUME NEW s \in SUBSET S
      PROVE  g[s] = IF s = {} THEN 0 ELSE c[Some(s)][r] + g[s \ {Some(s)}]
  BY <1>1 DEF Adds
<1>3. 0 \in N
  BY <1>2, TakeOne
<1>4. ASSUME NEW n \in Nat, n \in N PROVE n + 1 \in N
  <2> SUFFICES ASSUME NEW s \in SUBSET S, Cardinality(s) = n + 1 PROVE g[s] = 0
    OBVIOUS
  <2>1. s # {} /\ Some(s) \in s /\ s \ {Some(s)} \in SUBSET S /\ Cardinality(s \ {Some(s)}) = n
    BY TakeOne
  <2>2. g[s \ {Some(s)}] = 0 /\ c[Some(s)][r] = 0
    BY <1>4, <2>1
  <2> QED
    BY <1>2, <2>1, <2>2
<1> HIDE DEF N
<1>5. \A n \in Nat : n \in N
  BY <1>3, <1>4, NatSetInduction
<1> QED
  BY <1>1, <1>5, TakeOne DEF N

(* Register r of meter k grows by d, and of no other meter of S. *)
Grown(c, e, r, S, k, d) ==
  \A m \in S : /\ c[m][r] \in Nat
               /\ e[m][r] = IF m = k THEN c[m][r] + d ELSE c[m][r]

(* When one entry grows by d, the total over a set that has it grows by d,  *)
(* and any other total stays.                                               *)
LEMMA TotalGrows ==
  ASSUME NEW c, NEW e, NEW r, NEW S, IsFiniteSet(S), NEW k, NEW d \in Nat,
         Grown(c, e, r, S, k, d)
  PROVE  /\ Total(c, r, S) \in Nat
         /\ Total(e, r, S) = IF k \in S THEN Total(c, r, S) + d ELSE Total(c, r, S)
<1>1. PICK g : Adds(c, r, SUBSET S, g) /\ Total(c, r, S) = g[S]
  BY TotalIsSum
<1>2. PICK h : Adds(e, r, SUBSET S, h) /\ Total(e, r, S) = h[S]
  BY TotalIsSum
<1>3. \A s \in SUBSET S : g[s] \in Nat
  BY <1>1, SumsTyped DEF Grown
<1> DEFINE N == {n \in Nat : \A s \in SUBSET S : Cardinality(s) = n =>
                    h[s] = IF k \in s THEN g[s] + d ELSE g[s]}
<1>4. ASSUME NEW s \in SUBSET S
      PROVE  /\ g[s] = IF s = {} THEN 0 ELSE c[Some(s)][r] + g[s \ {Some(s)}]
             /\ h[s] = IF s = {} THEN 0 ELSE e[Some(s)][r] + h[s \ {Some(s)}]
  BY <1>1, <1>2 DEF Adds
<1>5. 0 \in N
  BY <1>4, TakeOne
<1>6. ASSUME NEW n \in Nat, n \in N PROVE n + 1 \in N
  <2> SUFFICES ASSUME NEW s \in SUBSET S, Cardinality(s) = n + 1
               PROVE  h[s] = IF k \in s THEN g[s] + d ELSE g[s]
    OBVIOUS
  <2> DEFINE x == Some(s)
             t == s \ {x}
  <2>1. s # {} /\ x \in s /\ t \in SUBSET S /\ Cardinality(t) = n
    BY TakeOne
  <2>2. h[t] = IF k \in t THEN g[t] + d ELSE g[t]
    BY <1>6, <2>1
  <2>3. /\ g[t] \in Nat /\ c[x][r] \in Nat
        /\ e[x][r] = IF x = k THEN c[x][r] + d ELSE c[x][r]
    BY <1>3, <2>1 DEF Grown
  <2>4. g[s] = c[x][r] + g[t] /\ h[s] = e[x][r] + h[t]
    BY <1>4, <2>1
  <2>5. k \in s <=> (k = x \/ k \in t)
    BY <2>1
  <2>6. ~(k = x /\ k \in t)
    OBVIOUS
  <2> HIDE DEF x, t
  <2> QED
    BY <2>2, <2>3, <2>4, <2>5, <2>6
<1> HIDE DEF N
<1>7. \A n \in Nat : n \in N
  BY <1>5, <1>6, NatSetInduction
<1>8. S \in SUBSET S /\ Cardinality(S) \in N
  BY <1>7, TakeOne
<1>9. h[S] = IF k \in S THEN g[S] + d ELSE g[S]
  BY <1>8 DEF N
<1>10. g[S] \in Nat
  BY <1>3
<1> QED
  BY <1>1, <1>2, <1>9, <1>10

(* The meters of a level are finitely many. *)
LEMMA LevelFinite ==
  ASSUME NEW l
  PROVE  IsFiniteSet(AtLevel(l))
<1>1. IsFiniteSet(Metid)
  BY ParaAssumption, FS_Interval DEF Metid
<1> QED
  BY <1>1, FS_Subset DEF AtLevel

(* A reading is added to the total of its level and to no other. *)
LEMMA ReadTotals ==
  ASSUME TypeOK, LevelTotals, [Next]_vars, ReadOk, NEW l \in Lev, NEW q \in Reg
  PROVE  use'[l][q] = Total(counted', q, AtLevel(l))
<1> DEFINE m == at.m
           r == at.r
           u == meter_ene_update(ans.item.v, bak[m][r]).used
           v == para[m].level
<1>1. at \in Call /\ m \in Polled /\ m \in Metid /\ r \in Reg
  BY Typed, PlaceForms, CallForms, Numbers DEF ReadOk
<1>2. /\ use' = [use EXCEPT ![v][r] = use[v][r] + u]
      /\ counted' = [counted EXCEPT ![m][r] = counted[m][r] + u]
  BY DEF ReadOk
<1>3. u \in Nat
  BY <1>1, RegisterNumbers, UpdateIsDifference
<1>4. use \in [Lev -> [Reg -> Nat]] /\ counted \in Table /\ para \in Meters
  BY Typed
<1>5. v \in Lev /\ para[m].port # 0
  <2>1. v \in Nat /\ v < LevMax /\ para[m].port # 0
    BY <1>1, <1>4 DEF Polled, Meters
  <2> QED
    BY <2>1, ELConstAssumption DEF Lev
<1>6. m \in AtLevel(l) <=> l = v
  BY <1>1, <1>5 DEF AtLevel
<1> HIDE DEF m, r, u, v
<1>7. use'[l][q] = IF l = v /\ q = r THEN use[l][q] + u ELSE use[l][q]
  BY <1>1, <1>2, <1>4, <1>5
<1>8. use[l][q] = Total(counted, q, AtLevel(l))
  BY DEF LevelTotals
<1> DEFINE S == AtLevel(l)
           d == IF q = r THEN u ELSE 0
<1>9. S \subseteq Metid /\ IsFiniteSet(S)
  BY Numbers, LevelFinite
<1>10. \A n \in S : counted[n][q] \in Nat
  BY <1>4, <1>9 DEF Table
<1>11. \A n \in S : counted'[n][q] = IF n = m THEN counted[n][q] + d ELSE counted[n][q]
  BY <1>1, <1>2, <1>3, <1>4, <1>9, <1>10 DEF Table
<1>12. d \in Nat
  BY <1>3
<1> HIDE DEF S, d
<1>13. /\ Total(counted, q, S) \in Nat
       /\ Total(counted', q, S) = IF m \in S THEN Total(counted, q, S) + d ELSE Total(counted, q, S)
  <2>1. Grown(counted, counted', q, S, m, d)
    BY <1>10, <1>11 DEF Grown
  <2> QED
    BY <1>9, <1>12, <2>1, TotalGrows
<1>14. m \in S <=> l = v
  BY <1>6 DEF S
<1>15. Total(counted', q, S) = use'[l][q]
  BY <1>7, <1>8, <1>13, <1>14 DEF d, S
<1> QED
  BY <1>15 DEF S

(* Nothing charged adds up to nothing. *)
LEMMA NoTotals ==
  ASSUME NEW l, NEW r \in Reg
  PROVE  Total(Zero, r, AtLevel(l)) = 0
<1>1. \A m \in AtLevel(l) : Zero[m][r] = 0
  BY Numbers DEF Zero
<1> QED
  BY <1>1, LevelFinite, TotalZero

(* Every step keeps the totals. *)
LEMMA TotalsStep == TypeOK /\ LevelTotals /\ [Next]_vars => LevelTotals'
<1> SUFFICES ASSUME TypeOK, LevelTotals, [Next]_vars, NEW l \in Lev, NEW r \in Reg
             PROVE  use'[l][r] = Total(counted', r, AtLevel(l)')
  BY DEF LevelTotals
<1>1. AtLevel(l)' = AtLevel(l)
  BY ParaKept
<1>2. CASE use' = use /\ counted' = counted
  BY <1>1, <1>2 DEF LevelTotals
<1>3. CASE ReadOk
  BY <1>1, <1>3, ReadTotals
<1>4. CASE Restart
  <2>1. counted' = Zero /\ use'[l][r] = 0
    BY <1>4 DEF Restart
  <2> QED
    BY NoTotals, <1>1, <2>1
<1>5. (use' = use /\ counted' = counted) \/ ReadOk \/ Restart
  BY DEF Next, vars, elVars, histVars, Task, Consume, Refresh, Replace, Serve, ServeLate,
         RhRestart, Wake, ReadFail, el_statis_proc, el_statis_save
<1> QED
  BY <1>2, <1>3, <1>4, <1>5

(* The total of a level, s_EneUseUp, is the sum of what its meters were     *)
(* charged for, after failures and restarts too.                            *)
THEOREM TotalsAreSums == Spec => []LevelTotals
<1>1. Init => LevelTotals
  BY NoTotals DEF Init, LevelTotals
<1> QED
  BY <1>1, TotalsStep, EnergyTypes, PTL DEF Spec


(* Table e is nowhere below c. *)
Covers(c, e, r, S) ==
  \A m \in S : c[m][r] \in Nat /\ e[m][r] \in Nat /\ c[m][r] <= e[m][r]

(* The total of a table that is nowhere below another is not below its total. *)
LEMMA TotalCovers ==
  ASSUME NEW c, NEW e, NEW r, NEW S, IsFiniteSet(S), Covers(c, e, r, S)
  PROVE  /\ Total(c, r, S) \in Nat /\ Total(e, r, S) \in Nat
         /\ Total(c, r, S) <= Total(e, r, S)
<1>1. PICK g : Adds(c, r, SUBSET S, g) /\ Total(c, r, S) = g[S]
  BY TotalIsSum
<1>2. PICK h : Adds(e, r, SUBSET S, h) /\ Total(e, r, S) = h[S]
  BY TotalIsSum
<1>3. \A s \in SUBSET S : g[s] \in Nat /\ h[s] \in Nat
  BY <1>1, <1>2, SumsTyped DEF Covers
<1> DEFINE N == {n \in Nat : \A s \in SUBSET S : Cardinality(s) = n => g[s] <= h[s]}
<1>4. ASSUME NEW s \in SUBSET S
      PROVE  /\ g[s] = IF s = {} THEN 0 ELSE c[Some(s)][r] + g[s \ {Some(s)}]
             /\ h[s] = IF s = {} THEN 0 ELSE e[Some(s)][r] + h[s \ {Some(s)}]
  BY <1>1, <1>2 DEF Adds
<1>5. 0 \in N
  <2>1. ASSUME NEW s \in SUBSET S, Cardinality(s) = 0 PROVE g[s] <= h[s]
    <3>1. s = {}
      BY <2>1, TakeOne
    <3>2. g[s] = 0 /\ h[s] = 0
      BY <1>4, <3>1
    <3> QED
      BY <3>2
  <2> QED
    BY <2>1
<1>6. ASSUME NEW n \in Nat, n \in N PROVE n + 1 \in N
  <2> SUFFICES ASSUME NEW s \in SUBSET S, Cardinality(s) = n + 1 PROVE g[s] <= h[s]
    OBVIOUS
  <2> DEFINE x == Some(s)
             t == s \ {x}
  <2>1. s # {} /\ x \in s /\ t \in SUBSET S /\ Cardinality(t) = n
    BY TakeOne
  <2>2. g[t] <= h[t] /\ g[t] \in Nat /\ h[t] \in Nat
    BY <1>3, <1>6, <2>1
  <2>3. c[x][r] \in Nat /\ e[x][r] \in Nat /\ c[x][r] <= e[x][r]
    BY <2>1 DEF Covers
  <2>4. g[s] = c[x][r] + g[t] /\ h[s] = e[x][r] + h[t]
    BY <1>4, <2>1
  <2> HIDE DEF x, t
  <2> QED
    BY <2>2, <2>3, <2>4
<1> HIDE DEF N
<1>7. \A n \in Nat : n \in N
  BY <1>5, <1>6, NatSetInduction
<1>8. S \in SUBSET S /\ Cardinality(S) \in N
  BY <1>7, TakeOne
<1>9. g[S] <= h[S]
  BY <1>8 DEF N
<1> QED
  BY <1>1, <1>2, <1>3, <1>9

(* A meter is charged for no more than it has used. *)
LEMMA CountedIsUsed ==
  ASSUME TypeOK, ChargeInv, NEW m \in Metid, NEW r \in Reg
  PROVE  counted[m][r] \in Nat /\ burned[m][r] \in Nat /\ counted[m][r] <= burned[m][r]
<1>1. /\ counted[m][r] \in Nat /\ burned[m][r] \in Nat
      /\ first[m][r] \in Nat \cup {NotRead} /\ last[m][r] \in Nat \cup {NotRead}
  BY Typed DEF Table, Marks
<1>2. /\ first[m][r] = NotRead => counted[m][r] = 0
      /\ counted[m][r] + first[m][r] <= last[m][r] /\ last[m][r] <= burned[m][r]
  BY DEF ChargeInv, ChargeAt, AccountAt, Before, Now
<1> QED
  BY <1>1, <1>2 DEF NotRead

(* So is a level. *)
LEMMA UseIsUsed ==
  ASSUME TypeOK, ChargeInv, LevelTotals, NEW l \in Lev, NEW p \in Phase
  PROVE  use[l][p] \in 0 .. Total(burned, p, AtLevel(l))
<1>1. p \in Reg /\ AtLevel(l) \subseteq Metid
  BY Numbers
<1>2. Covers(counted, burned, p, AtLevel(l))
  BY <1>1, CountedIsUsed DEF Covers
<1>3. use[l][p] = Total(counted, p, AtLevel(l))
  BY <1>1 DEF LevelTotals
<1>4. /\ Total(counted, p, AtLevel(l)) \in Nat /\ Total(burned, p, AtLevel(l)) \in Nat
      /\ Total(counted, p, AtLevel(l)) <= Total(burned, p, AtLevel(l))
  BY <1>2, LevelFinite, TotalCovers
<1> QED
  BY <1>3, <1>4

(* What was used only grows. *)
LEMMA UsedGrows ==
  ASSUME TypeOK, [Next]_vars, NEW l, NEW p \in Phase
  PROVE  /\ Total(burned, p, AtLevel(l)) \in Nat /\ Total(burned', p, AtLevel(l)) \in Nat
         /\ Total(burned, p, AtLevel(l)) <= Total(burned', p, AtLevel(l))
<1>1. p \in Reg /\ AtLevel(l) \subseteq Metid
  BY Numbers
<1>2. burned \in Table /\ burned' \in Table
  BY Typed, TypeStep DEF TypeOK, Table
<1>3. ASSUME NEW m \in Metid
      PROVE  burned[m][p] \in Nat /\ burned'[m][p] \in Nat /\ burned[m][p] <= burned'[m][p]
  <2>1. burned[m][p] \in Nat /\ burned'[m][p] \in Nat
    BY <1>1, <1>2 DEF Table
  <2>2. CASE burned' = burned
    BY <2>1, <2>2
  <2>3. ASSUME NEW n \in Polled, NEW r \in Reg, Consume(n, r)
        PROVE  burned[m][p] <= burned'[m][p]
    <3>1. n \in Metid /\ burned[n][r] \in Nat /\ burned' = [burned EXCEPT ![n][r] = burned[n][r] + 1]
      BY <1>2, <2>3, Numbers DEF Consume, Table
    <3>2. burned'[m][p] = IF m = n /\ p = r THEN burned[n][r] + 1 ELSE burned[m][p]
      BY <1>1, <1>2, <3>1, InsideTable DEF Table
    <3> QED
      BY <2>1, <3>1, <3>2
  <2>4. burned' = burned \/ \E n \in Polled, r \in Reg : Consume(n, r)
    BY DEF Next, vars, Task, Refresh, Replace, Serve, ServeLate, RhRestart, Wake, ReadOk,
           ReadFail, el_statis_proc, el_statis_save, Restart
  <2> QED
    BY <2>1, <2>2, <2>3, <2>4
<1>4. Covers(burned, burned', p, AtLevel(l))
  BY <1>1, <1>3 DEF Covers
<1> QED
  BY <1>4, LevelFinite, TotalCovers

(* UsedOnly, with a and b for what was used at the level and at the next.   *)
Bounded(a, b, next, u) ==
  /\ u.sup \in 0 .. a
  /\ u.ratio = <<0, 1>> \/ u.ratio[2] \in 1 .. a
  /\ next => /\ u.sal \in 0 .. b
             /\ u.ratio = <<0, 1>> \/ u.ratio[2] - u.ratio[1] \in 0 .. b

Limit(used, l, p, u) ==
  Bounded(Total(used, p, AtLevel(l)), Total(used, p, AtLevel(l + 1)), l + 1 \in Lev, u)

(* A unit stays sound while more is used. *)
LEMMA LimitGrows ==
  ASSUME TypeOK, [Next]_vars, NEW l, NEW p \in Phase, NEW u, Limit(burned, l, p, u)
  PROVE  Limit(burned', l, p, u)
<1> DEFINE a == Total(burned, p, AtLevel(l))
           b == Total(burned, p, AtLevel(l + 1))
           c == Total(burned', p, AtLevel(l))
           d == Total(burned', p, AtLevel(l + 1))
<1>1. a \in Nat /\ b \in Nat /\ c \in Nat /\ d \in Nat /\ a <= c /\ b <= d
  BY UsedGrows
<1>2. Bounded(a, b, l + 1 \in Lev, u)
  BY DEF Limit
<1> HIDE DEF a, b, c, d
<1>3. \A x : x \in 0 .. a => x \in 0 .. c
  BY <1>1
<1>4. \A x : x \in 1 .. a => x \in 1 .. c
  BY <1>1
<1>5. \A x : x \in 0 .. b => x \in 0 .. d
  BY <1>1
<1>6. Bounded(c, d, l + 1 \in Lev, u)
  BY <1>2, <1>3, <1>4, <1>5 DEF Bounded
<1> QED
  BY <1>6 DEF Limit, c, d

(* An empty unit is sound. *)
LEMMA LimitEmpty ==
  ASSUME TypeOK, [Next]_vars, NEW l, NEW p \in Phase
  PROVE  Limit(burned, l, p, NoStat) /\ Limit(burned', l, p, NoStat)
<1>1. /\ Total(burned, p, AtLevel(l)) \in Nat /\ Total(burned, p, AtLevel(l + 1)) \in Nat
      /\ Total(burned', p, AtLevel(l)) \in Nat /\ Total(burned', p, AtLevel(l + 1)) \in Nat
  BY UsedGrows
<1> QED
  BY <1>1 DEF Limit, Bounded, NoStat

(* A unit with some fields of a sound one and the others of another is sound. *)
LEMMA LimitMixed ==
  ASSUME NEW used, NEW l, NEW p, NEW u, NEW v, NEW w,
         Limit(used, l, p, u), Limit(used, l, p, v),
         w.sup \in {u.sup, v.sup}, w.sal \in {u.sal, v.sal}, w.ratio \in {u.ratio, v.ratio}
  PROVE  Limit(used, l, p, w)
  BY DEF Limit, Bounded

(* What a turn of el_statis_proc stores is made of energy that was used. *)
LEMMA LossUsed ==
  ASSUME TypeOK, ChargeInv, LevelTotals, NEW l \in Lev, NEW p \in Phase,
         NEW beyond \in BeyondUse, Limit(burned, l, p, stat[l][p])
  PROVE  Limit(burned, l, p, LossOf(l, p, beyond))
<1> DEFINE a == use[l][p]
           d == el_ene_get(l + 1, p, beyond)
           A == Total(burned, p, AtLevel(l))
           D == Total(burned, p, AtLevel(l + 1))
           w == Computed(stat[l][p], a, d)
<1>1. a \in 0 .. A /\ a \in Nat /\ d \in Float
  BY UseIsUsed, EneTyped
<1>2. l + 1 \in Lev => d \in 0 .. D /\ d \in Nat
  BY UseIsUsed, EneTyped
<1>3. stat[l][p] \in Stat
  BY Typed
<1>4. d \in Int => Minus(a, d) = a - d
  BY <1>1, MinusTyped
<1>5. w.sup = a /\ w.sal = d /\ w.ratio = <<Minus(a, d), a>>
  BY <1>1, <1>3, ComputedFields
<1>6. CASE a # 0
  <2> HIDE DEF a, d, A, D, w
  <2>1. a \in 1 .. A
    BY <1>1, <1>6
  <2>2. w.ratio[1] = Minus(a, d) /\ w.ratio[2] = a
    BY <1>5
  <2>3. l + 1 \in Lev => a - Minus(a, d) = d
    BY <1>1, <1>2, <1>4
  <2>4. Bounded(A, D, l + 1 \in Lev, w)
    BY <1>1, <1>2, <1>5, <2>1, <2>2, <2>3 DEF Bounded
  <2>5. Limit(burned, l, p, w)
    BY <2>4 DEF Limit, A, D
  <2> QED
    BY <2>5, LossCases, <1>6 DEF w, a, d
<1>7. CASE a = 0
  BY <1>7, LossCases
<1> QED
  BY <1>6, <1>7

(* A sound write leaves what is shown sound: it changes one field, and no   *)
(* two levels have a first meter in common.                                 *)
LEMMA StoreUsed ==
  ASSUME TypeOK, NEW c \in Call, c.at = "write", NEW u \in Stat, StoreUnit(c, u),
         Limit(burned, c.l, c.p, u),
         NEW l \in Saved, NEW p \in Phase, Limit(burned, l, p, stored[FirstMet(l)][p])
  PROVE  Limit(burned, l, p, stored'[FirstMet(l)][p])
<1>1. /\ FirstMet(l) \in Metid /\ para[FirstMet(l)].level = l
      /\ c.l \in Saved /\ para[FirstMet(c.l)].level = c.l
  BY CallForms, FirstMetAtLevel
<1>2. FirstMet(l) = FirstMet(c.l) => l = c.l
  BY <1>1
<1> DEFINE x == stored[FirstMet(l)][p]
           y == stored'[FirstMet(l)][p]
<1>3. \A f \in {"sup", "sal", "deliv", "dist", "ratio", "flag"} :
        y[f] = IF FirstMet(l) = FirstMet(c.l) /\ p = c.p /\ f = Item[c.i]
               THEN u[Item[c.i]] ELSE x[f]
  BY <1>1, StoreOne, Typed
<1> HIDE DEF x, y
<1>4. CASE l = c.l /\ p = c.p
  <2>1. y.sup \in {u.sup, x.sup} /\ y.sal \in {u.sal, x.sal} /\ y.ratio \in {u.ratio, x.ratio}
    BY <1>3
  <2>2. Limit(burned, l, p, u) /\ Limit(burned, l, p, x)
    BY <1>4 DEF x
  <2>3. Limit(burned, l, p, y)
    BY <2>1, <2>2, LimitMixed
  <2> QED
    BY <2>3 DEF y
<1>5. CASE ~(l = c.l /\ p = c.p)
  <2>1. y.sup = x.sup /\ y.sal = x.sal /\ y.ratio = x.ratio
    BY <1>2, <1>3, <1>5
  <2>2. Limit(burned, l, p, x)
    BY DEF x
  <2>3. Limit(burned, l, p, y)
    BY <2>1, <2>2, LimitMixed
  <2> QED
    BY <2>3 DEF y
<1> QED
  BY <1>4, <1>5

(* UsedOnly by its bounds, before a step and after it. *)
LEMMA UsedForms ==
  ASSUME TypeOK, [Next]_vars
  PROVE  /\ \A l, p, u : UsedOnly(l, p, u) <=> Limit(burned, l, p, u)
         /\ \A l, p : UsedOnly(l, p, stat[l][p])' <=> Limit(burned', l, p, stat'[l][p])
         /\ UsedOnly(late.of.l, late.of.p, late.unit)'
              <=> Limit(burned', late'.of.l, late'.of.p, late'.unit)
         /\ \A l, p : UsedOnly(l, p, stored[FirstMet(l)][p])'
              <=> Limit(burned', l, p, stored'[FirstMet(l)][p])
<1>1. \A l, p, u : UsedOnly(l, p, u) <=> Limit(burned, l, p, u)
  BY DEF UsedOnly, Used, Limit, Bounded, NoStat
<1>2. para' = para /\ \A l : AtLevel(l)' = AtLevel(l) /\ FirstMet(l)' = FirstMet(l)
  BY ParaKept
<1>3. \A l, p : UsedOnly(l, p, stat[l][p])' <=> Limit(burned', l, p, stat'[l][p])
  BY <1>2 DEF UsedOnly, Used, Limit, Bounded, NoStat
<1>4. \A l, p : UsedOnly(l, p, stored[FirstMet(l)][p])'
        <=> Limit(burned', l, p, stored'[FirstMet(l)][p])
  BY <1>2 DEF UsedOnly, Used, Limit, Bounded, NoStat
<1>5. AtLevel(late.of.l)' = AtLevel(late'.of.l) /\ AtLevel(late.of.l + 1)' = AtLevel(late'.of.l + 1)
  BY <1>2 DEF AtLevel
<1>6. UsedOnly(late.of.l, late.of.p, late.unit)'
        <=> Limit(burned', late'.of.l, late'.of.p, late'.unit)
  BY <1>5 DEF UsedOnly, Used, Limit, Bounded, NoStat
<1> QED
  BY <1>1, <1>3, <1>4, <1>6

(* Every step keeps what was computed, what is under way and what is shown  *)
(* made of energy that was used.                                            *)
LEMMA UsedStep == TypeOK /\ ChargeInv /\ UsedInv /\ [Next]_vars => UsedInv'
<1> SUFFICES ASSUME TypeOK, ChargeInv, UsedInv, [Next]_vars PROVE UsedInv'
  OBVIOUS
<1>1. /\ LevelTotals
      /\ \A l \in Lev, p \in Phase : Limit(burned, l, p, stat[l][p])
      /\ late.of.at = "write" => Limit(burned, late.of.l, late.of.p, late.unit)
      /\ \A l \in Saved, p \in Phase : Limit(burned, l, p, stored[FirstMet(l)][p])
  BY UsedForms DEF UsedInv, ShownWasUsed
<1>2. \A l, p, u : p \in Phase /\ Limit(burned, l, p, u) => Limit(burned', l, p, u)
  BY LimitGrows
<1>3. LevelTotals'
  BY <1>1, TotalsStep
<1>4. ASSUME NEW l \in Lev, NEW p \in Phase PROVE Limit(burned', l, p, stat'[l][p])
  <2>1. CASE stat' = stat
    BY <1>1, <1>2, <2>1
  <2>2. CASE stat' = NoStats
    <3>1. stat'[l][p] = NoStat
      BY <2>2 DEF NoStats
    <3> QED
      BY <3>1, LimitEmpty
  <2>3. CASE el_statis_proc
    <3>1. PICK beyond \in [Phase -> BeyondUse] :
            stat' = [k \in Lev |-> [q \in Phase |-> LossOf(k, q, beyond[q])]]
      BY <2>3 DEF el_statis_proc
    <3>2. stat'[l][p] = LossOf(l, p, beyond[p]) /\ beyond[p] \in BeyondUse
      BY <3>1
    <3>3. Limit(burned, l, p, LossOf(l, p, beyond[p]))
      BY <1>1, <3>2, LossUsed
    <3> QED
      BY <1>2, <3>2, <3>3
  <2>4. stat' = stat \/ stat' = NoStats \/ el_statis_proc
    BY DEF Next, vars, elVars, Task, Consume, Refresh, Replace, Serve, ServeLate, RhRestart,
           Wake, ReadOk, ReadFail, el_statis_save, Restart
  <2> QED
    BY <2>1, <2>2, <2>3, <2>4
<1>5. ASSUME Calling, at.at = "write"
      PROVE  /\ at \in Call /\ at.l \in Lev /\ at.p \in Phase
             /\ Limit(burned, at.l, at.p, stat[at.l][at.p])
  <2>1. at \in Call
    BY <1>5, PendingTyped
  <2>2. at.l \in Saved /\ at.p \in Phase
    BY <1>5, <2>1, CallForms
  <2> QED
    BY <1>1, <2>1, <2>2, Numbers
<1>6. late'.of.at = "write" => Limit(burned', late'.of.l, late'.of.p, late'.unit)
  <2> SUFFICES ASSUME late'.of.at = "write"
               PROVE  Limit(burned', late'.of.l, late'.of.p, late'.unit)
    OBVIOUS
  <2>1. CASE late'.of = late.of /\ late'.unit = late.unit
    <3>1. late.of \in Call
      <4>1. late.of \in {Sleep} \cup Call /\ late.of.at = "write"
        BY <2>1, AnswerFields
      <4>2. Sleep.at # "write"
        BY DEF Sleep
      <4> QED
        BY <4>1, <4>2
    <3>2. late.of.p \in Phase
      BY <2>1, <3>1, CallForms
    <3> QED
      BY <1>1, <1>2, <2>1, <3>2
  <2>2. ASSUME NEW b \in BOOLEAN, Calling, late' = Pending(b)
        PROVE  Limit(burned', late'.of.l, late'.of.p, late'.unit)
    <3>1. late'.of = at /\ at.at = "write" /\ late'.unit = stat[at.l][at.p]
      BY <2>2, PendingTyped
    <3> QED
      BY <1>2, <1>5, <2>2, <3>1
  <2>3. late' # NoLate
    BY DEF NoLate, Sleep
  <2>4. late' = [late EXCEPT !.old = TRUE] => late'.of = late.of /\ late'.unit = late.unit
    BY Typed DEF LateSet
  <2>5. \/ late' \in {late, NoLate, [late EXCEPT !.old = TRUE]}
        \/ Calling /\ \E b \in BOOLEAN : late' = Pending(b)
    BY DEF Next, vars, Task, Consume, Refresh, Replace, Serve, ServeLate, RhRestart,
           Wake, ReadOk, ReadFail, el_statis_proc, el_statis_save, Restart, Fail, Orphan, Calling
  <2> QED
    BY <2>1, <2>2, <2>3, <2>4, <2>5
<1>7. ASSUME NEW l \in Saved, NEW p \in Phase
      PROVE  Limit(burned', l, p, stored'[FirstMet(l)][p])
  <2>1. CASE stored' = stored
    BY <1>1, <1>2, <2>1
  <2>2. CASE stored' = NothingStored
    <3>1. stored'[FirstMet(l)][p] = NoStat
      BY <2>2, FirstMetAtLevel DEF NothingStored
    <3> QED
      BY <3>1, LimitEmpty
  <2>3. CASE Serve /\ at.at = "write"
    <3>1. Calling /\ StoreUnit(at, Pending(FALSE).unit)
      BY <2>3 DEF Serve
    <3>2. Pending(FALSE).unit \in Stat /\ Pending(FALSE).unit = stat[at.l][at.p]
      BY <2>3, <3>1, PendingTyped
    <3>3. Limit(burned, l, p, stored'[FirstMet(l)][p])
      BY <1>1, <1>5, <2>3, <3>1, <3>2, StoreUsed
    <3> QED
      BY <1>2, <3>3
  <2>4. CASE ServeLate /\ late.of.at = "write"
    <3>1. late.of \in Call /\ late.unit \in Stat /\ StoreUnit(late.of, late.unit)
      BY <2>4, AnswerFields DEF ServeLate
    <3>2. Limit(burned, l, p, stored'[FirstMet(l)][p])
      BY <1>1, <2>4, <3>1, StoreUsed
    <3> QED
      BY <1>2, <3>2
  <2>5. \/ stored' = stored \/ stored' = NothingStored
        \/ Serve /\ at.at = "write"
        \/ ServeLate /\ late.of.at = "write"
    BY DEF Next, vars, memVars, Task, Consume, Refresh, Replace, Serve, ServeLate, StoreUnit,
           RhRestart, Wake, ReadOk, ReadFail, el_statis_proc, el_statis_save, Restart
  <2> QED
    BY <2>1, <2>2, <2>3, <2>4, <2>5
<1>8. Saved' = Saved
  BY ParaKept
<1> QED
  BY <1>3, <1>4, <1>6, <1>7, <1>8, UsedForms DEF UsedInv, ShownWasUsed

(* Nothing is used, computed or shown at the start. *)
LEMMA UsedInit == Init => UsedInv
<1> SUFFICES ASSUME Init PROVE UsedInv
  OBVIOUS
<1>1. LevelTotals
  BY NoTotals DEF Init, LevelTotals
<1>2. ASSUME NEW l, NEW p \in Phase PROVE UsedOnly(l, p, NoStat)
  <2>1. burned = Zero /\ p \in Reg
    BY Numbers DEF Init
  <2>2. Used(l, p) = 0 /\ Used(l + 1, p) = 0
    BY <2>1, NoTotals DEF Used
  <2> QED
    BY <2>2 DEF UsedOnly, NoStat
<1>3. /\ \A l \in Lev, p \in Phase : stat[l][p] = NoStat
      /\ \A m \in Metid, p \in Phase : stored[m][p] = NoStat
      /\ late.of.at # "write"
  BY DEF Init, NoStats, NothingStored, NoLate, Sleep
<1>4. \A l \in Saved : FirstMet(l) \in Metid
  BY FirstMetAtLevel
<1> QED
  BY <1>1, <1>2, <1>3, <1>4 DEF UsedInv, ShownWasUsed

(* rhApp never shows more energy supplied or sold at a level than its       *)
(* meters have used, nor a ratio of other energies, whatever calls fail or  *)
(* are served late, whatever meters are replaced and whoever dies; what is  *)
(* read behind s_EneUseUp, a number or not, stays in the energy sold and    *)
(* the ratio of the last level.                                             *)
THEOREM ShownIsUsed == Spec => []ShownWasUsed
<1>1. UsedInv => ShownWasUsed
  BY DEF UsedInv
<1> QED
  BY <1>1, UsedInit, UsedStep, EnergyTypes, ChargeInvariant, PTL DEF Spec

(* The accounts are sound in every state: types, charges, what is exact     *)
(* while no meter is replaced, what is confirmed and what is shown.         *)
THEOREM EnergyInvariant == Spec => []EnergyInv
<1>1. Init => ConfirmInv
  BY DEF Init, ConfirmInv, ConfirmedIsStored, ServedWrite, NoAns
<1>2. TypeOK /\ ChargeInv /\ ExactInv /\ ConfirmInv /\ UsedInv => EnergyInv
  BY DEF EnergyInv
<1> QED
  BY <1>1, <1>2, ExactInit, ExactStep, ConfirmStep, UsedInit, UsedStep, EnergyTypes,
     ChargeInvariant, PTL DEF Spec

=============================================================================
