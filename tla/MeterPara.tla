----------------------------- MODULE MeterPara -----------------------------
(* meter_para_load (elMeter.c): the meters of elAPP, read from the children *)
(* of the node IED_PARA of meter.xml into g_ParaMet. A number is stored     *)
(* with str2dec, which writes an int: a field of one byte takes the lowest  *)
(* byte and its neighbours the others. Of a meter only the port (0: not     *)
(* configured) and the level are kept, the two fields the task looks at.    *)
(* addr has room for 15 bytes and str2hex writes as many as the file gives. *)
EXTENDS Integers, Sequences

CONSTANTS
  MaxMeter,     \* MAX_METER: where the loader stops
  MaxMet,       \* MAX_MET_NUM: entries of g_ParaMet
  Byte,         \* values of a byte: 256
  Missing       \* an attribute that a node does not have

ASSUME ParaAssumption ==
  /\ MaxMet \in Nat \ {0} /\ MaxMeter \in Nat
  /\ Byte \in Nat \ {0}
  /\ Missing \notin Int

Metid == 0 .. (MaxMet - 1)

(* the low bytes of a number, and what is written over them: of n values,   *)
(* v; a number that is not reached has n = 1                                *)
Patch == {p \in [n : Nat \ {0}, v : Nat] : p.v < p.n}

(* what the bytes of addr behind the first 15 do to port and level of the   *)
(* meter it is stored for, of the next one in g_ParaMet, and so on          *)
Spill == Seq([port : Patch, level : Patch])

(* A child of IED_PARA; a comment is a child without attributes, an addr    *)
(* that is missing or fits spills nothing. baud and proto are less than     *)
(* 2^16, so that what they write over the port is 0.                        *)
Node(Index, Port, Number) ==
  [index : Index \cup {Missing}, addr : Spill, baud : BOOLEAN, proto : BOOLEAN,
   port : Port \cup {Missing}, userType : Number \cup {Missing},
   level : Number \cup {Missing}]

(* a file: the num of IED_PARA and its children *)
IsFile(file) == file.num \in Int /\ file.nodes \in Seq(Node(Int, Nat, Nat))

(* memset of g_ParaMet *)
NoMeter == [port |-> 0, level |-> 0]

Meters == [Metid -> [port : Nat, level : Nat]]

(* The state of the loop: the table, the places written outside it, idx,    *)
(* whether the loop goes on, and what the function returns when it does not *)
Begin(num) ==
  [tab |-> [m \in Metid |-> NoMeter], stray |-> {}, idx |-> 0,
   more |-> num > 0, ret |-> -1]

Loop == [tab : Meters, stray : SUBSET Int, idx : Nat, more : BOOLEAN, ret : Int]

(* a number whose low bytes are overwritten by zeroes, or by a patch *)
Clear(x, n) == x - (x % n)

Over(x, p) == Clear(x, p.n) + p.v

(* mutant of Fields: userType is stored after level, and clears it *)
FieldsLevelFirst(met, e) ==
  LET port == IF e.port = Missing THEN Clear(met.port, Byte * Byte) ELSE e.port
  IN  IF ~e.baud \/ ~e.proto \/ e.userType = Missing \/ e.level = Missing THEN met
      ELSE [port |-> port, level |-> (e.userType \div Byte) % Byte]

(* The fields of one meter, in the order they are stored, up to the first   *)
(* attribute that is missing; only addr and port may be. The int at baud    *)
(* covers the lowest byte of port, the one at protocol the two lowest, the  *)
(* one at userType covers level.                                            *)
Fields(met, e) ==
  LET port == IF e.port = Missing THEN Clear(met.port, Byte * Byte) ELSE e.port
  IN  CASE ~e.baud -> met
        [] e.baud /\ ~e.proto -> [met EXCEPT !.port = Clear(@, Byte)]
        [] e.baud /\ e.proto /\ e.userType = Missing -> [met EXCEPT !.port = port]
        [] e.baud /\ e.proto /\ e.userType # Missing /\ e.level = Missing ->
             [port |-> port, level |-> (e.userType \div Byte) % Byte]
        [] OTHER -> [port |-> port, level |-> e.level % Byte]

Complete(e) == e.baud /\ e.proto /\ e.userType # Missing /\ e.level # Missing

(* g_ParaMet when addr has been stored, behind the end of which the fields  *)
(* of the meter itself and of those after it lie                            *)
Spilt(tab, e) ==
  [m \in Metid |->
     IF m - e.index + 1 \in DOMAIN e.addr
     THEN LET c == e.addr[m - e.index + 1]
          IN  [port |-> Over(tab[m].port, c.port), level |-> Over(tab[m].level, c.level)]
     ELSE tab[m]]

(* the places of g_ParaMet and around it that an entry writes to *)
Reach(e) == {e.index} \cup (e.index .. (e.index + Len(e.addr) - 1))

Written(tab, e) ==
  [m \in Metid |-> IF m = e.index THEN Fields(Spilt(tab, e)[m], e) ELSE Spilt(tab, e)[m]]

(* An entry is stored wherever nPn leads, 128 .. 1023 and negative numbers  *)
(* being outside g_ParaMet, and as far as its addr goes.                    *)
Store(s, e) ==
  [s EXCEPT !.tab = Written(@, e), !.stray = @ \cup (Reach(e) \ Metid)]

Return(s, n) == [s EXCEPT !.more = FALSE, !.ret = n]

(* mutants of Turn: an entry with a missing field is passed over; the number *)
(* of entries is not limited                                                 *)
TurnGoesOn(s, e, num) ==
  IF s.idx > num THEN Return(s, s.idx)
  ELSE IF e.index = Missing THEN Return(s, -1)
  ELSE IF e.index >= MaxMeter THEN Return(s, s.idx)
  ELSE IF Complete(e) THEN [Store(s, e) EXCEPT !.idx = @ + 1]
  ELSE Store(s, e)

TurnUnlimited(s, e, num) ==
  IF e.index = Missing THEN Return(s, -1)
  ELSE IF e.index >= MaxMeter THEN Return(s, s.idx)
  ELSE IF Complete(e) THEN [Store(s, e) EXCEPT !.idx = @ + 1]
  ELSE Return(Store(s, e), -1)

(* one turn of the loop over the children, for node e *)
Turn(s, e, num) ==
  IF s.idx > num THEN Return(s, s.idx)
  ELSE IF e.index = Missing THEN Return(s, -1)
  ELSE IF e.index >= MaxMeter THEN Return(s, s.idx)
  ELSE IF Complete(e) THEN [Store(s, e) EXCEPT !.idx = @ + 1]
  ELSE Return(Store(s, e), -1)

(* the loop at child k: it goes on, or has returned before *)
Visit(file, k, s) == IF s.more THEN Turn(s, file.nodes[k], file.num) ELSE s

(* The whole load. A file that cannot be read, or has no IED_PARA, ends as  *)
(* one with num = 0 does.                                                   *)
meter_para_load(file) ==
  LET run[k \in 0 .. Len(file.nodes)] ==
        IF k = 0 THEN Begin(file.num) ELSE Visit(file, k, run[k - 1])
      s == run[Len(file.nodes)]
  IN  IF s.more THEN Return(s, s.idx) ELSE s

=============================================================================
