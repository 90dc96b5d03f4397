----------------------------- MODULE MCService -----------------------------
(* A byte has 8 values, so that lengths up to 3 take one byte and dataBuf   *)
(* has 4, as 127 and 128 for a byte of 256 values. The memory holds an item *)
(* of one byte, one as long as dataBuf, main's, one longer than dataBuf,    *)
(* one longer than a message and, at its end, one of one byte. elAPP reads  *)
(* and writes them, and asks for one that does not exist.                   *)
EXTENDS Service, TLC

Pn == 10        \* 12 in base 8
Flag == 668     \* 1234 in base 8
Sup  == 669
Long == 670
Huge == 671
Last == 672
Ene  == 83      \* 123 in base 8

MCItem ==
  (<<Pn, Flag>> :> [start |-> 0, len |-> 1]) @@ (<<Pn, Sup>> :> [start |-> 1, len |-> 4])
    @@ (<<Pn, Ene>> :> [start |-> 5, len |-> 2]) @@ (<<Pn, Long>> :> [start |-> 7, len |-> 9])
    @@ (<<Pn, Huge>> :> [start |-> 16, len |-> 14]) @@ (<<Pn, Last>> :> [start |-> 30, len |-> 1])

Data(v, n) == [i \in 1 .. n |-> (v + i) % Base]

MCCalls ==
  {[op |-> "read", pn |-> Pn, id |-> i, size |-> n] : i \in {Flag, Sup, Ene, Long}, n \in {1, 4, 9}}
  \cup {[op |-> "read", pn |-> Pn, id |-> Huge, size |-> n] : n \in {9, 14}}
  \cup {[op |-> "write", pn |-> Pn, id |-> i, data |-> Data(i, n)] :
          i \in {Flag, Sup, Long}, n \in {0, 1, 3, 4, 5}}
  \cup {[op |-> "write", pn |-> Pn, id |-> Last, data |-> Data(Last, n)] : n \in {1, 2}}
  \cup {[op |-> "read", pn |-> Pn + 1, id |-> Sup, size |-> 4],
        [op |-> "write", pn |-> Pn, id |-> Sup + 3, data |-> Data(1, 1)]}

MCMainWrites == {[pn |-> Pn, id |-> Ene, data |-> Data(v, 2)] : v \in {0, 3}}
=============================================================================
