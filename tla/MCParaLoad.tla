----------------------------- MODULE MCParaLoad -----------------------------
(* Every file of up to three children over a few kinds of entry: whole ones *)
(* for two meters, without a port, a level that does not fit a byte, and    *)
(* one for each attribute that can be missing, for numbers inside g_ParaMet,*)
(* just outside it, negative, and beyond MAX_METER; and entries whose addr  *)
(* covers their own fields, those of the next meter, and what is behind the *)
(* table.                                                                   *)
EXTENDS ParaLoad

Good(n, l) == [index |-> n, addr |-> <<>>, baud |-> TRUE, proto |-> TRUE, port |-> 5,
               userType |-> 1, level |-> l]

Patched(n, v) == [n |-> n, v |-> v]

(* over the port of a meter, or over both its fields *)
Half == [port |-> Patched(4, 3), level |-> Patched(1, 0)]
Full == [port |-> Patched(16, 9), level |-> Patched(2, 1)]

Long(e, a) == [e EXCEPT !.addr = a]

Entry ==
  {Long(Good(0, 0), <<Full, Half>>), Long(Good(1, 1), <<Full, Full>>),
   Long([Good(1, 1) EXCEPT !.baud = FALSE], <<Half>>), Long(Good(-1, 1), <<Full, Full>>),
   Good(0, 0), Good(1, 1), Good(1, 3), Good(2, 1), Good(-1, 1), Good(4, 1),
   [Good(0, 1) EXCEPT !.port = Missing], [Good(1, 1) EXCEPT !.userType = 3],
   [Good(0, 1) EXCEPT !.index = Missing], [Good(0, 1) EXCEPT !.baud = FALSE],
   [Good(0, 1) EXCEPT !.proto = FALSE], [Good(1, 1) EXCEPT !.userType = Missing],
   [Good(1, 1) EXCEPT !.level = Missing]}

MCFiles ==
  [num : {0, 1, 2, 3}, nodes : UNION {[1 .. n -> Entry] : n \in 0 .. 3}]
=============================================================================
