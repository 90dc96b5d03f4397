---------------------------- MODULE MCEnergyLoss ----------------------------
(* Two meters, as in meter.xml, where meter 0 is not configured. As shipped, *)
(* meter 1 supplies and meter 2 sells. In the second file meter 2 is a level *)
(* too deep, which makes the last level look for energy past its array. In   *)
(* the third the level of meter 2 is missing: the load fails, and meter 2 is *)
(* counted with meter 1.                                                     *)
EXTENDS EnergyLoss

Entry(n, l) == [index |-> n, addr |-> <<>>, baud |-> TRUE, proto |-> TRUE, port |-> 5,
                userType |-> 1, level |-> l]

MCFiles ==
  {[num |-> 2, nodes |-> <<Entry(1, 0), Entry(2, 1)>>],
   [num |-> 2, nodes |-> <<Entry(1, 1), Entry(2, 2)>>],
   [num |-> 2, nodes |-> <<Entry(1, 0), Entry(2, Missing)>>]}

(* less than no energy, more than all meters use, no number *)
Behind == {-1, 9, NaN}

TwoItems == <<"sup", "ratio">>
=============================================================================
