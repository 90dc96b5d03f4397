------------------------------ MODULE MCMemMap ------------------------------
(* Files that differ in the lists, and files that differ in the devices.    *)
EXTENDS MemMap

MCItems == << <<>>,
              << [offset |-> 0, len |-> 1] >>,
              << [offset |-> 0, len |-> 1], [offset |-> 1, len |-> 1] >> >>

MCObj(w, n, k, s) == [lacks |-> w, len |-> n, num |-> k, items |-> s]

(* Objects of 0 to 2 bytes that announce one item or two; one whose last    *)
(* item does not fit; one of negative length and one with an item before    *)
(* it; one that lacks an attribute; and one whose second item does.         *)
MCDo == {MCObj("nothing", n, k, MCItems[n + 1]) : n \in 0 .. 2, k \in 1 .. 2}
          \cup {MCObj("nothing", 1, 2, MCItems[3]),
                MCObj("nothing", -1, 1, <<>>), MCObj("nothing", -1, 1, MCItems[2]),
                MCObj("nothing", 1, 1, << [offset |-> -1, len |-> 1] >>),
                MCObj("nothing", 2, -1, MCItems[3]),
                MCObj("attribute", 1, 1, MCItems[2]),
                MCObj("item", 1, 1, MCItems[2]), MCObj("item", 1, 2, MCItems[2])}

MCDos == {<<>>} \cup {<<a>> : a \in MCDo} \cup {<<a, b>> : a, b \in MCDo}

MCIed == {[lacks |-> "nothing", num |-> 2, dos |-> s] : s \in MCDos}
           \cup {[lacks |-> "nothing", num |-> 1, dos |-> <<a, a>>] : a \in MCDo}
           \cup {[lacks |-> w, num |-> n, dos |-> <<>>] : w \in {"nothing", "tag", "pn"}, n \in -1 .. 1}

GoodList == [hasNum |-> TRUE, num |-> 1, lacks |-> << {} >>]
GoodIed  == [lacks |-> "nothing", num |-> 1, dos |-> <<MCObj("nothing", 2, 2, MCItems[3])>>]

MCFile(lists, has104, hasTemplates, num, ieds) ==
  [has104 |-> has104, lists |-> lists, hasTemplates |-> hasTemplates, num |-> num, ieds |-> ieds]

(* up to three entries; of three none lacks anything *)
MCEntries == UNION {[1 .. n -> Entry] : n \in 0 .. 2} \cup {<< {}, {}, {} >>}

MCNodes == {[hasNum |-> h, num |-> n, lacks |-> s] : h \in BOOLEAN, n \in -1 .. 2, s \in MCEntries}

GoodLists == [l \in 1 .. 4 |-> GoodList]

(* one list at a time is anything *)
ListFiles ==
  {MCFile([GoodLists EXCEPT ![k] = w], TRUE, TRUE, 1, <<GoodIed>>) : k \in 1 .. 4, w \in MCNodes}
    \cup {MCFile(GoodLists, h, t, n, <<GoodIed>>) : h \in BOOLEAN, t \in BOOLEAN, n \in -1 .. 2}

(* a device of any kind before or after one that is proper *)
IedFiles ==
  {MCFile(GoodLists, TRUE, TRUE, 2, s) :
     s \in {<<>>} \cup {<<GoodIed, i>> : i \in MCIed} \cup {<<i, GoodIed>> : i \in MCIed}}
    \cup {MCFile(GoodLists, TRUE, TRUE, 1, <<GoodIed, [lacks |-> w, num |-> 1, dos |-> <<>>]>>) :
            w \in {"nothing", "tag", "pn"}}

MCFiles == ListFiles \cup IedFiles
=============================================================================
