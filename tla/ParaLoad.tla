------------------------------ MODULE ParaLoad ------------------------------
(* The loop of meter_para_load, one child of IED_PARA at a time, over every *)
(* file of Files: what is in g_ParaMet when el_init goes on, which it does  *)
(* whatever the result was.                                                 *)
EXTENDS MeterPara, FiniteSets

CONSTANT Files    \* the files: [num, nodes], nodes a sequence of Node

ASSUME FilesAssumption ==
  \A f \in Files : IsFile(f)

VARIABLES
  file,         \* the file that is read
  k,            \* children read so far
  s             \* the state of the loop (MeterPara)

vars == <<file, k, s>>

Init ==
  /\ file \in Files
  /\ k = 0
  /\ s = Begin(file.num)

(* paramNode = paramNode->next *)
ReadNode ==
  /\ s.more
  /\ k < Len(file.nodes)
  /\ k' = k + 1
  /\ s' = Turn(s, file.nodes[k + 1], file.num)
  /\ UNCHANGED file

(* paramNode == NULL: return idx *)
NoMoreNodes ==
  /\ s.more
  /\ k = Len(file.nodes)
  /\ s' = Return(s, s.idx)
  /\ UNCHANGED <<file, k>>

Next == ReadNode \/ NoMoreNodes

Spec == Init /\ [][Next]_vars

(***************************************************************************)
(* Properties.                                                             *)
(***************************************************************************)

(* children the loop stored something of: idx of them whole, and the one it *)
(* gave up at, if any                                                       *)
Whole == 1 .. s.idx

Broken ==
  {j \in {s.idx + 1} \cap (1 .. k) :
     /\ s.idx <= file.num
     /\ file.nodes[j].index # Missing /\ file.nodes[j].index < MaxMeter
     /\ ~Complete(file.nodes[j])}

Stored == Whole \cup Broken

(* the children of J that wrote to meter m, and the last of all that did *)
Touching(m, J) == {j \in J : m \in Reach(file.nodes[j])}

LastTouching(m, j) ==
  j \in Touching(m, Stored) /\ \A i \in Touching(m, Stored) : i <= j

(* Whatever the file, and wherever the load gives up: a meter that was      *)
(* written to last by a whole entry of its own has the level and the port   *)
(* of that entry, although every number is written over its neighbours and  *)
(* a long addr over both; a meter that no entry names or reaches with its   *)
(* addr stays empty.                                                        *)
EntriesLoaded ==
  \A m \in Metid :
    /\ \A j \in Whole : LastTouching(m, j) /\ file.nodes[j].index = m =>
         LET e == file.nodes[j]
         IN  /\ s.tab[m].level = e.level % Byte
             /\ e.port # Missing => s.tab[m].port = e.port
    /\ Touching(m, Stored) = {} => s.tab[m] = NoMeter

(* A load that gives up half way leaves at most one meter that elAPP will   *)
(* poll at a level its entry does not give: the one of the entry at which   *)
(* it gave up, whose port was already stored. Meters that the addr of       *)
(* another entry was written over are not counted.                          *)
Misplaced ==
  {m \in Metid : /\ s.tab[m].port # 0
                 /\ \A j \in 1 .. Len(file.nodes) :
                      file.nodes[j].index = m =>
                        (file.nodes[j].level = Missing \/ s.tab[m].level # file.nodes[j].level % Byte)
                 /\ \A j \in Touching(m, Stored) : file.nodes[j].index = m}

OneMisplaced ==
  /\ Cardinality(Misplaced) <= 1
  /\ Misplaced # {} => s.ret = -1 /\ ~s.more

(* What is written outside g_ParaMet is what the first num + 1 children, up *)
(* to the one at which the load gave up, write there, by their number or by *)
(* the length of their addr: no child after them writes anything, however   *)
(* many there are, and a file whose numbers are below MAX_MET_NUM and whose *)
(* addrs fit writes nothing outside.                                        *)
StrayExplained ==
  /\ s.stray = (UNION {Reach(file.nodes[j]) : j \in Stored}) \ Metid
  /\ \A j \in Stored : j <= file.num + 1

(***************************************************************************)
(* The inductive invariant.                                                *)
(***************************************************************************)

(* the table has of meter m the last whole entry that wrote to it, if that  *)
(* is its own                                                               *)
Loaded(m) ==
  IF Touching(m, Whole) = {} THEN s.tab[m] = NoMeter
  ELSE \E j \in Touching(m, Whole) :
         /\ \A i \in Touching(m, Whole) : i <= j
         /\ file.nodes[j].index = m =>
              /\ s.tab[m].level = file.nodes[j].level % Byte
              /\ file.nodes[j].port # Missing => s.tab[m].port = file.nodes[j].port

(* the load gave up at an entry that wrote to meter m *)
GaveUpAt(m) ==
  ~s.more /\ s.ret = -1 /\ k \in Broken /\ m \in Reach(file.nodes[k])

(* While the loop goes on it has stored every child it has read, whole; it  *)
(* is at most one child past them when it has returned, and the table shows *)
(* whole entries except for the meters written to when it gave up.          *)
LoadInv ==
  /\ file \in Files /\ k \in 0 .. Len(file.nodes) /\ s \in Loop
  /\ k \in IF s.more THEN {s.idx} ELSE {s.idx, s.idx + 1}
  /\ \A j \in Whole : file.nodes[j].index # Missing /\ Complete(file.nodes[j])
  /\ \A m \in Metid : Loaded(m) \/ GaveUpAt(m)

(* What the loop ends with is what el_init is modelled with. *)
LoadIsCall == ~s.more => s = meter_para_load(file)

=============================================================================
