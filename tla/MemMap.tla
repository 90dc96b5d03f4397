------------------------------- MODULE MemMap -------------------------------
(* How rhApp comes up (rh_mem_init): rh_point_list_load fills the telemetry *)
(* lists and the ID list from meter.xml, rh_mem_map_init gives every data   *)
(* object of every device its bytes, then s_pDataMem is allocated and the   *)
(* service thread started. Each step may find the file wanting and return   *)
(* -1 or die of it, and main goes on whatever rh_mem_init returned. The     *)
(* file is any of Files; text, names and values of it are left out, and so  *)
(* are names too long for their fields and tables that cannot be allocated. *)
EXTENDS Integers, Sequences, FiniteSetsExt

CONSTANTS
  Files,          \* what meter.xml may say, see File
  Datalen         \* sizeof(float): what main writes to an item

(* the lists in the order they are loaded *)
List == <<"YC", "YX", "YM", "ID">>

None == -1

(* A list announces a number of entries, if it says num at all, and has     *)
(* entries that may lack attributes: addr (the id of an ID entry) and path  *)
(* (its name or tag). A list that is not there announces none. A device     *)
(* announces a number of objects, an object its length and a number of      *)
(* items, an item its place in it; str2dec takes a minus sign in all of     *)
(* them. What an object lacks is an attribute or a template, or something   *)
(* of the item behind its items.                                            *)
Entry == SUBSET {"addr", "path"}
Item  == [offset : Int, len : Int]
Do    == [lacks : {"nothing", "attribute", "item"}, len : Int, num : Int, items : Seq(Item)]
Ied   == [lacks : {"nothing", "tag", "pn"}, num : Int, dos : Seq(Do)]
Nodes == [hasNum : BOOLEAN, num : Int, lacks : Seq(Entry)]
File  == [has104 : BOOLEAN, lists : [1 .. Len(List) -> Nodes],
          hasTemplates : BOOLEAN, num : Int, ieds : Seq(Ied)]

ASSUME FilesAssumption == Files \subseteq File
ASSUME DatalenAssumption == Datalen \in Nat \ {0}

VARIABLES
  file,         \* meter.xml
  pc,           \* where rh_mem_init is; "up" and "failed" when it has returned
  list,         \* the list being loaded
  filled,       \* filled[l]: entries of list l written so far, the last perhaps in part
  iedN, doN,    \* nNum, doNum: entries of pIedList, pDoList written so far
  objs,         \* the objects that lookups find, in the order of their offsets
  len,          \* len: bytes given away
  mem,          \* bytes allocated for s_pDataMem, or None
  service       \* the service thread runs

vars == <<file, pc, list, filled, iedN, doN, objs, len, mem, service>>

Init ==
  /\ file \in Files
  /\ pc = "points"
  /\ list = 1
  /\ filled = [l \in 1 .. Len(List) |-> 0]
  /\ iedN = 0 /\ doN = 0
  /\ objs = <<>>
  /\ len = 0
  /\ mem = None
  /\ service = FALSE

(***************************************************************************)
(* rh_point_list_load                                                      *)
(***************************************************************************)
Entries == file.lists[list].lacks

(* mutant of Full: the entries are never counted against num *)
FullNever(l) == FALSE

(* if( ycNum > nNum ) break; the ID list alone has >=. Without entries       *)
(* announced, nothing is allocated and nothing loaded.                       *)
Full(l) ==
  IF List[l] = "ID" THEN filled[l] >= file.lists[l].num
  ELSE file.lists[l].num <= 0 \/ filled[l] > file.lists[l].num

(* no IED tagged "104tstied": -1 *)
NoPoints ==
  /\ pc = "points"
  /\ ~file.has104
  /\ pc' = "failed"
  /\ UNCHANGED <<file, list, filled, iedN, doN, objs, len, mem, service>>

(* str2dec reads the num of every list that is there, also through NULL;   *)
(* malloc refuses a negative size, which only the ID list asks for          *)
Announced == file.lists[list].hasNum /\ (List[list] = "ID" => file.lists[list].num >= 0)

BadNum ==
  /\ pc = "points"
  /\ file.has104
  /\ ~Announced
  /\ pc' = IF file.lists[list].hasNum THEN "failed" ELSE "crashed"
  /\ UNCHANGED <<file, list, filled, iedN, doN, objs, len, mem, service>>

(* An attribute that is missing is an error in YC and is passed over in YX. *)
(* str2dec, str2hex and strcpy read through NULL in YM and ID, but          *)
(* point_path_parse does not.                                               *)
Refused(l, lacks) == List[l] = "YC" /\ lacks # {}

Deadly(l, lacks) ==
  \/ List[l] = "YM" /\ "addr" \in lacks
  \/ List[l] = "ID" /\ lacks # {}

(* the next child node; an entry of YC that has no path has got its addr *)
LoadEntry ==
  /\ pc = "points"
  /\ file.has104
  /\ Announced
  /\ filled[list] < Len(Entries) /\ ~Full(list)
  /\ LET lacks == Entries[filled[list] + 1]
     IN  /\ pc' = IF Refused(list, lacks) THEN "failed"
                  ELSE IF Deadly(list, lacks) THEN "crashed" ELSE pc
         /\ filled' = IF Deadly(list, lacks) \/ (Refused(list, lacks) /\ "addr" \in lacks)
                      THEN filled ELSE [filled EXCEPT ![list] = @ + 1]
  /\ UNCHANGED <<file, list, iedN, doN, objs, len, mem, service>>

ListLoaded ==
  /\ pc = "points"
  /\ file.has104
  /\ Announced
  /\ filled[list] = Len(Entries) \/ Full(list)
  /\ IF list < Len(List) THEN list' = list + 1 /\ UNCHANGED pc
                         ELSE pc' = "map" /\ UNCHANGED list
  /\ UNCHANGED <<file, filled, iedN, doN, objs, len, mem, service>>

(***************************************************************************)
(* rh_mem_map_init                                                         *)
(***************************************************************************)
CurIed == file.ieds[iedN + 1]
CurDo  == CurIed.dos[doN + 1]

(* no templates, or no device announced: -1 *)
MapBegin ==
  /\ pc = "map"
  /\ pc' = IF file.hasTemplates /\ file.num > 0 THEN "ied" ELSE "failed"
  /\ UNCHANGED <<file, list, filled, iedN, doN, objs, len, mem, service>>

(* the next IED node; devices past the number announced are left out, but   *)
(* even they need a tag                                                     *)
MapIed ==
  /\ pc = "ied"
  /\ pc' = IF iedN = Len(file.ieds) THEN "alloc"
           ELSE IF CurIed.lacks = "tag" THEN "failed"
           ELSE IF iedN >= file.num THEN "alloc"
           ELSE IF CurIed.lacks = "pn" \/ CurIed.num <= 0 THEN "failed"
           ELSE "do"
  /\ doN' = 0
  /\ UNCHANGED <<file, list, filled, iedN, objs, len, mem, service>>

(* the items of an object that are read, of its own or of its template *)
Loaded(d) == IF d.num <= 0 THEN <<>> ELSE SubSeq(d.items, 1, Min({d.num, Len(d.items)}))

(* an item that has to be read lacks something: -1 *)
Broken(d) == d.lacks = "item" /\ Len(d.items) < d.num

(* mutants of MapDo: the length of the object is not added; it is added     *)
(* before the object gets its offset                                        *)
MapDoSame ==
  /\ pc = "do"
  /\ doN < Len(CurIed.dos) /\ doN < CurIed.num
  /\ CurDo.lacks # "attribute" /\ ~Broken(CurDo)
  /\ objs' = Append(objs, [offset |-> len, len |-> CurDo.len, items |-> Loaded(CurDo),
                           junk |-> Len(CurDo.items) < CurDo.num])
  /\ doN' = doN + 1
  /\ UNCHANGED <<file, pc, list, filled, iedN, len, mem, service>>

MapDoAfter ==
  /\ pc = "do"
  /\ doN < Len(CurIed.dos) /\ doN < CurIed.num
  /\ CurDo.lacks # "attribute" /\ ~Broken(CurDo)
  /\ objs' = Append(objs, [offset |-> len + CurDo.len, len |-> CurDo.len, items |-> Loaded(CurDo),
                           junk |-> Len(CurDo.items) < CurDo.num])
  /\ len' = len + CurDo.len
  /\ doN' = doN + 1
  /\ UNCHANGED <<file, pc, list, filled, iedN, mem, service>>

(* The next object of the device. Its tables have room for as many items as *)
(* it announces and are not cleared: what was not read is junk.             *)
MapDo ==
  /\ pc = "do"
  /\ doN < Len(CurIed.dos) /\ doN < CurIed.num
  /\ CurDo.lacks # "attribute" /\ ~Broken(CurDo)
  /\ objs' = Append(objs, [offset |-> len, len |-> CurDo.len, items |-> Loaded(CurDo),
                           junk |-> Len(CurDo.items) < CurDo.num])
  /\ len' = len + CurDo.len
  /\ doN' = doN + 1
  /\ UNCHANGED <<file, pc, list, filled, iedN, mem, service>>

(* A missing attribute or template: -1, and no item of the object can be    *)
(* found. An item that lacks something: -1 before the length is added and   *)
(* before any item gets into pDotList_698, but the object is in the index.  *)
MapDoFails ==
  /\ pc = "do"
  /\ doN < Len(CurIed.dos) /\ doN < CurIed.num
  /\ \/ CurDo.lacks = "attribute" /\ UNCHANGED objs
     \/ Broken(CurDo)
        /\ objs' = Append(objs, [offset |-> len, len |-> 0, items |-> <<>>, junk |-> TRUE])
  /\ pc' = "failed"
  /\ UNCHANGED <<file, list, filled, iedN, doN, len, mem, service>>

IedMapped ==
  /\ pc = "do"
  /\ doN = Len(CurIed.dos) \/ doN >= CurIed.num
  /\ iedN' = iedN + 1
  /\ pc' = "ied"
  /\ UNCHANGED <<file, list, filled, doN, objs, len, mem, service>>

(***************************************************************************)
(* rh_mem_init, its end, and main                                          *)
(***************************************************************************)

(* mutant of MemAlloc: the service thread starts without the test for NULL *)
MemAllocUntested ==
  /\ pc = "alloc"
  /\ mem' \in {len, None}
  /\ pc' = "up"
  /\ service' = TRUE
  /\ UNCHANGED <<file, list, filled, iedN, doN, objs, len>>

(* s_pDataMem = malloc(malloc_len), which may fail; el_dbase_init. A total  *)
(* below 0 is taken for an error of rh_mem_map_init.                        *)
MemAlloc ==
  /\ pc = "alloc"
  /\ \/ len >= 0 /\ mem' = len /\ pc' = "up" /\ service' = TRUE
     \/ pc' = "failed" /\ UNCHANGED <<mem, service>>
  /\ UNCHANGED <<file, list, filled, iedN, doN, objs, len>>

(* the bytes that main's write to an item touches, whatever the item's len *)
Touched(o, k) ==
  (o.offset + o.items[k].offset) .. (o.offset + o.items[k].offset + Datalen - 1)

Outside(o, k) == ~(Touched(o, k) \subseteq 0 .. (mem - 1))

(* main does not look at what rh_mem_init returned: a write to an item that *)
(* is in the index goes to s_pDataMem, even when that is NULL. Outside of   *)
(* s_pDataMem, or where junk is taken for the item, it may be deadly. The   *)
(* reads of main go the same way and no further.                            *)
MainWrite ==
  /\ pc \in {"up", "failed"}
  /\ \E i \in DOMAIN objs :
       \/ objs[i].junk /\ pc' \in {pc, "crashed"}
       \/ \E k \in DOMAIN objs[i].items :
            pc' \in IF mem = None THEN {"crashed"}
                   ELSE IF Outside(objs[i], k) THEN {pc, "crashed"} ELSE {pc}
  /\ UNCHANGED <<file, list, filled, iedN, doN, objs, len, mem, service>>

(* a telemetry list was written past its allocation *)
Overrun(l) == List[l] # "ID" /\ filled[l] > 0 /\ filled[l] > file.lists[l].num

(* what the heap keeps behind a list is gone: malloc or free may abort *)
HeapDeath ==
  /\ pc # "crashed"
  /\ \E l \in DOMAIN filled : Overrun(l)
  /\ pc' = "crashed"
  /\ UNCHANGED <<file, list, filled, iedN, doN, objs, len, mem, service>>

Next ==
  \/ NoPoints \/ BadNum \/ LoadEntry \/ ListLoaded
  \/ MapBegin \/ MapIed \/ MapDo \/ MapDoFails \/ IedMapped
  \/ MemAlloc
  \/ MainWrite \/ HeapDeath

Spec == Init /\ [][Next]_vars

(***************************************************************************)
(* Properties.                                                             *)
(***************************************************************************)
Obj == [offset : Int, len : Int, items : Seq(Item), junk : BOOLEAN]

(* Every variable has its type. *)
TypeOK ==
  /\ file \in Files
  /\ pc \in {"points", "map", "ied", "do", "alloc", "up", "failed", "crashed"}
  /\ list \in 1 .. Len(List)
  /\ filled \in [1 .. Len(List) -> Nat]
  /\ iedN \in 0 .. Len(file.ieds)
  /\ doN \in Nat
  /\ objs \in Seq(Obj)
  /\ len \in Int
  /\ mem \in Nat \cup {None}
  /\ service \in BOOLEAN

(* no object that was placed has a negative length *)
NoMinus == \A i \in DOMAIN objs : objs[i].len >= 0

(* rh_mem_map_init gives no byte away twice: unless an object has a         *)
(* negative length, the objects of all devices follow each other, and none  *)
(* reaches past the bytes that are counted.                                 *)
ObjectsApart ==
  NoMinus =>
    \A i \in DOMAIN objs :
      /\ objs[i].offset >= 0
      /\ objs[i].offset + objs[i].len <= len
      /\ \A j \in DOMAIN objs : i < j => objs[i].offset + objs[i].len <= objs[j].offset

(* When the service thread runs, s_pDataMem is there and, unless an object  *)
(* has a negative length, is long enough for every object a request can     *)
(* name.                                                                    *)
ServiceHasMemory ==
  service => /\ mem # None
             /\ NoMinus => \A i \in DOMAIN objs : objs[i].offset + objs[i].len <= mem

(* An item that keeps within its object shares no byte with an item of      *)
(* another object, of the same device or of another, that does, unless some *)
(* object has a negative length: the locks of two devices never guard the   *)
(* same bytes.                                                              *)
Fits(o, k) == o.items[k].offset >= 0 /\ o.items[k].offset + o.items[k].len <= o.len

Bytes(o, k) ==
  (o.offset + o.items[k].offset) .. (o.offset + o.items[k].offset + o.items[k].len - 1)

ItemsApart ==
  NoMinus =>
    \A i, j \in DOMAIN objs : i < j =>
      \A a \in DOMAIN objs[i].items, b \in DOMAIN objs[j].items :
        Fits(objs[i], a) /\ Fits(objs[j], b) =>
          Bytes(objs[i], a) \cap Bytes(objs[j], b) = {}

(* the doTypes are proper: no length is negative, and the items of an       *)
(* object keep within it and apart                                          *)
ProperTypes ==
  /\ NoMinus
  /\ \A i \in DOMAIN objs : \A a, b \in DOMAIN objs[i].items :
       /\ Fits(objs[i], a)
       /\ a = b \/ Bytes(objs[i], a) \cap Bytes(objs[i], b) = {}

(* When the service thread runs and the doTypes are proper, the index is    *)
(* sound: every item lies in s_pDataMem, and no two items share a byte,     *)
(* whatever devices and objects the file has.                               *)
IndexSound ==
  service /\ ProperTypes =>
    \A i, j \in DOMAIN objs : \A a \in DOMAIN objs[i].items, b \in DOMAIN objs[j].items :
      /\ Bytes(objs[i], a) \subseteq 0 .. (mem - 1)
      /\ (i = j /\ a = b) \/ Bytes(objs[i], a) \cap Bytes(objs[j], b) = {}

(* A telemetry list is never written more than one entry past its           *)
(* allocation, and only when the file has more points than it announces;    *)
(* the ID list never is.                                                    *)
OverrunByOne ==
  \A l \in DOMAIN filled :
    filled[l] > 0 =>
      \/ filled[l] <= file.lists[l].num
      \/ List[l] # "ID" /\ filled[l] = file.lists[l].num + 1
           /\ Len(file.lists[l].lacks) > file.lists[l].num

(* What rhApp may die of. Of its lists: one that says no num, an entry of   *)
(* YM or ID that lacks an attribute, or one entry too many. Of main, which  *)
(* goes on whatever rh_mem_init returned: an item that is in the index when *)
(* rh_mem_init gave up before s_pDataMem was there, an item that main's     *)
(* write does not fit in s_pDataMem, or an object with fewer items than it  *)
(* announces. A program whose service thread was started dies of the        *)
(* overrun of a list, of an item out of place or of a short object only:    *)
(* the other causes leave it without the thread.                            *)
KilledByList ==
  ~service /\ objs = <<>> /\
    (\/ ~file.lists[list].hasNum
     \/ filled[list] < Len(Entries) /\ Deadly(list, Entries[filled[list] + 1]))

KilledByMain ==
  \E i \in DOMAIN objs :
    \/ objs[i].junk
    \/ objs[i].items # <<>> /\ mem = None /\ ~service
    \/ mem # None /\ \E k \in DOMAIN objs[i].items : Outside(objs[i], k)

CrashExplained ==
  pc = "crashed" =>
    \/ KilledByList
    \/ \E l \in DOMAIN filled : Overrun(l)
    \/ KilledByMain

(***************************************************************************)
(* The inductive invariant: objects are put one behind the other, and the  *)
(* service thread is started last.                                         *)
(***************************************************************************)
MapInv ==
  /\ TypeOK
  /\ ObjectsApart
  /\ NoMinus => len >= 0
  /\ pc = "do" => iedN < Len(file.ieds)
  /\ service => pc \in {"up", "crashed"} /\ mem = len /\ len >= 0
=============================================================================
