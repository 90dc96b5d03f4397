----------------------------- MODULE EnergyLoss -----------------------------
(* The line-loss task of elAPP (elMeter.c, elTask.c), its calls and the     *)
(* part of rhApp that serves them. Once a minute elTaskProc reads the       *)
(* energy registers of every meter from rhApp, adds what was used since the *)
(* last reading to the total of the meter's level, compares each level with *)
(* the next one and writes the result back. Every read and every write is a *)
(* remote call: it is open while rhApp may serve it, may time out before it *)
(* is served or after, and may be served after it timed out (module Rpc).   *)
(* Either application may die and start again. Energy is counted in         *)
(* hundredths, the precision meter_ene_update works in.                     *)
EXTENDS MeterPara, FiniteSets, FiniteSetsExt

CONSTANTS
  Files,        \* what meter.xml may hold
  LevMax,       \* METER_LEV_MAX: levels are 0 .. LevMax - 1
  NReg,         \* registers read from a meter: 8 in DI_ENERGY
  NPhase,       \* EL_MAX_PHASES: the first NPhase registers make the statistics
  Item,         \* the fields of EL_UNIT_T in the order they are written
  BeyondUse,    \* what s_EneUseUp[METER_LEV_MAX] may read, past the end of the array
  NaN,          \* the float that is no number
  StartReg,     \* what the meters may show when the applications start
  MaxBurn,      \* bound: energy used per register
  MaxUpset      \* bound: failed calls, replaced meters and restarts together

Lev   == 0 .. (LevMax - 1)
Reg   == 1 .. NReg
Phase == 1 .. NPhase

ASSUME ELConstAssumption ==
  /\ LevMax \in Nat \ {0}
  /\ NReg \in Nat /\ NPhase \in 1 .. NReg
  /\ Item \in Seq({"sup", "sal", "deliv", "dist", "ratio", "flag"}) /\ Item # <<>>
  /\ NaN \notin Int /\ BeyondUse \subseteq Int \cup {NaN}
  /\ StartReg \subseteq Nat
  /\ MaxBurn \in Nat /\ MaxUpset \in Nat

(* no entry names a number outside g_ParaMet (ParaLoad shows what if one does) *)
ASSUME FilesAssumption ==
  \A f \in Files : IsFile(f) /\ meter_para_load(f).stray = {}

VARIABLES
  file,         \* meter.xml
  para,         \* g_ParaMet
  bak,          \* s_MetDataBak; s_MetData is overwritten by each reading before its use
  use,          \* s_EneUseUp[level]
  stat,         \* elStatis[level]
  at,           \* where elTaskProc is
  ans,          \* the answer elTaskProc may take next: to which call, and its value
  late,         \* a call that ended without an answer and that rhApp may still serve
  reg,          \* reg[m][r]: register r of meter m in rhApp's data memory
  stored,       \* stored[m][p]: the 6051 items of meter m in rhApp's data memory
  meter,        \* meter[m][r]: what the meter itself shows
  nreplace,     \* meters replaced
  nupset,       \* failures, replacements and restarts
  burned,       \* history: energy really used
  counted,      \* history: energy of meter m added to the total of its level
  first, last,  \* history: burned when the first and the last reading were taken
  acked         \* history: items of this round's statistics rhApp has confirmed

elVars   == <<bak, use, stat>>
memVars  == <<reg, stored>>
histVars == <<counted, first, last>>
vars == <<file, para, elVars, at, ans, late, memVars, meter, nreplace, nupset,
          burned, histVars, acked>>

NotRead == -1

Zero == [m \in Metid |-> [r \in Reg |-> 0]]

NoReading == [m \in Metid |-> [r \in Reg |-> NotRead]]

(* An item of the data memory: its value, and burned when it was put there. *)
(* rh_mem_init clears the memory.                                           *)
Cleared == [v |-> 0, b |-> NotRead]

NoItems == [m \in Metid |-> [r \in Reg |-> Cleared]]

(* the ratio is kept as the fraction it is; 0 is 0/1 *)
NoStat == [sup |-> 0, sal |-> 0, deliv |-> 0, dist |-> 0, ratio |-> <<0, 1>>, flag |-> 0]

NoStats == [l \in Lev |-> [p \in Phase |-> NoStat]]

NothingStored == [m \in Metid |-> [p \in Phase |-> NoStat]]

(* meter_level_check; EMPTY_METER is tested before each call *)
AtLevel(l) == {m \in Metid : para[m].port # 0 /\ para[m].level = l}

(***************************************************************************)
(* Places of the task: asleep, in el_read_data for a register, about to    *)
(* compute, in el_write_data for an item.                                  *)
(***************************************************************************)
Sleep == [at |-> "sleep"]
Read(m, r) == [at |-> "read", m |-> m, r |-> r]
Proc == [at |-> "proc"]
Write(l, p, i) == [at |-> "write", l |-> l, p |-> p, i |-> i]

(* the meters meter_data_update reads, and the one after (m, r) in its loop *)
Polled == {m \in Metid : para[m].port # 0 /\ para[m].level < LevMax}

ReadMeter(S) == IF S = {} THEN Proc ELSE Read(Min(S), 1)

AfterRead(m, r) ==
  IF r < NReg THEN Read(m, r + 1) ELSE ReadMeter({n \in Polled : n > m})

(* el_statis_save writes the levels that have a meter, to their first meter *)
FirstMet(l) == Min(AtLevel(l))

WriteLevel(S) == IF S = {} THEN Sleep ELSE Write(Min(S), 1, 1)

Saved == {l \in Lev : AtLevel(l) # {}}

AfterWrite(l, p, i) ==
  IF i < Len(Item) THEN Write(l, p, i + 1)
  ELSE IF p < NPhase THEN Write(l, p + 1, 1)
  ELSE WriteLevel({k \in Saved : k > l})

(***************************************************************************)
(* Calls. An answer tells which call it belongs to; own is FALSE when an   *)
(* application has died since. The frame index of an elAPP that starts     *)
(* starts at 0, so that its calls have the indices of the same calls of    *)
(* the one that died; what an rhApp that died had stored is gone. A late   *)
(* call holds what a write carries.                                        *)
(***************************************************************************)
NoAns  == [of |-> Sleep, item |-> Cleared, own |-> FALSE]
NoLate == [of |-> Sleep, unit |-> NoStat, old |-> FALSE]

Calling == at.at \in {"read", "write"}

Served == ans.of = at /\ ans.own

(* the call that the task makes, given up by it or by its death *)
Pending(old) ==
  [of |-> at, unit |-> IF at.at = "write" THEN stat[at.l][at.p] ELSE NoStat, old |-> old]

(* a call of the dead process is served like any other *)
ItemOf(call) == IF call.at = "read" THEN reg[call.m][call.r] ELSE Cleared

StoreUnit(call, unit) ==
  IF call.at = "write"
  THEN stored' = [stored EXCEPT ![FirstMet(call.l)][call.p][Item[call.i]] = unit[Item[call.i]]]
  ELSE UNCHANGED stored

(* el_init: meter_data_init, meter_para_load, el_statis_init *)
Init ==
  /\ file \in Files
  /\ para = meter_para_load(file).tab
  /\ bak = Zero
  /\ use = [l \in Lev |-> [r \in Reg |-> 0]]
  /\ stat = NoStats
  /\ at = Sleep
  /\ ans = NoAns
  /\ late = NoLate
  /\ reg = NoItems
  /\ stored = NothingStored
  /\ meter \in [Metid -> [Reg -> StartReg]]
  /\ nreplace = 0
  /\ nupset = 0
  /\ burned = Zero
  /\ counted = Zero
  /\ first = NoReading
  /\ last = NoReading
  /\ acked = {}

Upset ==
  /\ nupset < MaxUpset
  /\ nupset' = nupset + 1

(***************************************************************************)
(* The meters, and rhApp: main puts what they show into the data memory,   *)
(* the service thread serves elAPP's calls.                                *)
(***************************************************************************)
Consume(m, r) ==
  /\ burned[m][r] < MaxBurn
  /\ meter' = [meter EXCEPT ![m][r] = @ + 1]
  /\ burned' = [burned EXCEPT ![m][r] = @ + 1]
  /\ UNCHANGED <<file, para, elVars, at, ans, late, memVars, nreplace, nupset, histVars, acked>>

(* a new meter is installed, or the registers wrap: they start again at 0 *)
Replace(m) ==
  /\ Upset
  /\ nreplace' = nreplace + 1
  /\ meter' = [meter EXCEPT ![m] = [r \in Reg |-> 0]]
  /\ UNCHANGED <<file, para, elVars, at, ans, late, memVars, burned, histVars, acked>>

(* rh_mem_data_write_oop by main *)
Refresh(m, r) ==
  /\ reg' = [reg EXCEPT ![m][r] = [v |-> meter[m][r], b |-> burned[m][r]]]
  /\ UNCHANGED <<file, para, elVars, at, ans, late, stored, meter, nreplace, nupset,
                 burned, histVars, acked>>

(* mutant of Serve: a call that came before is kept for later *)
ServeKeepsLate ==
  /\ Calling
  /\ ~Served
  /\ ans' = [of |-> at, item |-> ItemOf(at), own |-> TRUE]
  /\ StoreUnit(at, Pending(FALSE).unit)
  /\ UNCHANGED <<file, para, elVars, at, late, reg, meter, nreplace, nupset,
                 burned, histVars, acked>>

(* read_mem_data or write_mem_data for the open call. The service thread    *)
(* has one message at a time: it is done with any call that came before.    *)
Serve ==
  /\ Calling
  /\ ~Served
  /\ ans' = [of |-> at, item |-> ItemOf(at), own |-> TRUE]
  /\ StoreUnit(at, Pending(FALSE).unit)
  /\ late' = NoLate
  /\ UNCHANGED <<file, para, elVars, at, reg, meter, nreplace, nupset, burned, histVars, acked>>

(* the same for a call whose caller has given up or has died *)
ServeLate ==
  /\ late.of # Sleep
  /\ ans' = IF late.old THEN [of |-> late.of, item |-> ItemOf(late.of), own |-> FALSE] ELSE ans
  /\ StoreUnit(late.of, late.unit)
  /\ late' = NoLate
  /\ UNCHANGED <<file, para, elVars, at, reg, meter, nreplace, nupset, burned, histVars, acked>>

(* rhApp dies with the message it is serving and starts with empty memory;  *)
(* an answer it had sent may already be on its way into elAPP's buffer      *)
RhRestart ==
  /\ Upset
  /\ ans' = [ans EXCEPT !.own = FALSE]
  /\ reg' = NoItems
  /\ stored' = NothingStored
  /\ late' = NoLate
  /\ acked' = {}
  /\ UNCHANGED <<file, para, elVars, at, meter, nreplace, burned, histVars>>

(***************************************************************************)
(* elTaskProc.                                                             *)
(***************************************************************************)

(* nTicks > 60: a round begins *)
Wake ==
  /\ at = Sleep
  /\ at' = ReadMeter(Polled)
  /\ UNCHANGED <<file, para, elVars, ans, late, memVars, meter, nreplace, nupset,
                 burned, histVars, acked>>

(* mutants of meter_ene_update: a lower reading is not refused; the backup  *)
(* is not renewed; it is renewed before the difference is taken; a first    *)
(* reading is charged as if it came after one of 0                          *)
meter_ene_update_signed(c, b) ==
  IF b = 0 THEN [used |-> 0, bak |-> c] ELSE [used |-> c - b, bak |-> c]

meter_ene_update_again(c, b) ==
  IF c < b THEN [used |-> 0, bak |-> b]
  ELSE IF b = 0 THEN [used |-> 0, bak |-> c]
  ELSE [used |-> c - b, bak |-> b]

meter_ene_update_early(c, b) ==
  IF c < b THEN [used |-> 0, bak |-> b] ELSE [used |-> 0, bak |-> c]

meter_ene_update_first(c, b) ==
  IF c < b THEN [used |-> 0, bak |-> b] ELSE [used |-> c - b, bak |-> c]

(* what was used since the backup b, and the new backup *)
meter_ene_update(c, b) ==
  IF c < b THEN [used |-> 0, bak |-> b]
  ELSE IF b = 0 THEN [used |-> 0, bak |-> c]
  ELSE [used |-> c - b, bak |-> c]

(* an answer to this call can be taken once: the next has another index *)
Forget == ans' = IF ans.of = at THEN NoAns ELSE ans

(* el_read_data returns the item; the rest of the turn touches only this    *)
(* thread's own state. 0 is no reading: see NothingLost.                    *)
ReadOk ==
  /\ at.at = "read"
  /\ ans.of = at
  /\ LET m    == at.m
         r    == at.r
         item == ans.item
         upd  == meter_ene_update(item.v, bak[m][r])
     IN  /\ bak' = [bak EXCEPT ![m][r] = upd.bak]
         /\ use' = [use EXCEPT ![para[m].level][r] = @ + upd.used]
         /\ counted' = [counted EXCEPT ![m][r] = @ + upd.used]
         /\ first' = [first EXCEPT ![m][r] =
                        IF @ = NotRead /\ item.v # 0 THEN item.b ELSE @]
         /\ last' = [last EXCEPT ![m][r] = IF item.v # 0 THEN item.b ELSE @]
         /\ at' = AfterRead(m, r)
  /\ Forget
  /\ UNCHANGED <<file, para, stat, late, memVars, meter, nreplace, nupset, burned, acked>>

(* a call returns -1, -3 or -4; the last one may still be served *)
Fail ==
  /\ Upset
  /\ Forget
  /\ late' \in IF Served THEN {late} ELSE {late, Pending(FALSE)}

ReadFail ==
  /\ at.at = "read"
  /\ Fail
  /\ at' = AfterRead(at.m, at.r)
  /\ UNCHANGED <<file, para, elVars, memVars, meter, nreplace, burned, histVars, acked>>

(* mutant of el_ene_get: levels are counted from 1 *)
el_ene_get_from1(l, p, beyond) == IF l + 1 < LevMax THEN use[l + 1][p] ELSE beyond

(* el_ene_get(level, nPhase): level + 1 may be one past the array *)
el_ene_get(l, p, beyond) == IF l < LevMax THEN use[l][p] ELSE beyond

(* comparing with NaN gives false, subtracting it NaN *)
Negative(x) == x # NaN /\ x < 0

Minus(x, y) == IF NaN \in {x, y} THEN NaN ELSE x - y

(* one turn of el_statis_proc; deliv, dist and flag are never computed *)
LossOf(l, p, beyond) ==
  LET sup == el_ene_get(l, p, beyond)
      sal == el_ene_get(l + 1, p, beyond)
  IN  IF AtLevel(l + 1) = {} \/ sup = 0 \/ Negative(sup) \/ Negative(sal) THEN stat[l][p]
      ELSE [stat[l][p] EXCEPT !.sup = sup, !.sal = sal, !.ratio = <<Minus(sup, sal), sup>>]

el_statis_proc ==
  /\ at = Proc
  /\ \E beyond \in [Phase -> BeyondUse] :
       stat' = [l \in Lev |-> [p \in Phase |-> LossOf(l, p, beyond[p])]]
  /\ at' = WriteLevel(Saved)
  /\ acked' = {}
  /\ UNCHANGED <<file, para, bak, use, ans, late, memVars, meter, nreplace, nupset,
                 burned, histVars>>

(* mutant of NextItem: the last item is not written *)
NextItemShort ==
  at' = IF at.i + 1 < Len(Item) THEN Write(at.l, at.p, at.i + 1)
                                ELSE AfterWrite(at.l, at.p, Len(Item))

NextItem == at' = AfterWrite(at.l, at.p, at.i)

(* one el_write_data of el_statis_save: answered, or not; the result is     *)
(* ignored                                                                  *)
el_statis_save ==
  /\ at.at = "write"
  /\ \/ /\ ans.of = at
        /\ Forget
        /\ acked' = IF ans.own THEN acked \cup {<<at.l, at.p, at.i>>} ELSE acked
        /\ UNCHANGED <<late, nupset>>
     \/ /\ Fail
        /\ UNCHANGED acked
  /\ NextItem
  /\ UNCHANGED <<file, para, elVars, memVars, meter, nreplace, burned, histVars>>

(* what is left of a call under way when elAPP dies *)
Orphan ==
  /\ ans' = [ans EXCEPT !.own = FALSE]
  /\ late' \in {[late EXCEPT !.old = TRUE]} \cup
               (IF Calling /\ ~Served THEN {Pending(TRUE)} ELSE {})

(* elAPP dies anywhere and is started again: el_init clears its tables *)
Restart ==
  /\ Upset
  /\ Orphan
  /\ para' = meter_para_load(file).tab
  /\ bak' = Zero
  /\ use' = [l \in Lev |-> [r \in Reg |-> 0]]
  /\ stat' = NoStats
  /\ at' = Sleep
  /\ counted' = Zero
  /\ first' = NoReading
  /\ last' = NoReading
  /\ acked' = {}
  /\ UNCHANGED <<file, memVars, meter, nreplace, burned>>

Task == Wake \/ ReadOk \/ ReadFail \/ el_statis_proc \/ el_statis_save

Next ==
  \/ \E m \in Polled, r \in Reg : Consume(m, r) \/ Refresh(m, r)
  \/ \E m \in Polled : Replace(m)
  \/ Serve
  \/ ServeLate
  \/ RhRestart
  \/ Task
  \/ Restart

Spec == Init /\ [][Next]_vars

(* The task thread sleeps a second at a time and is never blocked for good: *)
(* every remote call returns (CallReturns of module Channel). rhApp's       *)
(* service thread goes back to polling (ServiceResumes) and serves.         *)
FairSpec == Spec /\ WF_vars(Task) /\ WF_vars(Serve)

(***************************************************************************)
(* Properties.                                                             *)
(***************************************************************************)

(* Every variable has its type. *)
Float == Int \cup {NaN}

Stat == [sup : Int, sal : Float, deliv : {0}, dist : {0}, ratio : Float \X Int, flag : {0}]

Reading == [v : Nat, b : Nat \cup {NotRead}]

Call == {Read(m, r) : m \in Polled, r \in Reg}
        \cup {Write(l, p, i) : l \in Saved, p \in Phase, i \in 1 .. Len(Item)}

TypeOK ==
  /\ file \in Files
  /\ para = meter_para_load(file).tab /\ para \in Meters
  /\ bak \in [Metid -> [Reg -> Nat]]
  /\ use \in [Lev -> [Reg -> Nat]]
  /\ stat \in [Lev -> [Phase -> Stat]]
  /\ at \in {Sleep, Proc} \cup Call
  /\ ans \in [of : {Sleep} \cup Call, item : Reading, own : BOOLEAN]
  /\ late \in [of : {Sleep} \cup Call, unit : Stat, old : BOOLEAN]
  /\ reg \in [Metid -> [Reg -> Reading]]
  /\ stored \in [Metid -> [Phase -> Stat]]
  /\ meter \in [Metid -> [Reg -> Nat]]
  /\ nupset \in 0 .. MaxUpset
  /\ nreplace \in 0 .. nupset
  /\ burned \in [Metid -> [Reg -> Nat]]
  /\ counted \in [Metid -> [Reg -> Nat]]
  /\ first \in [Metid -> [Reg -> Nat \cup {NotRead}]]
  /\ last \in [Metid -> [Reg -> Nat \cup {NotRead}]]
  /\ acked \in SUBSET (Saved \X Phase \X (1 .. Len(Item)))

(* A meter is never charged for energy it has not used between its first    *)
(* reading and its last one: whatever calls fail, however old the value in  *)
(* rhApp's memory is, whether that memory was cleared or the registers      *)
(* start again at 0 in between, and even when the answer to a call of the   *)
(* elAPP that died is taken, meter_ene_update counts every unit at most     *)
(* once.                                                                    *)
NeverInvented == \A m \in Metid, r \in Reg : counted[m][r] <= last[m][r] - first[m][r]

(* what table c holds for register r of the meters in S, added up *)
Total(c, r, S) == MapThenSumSet(LAMBDA m : c[m][r], S)

(* A meter that is not replaced has been charged, at each reading, for all  *)
(* it has used since its first reading that was not 0.00, even when         *)
(* readings in between failed or found rhApp's memory cleared:              *)
(* meter_ene_update takes a backup of 0 as "not read yet", so what a meter  *)
(* uses before it shows more than 0.00 is not charged, and nothing else is  *)
(* left out.                                                                *)
NothingLost ==
  nreplace = 0 =>
    \A m \in Metid, r \in Reg : counted[m][r] = last[m][r] - first[m][r]

(* what the meters of a level have used since the applications started *)
Used(l, p) == Total(burned, p, AtLevel(l))

(* no energy in unit u of a level but what was used there and, as far as    *)
(* s_EneUseUp goes, at the next level                                       *)
UsedOnly(l, p, u) ==
  /\ u.sup \in 0 .. Used(l, p)
  /\ u.ratio = NoStat.ratio \/ u.ratio[2] \in 1 .. Used(l, p)
  /\ l + 1 \in Lev =>
       /\ u.sal \in 0 .. Used(l + 1, p)
       /\ u.ratio = NoStat.ratio \/ u.ratio[2] - u.ratio[1] \in 0 .. Used(l + 1, p)

(* rhApp never shows more energy supplied or sold at a level than the       *)
(* meters of the level have used, nor a ratio of such energies: not after   *)
(* failed, late or misattributed readings, not after replaced meters or     *)
(* restarts, which leave statistics of the dead elAPP or bring late writes  *)
(* of it. What lies behind s_EneUseUp, NaN included, reaches the energy     *)
(* sold and the ratio of the last level, and nothing else.                  *)
ShownWasUsed ==
  \A l \in Saved, p \in Phase : UsedOnly(l, p, stored[FirstMet(l)][p])

(* rhApp shows item i of a level as elAPP has it *)
Shown(l, p, i) == stored[FirstMet(l)][p][Item[i]] = stat[l][p][Item[i]]

(* An item of the current statistics that rhApp has confirmed is what       *)
(* rhApp shows: no write of an earlier round, or of an elAPP that died,     *)
(* that is served late can replace it.                                      *)
ConfirmedIsStored == \A c \in acked : Shown(c[1], c[2], c[3])

(* all statistics are shown as computed, and those that do not come from    *)
(* behind s_EneUseUp, which may read otherwise every round                  *)
AllShown == \A l \in Saved, p \in Phase, i \in 1 .. Len(Item) : Shown(l, p, i)

UsedShown ==
  \A l \in Saved, p \in Phase, i \in 1 .. Len(Item) :
    l + 1 \in Lev \/ Item[i] \notin {"sal", "ratio"} => Shown(l, p, i)

(* A write that fails is made good by a later round: once no more calls     *)
(* fail, rhApp shows the statistics of elAPP for every level with a meter,  *)
(* after every round, and once no more energy is used, all the time.        *)
SavedEventually == []<>AllShown /\ <>[]UsedShown

(* What elAPP does to a meter's account is what module Ledger allows: open  *)
(* it at a point of the meter's use, move it on to a later one and charge   *)
(* no more than lies between, or forget all accounts.                       *)
Account == INSTANCE Ledger
  WITH Registers <- Metid \X Reg,
       NotOpen   <- NotRead,
       used      <- [a \in Metid \X Reg |-> burned[a[1]][a[2]]],
       from      <- [a \in Metid \X Reg |-> first[a[1]][a[2]]],
       upto      <- [a \in Metid \X Reg |-> last[a[1]][a[2]]],
       charged   <- [a \in Metid \X Reg |-> counted[a[1]][a[2]]]

LedgerSpec == Account!Spec

(***************************************************************************)
(* The inductive invariant behind NeverInvented. A reading is a pair of a  *)
(* value and of what was used by then. Of two readings of one register     *)
(* the later one never shows more than was used in between; the account    *)
(* of a register stands before every reading it may still be given.        *)
(***************************************************************************)
Older(s, t) == s.b <= t.b /\ t.v + s.b <= s.v + t.b

Now(m, r) == [v |-> meter[m][r], b |-> burned[m][r]]

Filled(item) == item.b # NotRead

(* the account of (m, r) can be moved on to reading t *)
Before(m, r, t) ==
  /\ last[m][r] <= t.b
  /\ bak[m][r] # 0 => counted[m][r] + first[m][r] + t.v <= t.b + bak[m][r]

ChargeTypes ==
  /\ bak \in [Metid -> [Reg -> Nat]]
  /\ meter \in [Metid -> [Reg -> Nat]]
  /\ burned \in [Metid -> [Reg -> Nat]]
  /\ counted \in [Metid -> [Reg -> Nat]]
  /\ first \in [Metid -> [Reg -> Nat \cup {NotRead}]]
  /\ last \in [Metid -> [Reg -> Nat \cup {NotRead}]]
  /\ reg \in [Metid -> [Reg -> Reading]]
  /\ at.at = "read" => at = Read(at.m, at.r)

(* the account opens with the first backup, and covers what it charges *)
AccountAt(m, r) ==
  /\ bak[m][r] = 0 <=> first[m][r] = NotRead
  /\ first[m][r] = NotRead => counted[m][r] = 0 /\ last[m][r] = NotRead
  /\ counted[m][r] + first[m][r] <= last[m][r]
  /\ Before(m, r, Now(m, r))

(* a cleared item reads 0; any other was shown by the meter after the last  *)
(* reading that was counted                                                 *)
MemoryAt(m, r) ==
  IF Filled(reg[m][r]) THEN Older(reg[m][r], Now(m, r)) /\ Before(m, r, reg[m][r])
                       ELSE reg[m][r].v = 0

(* so it is with an answer, which is no younger than the memory *)
AnswerAt(m, r) ==
  ans.of = Read(m, r) =>
    /\ ans.item \in Reading
    /\ IF Filled(ans.item)
       THEN /\ Older(ans.item, Now(m, r)) /\ Before(m, r, ans.item)
            /\ Filled(reg[m][r]) => Older(ans.item, reg[m][r])
       ELSE ans.item.v = 0

ChargeAt(m, r) == AccountAt(m, r) /\ MemoryAt(m, r) /\ AnswerAt(m, r)

ChargeInv == ChargeTypes /\ \A m \in Metid, r \in Reg : ChargeAt(m, r)

(***************************************************************************)
(* The inductive invariant behind NothingLost: while no meter is replaced, *)
(* what a meter shows and what it has used move together, so that every    *)
(* reading, the backup included, lies on one line with them.               *)
(***************************************************************************)
InStep(m, r, v, b) == v + burned[m][r] = meter[m][r] + b

ExactAt(m, r) ==
  /\ Filled(reg[m][r]) => InStep(m, r, reg[m][r].v, reg[m][r].b)
  /\ ans.of = Read(m, r) /\ Filled(ans.item) => InStep(m, r, ans.item.v, ans.item.b)
  /\ bak[m][r] # 0 => /\ InStep(m, r, bak[m][r], last[m][r])
                      /\ counted[m][r] + first[m][r] = last[m][r]

ExactInv == nreplace = 0 => \A m \in Metid, r \in Reg : ExactAt(m, r)

(***************************************************************************)
(* The inductive invariant behind ConfirmedIsStored: an answer of this     *)
(* elAPP and of this rhApp is to the call under way, and once a write of   *)
(* the round is served no older write is left to be served.                *)
(***************************************************************************)
ServedWrite == ans.own /\ at.at = "write"

ConfirmInv ==
  /\ ans.own => Calling /\ ans.of = at
  /\ ServedWrite => Shown(at.l, at.p, at.i)
  /\ acked # {} \/ ServedWrite =>
       (late.of.at = "write" => late.unit = stat[late.of.l][late.of.p])
  /\ ConfirmedIsStored

(***************************************************************************)
(* The inductive invariant behind ShownWasUsed: the total of a level is    *)
(* what its meters were charged for, and what elAPP has computed, or has   *)
(* left behind in a call, is as sound as what rhApp shows.                 *)
(***************************************************************************)
LevelTotals == \A l \in Lev, r \in Reg : use[l][r] = Total(counted, r, AtLevel(l))

UsedInv ==
  /\ LevelTotals
  /\ \A l \in Lev, p \in Phase : UsedOnly(l, p, stat[l][p])
  /\ late.of.at = "write" => UsedOnly(late.of.l, late.of.p, late.unit)
  /\ ShownWasUsed

(* The accounts and what is shown of them are sound: every variable has its *)
(* type, every account stands before the readings it may still be given,    *)
(* what is charged follows the meters exactly, what rhApp confirmed cannot  *)
(* be replaced by an older write, and totals and statistics are made of     *)
(* energy that was used.                                                    *)
EnergyInv == TypeOK /\ ChargeInv /\ ExactInv /\ ConfirmInv /\ UsedInv

=============================================================================
