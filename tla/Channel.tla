------------------------------ MODULE Channel ------------------------------
(* The message channel of rh_msg_channel.c and the threads that use it.     *)
(* Every application attaches one System V segment (key EL_KEY_ID) that     *)
(* holds ONE message, the slot. An application has two threads: the caller  *)
(* (el_read_data / el_write_data -> SmMsgSendWait) and the service thread   *)
(* (elDbaseProc -> SmMsgRecv -> handler -> el_msg_echo -> SmMsgSendEcho).   *)
(* s_lock is allocated by malloc in each process: it orders the two threads *)
(* of one application and nothing between applications.                     *)
EXTENDS Naturals, FiniteSets

CONSTANTS
  App,          \* application names (szSrce, szDest)
  Callers,      \* the applications whose caller thread makes calls
  Peer,         \* Peer[a]: the szDest that a's calls are addressed to
  WaitName,     \* WaitName[a]: the szSrc that a passes to SmMsgSendWait
  CallIop,      \* the operations a caller asks for
  Table,        \* Table[a]: the operations in a's s_dbaseMsgMap
  KeepsIop,     \* applications whose el_msg_echo copies iop (the others copy iid)
  IndexMod,     \* range of the unsigned short frame index: 2^16 in the code
  NWait,        \* polls of SmMsgSendWait before it gives up
  CopyUnits,    \* pieces in which a memcpy of the slot becomes visible
  ShmGetFails,  \* whether shmget may fail
  CanCrash,     \* applications that may crash and be started again
  MaxCalls,     \* bound: number of calls
  MaxCrash      \* bound: number of crashes

Calls  == 1 .. MaxCalls
Fields == {"state", "frame", "names", "body"}
State  == {"zero", "REQ", "ACK", "IDLE"}
Iop    == CallIop \cup {"none", "iid"}
NoApp  == "no app"
Outcome == {"none", "open", "ok", "unsent", "unknown", "lost"}
Index  == 0 .. (IndexMod - 1)

ASSUME ConstAssumption ==
  /\ Callers \subseteq App
  /\ NoApp \notin App
  /\ Peer \in [Callers -> App]
  /\ WaitName \in [Callers -> App]
  /\ Table \in [App -> SUBSET CallIop]
  /\ KeepsIop \subseteq App
  /\ CanCrash \subseteq App
  /\ IndexMod \in Nat \ {0}
  /\ NWait \in Nat \ {0}
  /\ ShmGetFails \in BOOLEAN
  /\ MaxCalls \in Nat
  /\ MaxCrash \in Nat

(* CopyUnits splits the message: every field is copied, by exactly one unit *)
ASSUME CopyAssumption ==
  /\ CopyUnits \subseteq SUBSET Fields
  /\ \A f \in Fields : \E u \in CopyUnits : f \in u

VARIABLES
  slot,         \* the message in shared memory
  up,           \* up[a]: a is running
  lock,         \* lock[a]: the thread of a that holds a's s_lock
  seq,          \* seq[a]: static int seq, as the frame index it yields
  pc, time,     \* caller thread: place in SmMsgSendWait, its loop counter
  req, ret,     \* caller thread: pMsgSend and pMsgRet
  todo,         \* caller thread: units its memcpy has still to move
  dpc, rcv,     \* service thread: place in elDbaseProc, RecvMsg
  dtodo,        \* service thread: units its memcpy has still to move
  ncall,        \* calls made so far
  caller,       \* caller[c]: the application that made call c
  ncrash,       \* crashes so far
  outcome,      \* outcome[c]: how call c ended (Rpc)
  served,       \* served[c]: times the application c asks ran its handler (Rpc)
  answer        \* answer[c]: call whose answer c was given (Rpc)

callVars  == <<seq, pc, time, req, ret, todo>>
dbaseVars == <<dpc, rcv, dtodo>>
histVars  == <<ncall, caller, outcome, served, answer>>
vars == <<slot, up, lock, callVars, dbaseVars, histVars, ncrash>>

(***************************************************************************)
(* Messages. "frame" is sync and index, "names" is szSrce and szDest, and  *)
(* "body" the union msg/ack, of which the operation, the call it belongs   *)
(* to, the application it asks and the one that wrote it are kept.         *)
(***************************************************************************)
Body == [kind : {"none", "msg", "ack"}, iop : Iop, call : 0 .. MaxCalls,
         to : App \cup {NoApp}, by : App \cup {NoApp}]

Msg == [state : State, sync : {0, 1}, index : Index, src : App \cup {NoApp},
        dest : App \cup {NoApp}, body : Body]

Blank == [state |-> "zero", sync |-> 0, index |-> 0, src |-> NoApp, dest |-> NoApp,
          body |-> [kind |-> "none", iop |-> "none", call |-> 0, to |-> NoApp, by |-> NoApp]]

(* one visible piece of memcpy(to, from, sizeof(RH_MSG_BUFFER_T)) *)
Copy(to, from, u) ==
  [state |-> IF "state" \in u THEN from.state ELSE to.state,
   sync  |-> IF "frame" \in u THEN from.sync  ELSE to.sync,
   index |-> IF "frame" \in u THEN from.index ELSE to.index,
   src   |-> IF "names" \in u THEN from.src   ELSE to.src,
   dest  |-> IF "names" \in u THEN from.dest  ELSE to.dest,
   body  |-> IF "body"  \in u THEN from.body  ELSE to.body]

Idle(m) == [m EXCEPT !.state = "IDLE"]

(* pMsgSend of el_read_data / el_write_data *)
Request(a, iop, c) ==
  [state |-> "REQ", sync |-> 1, index |-> seq[a], src |-> a, dest |-> Peer[a],
   body |-> [kind |-> "msg", iop |-> iop, call |-> c, to |-> Peer[a], by |-> a]]

(* pMsgSend of el_msg_echo for the received message m *)
Echo(a, m) ==
  [state |-> "ACK", sync |-> m.sync, index |-> m.index, src |-> a, dest |-> m.src,
   body |-> [kind |-> "ack", iop |-> IF a \in KeepsIop THEN m.body.iop ELSE "iid",
             call |-> m.body.call, to |-> m.body.to, by |-> a]]

Init ==
  /\ slot = Blank
  /\ up = [a \in App |-> FALSE]
  /\ lock = [a \in App |-> "free"]
  /\ seq = [a \in App |-> 0]
  /\ pc = [a \in App |-> "idle"]
  /\ time = [a \in App |-> 0]
  /\ req = [a \in App |-> Blank]
  /\ ret = [a \in App |-> Blank]
  /\ todo = [a \in App |-> {}]
  /\ dpc = [a \in App |-> "poll"]
  /\ rcv = [a \in App |-> Blank]
  /\ dtodo = [a \in App |-> {}]
  /\ ncall = 0
  /\ caller = [c \in Calls |-> NoApp]
  /\ ncrash = 0
  /\ outcome = [c \in Calls |-> "none"]
  /\ served = [c \in Calls |-> 0]
  /\ answer = [c \in Calls |-> 0]

(***************************************************************************)
(* A process starts (el_dbase_init: SmMsgInit, then the service thread) or *)
(* dies with all it held; the segment outlives it. A failed shmat is a     *)
(* death too: it returns the pointer -1 where the code tests for NULL.     *)
(***************************************************************************)
SmMsgInit(a) ==
  /\ ~up[a]
  /\ up' = [up EXCEPT ![a] = TRUE]
  /\ slot' = Idle(slot)
  /\ lock' = [lock EXCEPT ![a] = "free"]
  /\ UNCHANGED <<callVars, dbaseVars, histVars, ncrash>>

Crash(a) ==
  /\ a \in CanCrash
  /\ up[a]
  /\ ncrash < MaxCrash
  /\ ncrash' = ncrash + 1
  /\ up' = [up EXCEPT ![a] = FALSE]
  /\ lock' = [lock EXCEPT ![a] = "free"]
  /\ seq' = [seq EXCEPT ![a] = 0]
  /\ pc' = [pc EXCEPT ![a] = "idle"]
  /\ time' = [time EXCEPT ![a] = 0]
  /\ req' = [req EXCEPT ![a] = Blank]
  /\ ret' = [ret EXCEPT ![a] = Blank]
  /\ todo' = [todo EXCEPT ![a] = {}]
  /\ dpc' = [dpc EXCEPT ![a] = "poll"]
  /\ rcv' = [rcv EXCEPT ![a] = Blank]
  /\ dtodo' = [dtodo EXCEPT ![a] = {}]
  /\ outcome' = [c \in Calls |-> IF caller[c] = a /\ outcome[c] \in {"open", "unknown"}
                                 THEN "lost" ELSE outcome[c]]
  /\ UNCHANGED <<slot, ncall, caller, served, answer>>

(***************************************************************************)
(* The caller thread.                                                      *)
(***************************************************************************)

(* el_read_data / el_write_data up to the call of SmMsgSendWait *)
Call(a, iop) ==
  /\ up[a]
  /\ a \in Callers
  /\ pc[a] = "idle"
  /\ ncall < MaxCalls
  /\ ncall' = ncall + 1
  /\ caller' = [caller EXCEPT ![ncall + 1] = a]
  /\ outcome' = [outcome EXCEPT ![ncall + 1] = "open"]
  /\ req' = [req EXCEPT ![a] = Request(a, iop, ncall + 1)]
  /\ ret' = [ret EXCEPT ![a] = Blank]
  /\ seq' = [seq EXCEPT ![a] = (@ + 1) % IndexMod]
  /\ pc' = [pc EXCEPT ![a] = "lock"]
  /\ UNCHANGED <<slot, up, lock, time, todo, dbaseVars, served, answer, ncrash>>

(* what the caller learns when SmMsgSendWait returns: 0, -1, -3 or -4 *)
Return(a, how) ==
  /\ pc' = [pc EXCEPT ![a] = "idle"]
  /\ outcome' = [outcome EXCEPT ![req[a].body.call] = how]
  /\ answer' = IF how = "ok"
               THEN [answer EXCEPT ![req[a].body.call] = ret[a].body.call]
               ELSE answer

(* shmget fails before the lock is taken: -1 *)
SendWaitNoQue(a) ==
  /\ ShmGetFails
  /\ pc[a] = "lock"
  /\ Return(a, "unsent")
  /\ UNCHANGED <<slot, up, lock, seq, time, req, ret, todo, dbaseVars,
                 ncall, caller, served, ncrash>>

(* mutant of SendWaitLock: s_lock is not waited for *)
SendWaitBarge(a) ==
  /\ pc[a] = "lock"
  /\ lock' = [lock EXCEPT ![a] = "caller"]
  /\ time' = [time EXCEPT ![a] = 0]
  /\ pc' = [pc EXCEPT ![a] = "send"]
  /\ UNCHANGED <<slot, up, seq, req, ret, todo, dbaseVars, histVars, ncrash>>

SendWaitLock(a) ==
  /\ pc[a] = "lock"
  /\ lock[a] = "free"
  /\ lock' = [lock EXCEPT ![a] = "caller"]
  /\ time' = [time EXCEPT ![a] = 0]
  /\ pc' = [pc EXCEPT ![a] = "send"]
  /\ UNCHANGED <<slot, up, seq, req, ret, todo, dbaseVars, histVars, ncrash>>

(* mutant of Tick: the turn that runs out starts the loop again *)
TickAgain(a, again, out) ==
  /\ time' = [time EXCEPT ![a] = (@ + 1) % NWait]
  /\ pc' = [pc EXCEPT ![a] = again]

(* one more turn of a polling loop that comes back to `again' or runs out *)
Tick(a, again, out) ==
  /\ time' = [time EXCEPT ![a] = @ + 1]
  /\ pc' = [pc EXCEPT ![a] = IF time[a] + 1 < NWait THEN again ELSE out]

(* for(time = 0; ...): wait until the slot is idle *)
SendWaitPoll(a) ==
  /\ pc[a] = "send"
  /\ \/ /\ slot.state = "IDLE"
        /\ pc' = [pc EXCEPT ![a] = "put"]
        /\ todo' = [todo EXCEPT ![a] = CopyUnits]
        /\ UNCHANGED time
     \/ /\ slot.state # "IDLE"
        /\ Tick(a, "send", "giveup")
        /\ UNCHANGED todo
  /\ UNCHANGED <<slot, up, lock, seq, req, ret, dbaseVars, histVars, ncrash>>

(* memcpy(pMem, pMsg): the state was tested before, and not under a lock    *)
(* that the other applications share                                        *)
SendWaitPut(a, u) ==
  /\ pc[a] = "put"
  /\ u \in todo[a]
  /\ slot' = Copy(slot, req[a], u)
  /\ todo' = [todo EXCEPT ![a] = @ \ {u}]
  /\ pc' = [pc EXCEPT ![a] = IF todo[a] = {u} THEN "wait" ELSE "put"]
  /\ UNCHANGED <<up, lock, seq, time, req, ret, dbaseVars, histVars, ncrash>>

(* mutant of SendWaitGiveUp: the slot stays occupied *)
SendWaitGiveUpBusy(a) ==
  /\ pc[a] = "giveup"
  /\ lock' = [lock EXCEPT ![a] = "free"]
  /\ Return(a, "unsent")
  /\ UNCHANGED <<slot, up, seq, time, req, ret, todo, dbaseVars, ncall, caller, served, ncrash>>

(* the slot never became idle: it is taken over for the next call, -3 *)
SendWaitGiveUp(a) ==
  /\ pc[a] = "giveup"
  /\ slot' = Idle(slot)
  /\ lock' = [lock EXCEPT ![a] = "free"]
  /\ Return(a, "unsent")
  /\ UNCHANGED <<up, seq, time, req, ret, todo, dbaseVars, ncall, caller, served, ncrash>>

(* for(; ...): wait for a message in state MSG_ACK ... *)
SendWaitState(a) ==
  /\ pc[a] = "wait"
  /\ \/ /\ slot.state = "ACK"
        /\ pc' = [pc EXCEPT ![a] = "match"]
        /\ UNCHANGED time
     \/ /\ slot.state # "ACK"
        /\ Tick(a, "wait", "expire")
  /\ UNCHANGED <<slot, up, lock, seq, req, ret, todo, dbaseVars, histVars, ncrash>>

(* mutant of Answers: the index is not compared *)
AnswersAnyIndex(a, m) ==
  /\ m.sync # 0
  /\ m.dest = WaitName[a]

Answers(a, m) ==
  /\ m.sync # 0
  /\ m.index = req[a].index
  /\ m.dest = WaitName[a]

(* ... with sync set, the index of the request and the name szSrc *)
SendWaitMatch(a) ==
  /\ pc[a] = "match"
  /\ \/ /\ Answers(a, slot)
        /\ pc' = [pc EXCEPT ![a] = "take"]
        /\ todo' = [todo EXCEPT ![a] = CopyUnits]
        /\ UNCHANGED time
     \/ /\ ~Answers(a, slot)
        /\ Tick(a, "wait", "expire")
        /\ UNCHANGED todo
  /\ UNCHANGED <<slot, up, lock, seq, req, ret, dbaseVars, histVars, ncrash>>

(* memcpy(pRet, pMem) *)
SendWaitTake(a, u) ==
  /\ pc[a] = "take"
  /\ u \in todo[a]
  /\ ret' = [ret EXCEPT ![a] = Copy(@, slot, u)]
  /\ todo' = [todo EXCEPT ![a] = @ \ {u}]
  /\ pc' = [pc EXCEPT ![a] = IF todo[a] = {u} THEN "done" ELSE "take"]
  /\ UNCHANGED <<slot, up, lock, seq, time, req, dbaseVars, histVars, ncrash>>

(* state = MSG_IDLE, unlock, return 0 *)
SendWaitDone(a) ==
  /\ pc[a] = "done"
  /\ slot' = Idle(slot)
  /\ lock' = [lock EXCEPT ![a] = "free"]
  /\ Return(a, "ok")
  /\ UNCHANGED <<up, seq, time, req, ret, todo, dbaseVars, ncall, caller, served, ncrash>>

(* mutants of SendWaitExpire: -3 instead of -4; s_lock is kept *)
SendWaitExpireUnsent(a) ==
  /\ pc[a] = "expire"
  /\ slot' = Idle(slot)
  /\ lock' = [lock EXCEPT ![a] = "free"]
  /\ Return(a, "unsent")
  /\ UNCHANGED <<up, seq, time, req, ret, todo, dbaseVars, ncall, caller, served, ncrash>>

SendWaitExpireLocked(a) ==
  /\ pc[a] = "expire"
  /\ slot' = Idle(slot)
  /\ Return(a, "unknown")
  /\ UNCHANGED <<up, lock, seq, time, req, ret, todo, dbaseVars, ncall, caller, served, ncrash>>

(* no answer in time: state = MSG_IDLE whatever the slot holds, -4 *)
SendWaitExpire(a) ==
  /\ pc[a] = "expire"
  /\ slot' = Idle(slot)
  /\ lock' = [lock EXCEPT ![a] = "free"]
  /\ Return(a, "unknown")
  /\ UNCHANGED <<up, seq, time, req, ret, todo, dbaseVars, ncall, caller, served, ncrash>>

(***************************************************************************)
(* The service thread: SmMsgRecv takes no lock at all.                     *)
(***************************************************************************)

(* a poll that does not find MSG_REQ returns -3 and changes nothing *)
RecvState(a) ==
  /\ up[a]
  /\ dpc[a] = "poll"
  /\ slot.state = "REQ"
  /\ dpc' = [dpc EXCEPT ![a] = "dest"]
  /\ rcv' = [rcv EXCEPT ![a] = Blank]
  /\ UNCHANGED <<slot, up, lock, callVars, dtodo, histVars, ncrash>>

(* strcmp(szDest, szName): not ours, -4 *)
RecvDest(a) ==
  /\ dpc[a] = "dest"
  /\ \/ /\ slot.dest = a
        /\ dpc' = [dpc EXCEPT ![a] = "recv"]
        /\ dtodo' = [dtodo EXCEPT ![a] = CopyUnits]
     \/ /\ slot.dest # a
        /\ dpc' = [dpc EXCEPT ![a] = "poll"]
        /\ UNCHANGED dtodo
  /\ UNCHANGED <<slot, up, lock, callVars, rcv, histVars, ncrash>>

(* memcpy(pMsg, pMem) *)
RecvCopy(a, u) ==
  /\ dpc[a] = "recv"
  /\ u \in dtodo[a]
  /\ rcv' = [rcv EXCEPT ![a] = Copy(@, slot, u)]
  /\ dtodo' = [dtodo EXCEPT ![a] = @ \ {u}]
  /\ dpc' = [dpc EXCEPT ![a] = IF dtodo[a] = {u} THEN "clear" ELSE "recv"]
  /\ UNCHANGED <<slot, up, lock, callVars, histVars, ncrash>>

(* mutant of RecvClear: the request stays in the slot *)
RecvKeep(a) ==
  /\ dpc[a] = "clear"
  /\ dpc' = [dpc EXCEPT ![a] = "dispatch"]
  /\ UNCHANGED <<slot, up, lock, callVars, rcv, dtodo, histVars, ncrash>>

RecvClear(a) ==
  /\ dpc[a] = "clear"
  /\ slot' = Idle(slot)
  /\ dpc' = [dpc EXCEPT ![a] = "dispatch"]
  /\ UNCHANGED <<up, lock, callVars, rcv, dtodo, histVars, ncrash>>

(* the loop over s_dbaseMsgMap: run the handler or forget the message *)
Dispatch(a) ==
  /\ dpc[a] = "dispatch"
  /\ \/ /\ rcv[a].body.iop \in Table[a]
        /\ dpc' = [dpc EXCEPT ![a] = "elock"]
        /\ served' = [c \in Calls |-> IF c = rcv[a].body.call /\ a = rcv[a].body.to
                                      THEN served[c] + 1 ELSE served[c]]
     \/ /\ rcv[a].body.iop \notin Table[a]
        /\ dpc' = [dpc EXCEPT ![a] = "poll"]
        /\ UNCHANGED served
  /\ UNCHANGED <<slot, up, lock, callVars, rcv, dtodo, ncall, caller, outcome, answer, ncrash>>

(* mutant of SendEchoLock: the answer is sent without s_lock *)
SendEchoUnlocked(a) ==
  /\ dpc[a] = "elock"
  /\ dpc' = [dpc EXCEPT ![a] = "echeck"]
  /\ UNCHANGED <<slot, up, lock, callVars, rcv, dtodo, histVars, ncrash>>

(* SmMsgSendEcho; without a queue it unlocks again and the answer is lost: -1 *)
SendEchoLock(a) ==
  /\ dpc[a] = "elock"
  /\ lock[a] = "free"
  /\ lock' = [lock EXCEPT ![a] = "dbase"]
  /\ dpc' = [dpc EXCEPT ![a] = "echeck"]
  /\ UNCHANGED <<slot, up, callVars, rcv, dtodo, histVars, ncrash>>

SendEchoNoQue(a) ==
  /\ ShmGetFails
  /\ dpc[a] = "echeck"
  /\ lock' = [lock EXCEPT ![a] = "free"]
  /\ dpc' = [dpc EXCEPT ![a] = "poll"]
  /\ UNCHANGED <<slot, up, callVars, rcv, dtodo, histVars, ncrash>>

(* mutant of SendEchoCheck: s_lock is kept when the answer is lost *)
SendEchoCheckLocked(a) ==
  /\ dpc[a] = "echeck"
  /\ \/ /\ slot.state = "IDLE"
        /\ dpc' = [dpc EXCEPT ![a] = "eput"]
        /\ dtodo' = [dtodo EXCEPT ![a] = CopyUnits]
     \/ /\ slot.state # "IDLE"
        /\ dpc' = [dpc EXCEPT ![a] = "poll"]
        /\ UNCHANGED dtodo
  /\ UNCHANGED <<slot, up, lock, callVars, rcv, histVars, ncrash>>

(* the slot is in use: the answer is lost, -3 *)
SendEchoCheck(a) ==
  /\ dpc[a] = "echeck"
  /\ \/ /\ slot.state = "IDLE"
        /\ dpc' = [dpc EXCEPT ![a] = "eput"]
        /\ dtodo' = [dtodo EXCEPT ![a] = CopyUnits]
        /\ UNCHANGED lock
     \/ /\ slot.state # "IDLE"
        /\ dpc' = [dpc EXCEPT ![a] = "poll"]
        /\ lock' = [lock EXCEPT ![a] = "free"]
        /\ UNCHANGED dtodo
  /\ UNCHANGED <<slot, up, callVars, rcv, histVars, ncrash>>

(* memcpy(pMem, pMsg) and, after its last piece, the unlock *)
SendEchoPut(a, u) ==
  /\ dpc[a] = "eput"
  /\ u \in dtodo[a]
  /\ slot' = Copy(slot, Echo(a, rcv[a]), u)
  /\ dtodo' = [dtodo EXCEPT ![a] = @ \ {u}]
  /\ dpc' = [dpc EXCEPT ![a] = IF dtodo[a] = {u} THEN "poll" ELSE "eput"]
  /\ lock' = [lock EXCEPT ![a] = IF dtodo[a] = {u} THEN "free" ELSE @]
  /\ UNCHANGED <<up, callVars, rcv, histVars, ncrash>>

(***************************************************************************)

CallerStep(a) ==
  \/ SendWaitNoQue(a)
  \/ SendWaitLock(a)
  \/ SendWaitPoll(a)
  \/ \E u \in CopyUnits : SendWaitPut(a, u)
  \/ SendWaitGiveUp(a)
  \/ SendWaitState(a)
  \/ SendWaitMatch(a)
  \/ \E u \in CopyUnits : SendWaitTake(a, u)
  \/ SendWaitDone(a)
  \/ SendWaitExpire(a)

ServiceStep(a) ==
  \/ RecvState(a)
  \/ RecvDest(a)
  \/ \E u \in CopyUnits : RecvCopy(a, u)
  \/ RecvClear(a)
  \/ Dispatch(a)
  \/ SendEchoLock(a)
  \/ SendEchoNoQue(a)
  \/ SendEchoCheck(a)
  \/ \E u \in CopyUnits : SendEchoPut(a, u)

Next ==
  \E a \in App :
    \/ SmMsgInit(a)
    \/ Crash(a)
    \/ \E iop \in CallIop : Call(a, iop)
    \/ CallerStep(a)
    \/ ServiceStep(a)

Spec == Init /\ [][Next]_vars
(***************************************************************************)
(* Fairness: the operating system keeps running every thread of a live     *)
(* process. s_lock is contended by the two threads of one process only,    *)
(* and the service thread sleeps outside it between two polls, so a thread *)
(* that keeps waiting gets it: strong fairness for the two lock steps.     *)
(***************************************************************************)
Fairness ==
  \A a \in App :
    /\ WF_vars(CallerStep(a))
    /\ WF_vars(ServiceStep(a))
    /\ SF_vars(SendWaitLock(a))
    /\ SF_vars(SendEchoLock(a))

FairSpec == Spec /\ Fairness

(***************************************************************************)
(* Properties.                                                             *)
(***************************************************************************)

(* Every variable has its type; a thread is at a place it has. *)
CallerPlace  == {"idle", "lock", "send", "put", "giveup", "wait", "match",
                 "take", "done", "expire"}
ServicePlace == {"poll", "dest", "recv", "clear", "dispatch", "elock", "echeck", "eput"}

TypeOK ==
  /\ slot \in Msg
  /\ up \in [App -> BOOLEAN]
  /\ lock \in [App -> {"free", "caller", "dbase"}]
  /\ seq \in [App -> Index]
  /\ pc \in [App -> CallerPlace]
  /\ time \in [App -> 0 .. NWait]
  /\ req \in [App -> Msg]
  /\ ret \in [App -> Msg]
  /\ todo \in [App -> SUBSET CopyUnits]
  /\ dpc \in [App -> ServicePlace]
  /\ rcv \in [App -> Msg]
  /\ dtodo \in [App -> SUBSET CopyUnits]
  /\ ncall \in 0 .. MaxCalls
  /\ caller \in [Calls -> App \cup {NoApp}]
  /\ ncrash \in 0 .. MaxCrash
  /\ outcome \in [Calls -> Outcome]
  /\ served \in [Calls -> Nat]
  /\ answer \in [Calls -> 0 .. MaxCalls]

(* A call is never answered by the service thread of the calling process,   *)
(* even when that thread picked up the call's own half-copied request: it   *)
(* is s_lock, held by SmMsgSendWait from before the request is copied until *)
(* after the answer is taken, that keeps SmMsgSendEcho out.                 *)
NoSelfAnswer ==
  \A a \in App : pc[a] = "done" => ~(ret[a].body.kind = "ack" /\ ret[a].body.by = a)

(* What SmMsgRecv hands to the dispatcher is a request to this application. *)
RecvIsRequest ==
  \A a \in App : dpc[a] = "dispatch" => rcv[a].body.kind = "msg" /\ rcv[a].body.to = a

(* A call that SmMsgSendWait reports as not sent (-1, -3) was not executed   *)
(* and never will be: its caller may safely make it again. Holds however    *)
(* the copies interleave, since a request given up in the first loop was    *)
(* never in the slot.                                                       *)
UnsentNeverServed ==
  \A c \in Calls : outcome[c] = "unsent" => served[c] = 0

(* When SmMsgSendWait returns 0, pRet holds the answer to this very call:   *)
(* the state byte, sync, index and szDest it has tested were enough to tell *)
(* it from an answer to an earlier call and from a message being written.   *)
(* Only the answer to a call of a process that died can be taken for it:    *)
(* the frame index starts at 0 with every process.                          *)
AnswerMatchesCall ==
  \A a \in App : pc[a] = "done" =>
    /\ ret[a].body.kind = "ack"
    /\ ret[a].body.call # req[a].body.call => outcome[ret[a].body.call] = "lost"

(* The channel implements the remote procedure call of module Rpc: executed *)
(* at most once, in the order of the calls, never executed once reported    *)
(* unsent, answered with its own answer only after it was executed, or with *)
(* the answer to a call of a process that died.                             *)
Abstract == INSTANCE Rpc WITH
  MaxCalls <- MaxCalls, outcome <- outcome, served <- served, answer <- answer

RpcSpec == Abstract!Spec

(* SmMsgSendWait returns, and a service thread that has received a message  *)
(* goes back to polling: no lock is kept and nobody waits for ever, in      *)
(* spite of SmMsgSendWait sleeping with s_lock held.                        *)
CallReturns    == \A a \in App : pc[a] # "idle" ~> pc[a] = "idle"
ServiceResumes == \A a \in App : dpc[a] # "poll" ~> dpc[a] = "poll"

(* A message nobody takes (a late answer, a request to a dead process) does *)
(* not occupy the slot for ever: a caller that finds it there frees it.     *)
SlotIsFreed ==
  \A a \in App : (pc[a] = "send" /\ slot.state # "IDLE") ~>
                    (slot.state = "IDLE" \/ ~up[a])

(***************************************************************************)
(* The inductive invariant behind NoSelfAnswer and UnsentNeverServed.      *)
(***************************************************************************)
InSendWait == {"send", "put", "giveup", "wait", "match", "take", "done", "expire"}
BeforePut  == {"lock", "send", "giveup"}

(* s_lock is held exactly inside SmMsgSendWait and inside SmMsgSendEcho *)
LockInv ==
  \A a \in App :
    /\ lock[a] = "caller" <=> pc[a] \in InSendWait
    /\ lock[a] = "dbase" <=> dpc[a] \in {"echeck", "eput"}
    /\ ~up[a] => pc[a] = "idle" /\ dpc[a] = "poll"

(* a loop of SmMsgSendWait is entered with turns left, a copy with bytes *)
LoopInv ==
  \A a \in App :
    /\ pc[a] \in {"send", "put", "wait", "match"} => time[a] < NWait
    /\ pc[a] \in {"put", "take"} => todo[a] # {}
    /\ dpc[a] \in {"recv", "eput"} => dtodo[a] # {}

(* the body was not written by the service thread of a *)
NotOwnAck(a, m) == ~(m.body.kind = "ack" /\ m.body.by = a)

(* once the request has been copied, no answer of a's own is in the slot *)
OwnCall(a) ==
  /\ pc[a] # "idle" => req[a].body.kind = "msg"
  /\ pc[a] \in {"wait", "match", "take", "done"} => NotOwnAck(a, slot)
  /\ pc[a] = "put" /\ (\A u \in todo[a] : "body" \notin u) => NotOwnAck(a, slot)
  /\ NotOwnAck(a, ret[a])

SlotInv == \A a \in App : OwnCall(a)

(* each open call has one caller, and calls are numbered as they are made *)
CallInv ==
  /\ \A a \in App : pc[a] # "idle" =>
       /\ req[a].body.call \in Calls
       /\ outcome[req[a].body.call] = "open"
       /\ caller[req[a].body.call] = a
  /\ \A a, b \in App : pc[a] # "idle" /\ pc[b] # "idle" /\ a # b =>
       req[a].body.call # req[b].body.call
  /\ \A c \in Calls : c > ncall => outcome[c] = "none"

(* call c is in no message and was not executed *)
NotOut(c) ==
  /\ slot.body.call # c
  /\ \A a \in App : rcv[a].body.call # c
  /\ served[c] = 0

UnsentInv ==
  /\ \A c \in Calls : outcome[c] \in {"none", "unsent"} => NotOut(c)
  /\ \A a \in App : pc[a] \in BeforePut => NotOut(req[a].body.call)

ChannelInv == TypeOK /\ LockInv /\ LoopInv /\ SlotInv /\ CallInv /\ UnsentInv

(***************************************************************************)
(* What the two loops of SmMsgSendWait and the passage through SmMsgRecv   *)
(* and SmMsgSendEcho cost at most, in steps of the thread itself.          *)
(***************************************************************************)
NUnits == Cardinality(CopyUnits)

(* from the second loop on: two steps a poll, the copy of the answer *)
WaitCost(t) == 2 * (NWait - t) + NUnits + 2

(* steps left to a caller at place p, after t polls, with n units to copy *)
CallCost(p, t, n) ==
  CASE p = "idle"                        -> 0
    [] p \in {"giveup", "done", "expire"} -> 1
    [] p = "take"                        -> n + 1
    [] p = "match"                       -> WaitCost(t) - 1
    [] p = "wait"                        -> WaitCost(t)
    [] p = "put"                         -> n + WaitCost(t)
    [] p = "send"                        -> (NWait - t) + NUnits + WaitCost(t) + 1
    [] p = "lock"                        -> NWait + NUnits + WaitCost(0) + 2

(* steps left to a service thread at place p with n units to copy *)
ServiceCost(p, n) ==
  CASE p = "poll"     -> 0
    [] p = "eput"     -> n + 1
    [] p = "echeck"   -> NUnits + 2
    [] p = "elock"    -> NUnits + 3
    [] p = "dispatch" -> NUnits + 4
    [] p = "clear"    -> NUnits + 5
    [] p = "recv"     -> n + NUnits + 5
    [] p = "dest"     -> 2 * NUnits + 6

CallLeft(a)    == CallCost(pc[a], time[a], Cardinality(todo[a]))
ServiceLeft(a) == ServiceCost(dpc[a], Cardinality(dtodo[a]))

(* a call starts with the first bound of steps, a message with the second *)
WithinBounds ==
  \A a \in App : /\ CallLeft(a) \in 0 .. (3 * NWait + 2 * NUnits + 4)
                 /\ ServiceLeft(a) \in 0 .. (2 * NUnits + 6)

(* Whatever the other threads and applications write into the slot, a call  *)
(* takes at most 3 * NWait + 2 * NUnits + 4 steps of its own thread, and a  *)
(* received message at most 2 * NUnits + 6 (WithinBounds): every step of    *)
(* the thread leaves it fewer than before, and no other thread changes what *)
(* is left.                                                                 *)
StepsBounded ==
  [][\A a \in App :
       /\ pc[a] # "idle" => \/ UNCHANGED <<pc[a], time[a], todo[a]>>
                            \/ CallLeft(a)' < CallLeft(a)
       /\ dpc[a] # "poll" => \/ UNCHANGED <<dpc[a], dtodo[a]>>
                             \/ ServiceLeft(a)' < ServiceLeft(a)]_vars

(* the guard of the step that the thread is to take holds *)
CallerCan(a) ==
  /\ pc[a] # "idle"
  /\ pc[a] = "lock" => lock[a] = "free"
  /\ pc[a] \in {"put", "take"} => todo[a] # {}

ServiceCan(a) ==
  /\ dpc[a] # "poll"
  /\ dpc[a] = "elock" => lock[a] = "free"
  /\ dpc[a] \in {"recv", "eput"} => dtodo[a] # {}

(* No two threads wait for each other, although SmMsgSendWait holds s_lock  *)
(* while it waits for another application whose service thread may need its *)
(* own s_lock to answer: a thread waits for s_lock only, and then the other *)
(* thread of its process holds it and can go on.                            *)
NobodyStuck ==
  \A a \in App :
    /\ pc[a] # "idle" =>
         CallerCan(a) \/ (pc[a] = "lock" /\ lock[a] = "dbase" /\ ServiceCan(a))
    /\ dpc[a] # "poll" =>
         ServiceCan(a) \/ (dpc[a] = "elock" /\ lock[a] = "caller" /\ CallerCan(a))

(***************************************************************************)
(* The inductive invariant behind AnswerMatchesCall and RpcSpec, for the   *)
(* deployment in which one application e calls one application r.          *)
(***************************************************************************)

(* e alone calls, and calls r; its own answers carry iid, which is no       *)
(* operation; a memcpy is seen as a whole and the frame index has room for  *)
(* the calls one process makes.                                             *)
Deployed(e, r) ==
  /\ {e, r} \subseteq App /\ e # r
  /\ Callers = {e} /\ Peer[e] = r
  /\ e \notin KeepsIop /\ "iid" \notin CallIop
  /\ CopyUnits = {Fields}
  /\ MaxCalls < IndexMod

AckBy(a, m) == m.body.kind = "ack" /\ m.body.by = a

(* a message of the deployment: a request of e to r, an answer of r or an   *)
(* echo of e's own service thread                                           *)
Sent(e, r, m) ==
  /\ {m.src, m.dest} \subseteq {e, r, NoApp}
  /\ m.body.to \in {r, NoApp}
  /\ m.body.kind = "msg" => m.body.by = e /\ m.body.to = r /\ m.body.call \in Calls
  /\ m.body.kind = "ack" => AckBy(r, m) \/ (AckBy(e, m) /\ m.body.iop = "iid")
  /\ AckBy(r, m) => m.body.call \in Calls

MessageInv(e, r) ==
  /\ Sent(e, r, slot)
  /\ \A a \in App : Sent(e, r, rcv[a])
  /\ slot.state = "REQ" => slot.body.kind = "msg"
  /\ slot.state = "ACK" => slot.body.kind = "ack"

(* while the process that made the call lives, index and call go together *)
Numbered(e, m) ==
  m.body.call \in Calls /\ outcome[m.body.call] \in {"open", "unknown"} =>
    m.index + ncall + 1 = seq[e] + m.body.call

NumberInv(e) == Numbered(e, slot) /\ \A a \in App : Numbered(e, rcv[a])

(* only e is inside SmMsgSendWait, and a third application receives nothing *)
RoleInv(e, r) ==
  /\ \A a \in App \ {e} : pc[a] = "idle"
  /\ \A a \in App \ {e, r} : dpc[a] \in {"poll", "dest"}
  /\ \A c \in Calls : outcome[c] \in {"open", "unknown"} => caller[c] = e
  /\ seq[e] <= ncall

(* e asks for its latest call, which is nowhere else before it is copied *)
RequestInv(e, r) ==
  /\ pc[e] # "idle" =>
       /\ req[e].state = "REQ" /\ req[e].body.kind = "msg" /\ Sent(e, r, req[e])
       /\ req[e].body.call = ncall /\ req[e].index + 1 = seq[e]
  /\ pc[e] = "put" => NotOut(ncall)

NotServedFrom(c) == \A d \in Calls : d >= c => served[d] = 0

(* what r has received, or may still receive, is not executed yet, nor is   *)
(* any later call, and a request in the slot is later than the one r holds  *)
ServeInv(e, r) ==
  /\ dpc[r] \in {"dest", "recv"} => slot.body.kind # "none" /\ ~AckBy(r, slot)
  /\ dpc[r] \notin {"poll", "dest", "recv"} => rcv[r].body.kind # "none" /\ ~AckBy(r, rcv[r])
  /\ slot.body.kind = "msg" /\ (slot.state = "REQ" \/ dpc[r] \in {"dest", "recv"})
       => NotServedFrom(slot.body.call)
  /\ dpc[r] \in {"clear", "dispatch"} /\ rcv[r].body.kind = "msg"
       => NotServedFrom(rcv[r].body.call)
  /\ dpc[r] = "dispatch" /\ slot.state = "REQ" /\ rcv[r].body.kind = "msg"
       => rcv[r].body.call < slot.body.call
  /\ dpc[r] \in {"elock", "echeck", "eput"}
       => rcv[r].body.kind = "msg" /\ served[rcv[r].body.call] = 1
  /\ AckBy(r, slot) => served[slot.body.call] = 1

(* no request is about once its call was answered, and the answer that e    *)
(* finds stays in the slot until e has taken it                             *)
AnswerInv(e, r) ==
  /\ slot.body.kind = "msg" => outcome[slot.body.call] # "ok"
  /\ dpc[r] \notin {"poll", "dest", "recv"} /\ rcv[r].body.kind = "msg"
       => outcome[rcv[r].body.call] # "ok"
  /\ pc[e] \in {"wait", "match", "take", "done"} /\ AckBy(r, slot)
       => dpc[r] = "poll" /\ outcome[slot.body.call] # "ok"
  /\ pc[e] \in {"match", "take", "done"} => AckBy(r, slot)
  /\ pc[e] \in {"take", "done"} => slot.index = req[e].index
  /\ pc[e] = "done" => ret[e].body = slot.body

WholeInv(e, r) ==
  /\ MessageInv(e, r) /\ NumberInv(e) /\ RoleInv(e, r) /\ RequestInv(e, r)
  /\ ServeInv(e, r) /\ AnswerInv(e, r)

(* Wherever one application calls another: once its answer was returned no  *)
(* request of a call is about, what the server may still execute is later   *)
(* than all it has executed, and an answer stays in the slot until          *)
(* SmMsgSendWait has taken it.                                              *)
DeployedInv == \A e, r \in App : Deployed(e, r) => WholeInv(e, r)

(* What the server executes is a request of the caller to it, though its    *)
(* service thread tests state and szDest at two moments: what is received   *)
(* out of turn by either service thread is never executed by the server.    *)
ExecutesRequests ==
  \A e, r \in App : Deployed(e, r) =>
    (dpc[r] \in {"elock", "echeck", "eput"} =>
       /\ rcv[r].body.kind = "msg" /\ rcv[r].body.by = e /\ rcv[r].body.to = r
       /\ served[rcv[r].body.call] = 1)

=============================================================================
