--------------------------- MODULE ChannelProofs ---------------------------
(* For any applications, tables, timeouts and any way of tearing a memcpy,  *)
(* crashes and failing shmget included: ChannelInv is an invariant of       *)
(* Channel, hence no call is answered by its own process and no call that   *)
(* is reported unsent is executed. For a deployment in which one            *)
(* application calls another: Channel implements Rpc.                       *)
EXTENDS Channel, FiniteSetTheorems, TLAPS

(* A piece of a memcpy between two messages leaves a message, and its body  *)
(* is one of the two bodies.                                                *)
LEMMA CopyIsMsg ==
  ASSUME NEW m \in Msg, NEW n \in Msg, NEW u
  PROVE  /\ Copy(m, n, u) \in Msg
         /\ "body" \in u => Copy(m, n, u).body = n.body
         /\ "body" \notin u => Copy(m, n, u).body = m.body
  BY DEF Copy, Msg

(* Marking a message idle leaves its body alone. *)
LEMMA IdleIsMsg ==
  ASSUME NEW m \in Msg
  PROVE  Idle(m) \in Msg /\ Idle(m).body = m.body
  BY DEF Idle, Msg, State

(* Zeroed memory is a message without a body. *)
LEMMA BlankIsMsg ==
  /\ Blank \in Msg
  /\ Blank.body.kind = "none"
  /\ Blank.body.call = 0
  BY ConstAssumption DEF Blank, Msg, Body, State, Iop, Index

(* el_read_data and el_write_data build a request, *)
LEMMA RequestIsMsg ==
  ASSUME TypeOK, NEW a \in Callers, NEW iop \in CallIop, NEW c \in Calls
  PROVE  /\ Request(a, iop, c) \in Msg
         /\ Request(a, iop, c).body.kind = "msg"
         /\ Request(a, iop, c).body.call = c
  BY ConstAssumption DEF TypeOK, Request, Msg, Body, State, Iop, Index, Calls

(* and el_msg_echo an answer made by the answering application. *)
LEMMA EchoIsMsg ==
  ASSUME NEW a \in App, NEW m \in Msg
  PROVE  /\ Echo(a, m) \in Msg
         /\ Echo(a, m).body.by = a
         /\ Echo(a, m).body.call = m.body.call
  BY ConstAssumption DEF Echo, Msg, Body, State, Iop, Index

(* Every variable starts with its type and the invariant holds. *)
LEMMA InitInv == Init => ChannelInv
<1> SUFFICES ASSUME Init PROVE ChannelInv
  OBVIOUS
<1>1. TypeOK
  BY BlankIsMsg, ConstAssumption
  DEF Init, TypeOK, CallerPlace, ServicePlace, Index, Calls, Outcome
<1>2. LockInv
  BY DEF Init, LockInv, InSendWait
<1>3. LoopInv /\ SlotInv
  BY BlankIsMsg DEF Init, LoopInv, SlotInv, OwnCall, NotOwnAck
<1>4. CallInv
  BY DEF Init, CallInv, Calls
<1>5. UnsentInv
  BY BlankIsMsg DEF Init, UnsentInv, NotOut, BeforePut, Calls
<1> QED
  BY <1>1, <1>2, <1>3, <1>4, <1>5 DEF ChannelInv

(* A turn of a loop that has turns left stays within NWait. *)
LEMMA TickTime ==
  ASSUME time \in [App -> 0 .. NWait], NEW a \in App, time[a] < NWait,
         NEW again, NEW out, Tick(a, again, out) \/ UNCHANGED time
  PROVE  time' \in [App -> 0 .. NWait]
  BY ConstAssumption DEF Tick

(* Every step keeps the types. *)
LEMMA TypeStep ==
  ASSUME TypeOK, LoopInv, CallInv, [Next]_vars
  PROVE  TypeOK'
<1> USE DEF TypeOK, Outcome, callVars, dbaseVars, histVars
<1>1. ASSUME NEW a \in App, SmMsgInit(a)
       PROVE  TypeOK'
  BY <1>1, IdleIsMsg DEF SmMsgInit
<1>2. ASSUME NEW a \in App, Crash(a)
       PROVE  TypeOK'
  BY <1>2, BlankIsMsg, ConstAssumption DEF Crash, CallerPlace, ServicePlace, Calls, Index
<1>3. ASSUME NEW a \in App, NEW iop \in CallIop, Call(a, iop)
       PROVE  TypeOK'
  <2>1. ncall' \in 0 .. MaxCalls /\ ncall + 1 \in Calls
    BY <1>3, ConstAssumption DEF Call, Calls
  <2>2. req' \in [App -> Msg] /\ ret' \in [App -> Msg]
    BY <1>3, <2>1, RequestIsMsg, BlankIsMsg DEF Call
  <2>3. seq' \in [App -> Index]
    BY <1>3, ConstAssumption DEF Call, Index
  <2>4. outcome' \in [Calls -> Outcome]
    BY <1>3, <2>1 DEF Call
  <2> QED
    BY <1>3, <2>1, <2>2, <2>3, <2>4 DEF Call, CallerPlace
<1>4. ASSUME NEW a \in App, SendWaitNoQue(a)
       PROVE  TypeOK'
  BY <1>4 DEF SendWaitNoQue, Return, CallerPlace, CallInv
<1>5. ASSUME NEW a \in App, SendWaitLock(a)
       PROVE  TypeOK'
  BY <1>5, ConstAssumption DEF SendWaitLock, CallerPlace
<1>6. ASSUME NEW a \in App, SendWaitPoll(a)
       PROVE  TypeOK'
  <2>1. pc' \in [App -> CallerPlace]
    BY <1>6 DEF SendWaitPoll, Tick, CallerPlace
  <2>2. time' \in [App -> 0 .. NWait]
    <3>1. time \in [App -> 0 .. NWait] /\ time[a] < NWait
      BY <1>6 DEF SendWaitPoll, LoopInv
    <3> HIDE DEF TypeOK
    <3> QED
      BY <1>6, <3>1, TickTime DEF SendWaitPoll
  <2>3. todo' \in [App -> SUBSET CopyUnits]
    BY <1>6 DEF SendWaitPoll
  <2> QED
    BY <1>6, <2>1, <2>2, <2>3 DEF SendWaitPoll
<1>7. ASSUME NEW a \in App, NEW u \in CopyUnits, SendWaitPut(a, u)
       PROVE  TypeOK'
  BY <1>7, CopyIsMsg DEF SendWaitPut, CallerPlace
<1>8. ASSUME NEW a \in App, SendWaitGiveUp(a)
       PROVE  TypeOK'
  BY <1>8, IdleIsMsg DEF SendWaitGiveUp, Return, CallerPlace, CallInv
<1>9. ASSUME NEW a \in App, SendWaitState(a)
       PROVE  TypeOK'
  <2>1. pc' \in [App -> CallerPlace]
    BY <1>9 DEF SendWaitState, Tick, CallerPlace
  <2>2. time' \in [App -> 0 .. NWait]
    <3>1. time \in [App -> 0 .. NWait] /\ time[a] < NWait
      BY <1>9 DEF SendWaitState, LoopInv
    <3> HIDE DEF TypeOK
    <3> QED
      BY <1>9, <3>1, TickTime DEF SendWaitState
  <2> QED
    BY <1>9, <2>1, <2>2 DEF SendWaitState
<1>10. ASSUME NEW a \in App, SendWaitMatch(a)
       PROVE  TypeOK'
  <2>1. pc' \in [App -> CallerPlace]
    BY <1>10 DEF SendWaitMatch, Tick, CallerPlace
  <2>2. time' \in [App -> 0 .. NWait]
    <3>1. time \in [App -> 0 .. NWait] /\ time[a] < NWait
      BY <1>10 DEF SendWaitMatch, LoopInv
    <3> HIDE DEF TypeOK
    <3> QED
      BY <1>10, <3>1, TickTime DEF SendWaitMatch
  <2>3. todo' \in [App -> SUBSET CopyUnits]
    BY <1>10 DEF SendWaitMatch
  <2> QED
    BY <1>10, <2>1, <2>2, <2>3 DEF SendWaitMatch
<1>11. ASSUME NEW a \in App, NEW u \in CopyUnits, SendWaitTake(a, u)
       PROVE  TypeOK'
  BY <1>11, CopyIsMsg DEF SendWaitTake, CallerPlace
<1>12. ASSUME NEW a \in App, SendWaitDone(a)
       PROVE  TypeOK'
  <2>1. slot' \in Msg
    BY <1>12, IdleIsMsg DEF SendWaitDone
  <2>2. answer' \in [Calls -> 0 .. MaxCalls]
    BY <1>12 DEF SendWaitDone, Return, CallInv, CallerPlace, Msg, Body
  <2>3. outcome' \in [Calls -> Outcome]
    BY <1>12 DEF SendWaitDone, Return, CallInv, CallerPlace
  <2> QED
    BY <1>12, <2>1, <2>2, <2>3 DEF SendWaitDone, Return, CallInv, CallerPlace
<1>13. ASSUME NEW a \in App, SendWaitExpire(a)
       PROVE  TypeOK'
  BY <1>13, IdleIsMsg DEF SendWaitExpire, Return, CallerPlace, CallInv
<1>14. ASSUME NEW a \in App, RecvState(a)
       PROVE  TypeOK'
  BY <1>14, BlankIsMsg DEF RecvState, ServicePlace
<1>15. ASSUME NEW a \in App, RecvDest(a)
       PROVE  TypeOK'
  <2>1. dpc' \in [App -> ServicePlace]
    BY <1>15 DEF RecvDest, ServicePlace
  <2>2. dtodo' \in [App -> SUBSET CopyUnits]
    BY <1>15 DEF RecvDest, ServicePlace
  <2> QED
    BY <1>15, <2>1, <2>2 DEF RecvDest
<1>16. ASSUME NEW a \in App, NEW u \in CopyUnits, RecvCopy(a, u)
       PROVE  TypeOK'
  BY <1>16, CopyIsMsg DEF RecvCopy, ServicePlace
<1>17. ASSUME NEW a \in App, RecvClear(a)
       PROVE  TypeOK'
  BY <1>17, IdleIsMsg DEF RecvClear, ServicePlace
<1>18. ASSUME NEW a \in App, Dispatch(a)
       PROVE  TypeOK'
  <2>1. dpc' \in [App -> ServicePlace]
    BY <1>18 DEF Dispatch, ServicePlace
  <2>2. served' \in [Calls -> Nat]
    BY <1>18 DEF Dispatch, ServicePlace
  <2> QED
    BY <1>18, <2>1, <2>2 DEF Dispatch
<1>19. ASSUME NEW a \in App, SendEchoLock(a)
       PROVE  TypeOK'
  BY <1>19 DEF SendEchoLock, ServicePlace
<1>20. ASSUME NEW a \in App, SendEchoNoQue(a)
       PROVE  TypeOK'
  BY <1>20 DEF SendEchoNoQue, ServicePlace
<1>21. ASSUME NEW a \in App, SendEchoCheck(a)
       PROVE  TypeOK'
  <2>1. dpc' \in [App -> ServicePlace]
    BY <1>21 DEF SendEchoCheck, ServicePlace
  <2>2. lock' \in [App -> {"free", "caller", "dbase"}]
    BY <1>21 DEF SendEchoCheck, ServicePlace
  <2>3. dtodo' \in [App -> SUBSET CopyUnits]
    BY <1>21 DEF SendEchoCheck, ServicePlace
  <2> QED
    BY <1>21, <2>1, <2>2, <2>3 DEF SendEchoCheck
<1>22. ASSUME NEW a \in App, NEW u \in CopyUnits, SendEchoPut(a, u)
       PROVE  TypeOK'
  <2>1. slot' \in Msg
    BY <1>22, CopyIsMsg, EchoIsMsg DEF SendEchoPut, ServicePlace
  <2>2. dpc' \in [App -> ServicePlace]
    BY <1>22 DEF SendEchoPut, ServicePlace
  <2>3. lock' \in [App -> {"free", "caller", "dbase"}]
    BY <1>22 DEF SendEchoPut, ServicePlace
  <2>4. dtodo' \in [App -> SUBSET CopyUnits]
    BY <1>22 DEF SendEchoPut, ServicePlace
  <2> QED
    BY <1>22, <2>1, <2>2, <2>3, <2>4 DEF SendEchoPut
<1>23. CASE UNCHANGED vars
  BY <1>23 DEF vars
<1> QED
  BY <1>1, <1>2, <1>3, <1>4, <1>5, <1>6, <1>7, <1>8, <1>9, <1>10, <1>11,
     <1>12, <1>13, <1>14, <1>15, <1>16, <1>17, <1>18, <1>19, <1>20, <1>21,
     <1>22, <1>23
  DEF Next, CallerStep, ServiceStep

(* Every step keeps the lock discipline. *)
LEMMA LockStep ==
  ASSUME TypeOK, LockInv, [Next]_vars
  PROVE  LockInv'
<1> USE DEF TypeOK, LockInv, InSendWait, callVars, dbaseVars, histVars
<1>1. ASSUME NEW a \in App, SmMsgInit(a)
       PROVE  LockInv'
  BY <1>1, IdleIsMsg DEF SmMsgInit
<1>2. ASSUME NEW a \in App, Crash(a)
       PROVE  LockInv'
  BY <1>2, BlankIsMsg DEF Crash
<1>3. ASSUME NEW a \in App, NEW iop \in CallIop, Call(a, iop)
       PROVE  LockInv'
  BY <1>3, RequestIsMsg, BlankIsMsg DEF Call
<1>4. ASSUME NEW a \in App, SendWaitNoQue(a)
       PROVE  LockInv'
  BY <1>4 DEF SendWaitNoQue, Return
<1>5. ASSUME NEW a \in App, SendWaitLock(a)
       PROVE  LockInv'
  BY <1>5 DEF SendWaitLock
<1>6. ASSUME NEW a \in App, SendWaitPoll(a)
       PROVE  LockInv'
  BY <1>6 DEF SendWaitPoll, Tick
<1>7. ASSUME NEW a \in App, NEW u \in CopyUnits, SendWaitPut(a, u)
       PROVE  LockInv'
  BY <1>7, CopyIsMsg DEF SendWaitPut
<1>8. ASSUME NEW a \in App, SendWaitGiveUp(a)
       PROVE  LockInv'
  BY <1>8, IdleIsMsg DEF SendWaitGiveUp, Return
<1>9. ASSUME NEW a \in App, SendWaitState(a)
       PROVE  LockInv'
  BY <1>9 DEF SendWaitState, Tick
<1>10. ASSUME NEW a \in App, SendWaitMatch(a)
       PROVE  LockInv'
  BY <1>10 DEF SendWaitMatch, Tick
<1>11. ASSUME NEW a \in App, NEW u \in CopyUnits, SendWaitTake(a, u)
       PROVE  LockInv'
  BY <1>11, CopyIsMsg DEF SendWaitTake
<1>12. ASSUME NEW a \in App, SendWaitDone(a)
       PROVE  LockInv'
  BY <1>12, IdleIsMsg DEF SendWaitDone, Return
<1>13. ASSUME NEW a \in App, SendWaitExpire(a)
       PROVE  LockInv'
  BY <1>13, IdleIsMsg DEF SendWaitExpire, Return
<1>14. ASSUME NEW a \in App, RecvState(a)
       PROVE  LockInv'
  BY <1>14, BlankIsMsg DEF RecvState
<1>15. ASSUME NEW a \in App, RecvDest(a)
       PROVE  LockInv'
  BY <1>15 DEF RecvDest
<1>16. ASSUME NEW a \in App, NEW u \in CopyUnits, RecvCopy(a, u)
       PROVE  LockInv'
  BY <1>16, CopyIsMsg DEF RecvCopy
<1>17. ASSUME NEW a \in App, RecvClear(a)
       PROVE  LockInv'
  BY <1>17, IdleIsMsg DEF RecvClear
<1>18. ASSUME NEW a \in App, Dispatch(a)
       PROVE  LockInv'
  BY <1>18 DEF Dispatch
<1>19. ASSUME NEW a \in App, SendEchoLock(a)
       PROVE  LockInv'
  BY <1>19 DEF SendEchoLock
<1>20. ASSUME NEW a \in App, SendEchoNoQue(a)
       PROVE  LockInv'
  BY <1>20 DEF SendEchoNoQue
<1>21. ASSUME NEW a \in App, SendEchoCheck(a)
       PROVE  LockInv'
  BY <1>21 DEF SendEchoCheck
<1>22. ASSUME NEW a \in App, NEW u \in CopyUnits, SendEchoPut(a, u)
       PROVE  LockInv'
  BY <1>22, CopyIsMsg, EchoIsMsg DEF SendEchoPut
<1>23. CASE UNCHANGED vars
  BY <1>23 DEF vars
<1> QED
  BY <1>1, <1>2, <1>3, <1>4, <1>5, <1>6, <1>7, <1>8, <1>9, <1>10, <1>11,
     <1>12, <1>13, <1>14, <1>15, <1>16, <1>17, <1>18, <1>19, <1>20, <1>21,
     <1>22, <1>23
  DEF Next, CallerStep, ServiceStep

(* Every step keeps the bound on the loops of SmMsgSendWait. *)
LEMMA LoopStep ==
  ASSUME TypeOK, LoopInv, [Next]_vars
  PROVE  LoopInv'
<1> USE DEF LoopInv, callVars, dbaseVars, histVars
<1>typed. /\ pc \in [App -> CallerPlace] /\ time \in [App -> 0 .. NWait] /\ NWait \in Nat \ {0}
          /\ dpc \in [App -> ServicePlace]
          /\ todo \in [App -> SUBSET CopyUnits] /\ dtodo \in [App -> SUBSET CopyUnits]
          /\ CopyUnits # {}
  BY ConstAssumption, CopyAssumption DEF TypeOK, Fields
<1>1. ASSUME NEW a \in App, SmMsgInit(a)
       PROVE  LoopInv'
  BY <1>1, IdleIsMsg, <1>typed DEF SmMsgInit
<1>2. ASSUME NEW a \in App, Crash(a)
       PROVE  LoopInv'
  BY <1>2, BlankIsMsg, <1>typed DEF Crash
<1>3. ASSUME NEW a \in App, NEW iop \in CallIop, Call(a, iop)
       PROVE  LoopInv'
  BY <1>3, RequestIsMsg, BlankIsMsg, <1>typed DEF Call
<1>4. ASSUME NEW a \in App, SendWaitNoQue(a)
       PROVE  LoopInv'
  BY <1>4, <1>typed DEF SendWaitNoQue, Return
<1>5. ASSUME NEW a \in App, SendWaitLock(a)
       PROVE  LoopInv'
  BY <1>5, <1>typed DEF SendWaitLock
<1>6. ASSUME NEW a \in App, SendWaitPoll(a)
       PROVE  LoopInv'
  BY <1>6, <1>typed DEF SendWaitPoll, Tick
<1>7. ASSUME NEW a \in App, NEW u \in CopyUnits, SendWaitPut(a, u)
       PROVE  LoopInv'
  BY <1>7, CopyIsMsg, <1>typed DEF SendWaitPut
<1>8. ASSUME NEW a \in App, SendWaitGiveUp(a)
       PROVE  LoopInv'
  BY <1>8, IdleIsMsg, <1>typed DEF SendWaitGiveUp, Return
<1>9. ASSUME NEW a \in App, SendWaitState(a)
       PROVE  LoopInv'
  BY <1>9, <1>typed DEF SendWaitState, Tick
<1>10. ASSUME NEW a \in App, SendWaitMatch(a)
       PROVE  LoopInv'
  BY <1>10, <1>typed DEF SendWaitMatch, Tick
<1>11. ASSUME NEW a \in App, NEW u \in CopyUnits, SendWaitTake(a, u)
       PROVE  LoopInv'
  BY <1>11, CopyIsMsg, <1>typed DEF SendWaitTake
<1>12. ASSUME NEW a \in App, SendWaitDone(a)
       PROVE  LoopInv'
  BY <1>12, IdleIsMsg, <1>typed DEF SendWaitDone, Return
<1>13. ASSUME NEW a \in App, SendWaitExpire(a)
       PROVE  LoopInv'
  BY <1>13, IdleIsMsg, <1>typed DEF SendWaitExpire, Return
<1>14. ASSUME NEW a \in App, RecvState(a)
       PROVE  LoopInv'
  BY <1>14, BlankIsMsg, <1>typed DEF RecvState
<1>15. ASSUME NEW a \in App, RecvDest(a)
       PROVE  LoopInv'
  BY <1>15, <1>typed DEF RecvDest
<1>16. ASSUME NEW a \in App, NEW u \in CopyUnits, RecvCopy(a, u)
       PROVE  LoopInv'
  BY <1>16, CopyIsMsg, <1>typed DEF RecvCopy
<1>17. ASSUME NEW a \in App, RecvClear(a)
       PROVE  LoopInv'
  BY <1>17, IdleIsMsg, <1>typed DEF RecvClear
<1>18. ASSUME NEW a \in App, Dispatch(a)
       PROVE  LoopInv'
  BY <1>18, <1>typed DEF Dispatch
<1>19. ASSUME NEW a \in App, SendEchoLock(a)
       PROVE  LoopInv'
  BY <1>19, <1>typed DEF SendEchoLock
<1>20. ASSUME NEW a \in App, SendEchoNoQue(a)
       PROVE  LoopInv'
  BY <1>20, <1>typed DEF SendEchoNoQue
<1>21. ASSUME NEW a \in App, SendEchoCheck(a)
       PROVE  LoopInv'
  BY <1>21, <1>typed DEF SendEchoCheck
<1>22. ASSUME NEW a \in App, NEW u \in CopyUnits, SendEchoPut(a, u)
       PROVE  LoopInv'
  BY <1>22, CopyIsMsg, EchoIsMsg, <1>typed DEF SendEchoPut
<1>23. CASE UNCHANGED vars
  BY <1>23, <1>typed DEF vars
<1> QED
  BY <1>1, <1>2, <1>3, <1>4, <1>5, <1>6, <1>7, <1>8, <1>9, <1>10, <1>11,
     <1>12, <1>13, <1>14, <1>15, <1>16, <1>17, <1>18, <1>19, <1>20, <1>21,
     <1>22, <1>23
  DEF Next, CallerStep, ServiceStep

(* Every step keeps answers of the own process out of a call. *)
LEMMA SlotStep ==
  ASSUME TypeOK, LockInv, SlotInv, [Next]_vars
  PROVE  SlotInv'
<1> USE DEF SlotInv, OwnCall, NotOwnAck, callVars, dbaseVars, histVars
<1>typed. /\ slot \in Msg
      /\ lock \in [App -> {"free", "caller", "dbase"}]
      /\ pc \in [App -> CallerPlace]
      /\ req \in [App -> Msg] /\ ret \in [App -> Msg] /\ rcv \in [App -> Msg]
      /\ todo \in [App -> SUBSET CopyUnits]
  BY DEF TypeOK
<1>1. ASSUME NEW a \in App, SmMsgInit(a)
       PROVE  SlotInv'
  BY <1>1, IdleIsMsg, <1>typed DEF SmMsgInit
<1>2. ASSUME NEW a \in App, Crash(a)
       PROVE  SlotInv'
  BY <1>2, BlankIsMsg, <1>typed DEF Crash
<1>3. ASSUME NEW a \in App, NEW iop \in CallIop, Call(a, iop)
       PROVE  SlotInv'
  BY <1>3, RequestIsMsg, BlankIsMsg, <1>typed DEF Call, Request
<1>4. ASSUME NEW a \in App, SendWaitNoQue(a)
       PROVE  SlotInv'
  BY <1>4, <1>typed DEF SendWaitNoQue, Return
<1>5. ASSUME NEW a \in App, SendWaitLock(a)
       PROVE  SlotInv'
  BY <1>5, <1>typed DEF SendWaitLock
<1>6. ASSUME NEW a \in App, SendWaitPoll(a)
       PROVE  SlotInv'
  BY <1>6, <1>typed, CopyAssumption DEF SendWaitPoll, Tick, Fields
<1>7. ASSUME NEW a \in App, NEW u \in CopyUnits, SendWaitPut(a, u)
       PROVE  SlotInv'
  <2>1. "body" \in u => slot'.body = req[a].body
    BY <1>7, <1>typed, CopyIsMsg DEF SendWaitPut
  <2>2. "body" \notin u => slot'.body = slot.body
    BY <1>7, <1>typed, CopyIsMsg DEF SendWaitPut
  <2>3. \A b \in App : NotOwnAck(b, slot) => NotOwnAck(b, slot')
    BY <1>7, <2>1, <2>2 DEF SendWaitPut
  <2>4. "body" \in u => NotOwnAck(a, slot')
    BY <1>7, <2>1 DEF SendWaitPut
  <2>5. (\A v \in todo'[a] : "body" \notin v) => NotOwnAck(a, slot')
    BY <1>7, <1>typed, <2>3, <2>4 DEF SendWaitPut
  <2>6. SUFFICES ASSUME NEW b \in App
                 PROVE  OwnCall(b)'
    OBVIOUS
  <2>7. CASE b = a
    BY <1>7, <1>typed, <2>5, <2>7 DEF SendWaitPut
  <2>8. CASE b # a
    BY <1>7, <1>typed, <2>3, <2>8 DEF SendWaitPut
  <2> QED
    BY <2>7, <2>8
<1>8. ASSUME NEW a \in App, SendWaitGiveUp(a)
       PROVE  SlotInv'
  BY <1>8, IdleIsMsg, <1>typed DEF SendWaitGiveUp, Return
<1>9. ASSUME NEW a \in App, SendWaitState(a)
       PROVE  SlotInv'
  BY <1>9, <1>typed DEF SendWaitState, Tick
<1>10. ASSUME NEW a \in App, SendWaitMatch(a)
       PROVE  SlotInv'
  BY <1>10, <1>typed DEF SendWaitMatch, Tick
<1>11. ASSUME NEW a \in App, NEW u \in CopyUnits, SendWaitTake(a, u)
       PROVE  SlotInv'
  BY <1>11, CopyIsMsg, <1>typed DEF SendWaitTake
<1>12. ASSUME NEW a \in App, SendWaitDone(a)
       PROVE  SlotInv'
  BY <1>12, IdleIsMsg, <1>typed DEF SendWaitDone, Return
<1>13. ASSUME NEW a \in App, SendWaitExpire(a)
       PROVE  SlotInv'
  BY <1>13, IdleIsMsg, <1>typed DEF SendWaitExpire, Return
<1>14. ASSUME NEW a \in App, RecvState(a)
       PROVE  SlotInv'
  BY <1>14, BlankIsMsg, <1>typed DEF RecvState
<1>15. ASSUME NEW a \in App, RecvDest(a)
       PROVE  SlotInv'
  BY <1>15, <1>typed DEF RecvDest
<1>16. ASSUME NEW a \in App, NEW u \in CopyUnits, RecvCopy(a, u)
       PROVE  SlotInv'
  BY <1>16, CopyIsMsg, <1>typed DEF RecvCopy
<1>17. ASSUME NEW a \in App, RecvClear(a)
       PROVE  SlotInv'
  BY <1>17, IdleIsMsg, <1>typed DEF RecvClear
<1>18. ASSUME NEW a \in App, Dispatch(a)
       PROVE  SlotInv'
  BY <1>18, <1>typed DEF Dispatch
<1>19. ASSUME NEW a \in App, SendEchoLock(a)
       PROVE  SlotInv'
  BY <1>19, <1>typed DEF SendEchoLock
<1>20. ASSUME NEW a \in App, SendEchoNoQue(a)
       PROVE  SlotInv'
  BY <1>20, <1>typed DEF SendEchoNoQue
<1>21. ASSUME NEW a \in App, SendEchoCheck(a)
       PROVE  SlotInv'
  BY <1>21, <1>typed DEF SendEchoCheck
<1>22. ASSUME NEW a \in App, NEW u \in CopyUnits, SendEchoPut(a, u)
       PROVE  SlotInv'
  <2>1. "body" \in u => slot'.body.by = a
    BY <1>22, <1>typed, CopyIsMsg, EchoIsMsg DEF SendEchoPut
  <2>2. "body" \notin u => slot'.body = slot.body
    BY <1>22, <1>typed, CopyIsMsg, EchoIsMsg DEF SendEchoPut
  <2>3. pc[a] \notin InSendWait
    BY <1>22, <1>typed DEF SendEchoPut, LockInv
  <2>4. SUFFICES ASSUME NEW b \in App
                 PROVE  OwnCall(b)'
    OBVIOUS
  <2>5. CASE b = a
    BY <1>22, <2>3, <2>5 DEF SendEchoPut, InSendWait
  <2>6. CASE b # a
    BY <1>22, <2>1, <2>2, <2>6 DEF SendEchoPut
  <2> QED
    BY <2>5, <2>6
<1>23. CASE UNCHANGED vars
  BY <1>23, <1>typed DEF vars
<1> QED
  BY <1>1, <1>2, <1>3, <1>4, <1>5, <1>6, <1>7, <1>8, <1>9, <1>10, <1>11,
     <1>12, <1>13, <1>14, <1>15, <1>16, <1>17, <1>18, <1>19, <1>20, <1>21,
     <1>22, <1>23
  DEF Next, CallerStep, ServiceStep

(* Every step keeps the numbering of the calls. *)
LEMMA CallStep ==
  ASSUME TypeOK, CallInv, [Next]_vars
  PROVE  CallInv'
<1> USE DEF CallInv, callVars, dbaseVars, histVars
<1>typed. /\ pc \in [App -> CallerPlace] /\ req \in [App -> Msg]
      /\ ncall \in Nat /\ MaxCalls \in Nat /\ Calls = 1 .. MaxCalls
      /\ caller \in [Calls -> App \cup {NoApp}]
      /\ outcome \in [Calls -> Outcome]
  BY ConstAssumption DEF TypeOK, Calls
<1>1. ASSUME NEW a \in App, SmMsgInit(a)
       PROVE  CallInv'
  BY <1>1, IdleIsMsg, <1>typed DEF SmMsgInit
<1>2. ASSUME NEW a \in App, Crash(a)
       PROVE  CallInv'
  BY <1>2, BlankIsMsg, <1>typed DEF Crash
<1>3. ASSUME NEW a \in App, NEW iop \in CallIop, Call(a, iop)
       PROVE  CallInv'
  <2>1. ncall + 1 \in Calls /\ outcome[ncall + 1] = "none"
    BY <1>3, <1>typed DEF Call
  <2>2. a \in Callers /\ req'[a].body.call = ncall + 1
    BY <1>3, <1>typed, <2>1, RequestIsMsg DEF Call
  <2>3. \A b \in App : b # a => pc'[b] = pc[b] /\ req'[b] = req[b]
    BY <1>3, <1>typed DEF Call
  <2>4. \A c \in Calls : outcome'[c] = IF c = ncall + 1 THEN "open" ELSE outcome[c]
    BY <1>3, <1>typed DEF Call
  <2>5. \A b \in App : b # a /\ pc[b] # "idle" => req[b].body.call # ncall + 1
    BY <2>1
  <2>6. \A b \in App : pc'[b] # "idle" =>
          /\ req'[b].body.call \in Calls
          /\ outcome'[req'[b].body.call] = "open" /\ caller'[req'[b].body.call] = b
    <3>1. \A c \in Calls : caller'[c] = IF c = ncall + 1 THEN a ELSE caller[c]
      BY <1>3, <1>typed DEF Call
    <3> QED
      BY <3>1, <2>1, <2>2, <2>3, <2>4, <2>5
  <2>7. \A b, d \in App : pc'[b] # "idle" /\ pc'[d] # "idle" /\ b # d =>
          req'[b].body.call # req'[d].body.call
    BY <2>2, <2>3, <2>5
  <2>8. \A c \in Calls : c > ncall' => outcome'[c] = "none"
    BY <1>3, <1>typed, <2>4 DEF Call
  <2> QED
    BY <2>6, <2>7, <2>8
<1>4. ASSUME NEW a \in App, SendWaitNoQue(a)
       PROVE  CallInv'
  BY <1>4, <1>typed DEF SendWaitNoQue, Return
<1>5. ASSUME NEW a \in App, SendWaitLock(a)
       PROVE  CallInv'
  BY <1>5, <1>typed DEF SendWaitLock
<1>6. ASSUME NEW a \in App, SendWaitPoll(a)
       PROVE  CallInv'
  BY <1>6, <1>typed DEF SendWaitPoll, Tick
<1>7. ASSUME NEW a \in App, NEW u \in CopyUnits, SendWaitPut(a, u)
       PROVE  CallInv'
  BY <1>7, CopyIsMsg, <1>typed DEF SendWaitPut
<1>8. ASSUME NEW a \in App, SendWaitGiveUp(a)
       PROVE  CallInv'
  BY <1>8, IdleIsMsg, <1>typed DEF SendWaitGiveUp, Return
<1>9. ASSUME NEW a \in App, SendWaitState(a)
       PROVE  CallInv'
  BY <1>9, <1>typed DEF SendWaitState, Tick
<1>10. ASSUME NEW a \in App, SendWaitMatch(a)
       PROVE  CallInv'
  BY <1>10, <1>typed DEF SendWaitMatch, Tick
<1>11. ASSUME NEW a \in App, NEW u \in CopyUnits, SendWaitTake(a, u)
       PROVE  CallInv'
  BY <1>11, CopyIsMsg, <1>typed DEF SendWaitTake
<1>12. ASSUME NEW a \in App, SendWaitDone(a)
       PROVE  CallInv'
  BY <1>12, IdleIsMsg, <1>typed DEF SendWaitDone, Return
<1>13. ASSUME NEW a \in App, SendWaitExpire(a)
       PROVE  CallInv'
  BY <1>13, IdleIsMsg, <1>typed DEF SendWaitExpire, Return
<1>14. ASSUME NEW a \in App, RecvState(a)
       PROVE  CallInv'
  BY <1>14, BlankIsMsg, <1>typed DEF RecvState
<1>15. ASSUME NEW a \in App, RecvDest(a)
       PROVE  CallInv'
  BY <1>15, <1>typed DEF RecvDest
<1>16. ASSUME NEW a \in App, NEW u \in CopyUnits, RecvCopy(a, u)
       PROVE  CallInv'
  BY <1>16, CopyIsMsg, <1>typed DEF RecvCopy
<1>17. ASSUME NEW a \in App, RecvClear(a)
       PROVE  CallInv'
  BY <1>17, IdleIsMsg, <1>typed DEF RecvClear
<1>18. ASSUME NEW a \in App, Dispatch(a)
       PROVE  CallInv'
  BY <1>18, <1>typed DEF Dispatch
<1>19. ASSUME NEW a \in App, SendEchoLock(a)
       PROVE  CallInv'
  BY <1>19, <1>typed DEF SendEchoLock
<1>20. ASSUME NEW a \in App, SendEchoNoQue(a)
       PROVE  CallInv'
  BY <1>20, <1>typed DEF SendEchoNoQue
<1>21. ASSUME NEW a \in App, SendEchoCheck(a)
       PROVE  CallInv'
  BY <1>21, <1>typed DEF SendEchoCheck
<1>22. ASSUME NEW a \in App, NEW u \in CopyUnits, SendEchoPut(a, u)
       PROVE  CallInv'
  BY <1>22, CopyIsMsg, EchoIsMsg, <1>typed DEF SendEchoPut
<1>23. CASE UNCHANGED vars
  BY <1>23, <1>typed DEF vars
<1> QED
  BY <1>1, <1>2, <1>3, <1>4, <1>5, <1>6, <1>7, <1>8, <1>9, <1>10, <1>11,
     <1>12, <1>13, <1>14, <1>15, <1>16, <1>17, <1>18, <1>19, <1>20, <1>21,
     <1>22, <1>23
  DEF Next, CallerStep, ServiceStep

(* Every step keeps an unsent call out of every message. *)
LEMMA UnsentStep ==
  ASSUME TypeOK, CallInv, UnsentInv, [Next]_vars
  PROVE  UnsentInv'
<1> USE DEF UnsentInv, NotOut, BeforePut, callVars, dbaseVars, histVars
<1>typed. /\ slot \in Msg /\ pc \in [App -> CallerPlace]
      /\ req \in [App -> Msg] /\ rcv \in [App -> Msg]
      /\ Calls = 1 .. MaxCalls /\ MaxCalls \in Nat
      /\ outcome \in [Calls -> Outcome]
      /\ served \in [Calls -> Nat]
  BY ConstAssumption DEF TypeOK, Calls
<1>1. ASSUME NEW a \in App, SmMsgInit(a)
       PROVE  UnsentInv'
  BY <1>1, IdleIsMsg, <1>typed DEF SmMsgInit, CallInv
<1>2. ASSUME NEW a \in App, Crash(a)
       PROVE  UnsentInv'
  BY <1>2, BlankIsMsg, <1>typed DEF Crash, CallInv
<1>3. ASSUME NEW a \in App, NEW iop \in CallIop, Call(a, iop)
       PROVE  UnsentInv'
  <2>1. ncall + 1 \in Calls /\ outcome[ncall + 1] = "none"
    BY <1>3, <1>typed DEF Call, CallInv, TypeOK
  <2>2. req'[a].body.call = ncall + 1
    BY <1>3, <1>typed, <2>1, RequestIsMsg DEF Call
  <2>3. \A b \in App : b # a => pc'[b] = pc[b] /\ req'[b] = req[b]
    BY <1>3, <1>typed DEF Call
  <2>4. \A c \in Calls : outcome'[c] \in {"none", "unsent"} => outcome[c] \in {"none", "unsent"}
    BY <1>3, <1>typed DEF Call
  <2>5. \A c : NotOut(c) => NotOut(c)'
    BY <1>3 DEF Call
  <2>6. NotOut(ncall + 1)
    BY <2>1
  <2> HIDE DEF NotOut
  <2> QED
    BY <2>1, <2>2, <2>3, <2>4, <2>5, <2>6
<1>4. ASSUME NEW a \in App, SendWaitNoQue(a)
       PROVE  UnsentInv'
  BY <1>4, <1>typed DEF SendWaitNoQue, Return, CallInv
<1>5. ASSUME NEW a \in App, SendWaitLock(a)
       PROVE  UnsentInv'
  BY <1>5, <1>typed DEF SendWaitLock, CallInv
<1>6. ASSUME NEW a \in App, SendWaitPoll(a)
       PROVE  UnsentInv'
  BY <1>6, <1>typed DEF SendWaitPoll, Tick, CallInv
<1>7. ASSUME NEW a \in App, NEW u \in CopyUnits, SendWaitPut(a, u)
       PROVE  UnsentInv'
  <2>1. slot'.body = req[a].body \/ slot'.body = slot.body
    BY <1>7, <1>typed, CopyIsMsg DEF SendWaitPut
  <2>2. \A c : NotOut(c) /\ c # req[a].body.call => NotOut(c)'
    BY <1>7, <2>1 DEF SendWaitPut
  <2>3. outcome[req[a].body.call] = "open"
    BY <1>7 DEF SendWaitPut, CallInv
  <2>4. \A b \in App : pc'[b] \in BeforePut => b # a /\ pc[b] \in BeforePut
    BY <1>7, <1>typed DEF SendWaitPut
  <2>5. \A b \in App : b # a /\ pc[b] \in BeforePut => req[b].body.call # req[a].body.call
    BY <1>7 DEF SendWaitPut, CallInv
  <2> HIDE DEF NotOut, BeforePut
  <2> QED
    BY <1>7, <2>2, <2>3, <2>4, <2>5 DEF SendWaitPut
<1>8. ASSUME NEW a \in App, SendWaitGiveUp(a)
       PROVE  UnsentInv'
  <2>1. \A c : NotOut(c) => NotOut(c)'
    BY <1>8, <1>typed, IdleIsMsg DEF SendWaitGiveUp
  <2>2. \A b \in App : pc'[b] \in BeforePut => pc[b] \in BeforePut /\ req'[b] = req[b]
    BY <1>8, <1>typed DEF SendWaitGiveUp, Return
  <2>3. \A c \in Calls : c # req[a].body.call => outcome'[c] = outcome[c]
    BY <1>8, <1>typed DEF SendWaitGiveUp, Return
  <2>4. NotOut(req[a].body.call)
    BY <1>8 DEF SendWaitGiveUp
  <2> HIDE DEF NotOut, BeforePut
  <2> QED
    BY <2>1, <2>2, <2>3, <2>4
<1>9. ASSUME NEW a \in App, SendWaitState(a)
       PROVE  UnsentInv'
  BY <1>9, <1>typed DEF SendWaitState, Tick
<1>10. ASSUME NEW a \in App, SendWaitMatch(a)
       PROVE  UnsentInv'
  BY <1>10, <1>typed DEF SendWaitMatch, Tick
<1>11. ASSUME NEW a \in App, NEW u \in CopyUnits, SendWaitTake(a, u)
       PROVE  UnsentInv'
  BY <1>11, CopyIsMsg, <1>typed DEF SendWaitTake, CallInv
<1>12. ASSUME NEW a \in App, SendWaitDone(a)
       PROVE  UnsentInv'
  <2>1. \A c : NotOut(c) => NotOut(c)'
    BY <1>12, <1>typed, IdleIsMsg DEF SendWaitDone
  <2>2. \A b \in App : pc'[b] \in BeforePut => pc[b] \in BeforePut /\ req'[b] = req[b]
    BY <1>12, <1>typed DEF SendWaitDone, Return
  <2>3. \A c \in Calls : c # req[a].body.call => outcome'[c] = outcome[c]
    BY <1>12, <1>typed DEF SendWaitDone, Return
  <2>4. outcome'[req[a].body.call] = "ok"
    BY <1>12, <1>typed DEF SendWaitDone, Return, CallInv
  <2> HIDE DEF NotOut, BeforePut
  <2> QED
    BY <2>1, <2>2, <2>3, <2>4
<1>13. ASSUME NEW a \in App, SendWaitExpire(a)
       PROVE  UnsentInv'
  <2>1. \A c : NotOut(c) => NotOut(c)'
    BY <1>13, <1>typed, IdleIsMsg DEF SendWaitExpire
  <2>2. \A b \in App : pc'[b] \in BeforePut => pc[b] \in BeforePut /\ req'[b] = req[b]
    BY <1>13, <1>typed DEF SendWaitExpire, Return
  <2>3. \A c \in Calls : c # req[a].body.call => outcome'[c] = outcome[c]
    BY <1>13, <1>typed DEF SendWaitExpire, Return
  <2>4. outcome'[req[a].body.call] = "unknown"
    BY <1>13, <1>typed DEF SendWaitExpire, Return, CallInv
  <2> HIDE DEF NotOut, BeforePut
  <2> QED
    BY <2>1, <2>2, <2>3, <2>4
<1>14. ASSUME NEW a \in App, RecvState(a)
       PROVE  UnsentInv'
  BY <1>14, BlankIsMsg, <1>typed DEF RecvState, CallInv
<1>15. ASSUME NEW a \in App, RecvDest(a)
       PROVE  UnsentInv'
  BY <1>15, <1>typed DEF RecvDest
<1>16. ASSUME NEW a \in App, NEW u \in CopyUnits, RecvCopy(a, u)
       PROVE  UnsentInv'
  BY <1>16, CopyIsMsg, <1>typed DEF RecvCopy, CallInv
<1>17. ASSUME NEW a \in App, RecvClear(a)
       PROVE  UnsentInv'
  BY <1>17, IdleIsMsg, <1>typed DEF RecvClear, CallInv
<1>18. ASSUME NEW a \in App, Dispatch(a)
       PROVE  UnsentInv'
  <2>1. \A c \in Calls : NotOut(c) => NotOut(c)'
    BY <1>18, <1>typed DEF Dispatch
  <2>2. \A b \in App : pc[b] \in BeforePut => req[b].body.call \in Calls
    BY DEF CallInv
  <2> HIDE DEF NotOut, BeforePut
  <2> QED
    BY <1>18, <2>1, <2>2 DEF Dispatch
<1>19. ASSUME NEW a \in App, SendEchoLock(a)
       PROVE  UnsentInv'
  BY <1>19, <1>typed DEF SendEchoLock
<1>20. ASSUME NEW a \in App, SendEchoNoQue(a)
       PROVE  UnsentInv'
  BY <1>20, <1>typed DEF SendEchoNoQue
<1>21. ASSUME NEW a \in App, SendEchoCheck(a)
       PROVE  UnsentInv'
  BY <1>21, <1>typed DEF SendEchoCheck
<1>22. ASSUME NEW a \in App, NEW u \in CopyUnits, SendEchoPut(a, u)
       PROVE  UnsentInv'
  <2>1. slot'.body.call \in {slot.body.call, rcv[a].body.call}
    BY <1>22, <1>typed DEF SendEchoPut, Copy, Echo
  <2>2. \A c : NotOut(c) => NotOut(c)'
    BY <1>22, <2>1 DEF SendEchoPut
  <2> HIDE DEF NotOut
  <2> QED
    BY <1>22, <2>2 DEF SendEchoPut
<1>23. CASE UNCHANGED vars
  BY <1>23, <1>typed DEF vars, CallInv
<1> QED
  BY <1>1, <1>2, <1>3, <1>4, <1>5, <1>6, <1>7, <1>8, <1>9, <1>10, <1>11,
     <1>12, <1>13, <1>14, <1>15, <1>16, <1>17, <1>18, <1>19, <1>20, <1>21,
     <1>22, <1>23
  DEF Next, CallerStep, ServiceStep

(* ChannelInv holds in every state the applications can reach: s_lock is    *)
(* held exactly inside SmMsgSendWait and SmMsgSendEcho, no answer of its    *)
(* own reaches a call, and an unsent call is in no message.                 *)
THEOREM ChannelInvariant == Spec => []ChannelInv
<1>1. ChannelInv /\ [Next]_vars => ChannelInv'
  BY TypeStep, LockStep, LoopStep, SlotStep, CallStep, UnsentStep DEF ChannelInv
<1> QED
  BY InitInv, <1>1, PTL DEF Spec

(* SmMsgSendWait never returns an answer that the service thread of its own *)
(* process wrote.                                                           *)
THEOREM AnsweredByAnother == Spec => []NoSelfAnswer
<1>1. ChannelInv => NoSelfAnswer
  BY DEF ChannelInv, SlotInv, OwnCall, NotOwnAck, NoSelfAnswer
<1> QED
  BY <1>1, ChannelInvariant, PTL

(* A call for which SmMsgSendWait returned -1 or -3 is never executed. *)
THEOREM UnsentIsSafeToRetry == Spec => []UnsentNeverServed
<1>1. ChannelInv => UnsentNeverServed
  BY DEF ChannelInv, UnsentInv, NotOut, UnsentNeverServed
<1> QED
  BY <1>1, ChannelInvariant, PTL

(***************************************************************************)
(* Progress: every step of a thread inside a call or with a message brings *)
(* it closer to the end, and no two threads wait for each other.           *)
(***************************************************************************)

(* A memcpy is seen in finitely many pieces, and in one at least. *)
LEMMA FiniteUnits ==
  /\ IsFiniteSet(CopyUnits) /\ NUnits \in Nat
  /\ CopyUnits # {}
<1>1. IsFiniteSet(Fields)
  <2>1. IsFiniteSet({"state", "frame"})
    <3>1. IsFiniteSet({"state"} \cup {"frame"})
      BY FS_Singleton, FS_AddElement
    <3>2. {"state", "frame"} = {"state"} \cup {"frame"}
      OBVIOUS
    <3> QED
      BY <3>1, <3>2
  <2>2. IsFiniteSet({"state", "frame", "names"})
    BY <2>1, FS_AddElement, {"state", "frame", "names"} = {"state", "frame"} \cup {"names"}
  <2>3. Fields = {"state", "frame", "names"} \cup {"body"}
    BY DEF Fields
  <2> QED
    BY <2>2, <2>3, FS_AddElement
<1>2. IsFiniteSet(CopyUnits)
  BY <1>1, FS_SUBSET, FS_Subset, CopyAssumption
<1> QED
  BY <1>2, FS_CardinalityType, CopyAssumption DEF Fields, NUnits

(* One more piece copied leaves one less. *)
LEMMA UnitCopied ==
  ASSUME NEW S \in SUBSET CopyUnits, NEW u \in S
  PROVE  /\ Cardinality(S) \in Nat \ {0}
         /\ Cardinality(S \ {u}) = Cardinality(S) - 1
         /\ S = {u} => Cardinality(S) = 1
<1>1. IsFiniteSet(S)
  BY FiniteUnits, FS_Subset
<1>2. Cardinality(S) \in Nat /\ Cardinality(S) # 0
  BY <1>1, FS_CardinalityType, FS_EmptySet
<1> QED
  BY <1>1, <1>2, FS_RemoveElement, FS_Singleton

(* The pieces left are a natural number. *)
LEMMA UnitsLeft ==
  ASSUME NEW S \in SUBSET CopyUnits
  PROVE  Cardinality(S) \in Nat
  BY FiniteUnits, FS_Subset, FS_CardinalityType

(* A turn of a polling loop costs two steps at most, and there are turns    *)
(* left for them.                                                           *)
LEMMA CostFalls ==
  ASSUME NEW t \in 0 .. NWait, NEW n \in Nat, NEW t1 \in 0 .. NWait, NEW n1 \in Nat
  PROVE  /\ CallCost("idle", t1, n1) < CallCost("lock", t, n)
         /\ CallCost("send", 0, n1) < CallCost("lock", t, n)
         /\ CallCost("put", t, NUnits) < CallCost("send", t, n)
         /\ t + 1 <= NWait => CallCost("send", t + 1, n1) < CallCost("send", t, n)
         /\ CallCost("giveup", t1, n1) < CallCost("send", t, n)
         /\ n1 < n => CallCost("put", t, n1) < CallCost("put", t, n)
         /\ n # 0 => CallCost("wait", t, n1) < CallCost("put", t, n)
         /\ CallCost("match", t, n1) < CallCost("wait", t, n)
         /\ t + 1 <= NWait => CallCost("wait", t + 1, n1) < CallCost("match", t, n)
         /\ t + 1 <= NWait => CallCost("wait", t + 1, n1) < CallCost("wait", t, n)
         /\ CallCost("expire", t1, n1) < CallCost("wait", t, n)
         /\ t < NWait => CallCost("expire", t1, n1) < CallCost("match", t, n)
         /\ t < NWait => CallCost("take", t1, NUnits) < CallCost("match", t, n)
         /\ n1 < n => CallCost("take", t1, n1) < CallCost("take", t, n)
         /\ n # 0 => CallCost("done", t1, n1) < CallCost("take", t, n)
         /\ \A p \in CallerPlace \ {"idle"} : CallCost("idle", t1, n1) < CallCost(p, t, n)
<1>1. NUnits \in Nat /\ NWait \in Nat \ {0}
  BY FiniteUnits, ConstAssumption
<1> QED
  BY <1>1 DEF CallCost, WaitCost, CallerPlace

(* So it is with the passage of a message through the service thread. *)
LEMMA ServiceFalls ==
  ASSUME NEW n \in Nat, NEW n1 \in Nat
  PROVE  /\ ServiceCost("recv", NUnits) < ServiceCost("dest", n)
         /\ n1 < n => ServiceCost("recv", n1) < ServiceCost("recv", n)
         /\ n # 0 => ServiceCost("clear", n1) < ServiceCost("recv", n)
         /\ ServiceCost("dispatch", n1) < ServiceCost("clear", n)
         /\ ServiceCost("elock", n1) < ServiceCost("dispatch", n)
         /\ ServiceCost("echeck", n1) < ServiceCost("elock", n)
         /\ ServiceCost("eput", NUnits) < ServiceCost("echeck", n)
         /\ n1 < n => ServiceCost("eput", n1) < ServiceCost("eput", n)
         /\ \A p \in ServicePlace \ {"poll"} : ServiceCost("poll", n1) < ServiceCost(p, n)
<1>1. NUnits \in Nat
  BY FiniteUnits
<1> QED
  BY <1>1 DEF ServiceCost, ServicePlace

(* What is left to a thread of a: as much as before, or less. *)
CallerNearer(a) ==
  pc[a] # "idle" => \/ UNCHANGED <<pc[a], time[a], todo[a]>>
                    \/ CallLeft(a)' < CallLeft(a)

ServiceNearer(a) ==
  dpc[a] # "poll" => \/ UNCHANGED <<dpc[a], dtodo[a]>>
                     \/ ServiceLeft(a)' < ServiceLeft(a)

(* Every step leaves a caller as it is or brings it closer to its return. *)
LEMMA CallerBound ==
  ASSUME ChannelInv, [Next]_vars, NEW a \in App
  PROVE  CallerNearer(a)
<1> USE DEF CallerNearer, CallLeft, callVars, dbaseVars, histVars
<1>typed. /\ pc \in [App -> CallerPlace] /\ time \in [App -> 0 .. NWait]
          /\ todo \in [App -> SUBSET CopyUnits] /\ NWait \in Nat \ {0}
          /\ pc[a] \in {"send", "put", "wait", "match"} => time[a] < NWait
          /\ Cardinality(todo[a]) \in Nat /\ Cardinality({}) = 0
  BY ConstAssumption, UnitsLeft, FS_EmptySet DEF ChannelInv, TypeOK, LoopInv
<1>1. ASSUME NEW b \in App, SmMsgInit(b)
       PROVE  CallerNearer(a)
  BY <1>1, <1>typed DEF SmMsgInit
<1>2. ASSUME NEW b \in App, Crash(b)
       PROVE  CallerNearer(a)
  BY <1>2, CostFalls, <1>typed DEF Crash
<1>3. ASSUME NEW b \in App, NEW iop \in CallIop, Call(b, iop)
       PROVE  CallerNearer(a)
  BY <1>3, <1>typed DEF Call
<1>4. ASSUME NEW b \in App, SendWaitNoQue(b)
       PROVE  CallerNearer(a)
  BY <1>4, CostFalls, <1>typed DEF SendWaitNoQue, Return
<1>5. ASSUME NEW b \in App, SendWaitLock(b)
       PROVE  CallerNearer(a)
  BY <1>5, CostFalls, <1>typed DEF SendWaitLock
<1>6. ASSUME NEW b \in App, SendWaitPoll(b)
       PROVE  CallerNearer(a)
  BY <1>6, CostFalls, <1>typed DEF SendWaitPoll, Tick, NUnits
<1>7. ASSUME NEW b \in App, NEW u \in CopyUnits, SendWaitPut(b, u)
       PROVE  CallerNearer(a)
  <2>1. CASE b = a
    <3>1. /\ Cardinality(todo[a]) \in Nat \ {0}
          /\ todo'[a] = todo[a] \ {u} /\ Cardinality(todo'[a]) = Cardinality(todo[a]) - 1
      BY <1>7, <2>1, UnitCopied, <1>typed DEF SendWaitPut
    <3>2. /\ pc[a] = "put" /\ pc'[a] \in {"put", "wait"} /\ time'[a] = time[a] /\ time[a] \in 0 .. NWait
          /\ Cardinality(todo'[a]) \in Nat /\ Cardinality(todo'[a]) < Cardinality(todo[a])
      BY <1>7, <2>1, <3>1, <1>typed DEF SendWaitPut
    <3>3. /\ CallCost("put", time[a], Cardinality(todo'[a])) < CallCost("put", time[a], Cardinality(todo[a]))
          /\ CallCost("wait", time[a], Cardinality(todo'[a])) < CallCost("put", time[a], Cardinality(todo[a]))
      BY <3>1, <3>2, CostFalls
    <3> QED
      BY <3>2, <3>3
  <2>2. CASE b # a
    BY <1>7, <2>2, <1>typed DEF SendWaitPut
  <2> QED
    BY <2>1, <2>2
<1>8. ASSUME NEW b \in App, SendWaitGiveUp(b)
       PROVE  CallerNearer(a)
  BY <1>8, CostFalls, <1>typed DEF SendWaitGiveUp, Return
<1>9. ASSUME NEW b \in App, SendWaitState(b)
       PROVE  CallerNearer(a)
  BY <1>9, CostFalls, <1>typed DEF SendWaitState, Tick
<1>10. ASSUME NEW b \in App, SendWaitMatch(b)
       PROVE  CallerNearer(a)
  BY <1>10, CostFalls, <1>typed DEF SendWaitMatch, Tick, NUnits
<1>11. ASSUME NEW b \in App, NEW u \in CopyUnits, SendWaitTake(b, u)
       PROVE  CallerNearer(a)
  <2>1. CASE b = a
    <3>1. /\ Cardinality(todo[a]) \in Nat \ {0}
          /\ todo'[a] = todo[a] \ {u} /\ Cardinality(todo'[a]) = Cardinality(todo[a]) - 1
      BY <1>11, <2>1, UnitCopied, <1>typed DEF SendWaitTake
    <3>2. /\ pc[a] = "take" /\ pc'[a] \in {"take", "done"} /\ time'[a] = time[a] /\ time[a] \in 0 .. NWait
          /\ Cardinality(todo'[a]) \in Nat /\ Cardinality(todo'[a]) < Cardinality(todo[a])
      BY <1>11, <2>1, <3>1, <1>typed DEF SendWaitTake
    <3>3. /\ CallCost("take", time[a], Cardinality(todo'[a])) < CallCost("take", time[a], Cardinality(todo[a]))
          /\ CallCost("done", time[a], Cardinality(todo'[a])) < CallCost("take", time[a], Cardinality(todo[a]))
      BY <3>1, <3>2, CostFalls
    <3> QED
      BY <3>2, <3>3
  <2>2. CASE b # a
    BY <1>11, <2>2, <1>typed DEF SendWaitTake
  <2> QED
    BY <2>1, <2>2
<1>12. ASSUME NEW b \in App, SendWaitDone(b)
       PROVE  CallerNearer(a)
  BY <1>12, CostFalls, <1>typed DEF SendWaitDone, Return
<1>13. ASSUME NEW b \in App, SendWaitExpire(b)
       PROVE  CallerNearer(a)
  BY <1>13, CostFalls, <1>typed DEF SendWaitExpire, Return
<1>14. ASSUME NEW b \in App, RecvState(b)
       PROVE  CallerNearer(a)
  BY <1>14, <1>typed DEF RecvState
<1>15. ASSUME NEW b \in App, RecvDest(b)
       PROVE  CallerNearer(a)
  BY <1>15, <1>typed DEF RecvDest
<1>16. ASSUME NEW b \in App, NEW u \in CopyUnits, RecvCopy(b, u)
       PROVE  CallerNearer(a)
  BY <1>16, <1>typed DEF RecvCopy
<1>17. ASSUME NEW b \in App, RecvClear(b)
       PROVE  CallerNearer(a)
  BY <1>17, <1>typed DEF RecvClear
<1>18. ASSUME NEW b \in App, Dispatch(b)
       PROVE  CallerNearer(a)
  BY <1>18, <1>typed DEF Dispatch
<1>19. ASSUME NEW b \in App, SendEchoLock(b)
       PROVE  CallerNearer(a)
  BY <1>19, <1>typed DEF SendEchoLock
<1>20. ASSUME NEW b \in App, SendEchoNoQue(b)
       PROVE  CallerNearer(a)
  BY <1>20, <1>typed DEF SendEchoNoQue
<1>21. ASSUME NEW b \in App, SendEchoCheck(b)
       PROVE  CallerNearer(a)
  BY <1>21, <1>typed DEF SendEchoCheck
<1>22. ASSUME NEW b \in App, NEW u \in CopyUnits, SendEchoPut(b, u)
       PROVE  CallerNearer(a)
  BY <1>22, <1>typed DEF SendEchoPut
<1>23. CASE UNCHANGED vars
  BY <1>23 DEF vars
<1> QED
  BY <1>1, <1>2, <1>3, <1>4, <1>5, <1>6, <1>7, <1>8, <1>9, <1>10, <1>11,
     <1>12, <1>13, <1>14, <1>15, <1>16, <1>17, <1>18, <1>19, <1>20, <1>21,
     <1>22, <1>23
  DEF Next, CallerStep, ServiceStep

(* Every step leaves a service thread as it is or brings it closer to its poll. *)
LEMMA ServiceBound ==
  ASSUME ChannelInv, [Next]_vars, NEW a \in App
  PROVE  ServiceNearer(a)
<1> USE DEF ServiceNearer, ServiceLeft, callVars, dbaseVars, histVars
<1>typed. /\ dpc \in [App -> ServicePlace] /\ dtodo \in [App -> SUBSET CopyUnits]
          /\ Cardinality(dtodo[a]) \in Nat /\ Cardinality({}) = 0
  BY UnitsLeft, FS_EmptySet DEF ChannelInv, TypeOK
<1>1. ASSUME NEW b \in App, SmMsgInit(b)
       PROVE  ServiceNearer(a)
  BY <1>1, <1>typed DEF SmMsgInit
<1>2. ASSUME NEW b \in App, Crash(b)
       PROVE  ServiceNearer(a)
  BY <1>2, ServiceFalls, <1>typed DEF Crash
<1>3. ASSUME NEW b \in App, NEW iop \in CallIop, Call(b, iop)
       PROVE  ServiceNearer(a)
  BY <1>3, <1>typed DEF Call
<1>4. ASSUME NEW b \in App, SendWaitNoQue(b)
       PROVE  ServiceNearer(a)
  BY <1>4, <1>typed DEF SendWaitNoQue, Return
<1>5. ASSUME NEW b \in App, SendWaitLock(b)
       PROVE  ServiceNearer(a)
  BY <1>5, <1>typed DEF SendWaitLock
<1>6. ASSUME NEW b \in App, SendWaitPoll(b)
       PROVE  ServiceNearer(a)
  BY <1>6, <1>typed DEF SendWaitPoll, Tick
<1>7. ASSUME NEW b \in App, NEW u \in CopyUnits, SendWaitPut(b, u)
       PROVE  ServiceNearer(a)
  BY <1>7, <1>typed DEF SendWaitPut
<1>8. ASSUME NEW b \in App, SendWaitGiveUp(b)
       PROVE  ServiceNearer(a)
  BY <1>8, <1>typed DEF SendWaitGiveUp, Return
<1>9. ASSUME NEW b \in App, SendWaitState(b)
       PROVE  ServiceNearer(a)
  BY <1>9, <1>typed DEF SendWaitState, Tick
<1>10. ASSUME NEW b \in App, SendWaitMatch(b)
       PROVE  ServiceNearer(a)
  BY <1>10, <1>typed DEF SendWaitMatch, Tick
<1>11. ASSUME NEW b \in App, NEW u \in CopyUnits, SendWaitTake(b, u)
       PROVE  ServiceNearer(a)
  BY <1>11, <1>typed DEF SendWaitTake
<1>12. ASSUME NEW b \in App, SendWaitDone(b)
       PROVE  ServiceNearer(a)
  BY <1>12, <1>typed DEF SendWaitDone, Return
<1>13. ASSUME NEW b \in App, SendWaitExpire(b)
       PROVE  ServiceNearer(a)
  BY <1>13, <1>typed DEF SendWaitExpire, Return
<1>14. ASSUME NEW b \in App, RecvState(b)
       PROVE  ServiceNearer(a)
  BY <1>14, ServiceFalls, <1>typed DEF RecvState
<1>15. ASSUME NEW b \in App, RecvDest(b)
       PROVE  ServiceNearer(a)
  BY <1>15, ServiceFalls, <1>typed DEF RecvDest, NUnits
<1>16. ASSUME NEW b \in App, NEW u \in CopyUnits, RecvCopy(b, u)
       PROVE  ServiceNearer(a)
  <2>1. CASE b = a
    <3>1. /\ Cardinality(dtodo[a]) \in Nat \ {0}
          /\ dtodo'[a] = dtodo[a] \ {u} /\ Cardinality(dtodo'[a]) = Cardinality(dtodo[a]) - 1
      BY <1>16, <2>1, UnitCopied, <1>typed DEF RecvCopy
    <3>2. /\ dpc[a] = "recv" /\ dpc'[a] \in {"recv", "clear"}
          /\ Cardinality(dtodo'[a]) \in Nat /\ Cardinality(dtodo'[a]) < Cardinality(dtodo[a])
      BY <1>16, <2>1, <3>1, <1>typed DEF RecvCopy
    <3>3. /\ ServiceCost("recv", Cardinality(dtodo'[a])) < ServiceCost("recv", Cardinality(dtodo[a]))
          /\ ServiceCost("clear", Cardinality(dtodo'[a])) < ServiceCost("recv", Cardinality(dtodo[a]))
      BY <3>1, <3>2, ServiceFalls DEF ServicePlace
    <3> QED
      BY <3>2, <3>3
  <2>2. CASE b # a
    BY <1>16, <2>2, <1>typed DEF RecvCopy
  <2> QED
    BY <2>1, <2>2
<1>17. ASSUME NEW b \in App, RecvClear(b)
       PROVE  ServiceNearer(a)
  BY <1>17, ServiceFalls, <1>typed DEF RecvClear
<1>18. ASSUME NEW b \in App, Dispatch(b)
       PROVE  ServiceNearer(a)
  BY <1>18, ServiceFalls, <1>typed DEF Dispatch
<1>19. ASSUME NEW b \in App, SendEchoLock(b)
       PROVE  ServiceNearer(a)
  BY <1>19, ServiceFalls, <1>typed DEF SendEchoLock
<1>20. ASSUME NEW b \in App, SendEchoNoQue(b)
       PROVE  ServiceNearer(a)
  BY <1>20, ServiceFalls, <1>typed DEF SendEchoNoQue
<1>21. ASSUME NEW b \in App, SendEchoCheck(b)
       PROVE  ServiceNearer(a)
  BY <1>21, ServiceFalls, <1>typed DEF SendEchoCheck, NUnits
<1>22. ASSUME NEW b \in App, NEW u \in CopyUnits, SendEchoPut(b, u)
       PROVE  ServiceNearer(a)
  <2>1. CASE b = a
    <3>1. /\ Cardinality(dtodo[a]) \in Nat \ {0}
          /\ dtodo'[a] = dtodo[a] \ {u} /\ Cardinality(dtodo'[a]) = Cardinality(dtodo[a]) - 1
      BY <1>22, <2>1, UnitCopied, <1>typed DEF SendEchoPut
    <3>2. /\ dpc[a] = "eput" /\ dpc'[a] \in {"eput", "poll"}
          /\ Cardinality(dtodo'[a]) \in Nat /\ Cardinality(dtodo'[a]) < Cardinality(dtodo[a])
      BY <1>22, <2>1, <3>1, <1>typed DEF SendEchoPut
    <3>3. /\ ServiceCost("eput", Cardinality(dtodo'[a])) < ServiceCost("eput", Cardinality(dtodo[a]))
          /\ ServiceCost("poll", Cardinality(dtodo'[a])) < ServiceCost("eput", Cardinality(dtodo[a]))
      BY <3>1, <3>2, ServiceFalls DEF ServicePlace
    <3> QED
      BY <3>2, <3>3
  <2>2. CASE b # a
    BY <1>22, <2>2, <1>typed DEF SendEchoPut
  <2> QED
    BY <2>1, <2>2
<1>23. CASE UNCHANGED vars
  BY <1>23 DEF vars
<1> QED
  BY <1>1, <1>2, <1>3, <1>4, <1>5, <1>6, <1>7, <1>8, <1>9, <1>10, <1>11,
     <1>12, <1>13, <1>14, <1>15, <1>16, <1>17, <1>18, <1>19, <1>20, <1>21,
     <1>22, <1>23
  DEF Next, CallerStep, ServiceStep

(* SmMsgSendWait takes a bounded number of steps of its thread, and so does *)
(* what elDbaseProc does with a message, for any number of polls, pieces of *)
(* a copy and applications, whatever the others write into the slot.        *)
THEOREM StepsAreBounded == Spec => StepsBounded
<1>1. ChannelInv /\ [Next]_vars =>
        [\A a \in App :
           /\ pc[a] # "idle" => \/ UNCHANGED <<pc[a], time[a], todo[a]>>
                                \/ CallLeft(a)' < CallLeft(a)
           /\ dpc[a] # "poll" => \/ UNCHANGED <<dpc[a], dtodo[a]>>
                                 \/ ServiceLeft(a)' < ServiceLeft(a)]_vars
  BY CallerBound, ServiceBound DEF CallerNearer, ServiceNearer
<1> QED
  BY <1>1, ChannelInvariant, PTL DEF Spec, StepsBounded

(* The number of steps left is never below 0 and never above the bounds of  *)
(* WithinBounds, so that they are bounds on the steps of a call of          *)
(* SmMsgSendWait and of a message in elDbaseProc.                           *)
THEOREM StepsAreCounted == Spec => []WithinBounds
<1>1. ASSUME ChannelInv PROVE WithinBounds
  <2>1. NUnits \in Nat /\ NWait \in Nat \ {0}
    BY FiniteUnits, ConstAssumption
  <2>2. ASSUME NEW S \in SUBSET CopyUnits
        PROVE  Cardinality(S) \in 0 .. NUnits
    BY FiniteUnits, FS_Subset, FS_CardinalityType DEF NUnits
  <2>3. ASSUME NEW t \in 0 .. NWait, NEW n \in 0 .. NUnits
        PROVE  /\ \A p \in CallerPlace : CallCost(p, t, n) \in 0 .. (3 * NWait + 2 * NUnits + 4)
               /\ \A p \in ServicePlace : ServiceCost(p, n) \in 0 .. (2 * NUnits + 6)
    <3>1. /\ CallCost("idle", t, n) = 0 /\ CallCost("take", t, n) = n + 1
          /\ \A p \in {"giveup", "done", "expire"} : CallCost(p, t, n) = 1
          /\ CallCost("match", t, n) = 2 * (NWait - t) + NUnits + 1
          /\ CallCost("wait", t, n) = 2 * (NWait - t) + NUnits + 2
          /\ CallCost("put", t, n) = n + 2 * (NWait - t) + NUnits + 2
          /\ CallCost("send", t, n) = 3 * (NWait - t) + 2 * NUnits + 3
          /\ CallCost("lock", t, n) = 3 * NWait + 2 * NUnits + 4
      BY <2>1, <2>3 DEF CallCost, WaitCost
    <3>2. \A p \in CallerPlace : CallCost(p, t, n) \in 0 .. (3 * NWait + 2 * NUnits + 4)
      BY <2>1, <2>3, <3>1 DEF CallerPlace
    <3>3. \A p \in ServicePlace : ServiceCost(p, n) \in 0 .. (2 * NUnits + 6)
      BY <2>1, <2>3 DEF ServiceCost, ServicePlace
    <3> QED
      BY <3>2, <3>3
  <2> QED
    BY <1>1, <2>2, <2>3
    DEF ChannelInv, TypeOK, WithinBounds, CallLeft, ServiceLeft
<1> QED
  BY <1>1, ChannelInvariant, PTL

(* No two threads wait for each other: s_lock is all a thread waits for,    *)
(* and whoever holds it can go on.                                          *)
THEOREM NobodyIsStuck == Spec => []NobodyStuck
<1>1. ChannelInv => NobodyStuck
  <2>1. SUFFICES ASSUME ChannelInv, NEW a \in App
                 PROVE  /\ pc[a] # "idle" =>
                             CallerCan(a) \/ (pc[a] = "lock" /\ lock[a] = "dbase" /\ ServiceCan(a))
                        /\ dpc[a] # "poll" =>
                             ServiceCan(a) \/ (dpc[a] = "elock" /\ lock[a] = "caller" /\ CallerCan(a))
    BY DEF NobodyStuck
  <2>2. /\ lock[a] \in {"free", "caller", "dbase"}
        /\ lock[a] = "caller" <=> pc[a] \in InSendWait
        /\ lock[a] = "dbase" <=> dpc[a] \in {"echeck", "eput"}
        /\ pc[a] \in {"put", "take"} => todo[a] # {}
        /\ dpc[a] \in {"recv", "eput"} => dtodo[a] # {}
    BY <2>1 DEF ChannelInv, TypeOK, LockInv, LoopInv
  <2> QED
    BY <2>2 DEF CallerCan, ServiceCan, InSendWait
<1> QED
  BY <1>1, ChannelInvariant, PTL

(***************************************************************************)
(* One application calls another, as elAPP calls rhApp: Channel implements *)
(* Rpc.                                                                    *)
(***************************************************************************)

(* Marking a message idle changes its state only. *)
LEMMA IdleFields ==
  ASSUME NEW m \in Msg
  PROVE  /\ Idle(m).state = "IDLE" /\ Idle(m).index = m.index
         /\ Idle(m).src = m.src /\ Idle(m).dest = m.dest /\ Idle(m).body = m.body
  BY DEF Idle, Msg

(* A memcpy seen as a whole copies every field. *)
LEMMA CopyWhole ==
  ASSUME NEW m \in Msg, NEW n \in Msg
  PROVE  Copy(m, n, Fields) = n
  BY DEF Copy, Msg, Fields

(* An index below its range does not wrap. *)
LEMMA NoWrap ==
  ASSUME NEW n \in Nat, NEW k \in Nat, n < k
  PROVE  n % k = n
  OBVIOUS

(* With whole copies the one piece a thread may copy is the message. *)
LEMMA OneUnit ==
  ASSUME NEW e, NEW r, Deployed(e, r), NEW u \in CopyUnits,
         NEW T \in SUBSET CopyUnits, u \in T
  PROVE  u = Fields /\ T = {u}
  BY DEF Deployed

(* A process starts with no message of the deployment. *)
LEMMA InitWhole ==
  ASSUME NEW e, NEW r, Deployed(e, r), Init
  PROVE  WholeInv(e, r)
<1> USE DEF Init, Blank
<1>1. MessageInv(e, r) /\ NumberInv(e)
  BY DEF MessageInv, NumberInv, Sent, AckBy, Numbered, Calls
<1>2. RoleInv(e, r) /\ RequestInv(e, r)
  BY DEF RoleInv, RequestInv, Deployed
<1>3. ServeInv(e, r) /\ AnswerInv(e, r)
  BY DEF ServeInv, AnswerInv, AckBy, Deployed
<1> QED
  BY <1>1, <1>2, <1>3 DEF WholeInv

(* Every step keeps the roles. *)
LEMMA RoleStep ==
  ASSUME NEW e, NEW r, Deployed(e, r), ChannelInv, WholeInv(e, r), [Next]_vars
  PROVE  RoleInv(e, r)'
<1> USE DEF callVars, dbaseVars, histVars
<1>typed. /\ slot \in Msg /\ pc \in [App -> CallerPlace] /\ dpc \in [App -> ServicePlace]
      /\ req \in [App -> Msg] /\ ret \in [App -> Msg] /\ rcv \in [App -> Msg]
      /\ todo \in [App -> SUBSET CopyUnits] /\ dtodo \in [App -> SUBSET CopyUnits]
      /\ lock \in [App -> {"free", "caller", "dbase"}]
      /\ seq \in [App -> Nat] /\ ncall \in Nat /\ MaxCalls \in Nat /\ Calls = 1 .. MaxCalls
      /\ caller \in [Calls -> App \cup {NoApp}]
      /\ outcome \in [Calls -> Outcome] /\ served \in [Calls -> Nat]
      /\ NoApp \notin App
  BY ConstAssumption DEF ChannelInv, TypeOK, Calls, Index
<1>inv. /\ RoleInv(e, r) /\ CallInv /\ e \in App /\ r \in App /\ Callers = {e}
      /\ MaxCalls < IndexMod /\ IndexMod \in Nat
      /\ slot.dest \in {e, r, NoApp}
  BY ConstAssumption DEF Deployed, ChannelInv, WholeInv, MessageInv, Sent
<1>1. ASSUME NEW a \in App, SmMsgInit(a)
       PROVE  RoleInv(e, r)'
  BY <1>1, <1>typed, <1>inv DEF SmMsgInit, RoleInv
<1>2. ASSUME NEW a \in App, Crash(a)
       PROVE  RoleInv(e, r)'
  BY <1>2, <1>typed, <1>inv DEF Crash, RoleInv
<1>3. ASSUME NEW a \in App, NEW iop \in CallIop, Call(a, iop)
       PROVE  RoleInv(e, r)'
  <2>1. ncall + 1 \in Calls /\ a = e /\ seq[e] + 1 \in Nat /\ seq[e] + 1 < IndexMod
    BY <1>3, <1>typed, <1>inv DEF Call, RoleInv
  <2>2. seq'[e] = seq[e] + 1 /\ ncall' = ncall + 1
    <3>1. (seq[e] + 1) % IndexMod = seq[e] + 1
      BY <2>1, <1>inv, NoWrap
    <3> QED
      BY <1>3, <2>1, <3>1, <1>typed, <1>inv DEF Call
  <2>3. \A c \in Calls : outcome'[c] = IF c = ncall + 1 THEN "open" ELSE outcome[c]
    BY <1>3, <1>typed, <2>1 DEF Call
  <2>4. \A c \in Calls : caller'[c] = IF c = ncall + 1 THEN e ELSE caller[c]
    BY <1>3, <1>typed, <2>1 DEF Call
  <2>5. \A b \in App \ {e} : pc'[b] = pc[b]
    BY <1>3, <1>typed, <2>1 DEF Call
  <2>6. \A b \in App : dpc'[b] = dpc[b]
    BY <1>3 DEF Call
  <2>7. seq'[e] <= ncall'
    BY <2>2, <1>typed, <1>inv DEF RoleInv
  <2> QED
    BY <2>3, <2>4, <2>5, <2>6, <2>7, <1>inv DEF RoleInv
<1>4. ASSUME NEW a \in App, SendWaitNoQue(a)
       PROVE  RoleInv(e, r)'
  BY <1>4, <1>typed, <1>inv DEF SendWaitNoQue, Return, RoleInv
<1>5. ASSUME NEW a \in App, SendWaitLock(a)
       PROVE  RoleInv(e, r)'
  BY <1>5, <1>typed, <1>inv DEF SendWaitLock, RoleInv
<1>6. ASSUME NEW a \in App, SendWaitPoll(a)
       PROVE  RoleInv(e, r)'
  BY <1>6, <1>typed, <1>inv DEF SendWaitPoll, Tick, RoleInv
<1>7. ASSUME NEW a \in App, NEW u \in CopyUnits, SendWaitPut(a, u)
       PROVE  RoleInv(e, r)'
  BY <1>7, <1>typed, <1>inv DEF SendWaitPut, RoleInv
<1>8. ASSUME NEW a \in App, SendWaitGiveUp(a)
       PROVE  RoleInv(e, r)'
  BY <1>8, <1>typed, <1>inv DEF SendWaitGiveUp, Return, RoleInv
<1>9. ASSUME NEW a \in App, SendWaitState(a)
       PROVE  RoleInv(e, r)'
  BY <1>9, <1>typed, <1>inv DEF SendWaitState, Tick, RoleInv
<1>10. ASSUME NEW a \in App, SendWaitMatch(a)
       PROVE  RoleInv(e, r)'
  BY <1>10, <1>typed, <1>inv DEF SendWaitMatch, Tick, RoleInv
<1>11. ASSUME NEW a \in App, NEW u \in CopyUnits, SendWaitTake(a, u)
       PROVE  RoleInv(e, r)'
  BY <1>11, <1>typed, <1>inv DEF SendWaitTake, RoleInv
<1>12. ASSUME NEW a \in App, SendWaitDone(a)
       PROVE  RoleInv(e, r)'
  BY <1>12, <1>typed, <1>inv DEF SendWaitDone, Return, RoleInv
<1>13. ASSUME NEW a \in App, SendWaitExpire(a)
       PROVE  RoleInv(e, r)'
  <2>1. \A c \in Calls : outcome'[c] = IF c = req[a].body.call THEN "unknown" ELSE outcome[c]
    BY <1>13, <1>typed DEF SendWaitExpire, Return
  <2>2. caller[req[a].body.call] = a /\ a = e
    BY <1>13, <1>inv DEF SendWaitExpire, CallInv, RoleInv
  <2> QED
    BY <1>13, <2>1, <2>2, <1>typed, <1>inv DEF SendWaitExpire, Return, RoleInv
<1>14. ASSUME NEW a \in App, RecvState(a)
       PROVE  RoleInv(e, r)'
  BY <1>14, <1>typed, <1>inv DEF RecvState, RoleInv
<1>15. ASSUME NEW a \in App, RecvDest(a)
       PROVE  RoleInv(e, r)'
  BY <1>15, <1>typed, <1>inv DEF RecvDest, RoleInv
<1>16. ASSUME NEW a \in App, NEW u \in CopyUnits, RecvCopy(a, u)
       PROVE  RoleInv(e, r)'
  BY <1>16, <1>typed, <1>inv DEF RecvCopy, RoleInv
<1>17. ASSUME NEW a \in App, RecvClear(a)
       PROVE  RoleInv(e, r)'
  BY <1>17, <1>typed, <1>inv DEF RecvClear, RoleInv
<1>18. ASSUME NEW a \in App, Dispatch(a)
       PROVE  RoleInv(e, r)'
  BY <1>18, <1>typed, <1>inv DEF Dispatch, RoleInv
<1>19. ASSUME NEW a \in App, SendEchoLock(a)
       PROVE  RoleInv(e, r)'
  BY <1>19, <1>typed, <1>inv DEF SendEchoLock, RoleInv
<1>20. ASSUME NEW a \in App, SendEchoNoQue(a)
       PROVE  RoleInv(e, r)'
  BY <1>20, <1>typed, <1>inv DEF SendEchoNoQue, RoleInv
<1>21. ASSUME NEW a \in App, SendEchoCheck(a)
       PROVE  RoleInv(e, r)'
  BY <1>21, <1>typed, <1>inv DEF SendEchoCheck, RoleInv
<1>22. ASSUME NEW a \in App, NEW u \in CopyUnits, SendEchoPut(a, u)
       PROVE  RoleInv(e, r)'
  BY <1>22, <1>typed, <1>inv DEF SendEchoPut, RoleInv
<1>23. CASE UNCHANGED vars
  BY <1>23, <1>typed, <1>inv DEF vars, RoleInv
<1> QED
  BY <1>1, <1>2, <1>3, <1>4, <1>5, <1>6, <1>7, <1>8, <1>9, <1>10, <1>11,
     <1>12, <1>13, <1>14, <1>15, <1>16, <1>17, <1>18, <1>19, <1>20, <1>21,
     <1>22, <1>23
  DEF Next, CallerStep, ServiceStep

(* Every step keeps e's request. *)
LEMMA RequestStep ==
  ASSUME NEW e, NEW r, Deployed(e, r), ChannelInv, WholeInv(e, r), [Next]_vars
  PROVE  RequestInv(e, r)'
<1> USE DEF callVars, dbaseVars, histVars
<1>typed. /\ slot \in Msg /\ pc \in [App -> CallerPlace] /\ dpc \in [App -> ServicePlace]
      /\ req \in [App -> Msg] /\ ret \in [App -> Msg] /\ rcv \in [App -> Msg]
      /\ todo \in [App -> SUBSET CopyUnits] /\ dtodo \in [App -> SUBSET CopyUnits]
      /\ lock \in [App -> {"free", "caller", "dbase"}]
      /\ seq \in [App -> Nat] /\ ncall \in Nat /\ MaxCalls \in Nat /\ Calls = 1 .. MaxCalls
      /\ caller \in [Calls -> App \cup {NoApp}]
      /\ outcome \in [Calls -> Outcome] /\ served \in [Calls -> Nat]
      /\ NoApp \notin App
  BY ConstAssumption DEF ChannelInv, TypeOK, Calls, Index
<1>inv. /\ RequestInv(e, r) /\ RoleInv(e, r) /\ CallInv /\ UnsentInv /\ e \in App /\ r \in App
      /\ Callers = {e} /\ MaxCalls < IndexMod /\ IndexMod \in Nat
      /\ (pc[e] # "idle" => ncall \in Calls)
  BY ConstAssumption DEF Deployed, ChannelInv, WholeInv, CallInv, RequestInv
<1>1. ASSUME NEW a \in App, SmMsgInit(a)
       PROVE  RequestInv(e, r)'
  <2>1. pc'[e] = pc[e] /\ req'[e] = req[e] /\ ncall' = ncall /\ seq'[e] = seq[e]
    BY <1>1, <1>typed, <1>inv DEF SmMsgInit
  <2>2. NotOut(ncall) /\ ncall \in Calls => NotOut(ncall)'
    BY <1>1, <1>typed, <1>inv, IdleFields, BlankIsMsg DEF SmMsgInit, NotOut
  <2> QED
    BY <2>1, <2>2, <1>inv DEF RequestInv
<1>2. ASSUME NEW a \in App, Crash(a)
       PROVE  RequestInv(e, r)'
  <2>1. pc'[e] = "idle" \/ (pc'[e] = pc[e] /\ req'[e] = req[e] /\ ncall' = ncall /\ seq'[e] = seq[e])
    BY <1>2, <1>typed, <1>inv DEF Crash
  <2>2. NotOut(ncall) /\ ncall \in Calls => NotOut(ncall)'
    BY <1>2, <1>typed, <1>inv, BlankIsMsg DEF Crash, NotOut
  <2> QED
    BY <2>1, <2>2, <1>inv DEF RequestInv
<1>3. ASSUME NEW a \in App, NEW iop \in CallIop, Call(a, iop)
       PROVE  RequestInv(e, r)'
  <2>1. ncall + 1 \in Calls /\ a = e /\ seq[e] + 1 \in Nat /\ seq[e] + 1 < IndexMod
    BY <1>3, <1>typed, <1>inv DEF Call, RoleInv
  <2>2. seq'[e] = seq[e] + 1 /\ ncall' = ncall + 1 /\ pc'[e] = "lock"
    <3>1. (seq[e] + 1) % IndexMod = seq[e] + 1
      BY <2>1, <1>inv, NoWrap
    <3> QED
      BY <1>3, <2>1, <3>1, <1>typed, <1>inv DEF Call
  <2>3. req'[e] = Request(e, iop, ncall + 1)
    BY <1>3, <2>1, <1>typed DEF Call
  <2>4. Sent(e, r, Request(e, iop, ncall + 1))
    BY <2>1 DEF Sent, AckBy, Request, Deployed
  <2> QED
    BY <2>1, <2>2, <2>3, <2>4 DEF RequestInv, Request
<1>4. ASSUME NEW a \in App, SendWaitNoQue(a)
       PROVE  RequestInv(e, r)'
  <2>1. a = e
    BY <1>4, <1>inv DEF SendWaitNoQue, RoleInv
  <2> QED
    BY <1>4, <2>1, <1>typed, <1>inv DEF SendWaitNoQue, Return, RequestInv
<1>5. ASSUME NEW a \in App, SendWaitLock(a)
       PROVE  RequestInv(e, r)'
  <2>1. a = e
    BY <1>5, <1>inv DEF SendWaitLock, RoleInv
  <2> QED
    BY <1>5, <2>1, <1>typed, <1>inv DEF SendWaitLock, RequestInv
<1>6. ASSUME NEW a \in App, SendWaitPoll(a)
       PROVE  RequestInv(e, r)'
  <2>1. a = e
    BY <1>6, <1>inv DEF SendWaitPoll, RoleInv
  <2>2. NotOut(ncall)
    BY <1>6, <2>1, <1>inv DEF SendWaitPoll, UnsentInv, BeforePut, RequestInv
  <2>3. NotOut(ncall)'
    BY <1>6, <2>2 DEF SendWaitPoll, NotOut
  <2> QED
    BY <1>6, <2>1, <2>3, <1>typed, <1>inv DEF SendWaitPoll, Tick, RequestInv
<1>7. ASSUME NEW a \in App, NEW u \in CopyUnits, SendWaitPut(a, u)
       PROVE  RequestInv(e, r)'
  <2>1. a = e
    BY <1>7, <1>inv DEF SendWaitPut, RoleInv
  <2>2. pc'[e] = "wait"
    BY <1>7, <2>1, <1>typed, OneUnit DEF SendWaitPut
  <2> QED
    BY <1>7, <2>1, <2>2, <1>typed, <1>inv DEF SendWaitPut, RequestInv
<1>8. ASSUME NEW a \in App, SendWaitGiveUp(a)
       PROVE  RequestInv(e, r)'
  <2>1. a = e
    BY <1>8, <1>inv DEF SendWaitGiveUp, RoleInv
  <2> QED
    BY <1>8, <2>1, <1>typed, <1>inv DEF SendWaitGiveUp, Return, RequestInv
<1>9. ASSUME NEW a \in App, SendWaitState(a)
       PROVE  RequestInv(e, r)'
  <2>1. a = e
    BY <1>9, <1>inv DEF SendWaitState, RoleInv
  <2> QED
    BY <1>9, <2>1, <1>typed, <1>inv DEF SendWaitState, Tick, RequestInv
<1>10. ASSUME NEW a \in App, SendWaitMatch(a)
       PROVE  RequestInv(e, r)'
  <2>1. a = e
    BY <1>10, <1>inv DEF SendWaitMatch, RoleInv
  <2> QED
    BY <1>10, <2>1, <1>typed, <1>inv DEF SendWaitMatch, Tick, RequestInv
<1>11. ASSUME NEW a \in App, NEW u \in CopyUnits, SendWaitTake(a, u)
       PROVE  RequestInv(e, r)'
  <2>1. a = e
    BY <1>11, <1>inv DEF SendWaitTake, RoleInv
  <2> QED
    BY <1>11, <2>1, <1>typed, <1>inv DEF SendWaitTake, RequestInv
<1>12. ASSUME NEW a \in App, SendWaitDone(a)
       PROVE  RequestInv(e, r)'
  <2>1. a = e
    BY <1>12, <1>inv DEF SendWaitDone, RoleInv
  <2> QED
    BY <1>12, <2>1, <1>typed, <1>inv DEF SendWaitDone, Return, RequestInv
<1>13. ASSUME NEW a \in App, SendWaitExpire(a)
       PROVE  RequestInv(e, r)'
  <2>1. a = e
    BY <1>13, <1>inv DEF SendWaitExpire, RoleInv
  <2> QED
    BY <1>13, <2>1, <1>typed, <1>inv DEF SendWaitExpire, Return, RequestInv
<1>14. ASSUME NEW a \in App, RecvState(a)
       PROVE  RequestInv(e, r)'
  <2>1. pc'[e] = pc[e] /\ req'[e] = req[e] /\ ncall' = ncall /\ seq'[e] = seq[e]
    BY <1>14, <1>typed, <1>inv DEF RecvState
  <2>2. NotOut(ncall) /\ ncall \in Calls => NotOut(ncall)'
    BY <1>14, <1>typed, <1>inv, IdleFields, BlankIsMsg DEF RecvState, NotOut
  <2> QED
    BY <2>1, <2>2, <1>inv DEF RequestInv
<1>15. ASSUME NEW a \in App, RecvDest(a)
       PROVE  RequestInv(e, r)'
  <2>1. pc'[e] = pc[e] /\ req'[e] = req[e] /\ ncall' = ncall /\ seq'[e] = seq[e]
    BY <1>15, <1>typed, <1>inv DEF RecvDest
  <2>2. NotOut(ncall) /\ ncall \in Calls => NotOut(ncall)'
    BY <1>15, <1>typed, <1>inv, IdleFields, BlankIsMsg DEF RecvDest, NotOut
  <2> QED
    BY <2>1, <2>2, <1>inv DEF RequestInv
<1>16. ASSUME NEW a \in App, NEW u \in CopyUnits, RecvCopy(a, u)
       PROVE  RequestInv(e, r)'
  <2>1. pc'[e] = pc[e] /\ req'[e] = req[e] /\ ncall' = ncall /\ seq'[e] = seq[e]
    BY <1>16, <1>typed, <1>inv DEF RecvCopy
  <2>2. u = Fields
    BY <1>16 DEF Deployed
  <2>3. rcv'[a] = slot /\ \A b \in App : b # a => rcv'[b] = rcv[b]
    BY <1>16, <1>typed, <2>2, CopyWhole, EchoIsMsg DEF RecvCopy
  <2>4. NotOut(ncall) /\ ncall \in Calls => NotOut(ncall)'
    BY <1>16, <1>typed, <2>1, <2>3, EchoIsMsg DEF RecvCopy, NotOut
  <2> QED
    BY <2>1, <2>4, <1>inv DEF RequestInv
<1>17. ASSUME NEW a \in App, RecvClear(a)
       PROVE  RequestInv(e, r)'
  <2>1. pc'[e] = pc[e] /\ req'[e] = req[e] /\ ncall' = ncall /\ seq'[e] = seq[e]
    BY <1>17, <1>typed, <1>inv DEF RecvClear
  <2>2. NotOut(ncall) /\ ncall \in Calls => NotOut(ncall)'
    BY <1>17, <1>typed, <1>inv, IdleFields, BlankIsMsg DEF RecvClear, NotOut
  <2> QED
    BY <2>1, <2>2, <1>inv DEF RequestInv
<1>18. ASSUME NEW a \in App, Dispatch(a)
       PROVE  RequestInv(e, r)'
  <2>1. pc'[e] = pc[e] /\ req'[e] = req[e] /\ ncall' = ncall /\ seq'[e] = seq[e]
    BY <1>18, <1>typed, <1>inv DEF Dispatch
  <2>2. NotOut(ncall) /\ ncall \in Calls => NotOut(ncall)'
    BY <1>18, <1>typed, <1>inv, IdleFields, BlankIsMsg DEF Dispatch, NotOut
  <2> QED
    BY <2>1, <2>2, <1>inv DEF RequestInv
<1>19. ASSUME NEW a \in App, SendEchoLock(a)
       PROVE  RequestInv(e, r)'
  <2>1. pc'[e] = pc[e] /\ req'[e] = req[e] /\ ncall' = ncall /\ seq'[e] = seq[e]
    BY <1>19, <1>typed, <1>inv DEF SendEchoLock
  <2>2. NotOut(ncall) /\ ncall \in Calls => NotOut(ncall)'
    BY <1>19, <1>typed, <1>inv, IdleFields, BlankIsMsg DEF SendEchoLock, NotOut
  <2> QED
    BY <2>1, <2>2, <1>inv DEF RequestInv
<1>20. ASSUME NEW a \in App, SendEchoNoQue(a)
       PROVE  RequestInv(e, r)'
  <2>1. pc'[e] = pc[e] /\ req'[e] = req[e] /\ ncall' = ncall /\ seq'[e] = seq[e]
    BY <1>20, <1>typed, <1>inv DEF SendEchoNoQue
  <2>2. NotOut(ncall) /\ ncall \in Calls => NotOut(ncall)'
    BY <1>20, <1>typed, <1>inv, IdleFields, BlankIsMsg DEF SendEchoNoQue, NotOut
  <2> QED
    BY <2>1, <2>2, <1>inv DEF RequestInv
<1>21. ASSUME NEW a \in App, SendEchoCheck(a)
       PROVE  RequestInv(e, r)'
  <2>1. pc'[e] = pc[e] /\ req'[e] = req[e] /\ ncall' = ncall /\ seq'[e] = seq[e]
    BY <1>21, <1>typed, <1>inv DEF SendEchoCheck
  <2>2. NotOut(ncall) /\ ncall \in Calls => NotOut(ncall)'
    BY <1>21, <1>typed, <1>inv, IdleFields, BlankIsMsg DEF SendEchoCheck, NotOut
  <2> QED
    BY <2>1, <2>2, <1>inv DEF RequestInv
<1>22. ASSUME NEW a \in App, NEW u \in CopyUnits, SendEchoPut(a, u)
       PROVE  RequestInv(e, r)'
  <2>1. pc'[e] = pc[e] /\ req'[e] = req[e] /\ ncall' = ncall /\ seq'[e] = seq[e]
    BY <1>22, <1>typed, <1>inv DEF SendEchoPut
  <2>2. slot'.body.call = rcv[a].body.call
    BY <1>22, <1>typed, CopyWhole, EchoIsMsg DEF SendEchoPut, Deployed
  <2>3. NotOut(ncall) => NotOut(ncall)'
    BY <1>22, <2>1, <2>2 DEF SendEchoPut, NotOut
  <2> QED
    BY <2>1, <2>3, <1>inv DEF RequestInv
<1>23. CASE UNCHANGED vars
  BY <1>23, <1>inv DEF vars, RequestInv, NotOut
<1> QED
  BY <1>1, <1>2, <1>3, <1>4, <1>5, <1>6, <1>7, <1>8, <1>9, <1>10, <1>11,
     <1>12, <1>13, <1>14, <1>15, <1>16, <1>17, <1>18, <1>19, <1>20, <1>21,
     <1>22, <1>23
  DEF Next, CallerStep, ServiceStep

(* Every step leaves the messages of the deployment. *)
LEMMA MessageStep ==
  ASSUME NEW e, NEW r, Deployed(e, r), ChannelInv, WholeInv(e, r), [Next]_vars
  PROVE  MessageInv(e, r)'
<1> USE DEF callVars, dbaseVars, histVars
<1>typed. /\ slot \in Msg /\ pc \in [App -> CallerPlace] /\ dpc \in [App -> ServicePlace]
      /\ req \in [App -> Msg] /\ ret \in [App -> Msg] /\ rcv \in [App -> Msg]
      /\ todo \in [App -> SUBSET CopyUnits] /\ dtodo \in [App -> SUBSET CopyUnits]
      /\ lock \in [App -> {"free", "caller", "dbase"}]
      /\ seq \in [App -> Nat] /\ ncall \in Nat /\ MaxCalls \in Nat /\ Calls = 1 .. MaxCalls
      /\ caller \in [Calls -> App \cup {NoApp}]
      /\ outcome \in [Calls -> Outcome] /\ served \in [Calls -> Nat]
      /\ NoApp \notin App
  BY ConstAssumption DEF ChannelInv, TypeOK, Calls, Index
<1>inv. /\ MessageInv(e, r) /\ RequestInv(e, r) /\ RoleInv(e, r) /\ ServeInv(e, r)
      /\ e \in App /\ r \in App
  BY DEF Deployed, WholeInv
<1>blank. Sent(e, r, Blank)
  BY DEF Sent, AckBy, Blank
<1>idle. Sent(e, r, Idle(slot)) /\ Idle(slot).state = "IDLE"
  BY <1>typed, <1>inv, IdleFields DEF MessageInv, Sent, AckBy
<1>1. ASSUME NEW a \in App, SmMsgInit(a)
       PROVE  MessageInv(e, r)'
  <2>1. slot' \in {slot, Idle(slot)} /\ \A b \in App : rcv'[b] \in {rcv[b], Blank}
    BY <1>1, <1>typed DEF SmMsgInit
  <2> QED
    BY <2>1, <1>inv, <1>blank, <1>idle DEF MessageInv
<1>2. ASSUME NEW a \in App, Crash(a)
       PROVE  MessageInv(e, r)'
  <2>1. slot' \in {slot, Idle(slot)} /\ \A b \in App : rcv'[b] \in {rcv[b], Blank}
    BY <1>2, <1>typed DEF Crash
  <2> QED
    BY <2>1, <1>inv, <1>blank, <1>idle DEF MessageInv
<1>3. ASSUME NEW a \in App, NEW iop \in CallIop, Call(a, iop)
       PROVE  MessageInv(e, r)'
  <2>1. slot' \in {slot, Idle(slot)} /\ \A b \in App : rcv'[b] \in {rcv[b], Blank}
    BY <1>3, <1>typed DEF Call
  <2> QED
    BY <2>1, <1>inv, <1>blank, <1>idle DEF MessageInv
<1>4. ASSUME NEW a \in App, SendWaitNoQue(a)
       PROVE  MessageInv(e, r)'
  <2>1. slot' \in {slot, Idle(slot)} /\ \A b \in App : rcv'[b] \in {rcv[b], Blank}
    BY <1>4, <1>typed DEF SendWaitNoQue, Return
  <2> QED
    BY <2>1, <1>inv, <1>blank, <1>idle DEF MessageInv
<1>5. ASSUME NEW a \in App, SendWaitLock(a)
       PROVE  MessageInv(e, r)'
  <2>1. slot' \in {slot, Idle(slot)} /\ \A b \in App : rcv'[b] \in {rcv[b], Blank}
    BY <1>5, <1>typed DEF SendWaitLock
  <2> QED
    BY <2>1, <1>inv, <1>blank, <1>idle DEF MessageInv
<1>6. ASSUME NEW a \in App, SendWaitPoll(a)
       PROVE  MessageInv(e, r)'
  <2>1. slot' \in {slot, Idle(slot)} /\ \A b \in App : rcv'[b] \in {rcv[b], Blank}
    BY <1>6, <1>typed DEF SendWaitPoll, Tick
  <2> QED
    BY <2>1, <1>inv, <1>blank, <1>idle DEF MessageInv
<1>7. ASSUME NEW a \in App, NEW u \in CopyUnits, SendWaitPut(a, u)
       PROVE  MessageInv(e, r)'
  <2>1. a = e
    BY <1>7, <1>inv DEF SendWaitPut, RoleInv
  <2>2. slot' = req[e]
    BY <1>7, <2>1, <1>typed, CopyWhole DEF SendWaitPut, Deployed
  <2>3. rcv' = rcv /\ pc[e] # "idle"
    BY <1>7, <2>1 DEF SendWaitPut
  <2> QED
    BY <2>2, <2>3, <1>inv DEF MessageInv, RequestInv
<1>8. ASSUME NEW a \in App, SendWaitGiveUp(a)
       PROVE  MessageInv(e, r)'
  <2>1. slot' \in {slot, Idle(slot)} /\ \A b \in App : rcv'[b] \in {rcv[b], Blank}
    BY <1>8, <1>typed DEF SendWaitGiveUp, Return
  <2> QED
    BY <2>1, <1>inv, <1>blank, <1>idle DEF MessageInv
<1>9. ASSUME NEW a \in App, SendWaitState(a)
       PROVE  MessageInv(e, r)'
  <2>1. slot' \in {slot, Idle(slot)} /\ \A b \in App : rcv'[b] \in {rcv[b], Blank}
    BY <1>9, <1>typed DEF SendWaitState, Tick
  <2> QED
    BY <2>1, <1>inv, <1>blank, <1>idle DEF MessageInv
<1>10. ASSUME NEW a \in App, SendWaitMatch(a)
       PROVE  MessageInv(e, r)'
  <2>1. slot' \in {slot, Idle(slot)} /\ \A b \in App : rcv'[b] \in {rcv[b], Blank}
    BY <1>10, <1>typed DEF SendWaitMatch, Tick
  <2> QED
    BY <2>1, <1>inv, <1>blank, <1>idle DEF MessageInv
<1>11. ASSUME NEW a \in App, NEW u \in CopyUnits, SendWaitTake(a, u)
       PROVE  MessageInv(e, r)'
  <2>1. slot' \in {slot, Idle(slot)} /\ \A b \in App : rcv'[b] \in {rcv[b], Blank}
    BY <1>11, <1>typed DEF SendWaitTake
  <2> QED
    BY <2>1, <1>inv, <1>blank, <1>idle DEF MessageInv
<1>12. ASSUME NEW a \in App, SendWaitDone(a)
       PROVE  MessageInv(e, r)'
  <2>1. slot' \in {slot, Idle(slot)} /\ \A b \in App : rcv'[b] \in {rcv[b], Blank}
    BY <1>12, <1>typed DEF SendWaitDone, Return
  <2> QED
    BY <2>1, <1>inv, <1>blank, <1>idle DEF MessageInv
<1>13. ASSUME NEW a \in App, SendWaitExpire(a)
       PROVE  MessageInv(e, r)'
  <2>1. slot' \in {slot, Idle(slot)} /\ \A b \in App : rcv'[b] \in {rcv[b], Blank}
    BY <1>13, <1>typed DEF SendWaitExpire, Return
  <2> QED
    BY <2>1, <1>inv, <1>blank, <1>idle DEF MessageInv
<1>14. ASSUME NEW a \in App, RecvState(a)
       PROVE  MessageInv(e, r)'
  <2>1. slot' \in {slot, Idle(slot)} /\ \A b \in App : rcv'[b] \in {rcv[b], Blank}
    BY <1>14, <1>typed DEF RecvState
  <2> QED
    BY <2>1, <1>inv, <1>blank, <1>idle DEF MessageInv
<1>15. ASSUME NEW a \in App, RecvDest(a)
       PROVE  MessageInv(e, r)'
  <2>1. slot' \in {slot, Idle(slot)} /\ \A b \in App : rcv'[b] \in {rcv[b], Blank}
    BY <1>15, <1>typed DEF RecvDest
  <2> QED
    BY <2>1, <1>inv, <1>blank, <1>idle DEF MessageInv
<1>16. ASSUME NEW a \in App, NEW u \in CopyUnits, RecvCopy(a, u)
       PROVE  MessageInv(e, r)'
  <2>1. rcv'[a] = slot /\ slot' = slot /\ \A b \in App : b # a => rcv'[b] = rcv[b]
    BY <1>16, <1>typed, CopyWhole DEF RecvCopy, Deployed
  <2> QED
    BY <2>1, <1>inv DEF MessageInv
<1>17. ASSUME NEW a \in App, RecvClear(a)
       PROVE  MessageInv(e, r)'
  <2>1. slot' \in {slot, Idle(slot)} /\ \A b \in App : rcv'[b] \in {rcv[b], Blank}
    BY <1>17, <1>typed DEF RecvClear
  <2> QED
    BY <2>1, <1>inv, <1>blank, <1>idle DEF MessageInv
<1>18. ASSUME NEW a \in App, Dispatch(a)
       PROVE  MessageInv(e, r)'
  <2>1. slot' \in {slot, Idle(slot)} /\ \A b \in App : rcv'[b] \in {rcv[b], Blank}
    BY <1>18, <1>typed DEF Dispatch
  <2> QED
    BY <2>1, <1>inv, <1>blank, <1>idle DEF MessageInv
<1>19. ASSUME NEW a \in App, SendEchoLock(a)
       PROVE  MessageInv(e, r)'
  <2>1. slot' \in {slot, Idle(slot)} /\ \A b \in App : rcv'[b] \in {rcv[b], Blank}
    BY <1>19, <1>typed DEF SendEchoLock
  <2> QED
    BY <2>1, <1>inv, <1>blank, <1>idle DEF MessageInv
<1>20. ASSUME NEW a \in App, SendEchoNoQue(a)
       PROVE  MessageInv(e, r)'
  <2>1. slot' \in {slot, Idle(slot)} /\ \A b \in App : rcv'[b] \in {rcv[b], Blank}
    BY <1>20, <1>typed DEF SendEchoNoQue
  <2> QED
    BY <2>1, <1>inv, <1>blank, <1>idle DEF MessageInv
<1>21. ASSUME NEW a \in App, SendEchoCheck(a)
       PROVE  MessageInv(e, r)'
  <2>1. slot' \in {slot, Idle(slot)} /\ \A b \in App : rcv'[b] \in {rcv[b], Blank}
    BY <1>21, <1>typed DEF SendEchoCheck
  <2> QED
    BY <2>1, <1>inv, <1>blank, <1>idle DEF MessageInv
<1>22. ASSUME NEW a \in App, NEW u \in CopyUnits, SendEchoPut(a, u)
       PROVE  MessageInv(e, r)'
  <2>1. slot' = Echo(a, rcv[a]) /\ rcv' = rcv
    BY <1>22, <1>typed, CopyWhole, EchoIsMsg DEF SendEchoPut, Deployed
  <2>2. Echo(a, rcv[a]).state = "ACK" /\ Echo(a, rcv[a]).body.kind = "ack"
    BY DEF Echo
  <2>3. Sent(e, r, Echo(a, rcv[a]))
    <3>1. CASE a = e
      BY <3>1, <1>inv DEF Sent, AckBy, Echo, MessageInv, Deployed
    <3>2. CASE a = r
      <4>1. rcv[r].body.kind = "msg"
        BY <1>22, <3>2, <1>inv DEF SendEchoPut, ServeInv
      <4> QED
        BY <3>2, <4>1, <1>inv DEF Sent, AckBy, Echo, MessageInv
    <3>3. a \in {e, r}
      BY <1>22, <1>inv DEF SendEchoPut, RoleInv
    <3> QED
      BY <3>1, <3>2, <3>3
  <2> QED
    BY <2>1, <2>2, <2>3, <1>inv DEF MessageInv
<1>23. CASE UNCHANGED vars
  BY <1>23, <1>inv DEF vars, MessageInv
<1> QED
  BY <1>1, <1>2, <1>3, <1>4, <1>5, <1>6, <1>7, <1>8, <1>9, <1>10, <1>11,
     <1>12, <1>13, <1>14, <1>15, <1>16, <1>17, <1>18, <1>19, <1>20, <1>21,
     <1>22, <1>23
  DEF Next, CallerStep, ServiceStep

(* Index and call stay together where no message and no number changes. *)
LEMMA NumberKept ==
  ASSUME NEW e, NumberInv(e), slot \in Msg, ncall' = ncall, seq'[e] = seq[e],
         \A c \in Calls : outcome'[c] \in {"open", "unknown"} => outcome[c] \in {"open", "unknown"},
         slot' \in {slot, Idle(slot)}, \A b \in App : rcv'[b] \in {rcv[b], Blank}
  PROVE  NumberInv(e)'
<1>1. Blank.body.call \notin Calls
  BY DEF Blank, Calls
<1>2. slot'.index = slot.index /\ slot'.body = slot.body
  BY IdleFields
<1>3. Numbered(e, slot)'
  BY <1>2 DEF NumberInv, Numbered
<1>4. ASSUME NEW b \in App PROVE Numbered(e, rcv[b])'
  <2>1. CASE rcv'[b] = rcv[b]
    BY <2>1 DEF NumberInv, Numbered
  <2>2. CASE rcv'[b] = Blank
    BY <2>2, <1>1 DEF Numbered
  <2> QED
    BY <2>1, <2>2
<1> QED
  BY <1>3, <1>4 DEF NumberInv

(* Every step keeps index and call together. *)
LEMMA NumberStep ==
  ASSUME NEW e, NEW r, Deployed(e, r), ChannelInv, WholeInv(e, r), [Next]_vars
  PROVE  NumberInv(e)'
<1> USE DEF callVars, dbaseVars, histVars
<1>typed. /\ slot \in Msg /\ pc \in [App -> CallerPlace] /\ dpc \in [App -> ServicePlace]
      /\ req \in [App -> Msg] /\ ret \in [App -> Msg] /\ rcv \in [App -> Msg]
      /\ todo \in [App -> SUBSET CopyUnits] /\ dtodo \in [App -> SUBSET CopyUnits]
      /\ lock \in [App -> {"free", "caller", "dbase"}]
      /\ seq \in [App -> Nat] /\ ncall \in Nat /\ MaxCalls \in Nat /\ Calls = 1 .. MaxCalls
      /\ caller \in [Calls -> App \cup {NoApp}]
      /\ outcome \in [Calls -> Outcome] /\ served \in [Calls -> Nat]
      /\ NoApp \notin App
  BY ConstAssumption DEF ChannelInv, TypeOK, Calls, Index
<1>inv. /\ NumberInv(e) /\ CallInv /\ UnsentInv /\ RequestInv(e, r) /\ RoleInv(e, r)
      /\ e \in App /\ MaxCalls < IndexMod /\ IndexMod \in Nat /\ Callers = {e}
  BY ConstAssumption DEF Deployed, WholeInv, ChannelInv
<1>1. ASSUME NEW a \in App, SmMsgInit(a)
       PROVE  NumberInv(e)'
  <2>1. /\ ncall' = ncall /\ seq'[e] = seq[e]
        /\ \A c \in Calls : outcome'[c] \in {"open", "unknown"} => outcome[c] \in {"open", "unknown"}
    BY <1>1, <1>typed, <1>inv DEF SmMsgInit, CallInv
  <2>2. slot' \in {slot, Idle(slot)} /\ \A b \in App : rcv'[b] \in {rcv[b], Blank}
    BY <1>1, <1>typed DEF SmMsgInit
  <2> QED
    BY <2>1, <2>2, <1>inv, <1>typed, NumberKept
<1>2. ASSUME NEW a \in App, Crash(a)
       PROVE  NumberInv(e)'
  <2>1. slot' = slot /\ ncall' = ncall /\ \A b \in App : rcv'[b] \in {rcv[b], Blank}
    BY <1>2, <1>typed DEF Crash
  <2>2. CASE a = e
    <3>1. \A c \in Calls : outcome'[c] \notin {"open", "unknown"}
      BY <1>2, <2>2, <1>inv DEF Crash, RoleInv
    <3> QED
      BY <3>1 DEF NumberInv, Numbered
  <2>3. CASE a # e
    <3>1. seq'[e] = seq[e]
      BY <1>2, <2>3, <1>typed, <1>inv DEF Crash
    <3>2. \A c \in Calls : outcome'[c] \in {"open", "unknown"} => outcome[c] \in {"open", "unknown"}
      BY <1>2 DEF Crash
    <3> QED
      BY <2>1, <3>1, <3>2, <1>inv, <1>typed, NumberKept
  <2> QED
    BY <2>2, <2>3
<1>3. ASSUME NEW a \in App, NEW iop \in CallIop, Call(a, iop)
       PROVE  NumberInv(e)'
  <2>1. ncall + 1 \in Calls /\ a = e /\ seq[e] + 1 \in Nat /\ seq[e] + 1 < IndexMod
    BY <1>3, <1>typed, <1>inv DEF Call, RoleInv
  <2>2. seq'[e] = seq[e] + 1 /\ ncall' = ncall + 1
    <3>1. (seq[e] + 1) % IndexMod = seq[e] + 1
      BY <2>1, <1>inv, NoWrap
    <3> QED
      BY <1>3, <2>1, <3>1, <1>typed, <1>inv DEF Call
  <2>3. \A c \in Calls : outcome'[c] = IF c = ncall + 1 THEN "open" ELSE outcome[c]
    BY <1>3, <1>typed, <2>1 DEF Call
  <2>4. slot.body.call # ncall + 1 /\ \A b \in App : rcv[b].body.call # ncall + 1
    <3>1. outcome[ncall + 1] = "none"
      BY <2>1, <1>typed, <1>inv DEF CallInv
    <3>2. NotOut(ncall + 1)
      BY <2>1, <3>1, <1>inv DEF UnsentInv
    <3> QED
      BY <3>2 DEF NotOut
  <2>5. ASSUME NEW m \in Msg, Numbered(e, m), m.body.call # ncall + 1, m.body.call \in Calls,
               outcome'[m.body.call] \in {"open", "unknown"}
         PROVE  m.index + ncall' + 1 = seq'[e] + m.body.call
    <3>1. m.index \in Nat /\ m.body.call \in Nat
      BY <2>5, <1>typed DEF Msg, Index
    <3>2. m.index + ncall + 1 = seq[e] + m.body.call
      BY <2>3, <2>5 DEF Numbered
    <3>3. seq[e] \in Nat /\ ncall \in Nat
      BY <1>typed, <1>inv
    <3> QED
      BY <3>1, <3>2, <3>3, <2>2
  <2>6. slot' = slot /\ rcv' = rcv
    BY <1>3 DEF Call
  <2> QED
    BY <2>4, <2>5, <2>6, <1>typed, <1>inv DEF NumberInv, Numbered
<1>4. ASSUME NEW a \in App, SendWaitNoQue(a)
       PROVE  NumberInv(e)'
  <2>1. /\ ncall' = ncall /\ seq'[e] = seq[e]
        /\ \A c \in Calls : outcome'[c] \in {"open", "unknown"} => outcome[c] \in {"open", "unknown"}
    BY <1>4, <1>typed, <1>inv DEF SendWaitNoQue, Return, CallInv
  <2>2. slot' \in {slot, Idle(slot)} /\ \A b \in App : rcv'[b] \in {rcv[b], Blank}
    BY <1>4, <1>typed DEF SendWaitNoQue, Return
  <2> QED
    BY <2>1, <2>2, <1>inv, <1>typed, NumberKept
<1>5. ASSUME NEW a \in App, SendWaitLock(a)
       PROVE  NumberInv(e)'
  <2>1. /\ ncall' = ncall /\ seq'[e] = seq[e]
        /\ \A c \in Calls : outcome'[c] \in {"open", "unknown"} => outcome[c] \in {"open", "unknown"}
    BY <1>5, <1>typed, <1>inv DEF SendWaitLock, CallInv
  <2>2. slot' \in {slot, Idle(slot)} /\ \A b \in App : rcv'[b] \in {rcv[b], Blank}
    BY <1>5, <1>typed DEF SendWaitLock
  <2> QED
    BY <2>1, <2>2, <1>inv, <1>typed, NumberKept
<1>6. ASSUME NEW a \in App, SendWaitPoll(a)
       PROVE  NumberInv(e)'
  <2>1. /\ ncall' = ncall /\ seq'[e] = seq[e]
        /\ \A c \in Calls : outcome'[c] \in {"open", "unknown"} => outcome[c] \in {"open", "unknown"}
    BY <1>6, <1>typed, <1>inv DEF SendWaitPoll, Tick, CallInv
  <2>2. slot' \in {slot, Idle(slot)} /\ \A b \in App : rcv'[b] \in {rcv[b], Blank}
    BY <1>6, <1>typed DEF SendWaitPoll, Tick
  <2> QED
    BY <2>1, <2>2, <1>inv, <1>typed, NumberKept
<1>7. ASSUME NEW a \in App, NEW u \in CopyUnits, SendWaitPut(a, u)
       PROVE  NumberInv(e)'
  <2>1. a = e
    BY <1>7, <1>inv DEF SendWaitPut, RoleInv
  <2>2. slot' = req[e] /\ pc[e] # "idle"
    BY <1>7, <2>1, <1>typed, CopyWhole DEF SendWaitPut, Deployed
  <2>3. req[e].index + ncall + 1 = seq[e] + req[e].body.call
    BY <2>2, <1>typed, <1>inv DEF RequestInv, Msg, Index
  <2>4. ncall' = ncall /\ seq' = seq /\ outcome' = outcome /\ rcv' = rcv
    BY <1>7 DEF SendWaitPut
  <2> QED
    BY <2>2, <2>3, <2>4, <1>inv DEF NumberInv, Numbered
<1>8. ASSUME NEW a \in App, SendWaitGiveUp(a)
       PROVE  NumberInv(e)'
  <2>1. /\ ncall' = ncall /\ seq'[e] = seq[e]
        /\ \A c \in Calls : outcome'[c] \in {"open", "unknown"} => outcome[c] \in {"open", "unknown"}
    BY <1>8, <1>typed, <1>inv DEF SendWaitGiveUp, Return, CallInv
  <2>2. slot' \in {slot, Idle(slot)} /\ \A b \in App : rcv'[b] \in {rcv[b], Blank}
    BY <1>8, <1>typed DEF SendWaitGiveUp, Return
  <2> QED
    BY <2>1, <2>2, <1>inv, <1>typed, NumberKept
<1>9. ASSUME NEW a \in App, SendWaitState(a)
       PROVE  NumberInv(e)'
  <2>1. /\ ncall' = ncall /\ seq'[e] = seq[e]
        /\ \A c \in Calls : outcome'[c] \in {"open", "unknown"} => outcome[c] \in {"open", "unknown"}
    BY <1>9, <1>typed, <1>inv DEF SendWaitState, Tick, CallInv
  <2>2. slot' \in {slot, Idle(slot)} /\ \A b \in App : rcv'[b] \in {rcv[b], Blank}
    BY <1>9, <1>typed DEF SendWaitState, Tick
  <2> QED
    BY <2>1, <2>2, <1>inv, <1>typed, NumberKept
<1>10. ASSUME NEW a \in App, SendWaitMatch(a)
       PROVE  NumberInv(e)'
  <2>1. /\ ncall' = ncall /\ seq'[e] = seq[e]
        /\ \A c \in Calls : outcome'[c] \in {"open", "unknown"} => outcome[c] \in {"open", "unknown"}
    BY <1>10, <1>typed, <1>inv DEF SendWaitMatch, Tick, CallInv
  <2>2. slot' \in {slot, Idle(slot)} /\ \A b \in App : rcv'[b] \in {rcv[b], Blank}
    BY <1>10, <1>typed DEF SendWaitMatch, Tick
  <2> QED
    BY <2>1, <2>2, <1>inv, <1>typed, NumberKept
<1>11. ASSUME NEW a \in App, NEW u \in CopyUnits, SendWaitTake(a, u)
       PROVE  NumberInv(e)'
  <2>1. /\ ncall' = ncall /\ seq'[e] = seq[e]
        /\ \A c \in Calls : outcome'[c] \in {"open", "unknown"} => outcome[c] \in {"open", "unknown"}
    BY <1>11, <1>typed, <1>inv DEF SendWaitTake, CallInv
  <2>2. slot' \in {slot, Idle(slot)} /\ \A b \in App : rcv'[b] \in {rcv[b], Blank}
    BY <1>11, <1>typed DEF SendWaitTake
  <2> QED
    BY <2>1, <2>2, <1>inv, <1>typed, NumberKept
<1>12. ASSUME NEW a \in App, SendWaitDone(a)
       PROVE  NumberInv(e)'
  <2>1. /\ ncall' = ncall /\ seq'[e] = seq[e]
        /\ \A c \in Calls : outcome'[c] \in {"open", "unknown"} => outcome[c] \in {"open", "unknown"}
    BY <1>12, <1>typed, <1>inv DEF SendWaitDone, Return, CallInv
  <2>2. slot' \in {slot, Idle(slot)} /\ \A b \in App : rcv'[b] \in {rcv[b], Blank}
    BY <1>12, <1>typed DEF SendWaitDone, Return
  <2> QED
    BY <2>1, <2>2, <1>inv, <1>typed, NumberKept
<1>13. ASSUME NEW a \in App, SendWaitExpire(a)
       PROVE  NumberInv(e)'
  <2>1. /\ ncall' = ncall /\ seq'[e] = seq[e]
        /\ \A c \in Calls : outcome'[c] \in {"open", "unknown"} => outcome[c] \in {"open", "unknown"}
    BY <1>13, <1>typed, <1>inv DEF SendWaitExpire, Return, CallInv
  <2>2. slot' \in {slot, Idle(slot)} /\ \A b \in App : rcv'[b] \in {rcv[b], Blank}
    BY <1>13, <1>typed DEF SendWaitExpire, Return
  <2> QED
    BY <2>1, <2>2, <1>inv, <1>typed, NumberKept
<1>14. ASSUME NEW a \in App, RecvState(a)
       PROVE  NumberInv(e)'
  <2>1. /\ ncall' = ncall /\ seq'[e] = seq[e]
        /\ \A c \in Calls : outcome'[c] \in {"open", "unknown"} => outcome[c] \in {"open", "unknown"}
    BY <1>14, <1>typed, <1>inv DEF RecvState, CallInv
  <2>2. slot' \in {slot, Idle(slot)} /\ \A b \in App : rcv'[b] \in {rcv[b], Blank}
    BY <1>14, <1>typed DEF RecvState
  <2> QED
    BY <2>1, <2>2, <1>inv, <1>typed, NumberKept
<1>15. ASSUME NEW a \in App, RecvDest(a)
       PROVE  NumberInv(e)'
  <2>1. /\ ncall' = ncall /\ seq'[e] = seq[e]
        /\ \A c \in Calls : outcome'[c] \in {"open", "unknown"} => outcome[c] \in {"open", "unknown"}
    BY <1>15, <1>typed, <1>inv DEF RecvDest, CallInv
  <2>2. slot' \in {slot, Idle(slot)} /\ \A b \in App : rcv'[b] \in {rcv[b], Blank}
    BY <1>15, <1>typed DEF RecvDest
  <2> QED
    BY <2>1, <2>2, <1>inv, <1>typed, NumberKept
<1>16. ASSUME NEW a \in App, NEW u \in CopyUnits, RecvCopy(a, u)
       PROVE  NumberInv(e)'
  <2>1. ncall' = ncall /\ seq' = seq /\ outcome' = outcome /\ slot' = slot
    BY <1>16 DEF RecvCopy
  <2>2. rcv'[a] = slot /\ \A b \in App : b # a => rcv'[b] = rcv[b]
    BY <1>16, <1>typed, CopyWhole DEF RecvCopy, Deployed
  <2> QED
    BY <2>1, <2>2, <1>inv DEF NumberInv, Numbered
<1>17. ASSUME NEW a \in App, RecvClear(a)
       PROVE  NumberInv(e)'
  <2>1. /\ ncall' = ncall /\ seq'[e] = seq[e]
        /\ \A c \in Calls : outcome'[c] \in {"open", "unknown"} => outcome[c] \in {"open", "unknown"}
    BY <1>17, <1>typed, <1>inv DEF RecvClear, CallInv
  <2>2. slot' \in {slot, Idle(slot)} /\ \A b \in App : rcv'[b] \in {rcv[b], Blank}
    BY <1>17, <1>typed DEF RecvClear
  <2> QED
    BY <2>1, <2>2, <1>inv, <1>typed, NumberKept
<1>18. ASSUME NEW a \in App, Dispatch(a)
       PROVE  NumberInv(e)'
  <2>1. /\ ncall' = ncall /\ seq'[e] = seq[e]
        /\ \A c \in Calls : outcome'[c] \in {"open", "unknown"} => outcome[c] \in {"open", "unknown"}
    BY <1>18, <1>typed, <1>inv DEF Dispatch, CallInv
  <2>2. slot' \in {slot, Idle(slot)} /\ \A b \in App : rcv'[b] \in {rcv[b], Blank}
    BY <1>18, <1>typed DEF Dispatch
  <2> QED
    BY <2>1, <2>2, <1>inv, <1>typed, NumberKept
<1>19. ASSUME NEW a \in App, SendEchoLock(a)
       PROVE  NumberInv(e)'
  <2>1. /\ ncall' = ncall /\ seq'[e] = seq[e]
        /\ \A c \in Calls : outcome'[c] \in {"open", "unknown"} => outcome[c] \in {"open", "unknown"}
    BY <1>19, <1>typed, <1>inv DEF SendEchoLock, CallInv
  <2>2. slot' \in {slot, Idle(slot)} /\ \A b \in App : rcv'[b] \in {rcv[b], Blank}
    BY <1>19, <1>typed DEF SendEchoLock
  <2> QED
    BY <2>1, <2>2, <1>inv, <1>typed, NumberKept
<1>20. ASSUME NEW a \in App, SendEchoNoQue(a)
       PROVE  NumberInv(e)'
  <2>1. /\ ncall' = ncall /\ seq'[e] = seq[e]
        /\ \A c \in Calls : outcome'[c] \in {"open", "unknown"} => outcome[c] \in {"open", "unknown"}
    BY <1>20, <1>typed, <1>inv DEF SendEchoNoQue, CallInv
  <2>2. slot' \in {slot, Idle(slot)} /\ \A b \in App : rcv'[b] \in {rcv[b], Blank}
    BY <1>20, <1>typed DEF SendEchoNoQue
  <2> QED
    BY <2>1, <2>2, <1>inv, <1>typed, NumberKept
<1>21. ASSUME NEW a \in App, SendEchoCheck(a)
       PROVE  NumberInv(e)'
  <2>1. /\ ncall' = ncall /\ seq'[e] = seq[e]
        /\ \A c \in Calls : outcome'[c] \in {"open", "unknown"} => outcome[c] \in {"open", "unknown"}
    BY <1>21, <1>typed, <1>inv DEF SendEchoCheck, CallInv
  <2>2. slot' \in {slot, Idle(slot)} /\ \A b \in App : rcv'[b] \in {rcv[b], Blank}
    BY <1>21, <1>typed DEF SendEchoCheck
  <2> QED
    BY <2>1, <2>2, <1>inv, <1>typed, NumberKept
<1>22. ASSUME NEW a \in App, NEW u \in CopyUnits, SendEchoPut(a, u)
       PROVE  NumberInv(e)'
  <2>1. ncall' = ncall /\ seq' = seq /\ outcome' = outcome /\ rcv' = rcv
    BY <1>22 DEF SendEchoPut
  <2>2. slot' = Echo(a, rcv[a])
    BY <1>22, <1>typed, CopyWhole, EchoIsMsg DEF SendEchoPut, Deployed
  <2>3. slot'.index = rcv[a].index /\ slot'.body.call = rcv[a].body.call
    BY <2>2 DEF Echo
  <2> QED
    BY <2>1, <2>3, <1>inv DEF NumberInv, Numbered
<1>23. CASE UNCHANGED vars
  BY <1>23, <1>inv DEF vars, NumberInv, Numbered
<1> QED
  BY <1>1, <1>2, <1>3, <1>4, <1>5, <1>6, <1>7, <1>8, <1>9, <1>10, <1>11,
     <1>12, <1>13, <1>14, <1>15, <1>16, <1>17, <1>18, <1>19, <1>20, <1>21,
     <1>22, <1>23
  DEF Next, CallerStep, ServiceStep

(* What r may execute is untouched where r does not move on. *)
LEMMA ServeKept ==
  ASSUME NEW e, NEW r, ServeInv(e, r), slot \in Msg, served' = served,
         slot' \in {slot, Idle(slot)},
         (dpc'[r] = dpc[r] /\ rcv'[r] = rcv[r]) \/ dpc'[r] = "poll"
  PROVE  ServeInv(e, r)'
<1>1. slot'.body = slot.body /\ (slot'.state = slot.state \/ slot'.state = "IDLE")
  BY IdleFields
<1>2. CASE dpc'[r] = dpc[r] /\ rcv'[r] = rcv[r]
  BY <1>1, <1>2 DEF ServeInv, NotServedFrom, AckBy
<1>3. CASE dpc'[r] = "poll"
  BY <1>1, <1>3 DEF ServeInv, NotServedFrom, AckBy
<1> QED
  BY <1>2, <1>3

(* Every step keeps what r may execute unexecuted. *)
LEMMA ServeStep ==
  ASSUME NEW e, NEW r, Deployed(e, r), ChannelInv, WholeInv(e, r), [Next]_vars
  PROVE  ServeInv(e, r)'
<1> USE DEF callVars, dbaseVars, histVars
<1>typed. /\ slot \in Msg /\ pc \in [App -> CallerPlace] /\ dpc \in [App -> ServicePlace]
      /\ req \in [App -> Msg] /\ ret \in [App -> Msg] /\ rcv \in [App -> Msg]
      /\ todo \in [App -> SUBSET CopyUnits] /\ dtodo \in [App -> SUBSET CopyUnits]
      /\ lock \in [App -> {"free", "caller", "dbase"}]
      /\ seq \in [App -> Nat] /\ ncall \in Nat /\ MaxCalls \in Nat /\ Calls = 1 .. MaxCalls
      /\ caller \in [Calls -> App \cup {NoApp}]
      /\ outcome \in [Calls -> Outcome] /\ served \in [Calls -> Nat]
      /\ NoApp \notin App
  BY ConstAssumption DEF ChannelInv, TypeOK, Calls, Index
<1>inv. /\ MessageInv(e, r) /\ RequestInv(e, r) /\ RoleInv(e, r) /\ ServeInv(e, r)
      /\ CallInv /\ UnsentInv /\ e \in App /\ r \in App /\ e # r
  BY DEF Deployed, WholeInv, ChannelInv
<1>1. ASSUME NEW a \in App, SmMsgInit(a)
       PROVE  ServeInv(e, r)'
  <2>1. served' = served /\ slot' \in {slot, Idle(slot)}
    BY <1>1 DEF SmMsgInit
  <2>2. (dpc'[r] = dpc[r] /\ rcv'[r] = rcv[r]) \/ dpc'[r] = "poll"
    BY <1>1, <1>typed, <1>inv DEF SmMsgInit
  <2> QED
    BY <2>1, <2>2, <1>inv, <1>typed, ServeKept
<1>2. ASSUME NEW a \in App, Crash(a)
       PROVE  ServeInv(e, r)'
  <2>1. served' = served /\ slot' \in {slot, Idle(slot)}
    BY <1>2 DEF Crash
  <2>2. (dpc'[r] = dpc[r] /\ rcv'[r] = rcv[r]) \/ dpc'[r] = "poll"
    BY <1>2, <1>typed, <1>inv DEF Crash
  <2> QED
    BY <2>1, <2>2, <1>inv, <1>typed, ServeKept
<1>3. ASSUME NEW a \in App, NEW iop \in CallIop, Call(a, iop)
       PROVE  ServeInv(e, r)'
  <2>1. served' = served /\ slot' \in {slot, Idle(slot)}
    BY <1>3 DEF Call
  <2>2. (dpc'[r] = dpc[r] /\ rcv'[r] = rcv[r]) \/ dpc'[r] = "poll"
    BY <1>3, <1>typed, <1>inv DEF Call
  <2> QED
    BY <2>1, <2>2, <1>inv, <1>typed, ServeKept
<1>4. ASSUME NEW a \in App, SendWaitNoQue(a)
       PROVE  ServeInv(e, r)'
  <2>1. served' = served /\ slot' \in {slot, Idle(slot)}
    BY <1>4 DEF SendWaitNoQue, Return
  <2>2. (dpc'[r] = dpc[r] /\ rcv'[r] = rcv[r]) \/ dpc'[r] = "poll"
    BY <1>4, <1>typed, <1>inv DEF SendWaitNoQue, Return
  <2> QED
    BY <2>1, <2>2, <1>inv, <1>typed, ServeKept
<1>5. ASSUME NEW a \in App, SendWaitLock(a)
       PROVE  ServeInv(e, r)'
  <2>1. served' = served /\ slot' \in {slot, Idle(slot)}
    BY <1>5 DEF SendWaitLock
  <2>2. (dpc'[r] = dpc[r] /\ rcv'[r] = rcv[r]) \/ dpc'[r] = "poll"
    BY <1>5, <1>typed, <1>inv DEF SendWaitLock
  <2> QED
    BY <2>1, <2>2, <1>inv, <1>typed, ServeKept
<1>6. ASSUME NEW a \in App, SendWaitPoll(a)
       PROVE  ServeInv(e, r)'
  <2>1. served' = served /\ slot' \in {slot, Idle(slot)}
    BY <1>6 DEF SendWaitPoll, Tick
  <2>2. (dpc'[r] = dpc[r] /\ rcv'[r] = rcv[r]) \/ dpc'[r] = "poll"
    BY <1>6, <1>typed, <1>inv DEF SendWaitPoll, Tick
  <2> QED
    BY <2>1, <2>2, <1>inv, <1>typed, ServeKept
<1>7. ASSUME NEW a \in App, NEW u \in CopyUnits, SendWaitPut(a, u)
       PROVE  ServeInv(e, r)'
  <2>1. a = e
    BY <1>7, <1>inv DEF SendWaitPut, RoleInv
  <2>2. slot' = req[e] /\ pc[e] # "idle" /\ pc[e] = "put"
    BY <1>7, <2>1, <1>typed, CopyWhole DEF SendWaitPut, Deployed
  <2>3. dpc' = dpc /\ rcv' = rcv /\ served' = served
    BY <1>7 DEF SendWaitPut
  <2>4. slot'.body.kind = "msg" /\ slot'.body.call = ncall /\ ncall \in Calls /\ NotOut(ncall)
    BY <2>2, <1>inv DEF RequestInv, CallInv
  <2>5. NotServedFrom(ncall)
    BY <2>4, <1>typed, <1>inv DEF NotServedFrom, NotOut, CallInv, UnsentInv
  <2>6. rcv[r].body.kind = "msg" => rcv[r].body.call < ncall
    <3>1. rcv[r].body.kind = "msg" => rcv[r].body.call \in Calls /\ rcv[r].body.call # ncall
      BY <2>4, <1>inv DEF MessageInv, Sent, NotOut
    <3>2. ASSUME rcv[r].body.call \in Calls PROVE ~(rcv[r].body.call > ncall)
      BY <3>2, <1>inv DEF CallInv, UnsentInv, NotOut
    <3> QED
      BY <3>1, <3>2, <1>typed
  <2> QED
    BY <2>3, <2>4, <2>5, <2>6, <1>inv DEF ServeInv, NotServedFrom, AckBy
<1>8. ASSUME NEW a \in App, SendWaitGiveUp(a)
       PROVE  ServeInv(e, r)'
  <2>1. served' = served /\ slot' \in {slot, Idle(slot)}
    BY <1>8 DEF SendWaitGiveUp, Return
  <2>2. (dpc'[r] = dpc[r] /\ rcv'[r] = rcv[r]) \/ dpc'[r] = "poll"
    BY <1>8, <1>typed, <1>inv DEF SendWaitGiveUp, Return
  <2> QED
    BY <2>1, <2>2, <1>inv, <1>typed, ServeKept
<1>9. ASSUME NEW a \in App, SendWaitState(a)
       PROVE  ServeInv(e, r)'
  <2>1. served' = served /\ slot' \in {slot, Idle(slot)}
    BY <1>9 DEF SendWaitState, Tick
  <2>2. (dpc'[r] = dpc[r] /\ rcv'[r] = rcv[r]) \/ dpc'[r] = "poll"
    BY <1>9, <1>typed, <1>inv DEF SendWaitState, Tick
  <2> QED
    BY <2>1, <2>2, <1>inv, <1>typed, ServeKept
<1>10. ASSUME NEW a \in App, SendWaitMatch(a)
       PROVE  ServeInv(e, r)'
  <2>1. served' = served /\ slot' \in {slot, Idle(slot)}
    BY <1>10 DEF SendWaitMatch, Tick
  <2>2. (dpc'[r] = dpc[r] /\ rcv'[r] = rcv[r]) \/ dpc'[r] = "poll"
    BY <1>10, <1>typed, <1>inv DEF SendWaitMatch, Tick
  <2> QED
    BY <2>1, <2>2, <1>inv, <1>typed, ServeKept
<1>11. ASSUME NEW a \in App, NEW u \in CopyUnits, SendWaitTake(a, u)
       PROVE  ServeInv(e, r)'
  <2>1. served' = served /\ slot' \in {slot, Idle(slot)}
    BY <1>11 DEF SendWaitTake
  <2>2. (dpc'[r] = dpc[r] /\ rcv'[r] = rcv[r]) \/ dpc'[r] = "poll"
    BY <1>11, <1>typed, <1>inv DEF SendWaitTake
  <2> QED
    BY <2>1, <2>2, <1>inv, <1>typed, ServeKept
<1>12. ASSUME NEW a \in App, SendWaitDone(a)
       PROVE  ServeInv(e, r)'
  <2>1. served' = served /\ slot' \in {slot, Idle(slot)}
    BY <1>12 DEF SendWaitDone, Return
  <2>2. (dpc'[r] = dpc[r] /\ rcv'[r] = rcv[r]) \/ dpc'[r] = "poll"
    BY <1>12, <1>typed, <1>inv DEF SendWaitDone, Return
  <2> QED
    BY <2>1, <2>2, <1>inv, <1>typed, ServeKept
<1>13. ASSUME NEW a \in App, SendWaitExpire(a)
       PROVE  ServeInv(e, r)'
  <2>1. served' = served /\ slot' \in {slot, Idle(slot)}
    BY <1>13 DEF SendWaitExpire, Return
  <2>2. (dpc'[r] = dpc[r] /\ rcv'[r] = rcv[r]) \/ dpc'[r] = "poll"
    BY <1>13, <1>typed, <1>inv DEF SendWaitExpire, Return
  <2> QED
    BY <2>1, <2>2, <1>inv, <1>typed, ServeKept
<1>14. ASSUME NEW a \in App, RecvState(a)
       PROVE  ServeInv(e, r)'
  <2>1. CASE a # r
    <3>1. served' = served /\ slot' \in {slot, Idle(slot)}
      BY <1>14, <2>1, <1>typed, <1>inv DEF RecvState
    <3>2. dpc'[r] = dpc[r] /\ rcv'[r] = rcv[r]
      BY <1>14, <2>1, <1>typed, <1>inv DEF RecvState
    <3> QED
      BY <3>1, <3>2, <1>inv, <1>typed, ServeKept
  <2>2. CASE a = r
    <3>1. slot' = slot /\ served' = served /\ dpc'[r] = "dest" /\ slot.state = "REQ"
      BY <1>14, <2>2, <1>typed DEF RecvState
    <3>2. slot.body.kind = "msg"
      BY <3>1, <1>inv DEF MessageInv
    <3> QED
      BY <3>1, <3>2, <1>inv DEF ServeInv, NotServedFrom, AckBy
  <2> QED
    BY <2>1, <2>2
<1>15. ASSUME NEW a \in App, RecvDest(a)
       PROVE  ServeInv(e, r)'
  <2>1. CASE a # r
    <3>1. served' = served /\ slot' \in {slot, Idle(slot)}
      BY <1>15, <2>1, <1>typed, <1>inv DEF RecvDest
    <3>2. dpc'[r] = dpc[r] /\ rcv'[r] = rcv[r]
      BY <1>15, <2>1, <1>typed, <1>inv DEF RecvDest
    <3> QED
      BY <3>1, <3>2, <1>inv, <1>typed, ServeKept
  <2>2. CASE a = r
    <3>1. slot' = slot /\ served' = served /\ rcv' = rcv /\ dpc[r] = "dest" /\ dpc'[r] \in {"recv", "poll"}
      BY <1>15, <2>2, <1>typed DEF RecvDest
    <3> QED
      BY <3>1, <1>inv DEF ServeInv, NotServedFrom, AckBy
  <2> QED
    BY <2>1, <2>2
<1>16. ASSUME NEW a \in App, NEW u \in CopyUnits, RecvCopy(a, u)
       PROVE  ServeInv(e, r)'
  <2>1. CASE a # r
    <3>1. served' = served /\ slot' \in {slot, Idle(slot)}
      BY <1>16, <2>1, <1>typed, <1>inv DEF RecvCopy
    <3>2. dpc'[r] = dpc[r] /\ rcv'[r] = rcv[r]
      BY <1>16, <2>1, <1>typed, <1>inv DEF RecvCopy
    <3> QED
      BY <3>1, <3>2, <1>inv, <1>typed, ServeKept
  <2>2. CASE a = r
    <3>1. slot' = slot /\ served' = served /\ rcv'[r] = slot /\ dpc[r] = "recv" /\ dpc'[r] = "clear"
      <4>1. u = Fields /\ dtodo[a] = {u}
        BY <1>16, <1>typed, OneUnit DEF RecvCopy
      <4> QED
        BY <1>16, <2>2, <4>1, <1>typed, CopyWhole DEF RecvCopy
    <3> QED
      BY <3>1, <1>inv DEF ServeInv, NotServedFrom, AckBy
  <2> QED
    BY <2>1, <2>2
<1>17. ASSUME NEW a \in App, RecvClear(a)
       PROVE  ServeInv(e, r)'
  <2>1. CASE a # r
    <3>1. served' = served /\ slot' \in {slot, Idle(slot)}
      BY <1>17, <2>1, <1>typed, <1>inv DEF RecvClear
    <3>2. dpc'[r] = dpc[r] /\ rcv'[r] = rcv[r]
      BY <1>17, <2>1, <1>typed, <1>inv DEF RecvClear
    <3> QED
      BY <3>1, <3>2, <1>inv, <1>typed, ServeKept
  <2>2. CASE a = r
    <3>1. slot' = Idle(slot) /\ served' = served /\ rcv' = rcv /\ dpc[r] = "clear" /\ dpc'[r] = "dispatch"
      BY <1>17, <2>2, <1>typed DEF RecvClear
    <3>2. slot'.state = "IDLE" /\ slot'.body = slot.body
      BY <3>1, <1>typed, IdleFields
    <3> QED
      BY <3>1, <3>2, <1>inv DEF ServeInv, NotServedFrom, AckBy
  <2> QED
    BY <2>1, <2>2
<1>18. ASSUME NEW a \in App, Dispatch(a)
       PROVE  ServeInv(e, r)'
  <2>1. CASE a # r
    <3>1. rcv[a].body.to # a
      BY <2>1, <1>typed, <1>inv DEF MessageInv, Sent
    <3>2. served' = served
      BY <1>18, <3>1, <1>typed DEF Dispatch
    <3>3. slot' = slot /\ dpc'[r] = dpc[r] /\ rcv'[r] = rcv[r]
      BY <1>18, <2>1, <1>typed, <1>inv DEF Dispatch
    <3> QED
      BY <3>2, <3>3, <1>inv, <1>typed, ServeKept
  <2>2. CASE a = r /\ rcv[r].body.iop \notin Table[r]
    <3>1. served' = served /\ slot' = slot /\ dpc'[r] = "poll"
      BY <1>18, <2>2, <1>typed DEF Dispatch
    <3> QED
      BY <3>1, <1>inv, <1>typed, ServeKept
  <2>3. CASE a = r /\ rcv[r].body.iop \in Table[r]
    <3> DEFINE c == rcv[r].body.call
    <3>1. rcv[r].body.kind = "msg" /\ rcv[r].body.to = r /\ c \in Calls
      BY <1>18, <2>3, <1>typed, <1>inv, ConstAssumption
      DEF Dispatch, ServeInv, MessageInv, Sent, AckBy, Deployed, Msg, Body
    <3>2. NotServedFrom(c)
      BY <1>18, <2>3, <3>1, <1>inv DEF Dispatch, ServeInv
    <3>3. /\ dpc[r] = "dispatch" /\ dpc'[r] = "elock" /\ slot' = slot /\ rcv' = rcv
          /\ \A d \in Calls : served'[d] = IF d = c THEN served[d] + 1 ELSE served[d]
      BY <1>18, <2>3, <3>1, <1>typed DEF Dispatch
    <3>4. served[c] = 0 /\ served'[c] = 1
      <4>1. c \in Nat /\ c >= c
        BY <3>1, <1>typed
      <4>2. served[c] = 0
        BY <3>1, <3>2, <4>1 DEF NotServedFrom
      <4> QED
        BY <3>1, <3>3, <4>2
    <3>5. slot.body.kind = "msg" /\ slot.state = "REQ" => NotServedFrom(slot.body.call)'
      <4>1. SUFFICES ASSUME slot.body.kind = "msg", slot.state = "REQ"
                     PROVE  NotServedFrom(slot.body.call)'
        OBVIOUS
      <4>2. NotServedFrom(slot.body.call) /\ c < slot.body.call /\ slot.body.call \in Calls
        BY <3>1, <3>3, <4>1, <1>inv DEF ServeInv, MessageInv, Sent
      <4> QED
        <5>1. \A d \in Calls : d >= slot.body.call => d # c
          BY <3>1, <4>2, <1>typed
        <5>2. \A d \in Calls : d >= slot.body.call => served'[d] = 0
          BY <3>3, <4>2, <5>1 DEF NotServedFrom
        <5> QED
          BY <3>3, <5>2 DEF NotServedFrom
    <3>6. AckBy(r, slot) => served'[slot.body.call] = 1
      BY <3>3, <3>4, <1>inv DEF ServeInv, MessageInv, Sent
    <3> QED
      BY <3>1, <3>3, <3>4, <3>5, <3>6, <1>inv DEF ServeInv, AckBy
  <2> QED
    BY <2>1, <2>2, <2>3
<1>19. ASSUME NEW a \in App, SendEchoLock(a)
       PROVE  ServeInv(e, r)'
  <2>1. CASE a # r
    <3>1. served' = served /\ slot' \in {slot, Idle(slot)}
      BY <1>19, <2>1, <1>typed, <1>inv DEF SendEchoLock
    <3>2. dpc'[r] = dpc[r] /\ rcv'[r] = rcv[r]
      BY <1>19, <2>1, <1>typed, <1>inv DEF SendEchoLock
    <3> QED
      BY <3>1, <3>2, <1>inv, <1>typed, ServeKept
  <2>2. CASE a = r
    <3>1. slot' = slot /\ served' = served /\ rcv' = rcv /\ dpc[r] = "elock" /\ dpc'[r] = "echeck"
      BY <1>19, <2>2, <1>typed DEF SendEchoLock
    <3> QED
      BY <3>1, <1>inv DEF ServeInv, NotServedFrom, AckBy
  <2> QED
    BY <2>1, <2>2
<1>20. ASSUME NEW a \in App, SendEchoNoQue(a)
       PROVE  ServeInv(e, r)'
  <2>1. served' = served /\ slot' \in {slot, Idle(slot)}
    BY <1>20 DEF SendEchoNoQue
  <2>2. (dpc'[r] = dpc[r] /\ rcv'[r] = rcv[r]) \/ dpc'[r] = "poll"
    BY <1>20, <1>typed, <1>inv DEF SendEchoNoQue
  <2> QED
    BY <2>1, <2>2, <1>inv, <1>typed, ServeKept
<1>21. ASSUME NEW a \in App, SendEchoCheck(a)
       PROVE  ServeInv(e, r)'
  <2>1. CASE a # r
    <3>1. served' = served /\ slot' \in {slot, Idle(slot)}
      BY <1>21, <2>1, <1>typed, <1>inv DEF SendEchoCheck
    <3>2. dpc'[r] = dpc[r] /\ rcv'[r] = rcv[r]
      BY <1>21, <2>1, <1>typed, <1>inv DEF SendEchoCheck
    <3> QED
      BY <3>1, <3>2, <1>inv, <1>typed, ServeKept
  <2>2. CASE a = r
    <3>1. slot' = slot /\ served' = served /\ rcv' = rcv /\ dpc[r] = "echeck" /\ dpc'[r] \in {"eput", "poll"}
      BY <1>21, <2>2, <1>typed DEF SendEchoCheck
    <3> QED
      BY <3>1, <1>inv DEF ServeInv, NotServedFrom, AckBy
  <2> QED
    BY <2>1, <2>2
<1>22. ASSUME NEW a \in App, NEW u \in CopyUnits, SendEchoPut(a, u)
       PROVE  ServeInv(e, r)'
  <2>1. slot' = Echo(a, rcv[a]) /\ rcv' = rcv /\ served' = served /\ a \in {e, r}
    BY <1>22, <1>typed, <1>inv, CopyWhole, EchoIsMsg DEF SendEchoPut, Deployed, RoleInv
  <2>2. slot'.body.kind = "ack" /\ slot'.state = "ACK" /\ slot'.body.by = a /\ slot'.body.call = rcv[a].body.call
    BY <2>1 DEF Echo
  <2>3. CASE a = e
    <3>1. dpc'[r] = dpc[r]
      BY <1>22, <2>3, <1>typed, <1>inv DEF SendEchoPut
    <3> QED
      BY <2>1, <2>2, <2>3, <3>1, <1>inv DEF ServeInv, AckBy, NotServedFrom
  <2>4. CASE a = r
    <3>1. dpc[r] = "eput" /\ dpc'[r] = "poll"
      BY <1>22, <2>4, <1>typed, OneUnit DEF SendEchoPut
    <3> QED
      BY <2>1, <2>2, <2>4, <3>1, <1>inv DEF ServeInv, AckBy
  <2> QED
    BY <2>1, <2>3, <2>4
<1>23. CASE UNCHANGED vars
  BY <1>23, <1>inv DEF vars, ServeInv, NotServedFrom
<1> QED
  BY <1>1, <1>2, <1>3, <1>4, <1>5, <1>6, <1>7, <1>8, <1>9, <1>10, <1>11,
     <1>12, <1>13, <1>14, <1>15, <1>16, <1>17, <1>18, <1>19, <1>20, <1>21,
     <1>22, <1>23
  DEF Next, CallerStep, ServiceStep

(* The answer to a call is untouched where neither e nor r moves on. *)
LEMMA AnswerKept ==
  ASSUME NEW e, NEW r, AnswerInv(e, r), MessageInv(e, r), slot \in Msg,
         slot' \in {slot, Idle(slot)}, rcv[r] \in Msg, r \in App,
         \A c \in Calls : outcome'[c] = "ok" => outcome[c] = "ok",
         (dpc'[r] = dpc[r] /\ rcv'[r] = rcv[r]) \/ dpc'[r] = "poll",
         \/ pc'[e] \notin {"wait", "match", "take", "done"}
         \/ pc'[e] = "wait" /\ pc[e] \in {"wait", "match"}
         \/ pc'[e] = pc[e] /\ req'[e] = req[e] /\ ret'[e] = ret[e]
  PROVE  AnswerInv(e, r)'
<1>1. slot'.body = slot.body /\ slot'.index = slot.index
  BY IdleFields
<1>2. (slot.body.kind = "msg" \/ AckBy(r, slot)) => slot.body.call \in Calls
  BY DEF MessageInv, Sent
<1>3. rcv[r].body.kind = "msg" => rcv[r].body.call \in Calls
  BY DEF MessageInv, Sent
<1>4. slot'.body.kind = "msg" => outcome'[slot'.body.call] # "ok"
  BY <1>1, <1>2 DEF AnswerInv
<1>5. dpc'[r] \notin {"poll", "dest", "recv"} /\ rcv'[r].body.kind = "msg"
       => outcome'[rcv'[r].body.call] # "ok"
  BY <1>3 DEF AnswerInv
<1>6. pc'[e] \in {"wait", "match", "take", "done"} /\ AckBy(r, slot)
       => dpc'[r] = "poll" /\ outcome'[slot.body.call] # "ok"
  BY <1>2 DEF AnswerInv
<1> QED
  BY <1>1, <1>4, <1>5, <1>6 DEF AnswerInv, AckBy

(* Every step keeps the answer e is to take. *)
LEMMA AnswerStep ==
  ASSUME NEW e, NEW r, Deployed(e, r), ChannelInv, WholeInv(e, r), [Next]_vars
  PROVE  AnswerInv(e, r)'
<1> USE DEF callVars, dbaseVars, histVars
<1>typed. /\ slot \in Msg /\ pc \in [App -> CallerPlace] /\ dpc \in [App -> ServicePlace]
      /\ req \in [App -> Msg] /\ ret \in [App -> Msg] /\ rcv \in [App -> Msg]
      /\ todo \in [App -> SUBSET CopyUnits] /\ dtodo \in [App -> SUBSET CopyUnits]
      /\ lock \in [App -> {"free", "caller", "dbase"}]
      /\ seq \in [App -> Nat] /\ ncall \in Nat /\ MaxCalls \in Nat /\ Calls = 1 .. MaxCalls
      /\ caller \in [Calls -> App \cup {NoApp}]
      /\ outcome \in [Calls -> Outcome] /\ served \in [Calls -> Nat]
      /\ NoApp \notin App
  BY ConstAssumption DEF ChannelInv, TypeOK, Calls, Index
<1>inv. /\ MessageInv(e, r) /\ RequestInv(e, r) /\ RoleInv(e, r) /\ ServeInv(e, r) /\ AnswerInv(e, r)
      /\ CallInv /\ UnsentInv /\ LockInv /\ SlotInv /\ e \in App /\ r \in App /\ e # r
  BY DEF Deployed, WholeInv, ChannelInv
<1>1. ASSUME NEW a \in App, SmMsgInit(a)
       PROVE  AnswerInv(e, r)'
  <2>1. slot' \in {slot, Idle(slot)} /\ \A c \in Calls : outcome'[c] = "ok" => outcome[c] = "ok"
    BY <1>1, <1>typed DEF SmMsgInit
  <2>2. (dpc'[r] = dpc[r] /\ rcv'[r] = rcv[r]) \/ dpc'[r] = "poll"
    BY <1>1, <1>typed, <1>inv DEF SmMsgInit
  <2>3. \/ pc'[e] \notin {"wait", "match", "take", "done"}
        \/ pc'[e] = "wait" /\ pc[e] \in {"wait", "match"}
        \/ pc'[e] = pc[e] /\ req'[e] = req[e] /\ ret'[e] = ret[e]
    BY <1>1, <1>typed, <1>inv DEF SmMsgInit
  <2> QED
    BY <2>1, <2>2, <2>3, <1>inv, <1>typed, AnswerKept
<1>2. ASSUME NEW a \in App, Crash(a)
       PROVE  AnswerInv(e, r)'
  <2>1. slot' \in {slot, Idle(slot)} /\ \A c \in Calls : outcome'[c] = "ok" => outcome[c] = "ok"
    BY <1>2, <1>typed DEF Crash
  <2>2. (dpc'[r] = dpc[r] /\ rcv'[r] = rcv[r]) \/ dpc'[r] = "poll"
    BY <1>2, <1>typed, <1>inv DEF Crash
  <2>3. \/ pc'[e] \notin {"wait", "match", "take", "done"}
        \/ pc'[e] = "wait" /\ pc[e] \in {"wait", "match"}
        \/ pc'[e] = pc[e] /\ req'[e] = req[e] /\ ret'[e] = ret[e]
    BY <1>2, <1>typed, <1>inv DEF Crash
  <2> QED
    BY <2>1, <2>2, <2>3, <1>inv, <1>typed, AnswerKept
<1>3. ASSUME NEW a \in App, NEW iop \in CallIop, Call(a, iop)
       PROVE  AnswerInv(e, r)'
  <2>1. slot' \in {slot, Idle(slot)} /\ \A c \in Calls : outcome'[c] = "ok" => outcome[c] = "ok"
    BY <1>3, <1>typed DEF Call
  <2>2. (dpc'[r] = dpc[r] /\ rcv'[r] = rcv[r]) \/ dpc'[r] = "poll"
    BY <1>3, <1>typed, <1>inv DEF Call
  <2>3. \/ pc'[e] \notin {"wait", "match", "take", "done"}
        \/ pc'[e] = "wait" /\ pc[e] \in {"wait", "match"}
        \/ pc'[e] = pc[e] /\ req'[e] = req[e] /\ ret'[e] = ret[e]
    BY <1>3, <1>typed, <1>inv DEF Call
  <2> QED
    BY <2>1, <2>2, <2>3, <1>inv, <1>typed, AnswerKept
<1>4. ASSUME NEW a \in App, SendWaitNoQue(a)
       PROVE  AnswerInv(e, r)'
  <2>1. slot' \in {slot, Idle(slot)} /\ \A c \in Calls : outcome'[c] = "ok" => outcome[c] = "ok"
    BY <1>4, <1>typed DEF SendWaitNoQue, Return
  <2>2. (dpc'[r] = dpc[r] /\ rcv'[r] = rcv[r]) \/ dpc'[r] = "poll"
    BY <1>4, <1>typed, <1>inv DEF SendWaitNoQue, Return
  <2>3. \/ pc'[e] \notin {"wait", "match", "take", "done"}
        \/ pc'[e] = "wait" /\ pc[e] \in {"wait", "match"}
        \/ pc'[e] = pc[e] /\ req'[e] = req[e] /\ ret'[e] = ret[e]
    BY <1>4, <1>typed, <1>inv DEF SendWaitNoQue, Return
  <2> QED
    BY <2>1, <2>2, <2>3, <1>inv, <1>typed, AnswerKept
<1>5. ASSUME NEW a \in App, SendWaitLock(a)
       PROVE  AnswerInv(e, r)'
  <2>1. slot' \in {slot, Idle(slot)} /\ \A c \in Calls : outcome'[c] = "ok" => outcome[c] = "ok"
    BY <1>5, <1>typed DEF SendWaitLock
  <2>2. (dpc'[r] = dpc[r] /\ rcv'[r] = rcv[r]) \/ dpc'[r] = "poll"
    BY <1>5, <1>typed, <1>inv DEF SendWaitLock
  <2>3. \/ pc'[e] \notin {"wait", "match", "take", "done"}
        \/ pc'[e] = "wait" /\ pc[e] \in {"wait", "match"}
        \/ pc'[e] = pc[e] /\ req'[e] = req[e] /\ ret'[e] = ret[e]
    BY <1>5, <1>typed, <1>inv DEF SendWaitLock
  <2> QED
    BY <2>1, <2>2, <2>3, <1>inv, <1>typed, AnswerKept
<1>6. ASSUME NEW a \in App, SendWaitPoll(a)
       PROVE  AnswerInv(e, r)'
  <2>1. slot' \in {slot, Idle(slot)} /\ \A c \in Calls : outcome'[c] = "ok" => outcome[c] = "ok"
    BY <1>6, <1>typed DEF SendWaitPoll, Tick
  <2>2. (dpc'[r] = dpc[r] /\ rcv'[r] = rcv[r]) \/ dpc'[r] = "poll"
    BY <1>6, <1>typed, <1>inv DEF SendWaitPoll, Tick
  <2>3. \/ pc'[e] \notin {"wait", "match", "take", "done"}
        \/ pc'[e] = "wait" /\ pc[e] \in {"wait", "match"}
        \/ pc'[e] = pc[e] /\ req'[e] = req[e] /\ ret'[e] = ret[e]
    BY <1>6, <1>typed, <1>inv DEF SendWaitPoll, Tick
  <2> QED
    BY <2>1, <2>2, <2>3, <1>inv, <1>typed, AnswerKept
<1>7. ASSUME NEW a \in App, NEW u \in CopyUnits, SendWaitPut(a, u)
       PROVE  AnswerInv(e, r)'
  <2>1. a = e
    BY <1>7, <1>inv DEF SendWaitPut, RoleInv
  <2>2. slot' = req[e] /\ pc[e] # "idle" /\ pc'[e] = "wait"
    BY <1>7, <2>1, <1>typed, CopyWhole, OneUnit DEF SendWaitPut
  <2>3. dpc' = dpc /\ rcv' = rcv /\ outcome' = outcome
    BY <1>7 DEF SendWaitPut
  <2>4. slot'.body.kind = "msg" /\ outcome[slot'.body.call] = "open"
    BY <2>2, <1>inv DEF RequestInv, CallInv
  <2> QED
    BY <2>2, <2>3, <2>4, <1>inv DEF AnswerInv, AckBy
<1>8. ASSUME NEW a \in App, SendWaitGiveUp(a)
       PROVE  AnswerInv(e, r)'
  <2>1. slot' \in {slot, Idle(slot)} /\ \A c \in Calls : outcome'[c] = "ok" => outcome[c] = "ok"
    BY <1>8, <1>typed DEF SendWaitGiveUp, Return
  <2>2. (dpc'[r] = dpc[r] /\ rcv'[r] = rcv[r]) \/ dpc'[r] = "poll"
    BY <1>8, <1>typed, <1>inv DEF SendWaitGiveUp, Return
  <2>3. \/ pc'[e] \notin {"wait", "match", "take", "done"}
        \/ pc'[e] = "wait" /\ pc[e] \in {"wait", "match"}
        \/ pc'[e] = pc[e] /\ req'[e] = req[e] /\ ret'[e] = ret[e]
    BY <1>8, <1>typed, <1>inv DEF SendWaitGiveUp, Return
  <2> QED
    BY <2>1, <2>2, <2>3, <1>inv, <1>typed, AnswerKept
<1>9. ASSUME NEW a \in App, SendWaitState(a)
       PROVE  AnswerInv(e, r)'
  <2>1. a = e
    BY <1>9, <1>inv DEF SendWaitState, RoleInv
  <2>2. slot' = slot /\ dpc' = dpc /\ rcv' = rcv /\ outcome' = outcome
    BY <1>9 DEF SendWaitState
  <2>3. CASE slot.state = "ACK"
    <3>1. pc[e] = "wait" /\ pc'[e] = "match"
      BY <1>9, <2>1, <2>3, <1>typed DEF SendWaitState
    <3>2. AckBy(r, slot)
      BY <2>3, <3>1, <1>inv DEF MessageInv, Sent, AckBy, SlotInv, OwnCall, NotOwnAck
    <3> QED
      BY <2>2, <3>1, <3>2, <1>inv DEF AnswerInv, AckBy
  <2>4. CASE slot.state # "ACK"
    <3>1. pc[e] = "wait" /\ pc'[e] \in {"wait", "expire"}
      BY <1>9, <2>1, <2>4, <1>typed DEF SendWaitState, Tick
    <3> QED
      BY <2>2, <3>1, <1>inv, <1>typed, AnswerKept
  <2> QED
    BY <2>3, <2>4
<1>10. ASSUME NEW a \in App, SendWaitMatch(a)
       PROVE  AnswerInv(e, r)'
  <2>1. a = e
    BY <1>10, <1>inv DEF SendWaitMatch, RoleInv
  <2>2. slot' = slot /\ dpc' = dpc /\ rcv' = rcv /\ outcome' = outcome /\ req' = req /\ ret' = ret
    BY <1>10 DEF SendWaitMatch
  <2>3. CASE Answers(e, slot)
    <3>1. pc[e] = "match" /\ pc'[e] = "take"
      BY <1>10, <2>1, <2>3, <1>typed DEF SendWaitMatch
    <3> QED
      BY <2>2, <2>3, <3>1, <1>inv DEF AnswerInv, AckBy, Answers
  <2>4. CASE ~Answers(e, slot)
    <3>1. pc[e] = "match" /\ pc'[e] \in {"wait", "expire"}
      BY <1>10, <2>1, <2>4, <1>typed DEF SendWaitMatch, Tick
    <3> QED
      BY <2>2, <3>1, <1>inv, <1>typed, AnswerKept
  <2> QED
    BY <2>3, <2>4
<1>11. ASSUME NEW a \in App, NEW u \in CopyUnits, SendWaitTake(a, u)
       PROVE  AnswerInv(e, r)'
  <2>1. a = e
    BY <1>11, <1>inv DEF SendWaitTake, RoleInv
  <2>2. slot' = slot /\ dpc' = dpc /\ rcv' = rcv /\ outcome' = outcome /\ req' = req
    BY <1>11 DEF SendWaitTake
  <2>3. pc[e] = "take" /\ pc'[e] = "done" /\ ret'[e] = slot
    BY <1>11, <2>1, <1>typed, CopyWhole, OneUnit DEF SendWaitTake
  <2> QED
    BY <2>2, <2>3, <1>inv DEF AnswerInv, AckBy
<1>12. ASSUME NEW a \in App, SendWaitDone(a)
       PROVE  AnswerInv(e, r)'
  <2>1. a = e
    BY <1>12, <1>inv DEF SendWaitDone, RoleInv
  <2>2. pc[e] = "done" /\ pc'[e] = "idle" /\ slot' = Idle(slot) /\ dpc' = dpc /\ rcv' = rcv
    BY <1>12, <2>1, <1>typed DEF SendWaitDone, Return
  <2>3. AckBy(r, slot) /\ dpc[r] = "poll" /\ slot'.body = slot.body
    BY <2>2, <1>inv, <1>typed, IdleFields DEF AnswerInv
  <2> QED
    BY <2>2, <2>3 DEF AnswerInv, AckBy
<1>13. ASSUME NEW a \in App, SendWaitExpire(a)
       PROVE  AnswerInv(e, r)'
  <2>1. slot' \in {slot, Idle(slot)} /\ \A c \in Calls : outcome'[c] = "ok" => outcome[c] = "ok"
    BY <1>13, <1>typed DEF SendWaitExpire, Return
  <2>2. (dpc'[r] = dpc[r] /\ rcv'[r] = rcv[r]) \/ dpc'[r] = "poll"
    BY <1>13, <1>typed, <1>inv DEF SendWaitExpire, Return
  <2>3. \/ pc'[e] \notin {"wait", "match", "take", "done"}
        \/ pc'[e] = "wait" /\ pc[e] \in {"wait", "match"}
        \/ pc'[e] = pc[e] /\ req'[e] = req[e] /\ ret'[e] = ret[e]
    BY <1>13, <1>typed, <1>inv DEF SendWaitExpire, Return
  <2> QED
    BY <2>1, <2>2, <2>3, <1>inv, <1>typed, AnswerKept
<1>14. ASSUME NEW a \in App, RecvState(a)
       PROVE  AnswerInv(e, r)'
  <2>1. slot' \in {slot, Idle(slot)} /\ outcome' = outcome
    BY <1>14 DEF RecvState
  <2>2. pc'[e] = pc[e] /\ req'[e] = req[e] /\ ret'[e] = ret[e]
    BY <1>14 DEF RecvState
  <2>3. CASE a # r
    <3>1. dpc'[r] = dpc[r] /\ rcv'[r] = rcv[r]
      BY <1>14, <2>3, <1>typed, <1>inv DEF RecvState
    <3> QED
      BY <2>1, <2>2, <3>1, <1>inv, <1>typed, AnswerKept
  <2>4. CASE a = r
    <3>1. slot' = slot /\ slot.state = "REQ" /\ dpc'[r] = "dest"
      BY <1>14, <2>4, <1>typed DEF RecvState
    <3>2. slot.body.kind = "msg"
      BY <3>1, <1>inv DEF MessageInv
    <3> QED
      BY <2>1, <2>2, <3>1, <3>2, <1>inv DEF AnswerInv, AckBy
  <2> QED
    BY <2>3, <2>4
<1>15. ASSUME NEW a \in App, RecvDest(a)
       PROVE  AnswerInv(e, r)'
  <2>1. slot' \in {slot, Idle(slot)} /\ outcome' = outcome
    BY <1>15 DEF RecvDest
  <2>2. pc'[e] = pc[e] /\ req'[e] = req[e] /\ ret'[e] = ret[e]
    BY <1>15 DEF RecvDest
  <2>3. CASE a # r
    <3>1. dpc'[r] = dpc[r] /\ rcv'[r] = rcv[r]
      BY <1>15, <2>3, <1>typed, <1>inv DEF RecvDest
    <3> QED
      BY <2>1, <2>2, <3>1, <1>inv, <1>typed, AnswerKept
  <2>4. CASE a = r
    <3>1. dpc[r] = "dest" /\ dpc'[r] \in {"recv", "poll"} /\ rcv' = rcv
      BY <1>15, <2>4, <1>typed DEF RecvDest
    <3>2. slot'.body = slot.body /\ slot'.index = slot.index
      BY <2>1, <1>typed, IdleFields
    <3> QED
      BY <2>1, <2>2, <3>1, <3>2, <1>inv DEF AnswerInv, AckBy
  <2> QED
    BY <2>3, <2>4
<1>16. ASSUME NEW a \in App, NEW u \in CopyUnits, RecvCopy(a, u)
       PROVE  AnswerInv(e, r)'
  <2>1. slot' \in {slot, Idle(slot)} /\ outcome' = outcome
    BY <1>16 DEF RecvCopy
  <2>2. pc'[e] = pc[e] /\ req'[e] = req[e] /\ ret'[e] = ret[e]
    BY <1>16 DEF RecvCopy
  <2>3. CASE a # r
    <3>1. dpc'[r] = dpc[r] /\ rcv'[r] = rcv[r]
      BY <1>16, <2>3, <1>typed, <1>inv DEF RecvCopy
    <3> QED
      BY <2>1, <2>2, <3>1, <1>inv, <1>typed, AnswerKept
  <2>4. CASE a = r
    <3>1. slot' = slot /\ dpc[r] = "recv" /\ dpc'[r] = "clear" /\ rcv'[r] = slot
      <4>1. u = Fields /\ dtodo[a] = {u}
        BY <1>16, <1>typed, OneUnit DEF RecvCopy
      <4> QED
        BY <1>16, <2>4, <4>1, <1>typed, CopyWhole DEF RecvCopy
    <3> QED
      BY <2>1, <2>2, <3>1, <1>inv DEF AnswerInv, AckBy
  <2> QED
    BY <2>3, <2>4
<1>17. ASSUME NEW a \in App, RecvClear(a)
       PROVE  AnswerInv(e, r)'
  <2>1. slot' \in {slot, Idle(slot)} /\ outcome' = outcome
    BY <1>17 DEF RecvClear
  <2>2. pc'[e] = pc[e] /\ req'[e] = req[e] /\ ret'[e] = ret[e]
    BY <1>17 DEF RecvClear
  <2>3. CASE a # r
    <3>1. dpc'[r] = dpc[r] /\ rcv'[r] = rcv[r]
      BY <1>17, <2>3, <1>typed, <1>inv DEF RecvClear
    <3> QED
      BY <2>1, <2>2, <3>1, <1>inv, <1>typed, AnswerKept
  <2>4. CASE a = r
    <3>1. dpc[r] = "clear" /\ dpc'[r] \in {"dispatch"} /\ rcv' = rcv
      BY <1>17, <2>4, <1>typed DEF RecvClear
    <3>2. slot'.body = slot.body /\ slot'.index = slot.index
      BY <2>1, <1>typed, IdleFields
    <3> QED
      BY <2>1, <2>2, <3>1, <3>2, <1>inv DEF AnswerInv, AckBy
  <2> QED
    BY <2>3, <2>4
<1>18. ASSUME NEW a \in App, Dispatch(a)
       PROVE  AnswerInv(e, r)'
  <2>1. slot' \in {slot, Idle(slot)} /\ outcome' = outcome
    BY <1>18 DEF Dispatch
  <2>2. pc'[e] = pc[e] /\ req'[e] = req[e] /\ ret'[e] = ret[e]
    BY <1>18 DEF Dispatch
  <2>3. CASE a # r
    <3>1. dpc'[r] = dpc[r] /\ rcv'[r] = rcv[r]
      BY <1>18, <2>3, <1>typed, <1>inv DEF Dispatch
    <3> QED
      BY <2>1, <2>2, <3>1, <1>inv, <1>typed, AnswerKept
  <2>4. CASE a = r
    <3>1. dpc[r] = "dispatch" /\ dpc'[r] \in {"elock", "poll"} /\ rcv' = rcv
      BY <1>18, <2>4, <1>typed DEF Dispatch
    <3>2. slot'.body = slot.body /\ slot'.index = slot.index
      BY <2>1, <1>typed, IdleFields
    <3> QED
      BY <2>1, <2>2, <3>1, <3>2, <1>inv DEF AnswerInv, AckBy
  <2> QED
    BY <2>3, <2>4
<1>19. ASSUME NEW a \in App, SendEchoLock(a)
       PROVE  AnswerInv(e, r)'
  <2>1. slot' \in {slot, Idle(slot)} /\ outcome' = outcome
    BY <1>19 DEF SendEchoLock
  <2>2. pc'[e] = pc[e] /\ req'[e] = req[e] /\ ret'[e] = ret[e]
    BY <1>19 DEF SendEchoLock
  <2>3. CASE a # r
    <3>1. dpc'[r] = dpc[r] /\ rcv'[r] = rcv[r]
      BY <1>19, <2>3, <1>typed, <1>inv DEF SendEchoLock
    <3> QED
      BY <2>1, <2>2, <3>1, <1>inv, <1>typed, AnswerKept
  <2>4. CASE a = r
    <3>1. dpc[r] = "elock" /\ dpc'[r] \in {"echeck"} /\ rcv' = rcv
      BY <1>19, <2>4, <1>typed DEF SendEchoLock
    <3>2. slot'.body = slot.body /\ slot'.index = slot.index
      BY <2>1, <1>typed, IdleFields
    <3> QED
      BY <2>1, <2>2, <3>1, <3>2, <1>inv DEF AnswerInv, AckBy
  <2> QED
    BY <2>3, <2>4
<1>20. ASSUME NEW a \in App, SendEchoNoQue(a)
       PROVE  AnswerInv(e, r)'
  <2>1. slot' \in {slot, Idle(slot)} /\ \A c \in Calls : outcome'[c] = "ok" => outcome[c] = "ok"
    BY <1>20, <1>typed DEF SendEchoNoQue
  <2>2. (dpc'[r] = dpc[r] /\ rcv'[r] = rcv[r]) \/ dpc'[r] = "poll"
    BY <1>20, <1>typed, <1>inv DEF SendEchoNoQue
  <2>3. \/ pc'[e] \notin {"wait", "match", "take", "done"}
        \/ pc'[e] = "wait" /\ pc[e] \in {"wait", "match"}
        \/ pc'[e] = pc[e] /\ req'[e] = req[e] /\ ret'[e] = ret[e]
    BY <1>20, <1>typed, <1>inv DEF SendEchoNoQue
  <2> QED
    BY <2>1, <2>2, <2>3, <1>inv, <1>typed, AnswerKept
<1>21. ASSUME NEW a \in App, SendEchoCheck(a)
       PROVE  AnswerInv(e, r)'
  <2>1. slot' \in {slot, Idle(slot)} /\ outcome' = outcome
    BY <1>21 DEF SendEchoCheck
  <2>2. pc'[e] = pc[e] /\ req'[e] = req[e] /\ ret'[e] = ret[e]
    BY <1>21 DEF SendEchoCheck
  <2>3. CASE a # r
    <3>1. dpc'[r] = dpc[r] /\ rcv'[r] = rcv[r]
      BY <1>21, <2>3, <1>typed, <1>inv DEF SendEchoCheck
    <3> QED
      BY <2>1, <2>2, <3>1, <1>inv, <1>typed, AnswerKept
  <2>4. CASE a = r
    <3>1. dpc[r] = "echeck" /\ dpc'[r] \in {"eput", "poll"} /\ rcv' = rcv
      BY <1>21, <2>4, <1>typed DEF SendEchoCheck
    <3>2. slot'.body = slot.body /\ slot'.index = slot.index
      BY <2>1, <1>typed, IdleFields
    <3> QED
      BY <2>1, <2>2, <3>1, <3>2, <1>inv DEF AnswerInv, AckBy
  <2> QED
    BY <2>3, <2>4
<1>22. ASSUME NEW a \in App, NEW u \in CopyUnits, SendEchoPut(a, u)
       PROVE  AnswerInv(e, r)'
  <2>1. slot' = Echo(a, rcv[a]) /\ rcv' = rcv /\ outcome' = outcome /\ pc' = pc /\ a \in {e, r}
    BY <1>22, <1>typed, <1>inv, CopyWhole, EchoIsMsg DEF SendEchoPut, Deployed, RoleInv
  <2>2. slot'.body.kind = "ack" /\ slot'.body.by = a /\ slot'.body.call = rcv[a].body.call
    BY <2>1 DEF Echo
  <2>3. CASE a = e
    <3>1. pc[e] \notin InSendWait
      BY <1>22, <2>3, <1>inv DEF SendEchoPut, LockInv
    <3>2. dpc'[r] = dpc[r]
      BY <1>22, <2>3, <1>typed, <1>inv DEF SendEchoPut
    <3> QED
      BY <2>1, <2>2, <3>1, <3>2, <1>inv DEF AnswerInv, AckBy, InSendWait
  <2>4. CASE a = r
    <3>1. dpc[r] = "eput" /\ dpc'[r] = "poll"
      BY <1>22, <2>4, <1>typed, OneUnit DEF SendEchoPut
    <3>2. outcome[rcv[r].body.call] # "ok"
      BY <3>1, <1>inv DEF AnswerInv, ServeInv
    <3>3. pc[e] \notin {"match", "take", "done"}
      BY <3>1, <1>inv DEF AnswerInv
    <3> QED
      BY <2>1, <2>2, <2>4, <3>1, <3>2, <3>3 DEF AnswerInv, AckBy
  <2> QED
    BY <2>1, <2>3, <2>4
<1>23. CASE UNCHANGED vars
  BY <1>23, <1>inv DEF vars, AnswerInv
<1> QED
  BY <1>1, <1>2, <1>3, <1>4, <1>5, <1>6, <1>7, <1>8, <1>9, <1>10, <1>11,
     <1>12, <1>13, <1>14, <1>15, <1>16, <1>17, <1>18, <1>19, <1>20, <1>21,
     <1>22, <1>23
  DEF Next, CallerStep, ServiceStep

(* In every deployment of one caller and one server the messages, the roles *)
(* and the order of execution are as WholeInv says, in every state that the *)
(* threads, the timeouts and the crashes can reach.                         *)
THEOREM WholeInvariant == Spec => []DeployedInv
<1>1. Init => DeployedInv
  BY InitWhole DEF DeployedInv
<1>2. ASSUME ChannelInv, DeployedInv, [Next]_vars
      PROVE  DeployedInv'
  <2>1. SUFFICES ASSUME NEW e \in App, NEW r \in App, Deployed(e, r)
                 PROVE  WholeInv(e, r)'
    BY DEF DeployedInv, Deployed
  <2>2. WholeInv(e, r)
    BY <1>2, <2>1 DEF DeployedInv
  <2> QED
    BY <1>2, <2>1, <2>2, MessageStep, NumberStep, RoleStep, RequestStep, ServeStep,
       AnswerStep DEF WholeInv
<1> QED
  BY <1>1, <1>2, ChannelInvariant, PTL DEF Spec

(* The same, for the two applications of a deployment. *)
LEMMA WholeOf ==
  ASSUME NEW CONSTANT e, NEW CONSTANT r, Deployed(e, r)
  PROVE  Spec => []WholeInv(e, r)
<1>1. DeployedInv => WholeInv(e, r)
  BY DEF DeployedInv, Deployed
<1> QED
  BY <1>1, WholeInvariant, PTL

(* The answer that e holds is r's to this call, or to a call that died with *)
(* an earlier process.                                                      *)
LEMMA AnswerTaken ==
  ASSUME NEW e, NEW r, Deployed(e, r), ChannelInv, WholeInv(e, r), pc[e] = "done"
  PROVE  /\ AckBy(r, ret[e])
         /\ ret[e].body.call \in Calls
         /\ served[ret[e].body.call] = 1
         /\ ret[e].body.call # req[e].body.call => outcome[ret[e].body.call] = "lost"
<1>1. /\ AckBy(r, slot) /\ slot.index = req[e].index /\ ret[e].body = slot.body
      /\ outcome[slot.body.call] # "ok"
  BY DEF WholeInv, AnswerInv
<1>2. slot.body.call \in Calls /\ served[slot.body.call] = 1
  BY <1>1 DEF WholeInv, MessageInv, Sent, ServeInv
<1>3. outcome[slot.body.call] \notin {"none", "unsent"}
  BY <1>2 DEF ChannelInv, UnsentInv, NotOut
<1>4. CASE outcome[slot.body.call] \in {"open", "unknown"}
  <2>1. slot.index + ncall + 1 = seq[e] + slot.body.call
    BY <1>2, <1>4 DEF WholeInv, NumberInv, Numbered
  <2>2. req[e].body.call = ncall /\ slot.index + 1 = seq[e]
    BY <1>1 DEF WholeInv, RequestInv
  <2>3. slot.index \in Nat /\ ncall \in Nat /\ seq[e] \in Nat /\ slot.body.call \in Nat
    BY <1>2, ConstAssumption DEF ChannelInv, TypeOK, Msg, Index, Calls, Deployed
  <2>4. slot.body.call = req[e].body.call
    BY <2>1, <2>2, <2>3
  <2> QED
    BY <1>1, <1>2, <2>4 DEF AckBy
<1>5. CASE outcome[slot.body.call] = "lost"
  BY <1>1, <1>2, <1>5 DEF AckBy
<1> QED
  BY <1>1, <1>2, <1>3, <1>4, <1>5 DEF ChannelInv, TypeOK, Outcome

(* When SmMsgSendWait returns 0 it returns the answer to its own call,      *)
(* unless that is the answer to a call of a process that died: the frame    *)
(* index and the single slot are enough to refuse every late answer.        *)
THEOREM OwnAnswer ==
  ASSUME NEW CONSTANT e, NEW CONSTANT r, Deployed(e, r)
  PROVE  Spec => []AnswerMatchesCall
<1>1. ChannelInv /\ WholeInv(e, r) => AnswerMatchesCall
  <2>1. SUFFICES ASSUME ChannelInv, WholeInv(e, r), NEW a \in App, pc[a] = "done"
                 PROVE  /\ ret[a].body.kind = "ack"
                        /\ ret[a].body.call # req[a].body.call => outcome[ret[a].body.call] = "lost"
    BY DEF AnswerMatchesCall
  <2>2. a = e
    BY <2>1 DEF WholeInv, RoleInv
  <2> QED
    BY <2>1, <2>2, AnswerTaken DEF AckBy
<1> QED
  BY <1>1, ChannelInvariant, WholeOf, PTL

(* A step that changes no outcome, execution or answer is a stutter of Rpc. *)
LEMMA RpcStutter ==
  ASSUME outcome' = outcome, served' = served, answer' = answer
  PROVE  [Abstract!Next]_(Abstract!rpcVars)
  BY DEF Abstract!rpcVars

(* Every step of the applications is a step of Rpc or a stutter. *)
LEMMA RpcStep ==
  ASSUME NEW e, NEW r, Deployed(e, r), ChannelInv, WholeInv(e, r), [Next]_vars
  PROVE  [Abstract!Next]_(Abstract!rpcVars)
<1> USE DEF callVars, dbaseVars, histVars
<1>typed. /\ slot \in Msg /\ pc \in [App -> CallerPlace] /\ dpc \in [App -> ServicePlace]
      /\ req \in [App -> Msg] /\ ret \in [App -> Msg] /\ rcv \in [App -> Msg]
      /\ todo \in [App -> SUBSET CopyUnits] /\ dtodo \in [App -> SUBSET CopyUnits]
      /\ lock \in [App -> {"free", "caller", "dbase"}]
      /\ seq \in [App -> Nat] /\ ncall \in Nat /\ MaxCalls \in Nat /\ Calls = 1 .. MaxCalls
      /\ caller \in [Calls -> App \cup {NoApp}]
      /\ outcome \in [Calls -> Outcome] /\ served \in [Calls -> Nat]
      /\ NoApp \notin App
  BY ConstAssumption DEF ChannelInv, TypeOK, Calls, Index
<1>inv. RoleInv(e, r) /\ CallInv /\ UnsentInv /\ e \in App /\ Abstract!Calls = Calls
  BY DEF Deployed, WholeInv, ChannelInv, Calls, Abstract!Calls
<1>1. ASSUME NEW a \in App, SmMsgInit(a)
       PROVE  [Abstract!Next]_(Abstract!rpcVars)
  BY <1>1, RpcStutter DEF SmMsgInit
<1>2. ASSUME NEW a \in App, Crash(a)
       PROVE  [Abstract!Next]_(Abstract!rpcVars)
  <2> DEFINE S == {c \in Calls : caller[c] = a /\ outcome[c] \in {"open", "unknown"}}
  <2>1. Abstract!Lose(S)
    BY <1>2, <1>inv DEF Crash, Abstract!Lose
  <2>2. S \in SUBSET Abstract!Calls
    BY <1>inv
  <2> QED
    BY <2>1, <2>2 DEF Abstract!Next
<1>3. ASSUME NEW a \in App, NEW iop \in CallIop, Call(a, iop)
       PROVE  [Abstract!Next]_(Abstract!rpcVars)
  <2>1. ncall + 1 \in Calls /\ outcome[ncall + 1] = "none"
    BY <1>3, <1>typed, <1>inv DEF Call, CallInv
  <2>2. Abstract!Invoke(ncall + 1)
    BY <1>3, <2>1 DEF Call, Abstract!Invoke
  <2> QED
    BY <2>1, <2>2, <1>inv DEF Abstract!Next
<1>4. ASSUME NEW a \in App, SendWaitNoQue(a)
       PROVE  [Abstract!Next]_(Abstract!rpcVars)
  <2> DEFINE c == req[a].body.call
  <2>1. c \in Calls /\ outcome[c] = "open"
    BY <1>4, <1>inv DEF SendWaitNoQue, CallInv
  <2>2. served' = served /\ answer' = answer /\ outcome' = [outcome EXCEPT ![c] = "unsent"]
    BY <1>4 DEF SendWaitNoQue, Return
  <2>3. Abstract!ReturnUnsent(c)
    BY <1>4, <2>1, <2>2, <1>inv DEF Abstract!ReturnUnsent, SendWaitNoQue, UnsentInv, NotOut, BeforePut
  <2> QED
    BY <2>1, <2>3, <1>inv DEF Abstract!Next
<1>5. ASSUME NEW a \in App, SendWaitLock(a)
       PROVE  [Abstract!Next]_(Abstract!rpcVars)
  BY <1>5, RpcStutter DEF SendWaitLock
<1>6. ASSUME NEW a \in App, SendWaitPoll(a)
       PROVE  [Abstract!Next]_(Abstract!rpcVars)
  BY <1>6, RpcStutter DEF SendWaitPoll, Tick
<1>7. ASSUME NEW a \in App, NEW u \in CopyUnits, SendWaitPut(a, u)
       PROVE  [Abstract!Next]_(Abstract!rpcVars)
  BY <1>7, RpcStutter DEF SendWaitPut
<1>8. ASSUME NEW a \in App, SendWaitGiveUp(a)
       PROVE  [Abstract!Next]_(Abstract!rpcVars)
  <2> DEFINE c == req[a].body.call
  <2>1. c \in Calls /\ outcome[c] = "open"
    BY <1>8, <1>inv DEF SendWaitGiveUp, CallInv
  <2>2. served' = served /\ answer' = answer /\ outcome' = [outcome EXCEPT ![c] = "unsent"]
    BY <1>8 DEF SendWaitGiveUp, Return
  <2>3. Abstract!ReturnUnsent(c)
    BY <1>8, <2>1, <2>2, <1>inv DEF Abstract!ReturnUnsent, SendWaitGiveUp, UnsentInv, NotOut, BeforePut
  <2> QED
    BY <2>1, <2>3, <1>inv DEF Abstract!Next
<1>9. ASSUME NEW a \in App, SendWaitState(a)
       PROVE  [Abstract!Next]_(Abstract!rpcVars)
  BY <1>9, RpcStutter DEF SendWaitState, Tick
<1>10. ASSUME NEW a \in App, SendWaitMatch(a)
       PROVE  [Abstract!Next]_(Abstract!rpcVars)
  BY <1>10, RpcStutter DEF SendWaitMatch, Tick
<1>11. ASSUME NEW a \in App, NEW u \in CopyUnits, SendWaitTake(a, u)
       PROVE  [Abstract!Next]_(Abstract!rpcVars)
  BY <1>11, RpcStutter DEF SendWaitTake
<1>12. ASSUME NEW a \in App, SendWaitDone(a)
       PROVE  [Abstract!Next]_(Abstract!rpcVars)
  <2> DEFINE c == req[e].body.call
             d == ret[e].body.call
  <2>1. a = e /\ pc[e] = "done"
    BY <1>12, <1>inv DEF SendWaitDone, RoleInv
  <2>2. c \in Calls /\ outcome[c] = "open"
    BY <2>1, <1>inv DEF CallInv
  <2>3. d \in Calls /\ served[d] = 1 /\ (d # c => outcome[d] = "lost")
    BY <2>1, AnswerTaken
  <2>4. /\ served' = served /\ outcome' = [outcome EXCEPT ![c] = "ok"]
        /\ answer' = [answer EXCEPT ![c] = d]
    BY <1>12, <2>1 DEF SendWaitDone, Return
  <2>5. Abstract!ReturnAnswer(c)
    BY <2>2, <2>3, <2>4, <1>inv DEF Abstract!ReturnAnswer
  <2> QED
    BY <2>2, <2>5, <1>inv DEF Abstract!Next
<1>13. ASSUME NEW a \in App, SendWaitExpire(a)
       PROVE  [Abstract!Next]_(Abstract!rpcVars)
  <2> DEFINE c == req[a].body.call
  <2>1. c \in Calls /\ outcome[c] = "open"
    BY <1>13, <1>inv DEF SendWaitExpire, CallInv
  <2>2. served' = served /\ answer' = answer /\ outcome' = [outcome EXCEPT ![c] = "unknown"]
    BY <1>13 DEF SendWaitExpire, Return
  <2>3. Abstract!ReturnUnknown(c)
    BY <2>1, <2>2, <1>inv DEF Abstract!ReturnUnknown
  <2> QED
    BY <2>1, <2>3, <1>inv DEF Abstract!Next
<1>14. ASSUME NEW a \in App, RecvState(a)
       PROVE  [Abstract!Next]_(Abstract!rpcVars)
  BY <1>14, RpcStutter DEF RecvState
<1>15. ASSUME NEW a \in App, RecvDest(a)
       PROVE  [Abstract!Next]_(Abstract!rpcVars)
  BY <1>15, RpcStutter DEF RecvDest
<1>16. ASSUME NEW a \in App, NEW u \in CopyUnits, RecvCopy(a, u)
       PROVE  [Abstract!Next]_(Abstract!rpcVars)
  BY <1>16, RpcStutter DEF RecvCopy
<1>17. ASSUME NEW a \in App, RecvClear(a)
       PROVE  [Abstract!Next]_(Abstract!rpcVars)
  BY <1>17, RpcStutter DEF RecvClear
<1>18. ASSUME NEW a \in App, Dispatch(a)
       PROVE  [Abstract!Next]_(Abstract!rpcVars)
  <2> DEFINE c == rcv[r].body.call
  <2>1. CASE a # r \/ rcv[a].body.iop \notin Table[a]
    <3>1. a # r => rcv[a].body.to # a
      BY <1>typed DEF WholeInv, MessageInv, Sent
    <3>2. served' = served
      BY <1>18, <2>1, <3>1, <1>typed DEF Dispatch
    <3> QED
      BY <1>18, <3>2, RpcStutter DEF Dispatch
  <2>2. CASE a = r /\ rcv[r].body.iop \in Table[r]
    <3>1. rcv[r].body.kind = "msg" /\ rcv[r].body.to = r /\ c \in Calls
      BY <1>18, <2>2, <1>typed, ConstAssumption
      DEF Dispatch, WholeInv, ServeInv, MessageInv, Sent, AckBy, Deployed, Msg, Body
    <3>2. NotServedFrom(c) /\ outcome[c] # "ok"
      BY <1>18, <2>2, <3>1 DEF Dispatch, WholeInv, ServeInv, AnswerInv
    <3>3. outcome[c] \in {"open", "unknown", "lost"}
      BY <3>1, <3>2, <1>typed, <1>inv, <2>2, <1>18 DEF UnsentInv, NotOut, Outcome
    <3>4. served[c] = 0
      BY <3>1, <3>2, <1>typed DEF NotServedFrom
    <3>5. served' = [served EXCEPT ![c] = 1]
      BY <1>18, <2>2, <3>1, <3>4, <1>typed DEF Dispatch
    <3>6. outcome' = outcome /\ answer' = answer
      BY <1>18 DEF Dispatch
    <3>7. Abstract!Serve(c)
      BY <3>2, <3>3, <3>5, <3>6, <1>inv DEF Abstract!Serve, NotServedFrom
    <3> QED
      BY <3>1, <3>7, <1>inv DEF Abstract!Next
  <2> QED
    BY <2>1, <2>2
<1>19. ASSUME NEW a \in App, SendEchoLock(a)
       PROVE  [Abstract!Next]_(Abstract!rpcVars)
  BY <1>19, RpcStutter DEF SendEchoLock
<1>20. ASSUME NEW a \in App, SendEchoNoQue(a)
       PROVE  [Abstract!Next]_(Abstract!rpcVars)
  BY <1>20, RpcStutter DEF SendEchoNoQue
<1>21. ASSUME NEW a \in App, SendEchoCheck(a)
       PROVE  [Abstract!Next]_(Abstract!rpcVars)
  BY <1>21, RpcStutter DEF SendEchoCheck
<1>22. ASSUME NEW a \in App, NEW u \in CopyUnits, SendEchoPut(a, u)
       PROVE  [Abstract!Next]_(Abstract!rpcVars)
  BY <1>22, RpcStutter DEF SendEchoPut
<1>23. CASE UNCHANGED vars
  BY <1>23, RpcStutter DEF vars
<1> QED
  BY <1>1, <1>2, <1>3, <1>4, <1>5, <1>6, <1>7, <1>8, <1>9, <1>10, <1>11,
     <1>12, <1>13, <1>14, <1>15, <1>16, <1>17, <1>18, <1>19, <1>20, <1>21,
     <1>22, <1>23
  DEF Next, CallerStep, ServiceStep

(* The channel implements the remote procedure call: each call is executed  *)
(* at most once and never after a later one, not at all when it is reported *)
(* unsent, and is answered only after it was executed.                      *)
THEOREM ChannelImplementsRpc ==
  ASSUME NEW CONSTANT e, NEW CONSTANT r, Deployed(e, r)
  PROVE  Spec => RpcSpec
<1>1. Init => Abstract!Init
  BY DEF Init, Abstract!Init, Abstract!Calls, Calls
<1>2. ChannelInv /\ WholeInv(e, r) /\ [Next]_vars => [Abstract!Next]_(Abstract!rpcVars)
  BY RpcStep
<1> QED
  BY <1>1, <1>2, ChannelInvariant, WholeOf, PTL DEF Spec, RpcSpec, Abstract!Spec

(* A step of Rpc keeps its types and its promise. *)
LEMMA PromiseStep ==
  ASSUME Abstract!TypeOK, Abstract!Promise, [Abstract!Next]_(Abstract!rpcVars)
  PROVE  Abstract!TypeOK' /\ Abstract!Promise'
<1> USE DEF Abstract!TypeOK, Abstract!Promise, Abstract!Calls
<1>n. MaxCalls \in Nat
  BY ConstAssumption
<1>1. ASSUME NEW c \in Abstract!Calls, Abstract!Invoke(c)
      PROVE  Abstract!TypeOK' /\ Abstract!Promise'
  BY <1>1, <1>n DEF Abstract!Invoke
<1>2. ASSUME NEW c \in Abstract!Calls, Abstract!Serve(c)
      PROVE  Abstract!TypeOK' /\ Abstract!Promise'
  BY <1>2, <1>n DEF Abstract!Serve
<1>3. ASSUME NEW c \in Abstract!Calls, Abstract!ReturnAnswer(c)
      PROVE  Abstract!TypeOK' /\ Abstract!Promise'
  BY <1>3, <1>n DEF Abstract!ReturnAnswer
<1>4. ASSUME NEW c \in Abstract!Calls, Abstract!ReturnUnsent(c)
      PROVE  Abstract!TypeOK' /\ Abstract!Promise'
  BY <1>4, <1>n DEF Abstract!ReturnUnsent
<1>5. ASSUME NEW c \in Abstract!Calls, Abstract!ReturnUnknown(c)
      PROVE  Abstract!TypeOK' /\ Abstract!Promise'
  BY <1>5, <1>n DEF Abstract!ReturnUnknown
<1>6. ASSUME NEW S \in SUBSET Abstract!Calls, Abstract!Lose(S)
      PROVE  Abstract!TypeOK' /\ Abstract!Promise'
  BY <1>6, <1>n DEF Abstract!Lose
<1>7. CASE UNCHANGED Abstract!rpcVars
  BY <1>7 DEF Abstract!rpcVars
<1> QED
  BY <1>1, <1>2, <1>3, <1>4, <1>5, <1>6, <1>7 DEF Abstract!Next

(* What Rpc allows is what its callers may rely on: a call is executed at   *)
(* most once, one reported unsent not at all, and an answer comes from an   *)
(* execution, of the call itself or of one that was lost.                   *)
THEOREM RpcKeepsPromise == RpcSpec => [](Abstract!TypeOK /\ Abstract!Promise)
<1>1. Abstract!Init => Abstract!TypeOK /\ Abstract!Promise
  BY ConstAssumption DEF Abstract!Init, Abstract!TypeOK, Abstract!Promise, Abstract!Calls
<1> QED
  BY <1>1, PromiseStep, PTL DEF RpcSpec, Abstract!Spec

(* So may the callers of el_read_data and el_write_data in the deployment   *)
(* of one caller and one server.                                            *)
THEOREM CallersMayRely ==
  ASSUME NEW CONSTANT e, NEW CONSTANT r, Deployed(e, r)
  PROVE  Spec => [](Abstract!TypeOK /\ Abstract!Promise)
  BY ChannelImplementsRpc, RpcKeepsPromise, PTL

(* The server runs its handlers for requests of its caller only, each for   *)
(* the first time, although SmMsgRecv may hand it something else.           *)
THEOREM HandlersServeRequests == Spec => []ExecutesRequests
<1>1. ASSUME DeployedInv PROVE ExecutesRequests
  <2>1. SUFFICES ASSUME NEW e \in App, NEW r \in App, Deployed(e, r),
                        dpc[r] \in {"elock", "echeck", "eput"}
                 PROVE  /\ rcv[r].body.kind = "msg" /\ rcv[r].body.by = e /\ rcv[r].body.to = r
                        /\ served[rcv[r].body.call] = 1
    BY DEF ExecutesRequests
  <2>2. WholeInv(e, r)
    BY <1>1, <2>1 DEF DeployedInv
  <2> QED
    BY <2>1, <2>2 DEF WholeInv, ServeInv, MessageInv, Sent
<1> QED
  BY <1>1, WholeInvariant, PTL

=============================================================================
