-------------------------------- MODULE Rpc --------------------------------
(* What a caller of el_read_data / el_write_data may rely on, whatever      *)
(* happens to the shared memory: a call is executed at most once, and not   *)
(* after a later one; it returns its own answer, after its execution, and   *)
(* is not executed after that; one that is reported as never sent is never  *)
(* executed. A call that times out after it was sent may have been executed *)
(* or be executed later, and so may one whose process died. The answer to   *)
(* such a lost call is the only one that a later call may be given instead  *)
(* of its own.                                                              *)
EXTENDS Naturals

CONSTANT MaxCalls                   \* bound on the number of calls

Calls == 1 .. MaxCalls

VARIABLES outcome,                  \* outcome[c]: how far call c has come
          served,                   \* served[c]: times a handler executed c
          answer                    \* answer[c]: the call whose answer c got, 0 if none

rpcVars == <<outcome, served, answer>>

Init ==
  /\ outcome = [c \in Calls |-> "none"]
  /\ served  = [c \in Calls |-> 0]
  /\ answer  = [c \in Calls |-> 0]

Invoke(c) ==
  /\ outcome[c] = "none"
  /\ outcome' = [outcome EXCEPT ![c] = "open"]
  /\ UNCHANGED <<served, answer>>

Serve(c) ==
  /\ outcome[c] \in {"open", "unknown", "lost"}
  /\ \A d \in Calls : d >= c => served[d] = 0
  /\ served' = [served EXCEPT ![c] = 1]
  /\ UNCHANGED <<outcome, answer>>

ReturnAnswer(c) ==
  /\ outcome[c] = "open"
  /\ \E d \in Calls :
       /\ served[d] = 1
       /\ d # c => outcome[d] = "lost"
       /\ answer' = [answer EXCEPT ![c] = d]
  /\ outcome' = [outcome EXCEPT ![c] = "ok"]
  /\ UNCHANGED served

ReturnUnsent(c) ==
  /\ outcome[c] = "open"
  /\ served[c] = 0
  /\ outcome' = [outcome EXCEPT ![c] = "unsent"]
  /\ UNCHANGED <<served, answer>>

ReturnUnknown(c) ==
  /\ outcome[c] = "open"
  /\ outcome' = [outcome EXCEPT ![c] = "unknown"]
  /\ UNCHANGED <<served, answer>>

(* the calling process dies, with what it had asked for *)
Lose(S) ==
  /\ \A c \in S : outcome[c] \in {"open", "unknown"}
  /\ outcome' = [c \in Calls |-> IF c \in S THEN "lost" ELSE outcome[c]]
  /\ UNCHANGED <<served, answer>>

Next ==
  \/ \E c \in Calls :
       \/ Invoke(c)
       \/ Serve(c)
       \/ ReturnAnswer(c)
       \/ ReturnUnsent(c)
       \/ ReturnUnknown(c)
  \/ \E S \in SUBSET Calls : Lose(S)

Spec == Init /\ [][Next]_rpcVars

(* Every variable has its type. *)
TypeOK ==
  /\ outcome \in [Calls -> {"none", "open", "ok", "unsent", "unknown", "lost"}]
  /\ served \in [Calls -> {0, 1}]
  /\ answer \in [Calls -> 0 .. MaxCalls]

(* What is known of call c by its result: unsent, it was not executed and   *)
(* may be made again; answered, the call whose answer it was given has been *)
(* executed, once, and is c itself or was lost with its process.            *)
Promise ==
  \A c \in Calls :
    /\ outcome[c] \in {"none", "unsent"} => served[c] = 0
    /\ outcome[c] = "ok" =>
         /\ answer[c] \in Calls /\ served[answer[c]] = 1
         /\ answer[c] # c => outcome[answer[c]] = "lost"

=============================================================================
