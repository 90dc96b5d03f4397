------------------------------- MODULE Ledger -------------------------------
(* What the line-loss task promises about each register of each meter: an   *)
(* account that begins at some point of the register's use, is moved on to  *)
(* later points, never charges more than was used between the two, and is   *)
(* never charged less than before. All accounts are forgotten together.     *)
EXTENDS Integers

CONSTANTS Registers,      \* the registers that have an account
          NotOpen         \* stands for "no reading yet" in from and upto

VARIABLES used,           \* used[a]: energy used so far
          from, upto,     \* the part of the use that the account covers
          charged         \* charged[a]: what was charged for it

ledgerVars == <<used, from, upto, charged>>

Init ==
  /\ used = [a \in Registers |-> 0]
  /\ from = [a \in Registers |-> NotOpen]
  /\ upto = [a \in Registers |-> NotOpen]
  /\ charged = [a \in Registers |-> 0]

Use(a) ==
  /\ used' = [used EXCEPT ![a] = @ + 1]
  /\ UNCHANGED <<from, upto, charged>>

Open(a) ==
  /\ from[a] = NotOpen
  /\ \E b \in 0 .. used[a] :
       /\ from' = [from EXCEPT ![a] = b]
       /\ upto' = [upto EXCEPT ![a] = b]
  /\ UNCHANGED <<used, charged>>

Charge(a) ==
  /\ from[a] # NotOpen
  /\ \E b \in upto[a] .. used[a] :
       /\ upto' = [upto EXCEPT ![a] = b]
       /\ \E c \in charged[a] .. (b - from[a]) : charged' = [charged EXCEPT ![a] = c]
  /\ UNCHANGED <<used, from>>

Forget ==
  /\ from' = [a \in Registers |-> NotOpen]
  /\ upto' = [a \in Registers |-> NotOpen]
  /\ charged' = [a \in Registers |-> 0]
  /\ UNCHANGED used

Next == Forget \/ \E a \in Registers : Use(a) \/ Open(a) \/ Charge(a)

Spec == Init /\ [][Next]_ledgerVars

(* Every variable has its type. *)
TypeOK ==
  /\ used \in [Registers -> Nat]
  /\ from \in [Registers -> Nat \cup {NotOpen}]
  /\ upto \in [Registers -> Nat \cup {NotOpen}]
  /\ charged \in [Registers -> Nat]

(* An account covers a part of the use, and charges no more than that part. *)
Promise ==
  \A a \in Registers :
    /\ from[a] = NotOpen => upto[a] = NotOpen /\ charged[a] = 0
    /\ from[a] # NotOpen => /\ from[a] + charged[a] <= upto[a]
                            /\ upto[a] <= used[a]

=============================================================================
