------------------------------ MODULE ExactlyOnce ------------------------------
(***************************************************************************)
(* What the command service promises its clients, with no word of locks,   *)
(* versions, transactions or crashes: every case is a ledger to which      *)
(* effects are only appended, one command at a time; an idempotency key    *)
(* takes effect at most once, ever; and a client that is told of success   *)
(* is told what the ledger held when its key took effect, however often    *)
(* and through whichever process it asks.                                  *)
(***************************************************************************)
EXTENDS Sequences

CONSTANTS
  Calls,     \* the requests that clients send, resent ones included
  Cases,     \* the ledgers
  Keys,      \* the idempotency keys
  CaseOf, KeyOf, EffectOf,   \* of each call
  Nothing    \* nothing recorded under a key, or no success told to a call

VARIABLES
  ledger,    \* per case, the effects it consists of
  recorded,  \* per key, the ledger it left behind
  told       \* per call, the success its client has seen

vars == <<ledger, recorded, told>>

Init ==
  /\ ledger = [n \in Cases |-> <<>>]
  /\ recorded = [k \in Keys |-> Nothing]
  /\ told = [c \in Calls |-> Nothing]

Apply(c) ==
  /\ recorded[KeyOf[c]] = Nothing
  /\ ledger' = [ledger EXCEPT ![CaseOf[c]] = Append(@, EffectOf[c])]
  /\ recorded' = [recorded EXCEPT ![KeyOf[c]] = Append(ledger[CaseOf[c]], EffectOf[c])]
  /\ UNCHANGED told

Tell(c) ==
  /\ told[c] = Nothing
  /\ recorded[KeyOf[c]] # Nothing
  /\ told' = [told EXCEPT ![c] = recorded[KeyOf[c]]]
  /\ UNCHANGED <<ledger, recorded>>

Next == \E c \in Calls : Apply(c) \/ Tell(c)

Spec == Init /\ [][Next]_vars
=============================================================================
