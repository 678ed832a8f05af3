------------------------------- MODULE Exchange -------------------------------
(***************************************************************************)
(* What one SIP request promises to the two applications, whatever the     *)
(* network does: the callee hears of the request once, and the caller is   *)
(* told one outcome, either an answer that the callee gave or a failure.   *)
(* A callee that has given the exchange up (its socket fails, or the ACK   *)
(* never comes) may hear of the request again.                             *)
(***************************************************************************)
EXTENDS Naturals, Sequences

CONSTANTS Finals,   \* the final answers of the callee
          Failure   \* what the caller is told when there is none

VARIABLES heard,    \* the callee's application knows of the request
          answers,  \* the final answers it has given
          told,     \* the outcomes the caller's application was told, in order
          broke     \* the callee has given the exchange up

vars == <<heard, answers, told, broke>>

Init == heard = 0 /\ answers = {} /\ told = <<>> /\ broke = FALSE

(* The callee's application hears of the request; again only after it gave up. *)
Hear ==
  /\ heard = 0 \/ broke
  /\ heard' = heard + 1
  /\ broke' \in {broke, TRUE}
  /\ UNCHANGED <<answers, told>>

Answer(f) ==
  /\ heard > 0
  /\ f \in answers => broke
  /\ answers' = answers \cup {f}
  /\ broke' \in {broke, TRUE}
  /\ UNCHANGED <<heard, told>>

GiveUp == broke' = TRUE /\ UNCHANGED <<heard, answers, told>>

(* The caller is told an answer that was given, or that there is none. *)
Conclude(o) ==
  /\ told = <<>>
  /\ o \in answers \cup {Failure}
  /\ told' = <<o>>
  /\ UNCHANGED <<heard, answers, broke>>

Next ==
  \/ Hear
  \/ \E f \in Finals : Answer(f)
  \/ GiveUp
  \/ \E o \in Finals \cup {Failure} : Conclude(o)

Spec == Init /\ [][Next]_vars
===============================================================================
