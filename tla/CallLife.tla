------------------------------ MODULE CallLife ------------------------------
(***************************************************************************)
(* What an application may rely on about the calls of a LinphoneCore,      *)
(* whatever the peers, the network and the user do: a call is opened once, *)
(* ends once and is released once; the core holds at most MaxCalls open    *)
(* calls, and its current call is one of them.  CallControl implements it. *)
(***************************************************************************)
EXTENDS Naturals, FiniteSets

CONSTANTS
  Calls,     \* the LinphoneCall objects
  NoCall,    \* NULL
  MaxCalls   \* lc->max_calls

VARIABLES
  life,      \* of each call: "new", "open", "ended" or "released"
  current    \* lc->current_call

lifeVars == <<life, current>>

OpenCalls(l) == {c \in Calls : l[c] = "open"}

LifeInit == life = [c \in Calls |-> "new"] /\ current = NoCall

\* A call that is answered or refused from within its first notification may
\* be over when the step that creates it returns.
Open(c) ==
  /\ life[c] = "new"
  /\ Cardinality(OpenCalls(life)) < MaxCalls
  /\ \E l \in {"open", "ended"} : life' = [life EXCEPT ![c] = l]

End(c) == life[c] = "open" /\ life' = [life EXCEPT ![c] = "ended"]

\* A call that never got a response ends and is released in one step.
Release(c) ==
  /\ life[c] \in {"open", "ended"}
  /\ life' = [life EXCEPT ![c] = "released"]

LifeNext ==
  /\ (\E c \in Calls : Open(c) \/ End(c) \/ Release(c)) \/ UNCHANGED life
  /\ current' \in OpenCalls(life') \cup {NoCall}

LifeSpec == LifeInit /\ [][LifeNext]_lifeVars
=============================================================================
