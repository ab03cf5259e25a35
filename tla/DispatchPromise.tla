-------------------------- MODULE DispatchPromise --------------------------
(***************************************************************************)
(* What the durable dispatch of tool calls promises, without leases,       *)
(* journals, approvals or clocks: a step of a task reaches the page        *)
(* through one call only, a call has one verdict, and the verdict is true  *)
(* of the page for ever.  The task store of the agent server (DurableTask) *)
(* and the tool runtime of the extension (ToolDispatch) implement it.      *)
(***************************************************************************)
CONSTANTS
  Calls,      \* tool calls
  Steps,      \* what the calls are prepared for
  NoStep,     \* the step of a call that is not prepared yet
  Reached,    \* verdicts that say the page was reached
  Untouched,  \* verdicts that say the page was not reached
  Unsure      \* verdicts that leave it open

VARIABLES
  stepOf,     \* the step of a call
  acted,      \* the calls whose commands reached the page
  verdict     \* the receipt of a call, "open" before

vars == <<stepOf, acted, verdict>>

Init ==
  /\ stepOf = [c \in Calls |-> NoStep]
  /\ acted = {}
  /\ verdict = [c \in Calls |-> "open"]

Assign(c, s) ==
  /\ stepOf[c] = NoStep /\ c \notin acted
  /\ stepOf' = [stepOf EXCEPT ![c] = s]
  /\ UNCHANGED <<acted, verdict>>

\* The page is reached by a call no receipt has called absent, and by no two
\* calls of a step.
Act(c) ==
  /\ verdict[c] \notin Untouched
  /\ \A d \in acted : stepOf[d] = stepOf[c] => d = c
  /\ acted' = acted \cup {c}
  /\ UNCHANGED <<stepOf, verdict>>

Judge(c, v) ==
  /\ verdict[c] = "open"
  /\ v \in Reached => c \in acted
  /\ v \in Untouched => c \notin acted
  /\ verdict' = [verdict EXCEPT ![c] = v]
  /\ UNCHANGED <<stepOf, acted>>

Next ==
  \E c \in Calls :
    \/ \E s \in Steps : Assign(c, s)
    \/ Act(c)
    \/ \E v \in Reached \cup Untouched \cup Unsure : Judge(c, v)

Spec == Init /\ [][Next]_vars
=============================================================================
