----------------------------- MODULE Lifecycle -----------------------------
(***************************************************************************)
(* The lifecycle state machine of src/niri_pypc/api/lifecycle.py.           *)
(*                                                                         *)
(* LifecycleManager.transition_to never suspends while it holds its        *)
(* asyncio.Lock, so the lock is never contended and a transition is one    *)
(* atomic step: it is an operator here, applied inside the actions of the  *)
(* modules whose code calls it.                                            *)
(***************************************************************************)

LifecycleStates == {"INIT", "CONNECTING", "READY", "CLOSING", "CLOSED"}

ValidTransitions ==
  [s \in LifecycleStates |->
     CASE s = "INIT"       -> {"CONNECTING"}
       [] s = "CONNECTING" -> {"READY", "CLOSED"}
       [] s = "READY"      -> {"CLOSING"}
       [] s = "CLOSING"    -> {"CLOSED"}
       [] s = "CLOSED"     -> {}]

\* transition_to returns, rather than raising LifecycleError.
Accepts(state, target) ==
  \/ target = "CLOSED" /\ state # "CLOSED"
  \/ target \in ValidTransitions[state]

\* The state after transition_to(target), whether it returned or raised.
TransitionTo(state, target) == IF Accepts(state, target) THEN target ELSE state
=============================================================================
