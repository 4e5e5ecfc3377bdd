---------------------------- MODULE SolveContract ----------------------------
(***************************************************************************)
(* What the simplex solve adapter promises its caller (spec section 4.3),  *)
(* stated without the solver:                                              *)
(*   - a call on problem n ends with OUI, NON or EMERGENCY_SHUT_DOWN;      *)
(*   - the primal values are written back exactly when it ends with OUI;   *)
(*   - between calls, the solver handle kept for a problem is either none  *)
(*     or a live instance (a stale handle after a failure is none), and   *)
(*     after a success it is live, ready for a warm start;                 *)
(*   - during a call the handle of its problem belongs to the call;        *)
(*   - freeing drops every handle;                                         *)
(*   - every call ends.                                                    *)
(***************************************************************************)
CONSTANTS Problems

Outcomes == {"OUI", "NON", "EMERGENCY_SHUT_DOWN"}

VARIABLES status, problem, outcome, written, handle

cvars == <<status, problem, outcome, written, handle>>

Init ==
  /\ status = "idle"
  /\ problem \in Problems
  /\ outcome \in Outcomes
  /\ written = FALSE
  /\ handle = [n \in Problems |-> "none"]

\* A call on problem n takes over that problem's handle; the outcome is
\* the caller's until the call returns (the daily caller resets it).
Start(n) ==
  /\ status = "idle"
  /\ status' = "solving"
  /\ problem' = n
  /\ written' = FALSE
  /\ handle' = [handle EXCEPT ![n] = "inUse"]
  /\ outcome' \in Outcomes

\* A request the caller has no problem for ends at once in the emergency
\* shut-down, without a solve.
Refuse ==
  /\ status = "idle"
  /\ outcome' = "EMERGENCY_SHUT_DOWN"
  /\ written' = FALSE
  /\ UNCHANGED <<status, problem, handle>>

\* The call returns: the outcome, the write-back that goes with it, and
\* the handle it leaves for the next call on the same problem.
Finish(o, h) ==
  /\ status = "solving"
  /\ o = "OUI" => h = "live"
  /\ status' = "idle"
  /\ outcome' = o
  /\ written' = (o = "OUI")
  /\ handle' = [handle EXCEPT ![problem] = h]
  /\ UNCHANGED problem

\* Release of every handle; nothing is solved afterwards.
Free ==
  /\ status = "idle"
  /\ status' = "freed"
  /\ handle' = [n \in Problems |-> "none"]
  /\ UNCHANGED <<problem, outcome, written>>

Next ==
  \/ \E n \in Problems : Start(n)
  \/ \E o \in Outcomes, h \in {"none", "live"} : Finish(o, h)
  \/ Refuse
  \/ Free

Spec == Init /\ [][Next]_cvars /\ WF_cvars(\E o \in Outcomes, h \in {"none", "live"} : Finish(o, h))

=============================================================================
