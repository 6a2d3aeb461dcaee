----------------------------- MODULE ApprovalGate -----------------------------
(***************************************************************************)
(* What the tool bus promises of human approval, without events, ids,      *)
(* channels or settings: a call is cleared by policy, refused, or put      *)
(* before the user; what was put before the user acts only after the user  *)
(* has approved it.  ToolBus is shown to implement this specification.     *)
(***************************************************************************)
CONSTANT Calls

VARIABLES
  stage,    \* where each call is
  consent   \* the answers the user has given about it

gateVars == <<stage, consent>>

Stages == {"new", "asking", "cleared", "acting", "closed"}

GateInit ==
  /\ stage = [c \in Calls |-> "new"]
  /\ consent = [c \in Calls |-> {}]

moves(c, from, to) ==
  /\ stage[c] = from
  /\ stage' = [stage EXCEPT ![c] = to]
  /\ UNCHANGED consent

Clear(c) == moves(c, "new", "cleared")
Ask(c) == moves(c, "new", "asking")
Grant(c) == "approve" \in consent[c] /\ moves(c, "asking", "cleared")
Refuse(c) == moves(c, "new", "closed") \/ moves(c, "asking", "closed")
Act(c) == moves(c, "cleared", "acting")
Close(c) == moves(c, "acting", "closed")

(* The user can only answer about a call that was put before them; late    *)
(* and repeated answers are possible.                                      *)
Answer(c) ==
  /\ stage[c] # "new"
  /\ \E v \in {"approve", "reject"} :
       consent' = [consent EXCEPT ![c] = @ \cup {v}]
  /\ UNCHANGED stage

GateNext ==
  \E c \in Calls :
    Clear(c) \/ Ask(c) \/ Grant(c) \/ Refuse(c) \/ Act(c) \/ Close(c) \/ Answer(c)

GateSpec == GateInit /\ [][GateNext]_gateVars
=============================================================================
