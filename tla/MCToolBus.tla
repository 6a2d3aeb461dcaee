------------------------------- MODULE MCToolBus -------------------------------
(* Small instances of ToolBus for TLC.                                     *)
EXTENDS ToolBus, TLC

CONSTANTS c1, c2   \* calls, as model values

OneCall == {c1}
TwoCalls == {c1, c2}

Req(t, i, p) == [tool |-> t, input |-> i, planning |-> p]

(* One request per way through Audit: allowed, unregistered at times,      *)
(* audited SQL with stacked statements (refused, or confirmed once the     *)
(* blocking is off), refused in plan mode.                                 *)
MixedRequests ==
  {Req("web_search", {"read"}, FALSE),
   Req("db_mysql_query", {"read", "danger"}, FALSE),
   Req("execute", {"danger"}, TRUE)}

(* Only confirmations.                                                     *)
ConfirmRequests == {Req("delete_file", {"change"}, FALSE)}

(* One call that asks, or one that does not.                               *)
TwoKinds == ConfirmRequests \cup {Req("read_file", {"read"}, FALSE)}

(* Guard off, blocking off, web search off and both on again.              *)
SomeConfigs ==
  {[guard |-> TRUE, block |-> TRUE, web |-> FALSE],
   [guard |-> TRUE, block |-> FALSE, web |-> TRUE],
   [guard |-> FALSE, block |-> TRUE, web |-> TRUE]}

NoConfigs == {}

CallSymmetry == Permutations(Calls)
=============================================================================
