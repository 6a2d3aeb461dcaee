------------------------------ MODULE PolicyGuard ------------------------------
(***************************************************************************)
(* The permission policy of the AI agent: agent/guard/guard.go (rule table,*)
(* plan mode), sql_ast.go, shell_ast.go and docker_k8s.go (the audit       *)
(* functions).  Pure operators; module ToolBus calls them.                 *)
(*                                                                         *)
(* A tool is its registered name.  The argument string of a call is        *)
(* abstracted to the set of statement classes that occur in it, which is   *)
(* all the audits look for:                                                *)
(*   "read"    a statement or command the audit recognises as read-only    *)
(*   "change"  one that modifies state                                     *)
(*   "deploy"  docker run/create/compose up|down|rm, kubectl apply/create/ *)
(*             delete -f: refused by the two CLI tools whatever the setting*)
(*   "danger"  one of the high-risk patterns guarded by blockHighRisk      *)
(*             (for api_manager, which has none: the delete action)        *)
(* The empty set is the argument "{}", a call without parameters.  What    *)
(* the two CLI tools are given is one command: its classes are the one of  *)
(* its first subcommand, which decides (read, change or deploy), and       *)
(* danger where a high-risk text is anywhere in it.  The two orchestrators *)
(* and api_manager are given one action.                                   *)
(***************************************************************************)

Levels == {"allow", "confirm", "forbidden"}

StmtClasses == {"read", "change", "deploy", "danger"}
Inputs == SUBSET StmtClasses

-----------------------------------------------------------------------------
(* The rule table.  Tools with neither an AuditFunc nor a rule level above *)
(* allow, then the two rules that always ask, then the audited tools.      *)

AllowTools ==
  {"read_file", "create_file", "apply_file_patch", "list_dir", "search_files",
   "move_file", "web_search", "ssh_get_system_info", "ssh_list_dir",
   "ssh_read_file", "ssh_download_file", "ssh_list_containers", "db_redis_keys",
   "db_redis_get", "db_redis_info", "db_redis_slowlog", "db_mysql_databases",
   "db_mysql_tables", "db_mysql_schema", "db_mysql_status",
   "db_mysql_processlist", "db_mongo_find", "db_mongo_aggregate",
   "db_mongo_health", "db_sqlite_list_tables", "db_sqlite_schema",
   "db_postgres_databases", "db_postgres_tables", "mqtt_publish",
   "mqtt_subscribe_once", "http_request", "skill_load", "skill_list",
   "wiki_list", "wiki_read", "wiki_write", "wiki_update", "ask_user"}

ConfirmTools == {"delete_file", "ssh_write_file", "ssh_delete_file", "ssh_upload_file"}

ShellTools == {"execute", "ssh_exec_command"}
SQLTools == {"db_mysql_query", "db_sqlite_query", "db_postgres_query"}
ContainerTools == {"docker_exec", "kubectl_exec", "k8s_exec"}

(* Registered with LevelAllow and absent from the rule table: what decides *)
(* is RegisteredTool.Level, the default level handed to Audit.             *)
UnruledTools == {"db_redis_set", "db_redis_delete", "db_redis_expire", "db_redis_execute_raw"}
DefaultLevel(tool) == "allow"

-----------------------------------------------------------------------------
(* The audit functions.                                                    *)

(* One statement class under the shell and the SQL audit: both refuse the  *)
(* high-risk class while blocking is on and ask about the rest.            *)
auditSingleStatement(stmt, block) ==
  CASE stmt = "danger" -> IF block THEN "forbidden" ELSE "confirm"
    [] stmt = "read"   -> "allow"
    [] OTHER           -> "confirm"

(* MUTANT: a harmless statement in the stack excuses the rest.             *)
auditSQLTextFirstAllow(input, block) ==
  LET lvls == {auditSingleStatement(s, block) : s \in input}
  IN  IF "allow" \in lvls THEN "allow"
      ELSE IF lvls = {} \/ "confirm" \in lvls THEN "confirm" ELSE "forbidden"

(* Stacked statements: the severest one decides.  Without a sql parameter  *)
(* the argument itself is audited, as a text of no known dialect.          *)
auditSQLText(input, block) ==
  LET lvls == {auditSingleStatement(s, block) : s \in input}
  IN  IF "forbidden" \in lvls THEN "forbidden"
      ELSE IF lvls = {} \/ "confirm" \in lvls THEN "confirm" ELSE "allow"

(* Every node of the shell syntax tree is visited, the severest decides.   *)
AuditShellAST(input, block) ==
  IF \E s \in input : auditSingleStatement(s, block) = "forbidden"
    THEN "forbidden"
    ELSE IF input \subseteq {"read"} THEN "allow" ELSE "confirm"

(* Local and SSH shell commands ask even when they are read-only.          *)
auditShellCommand(input, block) ==
  IF AuditShellAST(input, block) = "forbidden" THEN "forbidden" ELSE "confirm"

auditContainerExecCommand(input, block) == AuditShellAST(input, block)

(* docker_execute: a high-risk text is refused while blocking is on, and   *)
(* for the rest the first subcommand decides.                              *)
auditDockerCommand(input, block) ==
  IF (block /\ "danger" \in input) \/ "deploy" \in input THEN "forbidden"
  ELSE IF input = {} \/ ("read" \in input /\ "change" \notin input)
    THEN "allow" ELSE "confirm"

(* k8s_kubectl_execute: likewise.                                          *)
auditKubectlCommand(input, block) ==
  IF (block /\ "danger" \in input) \/ "deploy" \in input THEN "forbidden"
  ELSE IF input = {} \/ ("read" \in input /\ "change" \notin input)
    THEN "allow" ELSE "confirm"

(* docker_orchestrate: no setting is consulted.                            *)
auditDockerOrchestrate(input) ==
  IF input \subseteq {"read"} THEN "allow" ELSE "confirm"

auditK8sOrchestrate(input, block) ==
  IF block /\ "danger" \in input
    THEN "forbidden"
    ELSE IF input \subseteq {"read"} THEN "allow" ELSE "confirm"

(* Only the delete action asks.                                            *)
auditApiManager(input) == IF "danger" \in input THEN "confirm" ELSE "allow"

-----------------------------------------------------------------------------
(* The rule part of PolicyGuard.Audit.  When a rule has an AuditFunc its   *)
(* answer decides, allow included; the rule's own level is never reached.  *)
RuleLevel(tool, input, block) ==
  CASE tool \in AllowTools            -> "allow"
    [] tool \in ConfirmTools          -> "confirm"
    [] tool \in ShellTools            -> auditShellCommand(input, block)
    [] tool \in SQLTools              -> auditSQLText(input, block)
    [] tool \in ContainerTools        -> auditContainerExecCommand(input, block)
    [] tool = "docker_execute"        -> auditDockerCommand(input, block)
    [] tool = "docker_orchestrate"    -> auditDockerOrchestrate(input)
    [] tool = "k8s_kubectl_execute"   -> auditKubectlCommand(input, block)
    [] tool = "k8s_orchestrate"       -> auditK8sOrchestrate(input, block)
    [] tool = "api_manager"           -> auditApiManager(input)
    [] OTHER                          -> DefaultLevel(tool)

AllTools ==
  AllowTools \cup ConfirmTools \cup ShellTools \cup SQLTools \cup ContainerTools
    \cup UnruledTools
    \cup {"docker_execute", "docker_orchestrate", "k8s_kubectl_execute",
          "k8s_orchestrate", "api_manager"}

(* What plan mode refuses, whatever the rules say.                         *)
PlanModeWriteTools ==
  {"create_file", "apply_file_patch", "move_file", "delete_file", "execute",
   "ssh_write_file", "ssh_delete_file", "ssh_upload_file", "ssh_exec_command",
   "wiki_write", "wiki_update", "docker_execute", "docker_orchestrate",
   "k8s_apply", "k8s_delete", "k8s_orchestrate", "k8s_exec"}

isPlanModeForbidden(tool, input) ==
  \/ tool \in PlanModeWriteTools
  \/ tool \in SQLTools /\ auditSQLText(input, FALSE) # "allow"
  \/ tool = "api_manager" /\ input \cap {"change", "danger"} # {}
=============================================================================
