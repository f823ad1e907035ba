------------------------------- MODULE ToolGate -------------------------------
(***************************************************************************)
(* What decides whether a tool call runs: the classification of            *)
(* permissions.c, the gate of the harness on top of it, the risk guard of  *)
(* jev_client.c and the whitelists of the roles.  Pure operators.          *)
(*                                                                         *)
(* A shell command is the set of what the code's scans find in it:         *)
(*   "meta"      one of ; | & $ ` ( ) { } < > or a line break              *)
(*   "safe0"     its first word is on the allowlist, "slash0" has a slash  *)
(*   "find", "acts"     find, with -exec, -delete or the like              *)
(*   "git", "gitsafe"   git, with a subcommand that only looks             *)
(*   "rm0"       starts with rm;  "destroys": some word is rm, dd, shred.. *)
(*   "root", "under"    a word is a root directory, or a path below one    *)
(*   "pattern", "vector", "outputs"    the fixed texts that are refused    *)
(*   "severe", "elevated"              the texts the local risk check has  *)
(*   "listed"    a text the plan mode guard looks for                      *)
(*   "testable"  plain, and its first word is on the tester's list         *)
(*   "cd", "more"       starts with cd, and goes on after && or ;          *)
(*   "writes"    what it runs changes files                                *)
(***************************************************************************)

Call(tool, path, cmd, n, flag) ==
    [tool |-> tool, path |-> path, cmd |-> cmd, n |-> n, flag |-> flag]
NoCall == Call("none", "none", {}, 0, FALSE)

ReadTools  == {"read_file"}
WriteTools == {"write_file", "edit_file", "apply_patch"}
RiskTools  == WriteTools \cup {"bash"}

(* rm is judged by its operands alone; everything else by fixed texts. *)
command_is_destructive(cmd) ==
    IF "rm0" \in cmd THEN "root" \in cmd ELSE "pattern" \in cmd

(* Every word counts, whatever path or wrapper it comes with. *)
command_has_denied_vector(cmd) ==
    \/ "outputs" \in cmd
    \/ "destroys" \in cmd /\ cmd \cap {"root", "under"} # {}
    \/ "vector" \in cmd

is_safe_command(cmd) ==
    /\ cmd \cap {"meta", "slash0"} = {}
    /\ "safe0" \in cmd
    /\ "find" \in cmd => "acts" \notin cmd
    /\ "git" \in cmd => "gitsafe" \in cmd

(* Fault: what no rule names runs without asking. *)
permission_classify_Lenient(c) ==
    CASE c.tool = "bash" ->
           IF command_is_destructive(c.cmd) \/ command_has_denied_vector(c.cmd)
           THEN "deny" ELSE IF is_safe_command(c.cmd) THEN "allow" ELSE "ask"
      [] OTHER -> "allow"

(* A path the model names: "rel" and "abs" are the file of the project, by *)
(* a relative or an absolute path; "protected" is one of .git, /etc ...;   *)
(* "secret" is a relative path that only the file tools refuse.            *)
permission_classify(c) ==
    CASE c.tool = "bash" ->
           IF command_is_destructive(c.cmd) \/ command_has_denied_vector(c.cmd)
           THEN "deny" ELSE IF is_safe_command(c.cmd) THEN "allow" ELSE "ask"
      [] c.tool \in ReadTools ->
           IF c.path = "protected" THEN "ask" ELSE "allow"
      [] c.tool \in WriteTools ->
           (CASE c.path = "protected" -> "deny"
              [] c.path = "abs" -> "ask"
              [] OTHER -> "allow")
      [] c.tool = "enter_plan_mode" -> "allow"
      [] OTHER -> "ask"

(* Without an approver, permissive runs what strict refuses. *)
permission_gate(profile, c) ==
    LET tier == permission_classify(c)
    IN  IF tier = "ask" /\ ~profile.approver
        THEN IF profile.mode = "strict" THEN "deny" ELSE "allow"
        ELSE tier

(* jev_local_eval_risk, and what /agent/risk may answer or fail to. *)
local_eval_risk(cmd) == CASE "severe" \in cmd -> "block"
                          [] "elevated" \in cmd -> "confirm"
                          [] OTHER -> "allow"
check_tool_risk(profile) ==
    IF profile.key THEN {"none", "allow", "confirm", "block"} ELSE {"none"}
evaluate_command_risk(profile, cmd) ==
    {IF v = "none" THEN local_eval_risk(cmd) ELSE v : v \in check_tool_risk(profile)}

(* The operator's answer; without a terminal everything is allowed. *)
terminal_permission_prompt == BOOLEAN

(* The gates of execute_turn before the hook.  asked and warned are the    *)
(* operator's answers, to the gate's prompt and after a risk alert.        *)
Admits(profile, plan, c, asked, warned, risk) ==
    LET tier == permission_gate(profile, c)
    IN  /\ tier # "deny"
        /\ plan => c.tool \notin WriteTools
        /\ tier = "ask" => asked
        /\ c.tool \in RiskTools => /\ risk # "block"
                                   /\ risk = "confirm" => warned

(* belya_harness_is_tool_whitelisted; an empty list permits everything. *)
Whitelisted(list, tool) ==
    \/ list = {} \/ list = {"*"}
    \/ tool \in list
    \/ tool = "edit_file" /\ "replace_file_content" \in list

HasWrite(list) == \E t \in WriteTools : Whitelisted(list, t)

=============================================================================
