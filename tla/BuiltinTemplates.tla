--------------------------- MODULE BuiltinTemplates ---------------------------
(* Two built-in workflows (src/filigree/templates_data.py), the values of the    *)
(* constants of Workflow in the model-checked instances: task, and bug with its  *)
(* two-hop way to work, its hard gate and the fields that guard transitions.     *)
EXTENDS Naturals, Sequences

LOCAL Edge(s, t) == [from |-> s, to |-> t, hard |-> FALSE, requires |-> {}]

(* Escape edges: close from anywhere, reopen to anywhere, and release hops.      *)
LOCAL Escapes(notDone, done, releases) ==
    {Edge(e[1], e[2]) : e \in (notDone \X done) \cup (done \X notDone) \cup releases}

TaskStates == <<"open", "in_progress", "closed">>
TaskCategory == [s \in {"open", "in_progress", "closed"} |->
    CASE s = "open" -> "open" [] s = "closed" -> "done" [] OTHER -> "wip"]
TaskTransitions == <<Edge("open", "in_progress"), Edge("in_progress", "closed"),
                     Edge("open", "closed")>>
TaskReverse ==
    Escapes({"open", "in_progress"}, {"closed"}, {<<"in_progress", "open">>})
TaskRequiredAt == [s \in {"open", "in_progress", "closed"} |-> {}]

BugStates == <<"triage", "confirmed", "fixing", "verifying", "closed", "wont_fix",
               "not_a_bug">>
BugCategory == [s \in {"triage", "confirmed", "fixing", "verifying", "closed",
                       "wont_fix", "not_a_bug"} |->
    CASE s \in {"triage", "confirmed"} -> "open"
      [] s \in {"fixing", "verifying"} -> "wip"
      [] OTHER -> "done"]
BugTransitions ==
    <<Edge("triage", "confirmed"), Edge("triage", "wont_fix"),
      Edge("triage", "not_a_bug"), Edge("confirmed", "fixing"),
      Edge("confirmed", "wont_fix"), Edge("confirmed", "not_a_bug"),
      [Edge("fixing", "verifying") EXCEPT !.requires = {"fix_verification"}],
      [Edge("verifying", "closed") EXCEPT !.hard = TRUE,
                                          !.requires = {"fix_verification"}],
      Edge("verifying", "fixing")>>
BugReverse ==
    Escapes({"triage", "confirmed", "fixing", "verifying"},
            {"closed", "wont_fix", "not_a_bug"},
            {<<"fixing", "confirmed">>, <<"verifying", "triage">>})
BugRequiredAt == [s \in DOMAIN BugCategory |->
    CASE s = "confirmed" -> {"severity"} [] s = "fixing" -> {"root_cause"}
      [] s = "verifying" -> {"fix_verification"} [] OTHER -> {}]
=============================================================================
