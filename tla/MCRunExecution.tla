---------------------------- MODULE MCRunExecution ----------------------------
(* The graphs RunExecution is checked on.  An op is named by a string, so a  *)
(* record gives each op its deps, its rule and its retries.                  *)
EXTENDS RunExecution

(* Rules: a propagated skip must stop at undo and log, and report waits for  *)
(* what they do.                                                             *)
RuleOps     == {"fetch", "load", "undo", "log", "report"}
RuleDeps    == [fetch |-> {}, load |-> {"fetch"}, undo |-> {"load"}, log |-> {"fetch", "load"},
                report |-> {"load", "log"}]
RuleRule    == [fetch |-> "all_succeeded", load |-> "all_succeeded", undo |-> "any_failed",
                log |-> "always", report |-> "all_succeeded"]
RuleOver    == [o \in RuleOps |-> NoOp]
RuleRetries == [o \in RuleOps |-> IF o \in {"fetch", "load"} THEN 1 ELSE 0]

(* A fan-out inside a fan-out, with a cleanup beside it. *)
FanOps     == {"list", "page", "item", "sum", "clean"}
FanDeps    == [list |-> {}, page |-> {"list"}, item |-> {"page"}, sum |-> {"item"},
               clean |-> {"page"}]
FanRule    == [list |-> "all_succeeded", page |-> "all_succeeded", item |-> "all_succeeded",
               sum |-> "all_succeeded", clean |-> "always"]
FanOver    == [list |-> NoOp, page |-> "list", item |-> "page", sum |-> NoOp, clean |-> NoOp]
FanRetries == [o \in FanOps |-> 0]

(* A replay of fetch, log and report: load keeps what it recorded.           *)
ReplayOps     == {"fetch", "load", "log", "report"}
ReplayDeps    == [fetch |-> {}, load |-> {"fetch"}, log |-> {}, report |-> {"load", "log"}]
ReplayRule    == [o \in ReplayOps |-> "all_succeeded"]
ReplayOver    == [o \in ReplayOps |-> NoOp]
ReplayRetries == [o \in ReplayOps |-> 0]
=============================================================================
