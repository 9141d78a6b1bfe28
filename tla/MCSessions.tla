----------------------------- MODULE MCSessions -----------------------------
(* The streaming sessions, on small instances: following logs, describing  *)
(* a resource, a shell on a node.  They share code and no state, so one    *)
(* run explores them without interleaving them: a behaviour is about one   *)
(* of them.  None of the others' fair actions is ever enabled in it.       *)
EXTENDS LogSession, DescribeSession, NodeShell

VARIABLE part  \* the session this behaviour is about

sessionVars == <<part, logVars, describeVars, shellVars>>

MCInit ==
    /\ part \in {"logs", "describe", "shell"}
    /\ LogInit
    /\ DescribeInit /\ (part # "describe" => content = CHOOSE c \in Contents : TRUE)
    /\ ShellInit

MCSpec ==
    /\ MCInit
    /\ [][ /\ UNCHANGED part
           /\ \/ part = "logs" /\ LogNext /\ UNCHANGED <<describeVars, shellVars>>
              \/ part = "describe" /\ DescribeNext /\ UNCHANGED <<logVars, shellVars>>
              \/ part = "shell" /\ ShellNext /\ UNCHANGED <<logVars, describeVars>>
         ]_sessionVars
    /\ LogFairness /\ DescribeFairness /\ ShellFairness

(* Type correctness of the three: log_session.rs, describe_session.rs, and *)
(* the node shell of exec.rs.                                              *)
SessionTypeOK == LogTypeOK /\ DescribeTypeOK /\ ShellTypeOK
=============================================================================
