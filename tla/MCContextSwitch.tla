-------------------------- MODULE MCContextSwitch --------------------------
(* ContextSwitch on small instances: TLC has no set of pairs in a cfg. *)
EXTENDS ContextSwitch

NothingUnwatchable == {}
OneClusterUnwatchable == {CHOOSE c \in Clients : TRUE} \X Kinds
===========================================================================
