---------------------------- MODULE MCCleanRebuild ----------------------------
(***************************************************************************)
(* Two contexts and two sources on one host, where the port is always the  *)
(* same: every server meets the one that an earlier run left.              *)
(***************************************************************************)
EXTENDS CleanRebuild

ContextsMC == {"A", "B"}
TreesMC == {"first", "second"}
PortsMC == {4000}
=============================================================================
