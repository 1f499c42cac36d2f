----------------------------- MODULE MCSession -----------------------------
(***************************************************************************)
(* Small instances of Session.  Each configuration switches on the part of *)
(* the environment its question is about.                                  *)
(***************************************************************************)
EXTENDS Session

BothRoles == Role
OnlyPC1 == {"PC1"}
OnlyPC2 == {"PC2"}
NoRole == {}
OnlyTest == {"test"}
TestAndCancel == {"test", "cancel"}
=============================================================================
