------------------------- MODULE MCShadowSyncSafety -------------------------
(* The instance of the sync run, on which TLC also checks the inductive     *)
(* invariant SyncInv that ShadowSyncSafety proves.                          *)
EXTENDS MCShadowSync, ShadowSyncSafety
=============================================================================
