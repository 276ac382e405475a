--------------------------- MODULE MCShadowStartup ---------------------------
(***************************************************************************)
(* TLC instances of ShadowStartup.  The return codes are small naturals    *)
(* with MQTTSuccess = 0, as in MQTTStatus_t; the constants are given in    *)
(* the .cfg files.                                                          *)
(***************************************************************************)
EXTENDS ShadowStartup
=============================================================================
