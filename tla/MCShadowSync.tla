---------------------------- MODULE MCShadowSync ----------------------------
(* Small instances of ShadowSync for TLC.                                  *)
EXTENDS ShadowSync

CONSTANTS NoValueMV, NoTokenMV

MCValues == {0, 1}
MCTokens == {1, 2}
MCAppTokens == {NoTokenMV}
MCInitShadowReported == {0}

(* The shadow still holds powerOn 1 from before the device restarted.     *)
MCStaleShadowReported == {1}

(* A report published at a tick count that is a multiple of 1000000       *)
(* (line 850) carries token 0.                                             *)
MCTokensWithZero == {0, 1}

(* A delta may carry powerOn 2, the value of the sentinel                 *)
(* shadowexampleINVALID_POWERON_STATE (line 147).                          *)
MCValuesWithSentinel == {0, 1, 2}

(* The cloud application uses a numeric clientToken, one that            *)
(* xTaskGetTickCount() % 1000000 (line 850) can also yield.                *)
MCAppTokensClash == {1}

(* A delta may carry powerOn 10, which "%1u" (line 100) prints in two      *)
(* digits.                                                                 *)
MCValuesTwoDigits == {0, 10}
=============================================================================
