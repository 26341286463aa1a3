---------------------------- MODULE MCServiceRpc -----------------------------
(* One kind of session and two calls, which may be under way together.     *)
EXTENDS ServiceRpcProperties
Sessions == {"OnQueryRobotInfo"}
Info == "OnQueryRobotInfo"
=============================================================================
