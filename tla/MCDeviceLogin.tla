--------------------------- MODULE MCDeviceLogin ---------------------------
(* DeviceLogin with the sets and the bounds of device_login.cfg. *)
EXTENDS DeviceLogin, TLC

============================================================================
