---------------------------- MODULE MCSleepLock ----------------------------
(* One sleep lock shared by three environments. *)
EXTENDS SleepLock
=============================================================================
