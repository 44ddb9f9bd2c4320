---------------------------- MODULE MCSafeBoxHAL ----------------------------
(* A screen that manages users and opens a door, and a console that writes   *)
(* files, sets alarms and opens the same door.                               *)
EXTENDS SafeBoxHAL

CONSTANTS screen, console, locker0

MCCallers == {screen, console}
MCDoes == [c \in MCCallers |->
             IF c = screen THEN {"sbChangePassword", "unLock", "setUnlockEnableTime"}
             ELSE {"sbCommand", "fsWrite", "fsBlank", "setAlarm", "unLock"}]
=============================================================================
