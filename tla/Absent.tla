------------------------------- MODULE Absent ------------------------------
(* The value that stands for "nothing there": None, null, an empty slot.   *)
CONSTANT None
=============================================================================
