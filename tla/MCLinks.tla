------------------------------ MODULE MCLinks ------------------------------
(***************************************************************************)
(* Three or four TCBs.                                                     *)
(***************************************************************************)
EXTENDS Links

CONSTANTS thr1, thr2, thr3, thr4

Threads3 == <<thr1, thr2, thr3>>
Threads4 == <<thr1, thr2, thr3, thr4>>
=============================================================================
