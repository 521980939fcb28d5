------------------------------ MODULE MCTimer ------------------------------
(***************************************************************************)
(* A small clock: 5000 and 100000 microseconds become 3 and 9.             *)
(***************************************************************************)
EXTENDS Timer, TLC

CONSTANTS thr1, thr2

Threads == {thr1, thr2}

\* Everything later steps depend on: cpu_time is only reported to threads, a
\* slice is that of the current thread, and so is current_thread_tod.
Timing ==
    <<pc, threadVars, pseudo_tick, start_pseudo_tick, hardware, onCpu,
      IF current_thread = NULL THEN NULL
      ELSE <<current_thread_tod, cpu_slice[current_thread]>> >>

=============================================================================
