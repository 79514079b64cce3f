-------------------------- MODULE MCAsyncExecutor --------------------------
(* A small program for the main thread of AsyncExecutor: the calls of       *)
(* kernel_main and a sleep_ticks before them.                               *)
EXTENDS AsyncExecutor

Call(k, m) == [kind |-> k, n |-> m]

\* the sleeping task asks for one tick, which can pass before its entry is
\* on the list; the serial task needs two polls
KernelCalls == <<Call("sleep_ticks", 1), Call("sleep_seconds", 1),
                 Call("sleep_future", 1), Call("serial_future", 2)>>

\* the hypothesis of theorem MemorySafe
ASSUME SleepsApart
=============================================================================
