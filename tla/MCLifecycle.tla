----------------------------- MODULE MCLifecycle -----------------------------
(* Lifecycle for TLC: two of the five signals, and a table of loggers that
   is full in the second cycle. *)
EXTENDS Lifecycle, TLC

CONSTANTS t1, t2

MCThread == {t1, t2}
Symmetry == Permutations(MCThread)

MCSignals == <<"SIGSEGV", "SIGILL">>
(* Any two flags take all four pairs of values. *)
MCFlagSets == {{}, {"catch", "hook"}, {"catch", "dump"}, {"hook", "dump"}}
MCLogger == {"tls", "platform_exceptions", "os_exceptions", "modules", "symbols",
             "platform_threads", "os_threads", "stacks", "images", "shm", "os_lifesigns",
             "platform_lifesigns", "paths", "files", "directories", "lines", "dwarf",
             "readers", "os"}
=============================================================================
