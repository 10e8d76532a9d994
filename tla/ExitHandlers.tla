---------------------------- MODULE ExitHandlers ----------------------------
(***************************************************************************)
(* The SIGINT handler of a program with several Fire sandboxes             *)
(* (_register_exit_handlers to _handle_exit_signal of sandbox/fire.py).    *)
(* Python runs handlers in the main thread, which alone may set one.       *)
(* Sandboxes are built in the main thread by a foreground adapter and in   *)
(* another one by a background adapter; the idle reaper, a thread of its   *)
(* own, stops them too.                                                    *)
(***************************************************************************)
CONSTANTS
    Sandboxes,      \* FireSandbox objects, each built once
    Python,         \* the handler of the interpreter, which raises KeyboardInterrupt
    None            \* Python's None

VARIABLES
    built, up,      \* sandboxes that have been built; those whose VM runs
    stopping,       \* those that a thread other than the main one is stopping
    handler,        \* what SIGINT runs: a sandbox's _handle_exit_signal or Python's
    previous,       \* _previous_signal_handlers of each sandbox, or None
    running,        \* the handler that the main thread runs, or None
    interrupted     \* the main thread has a KeyboardInterrupt

vars == <<built, up, stopping, handler, previous, running, interrupted>>

Init ==
    /\ built = {} /\ up = {} /\ stopping = {}
    /\ handler = Python
    /\ previous = [s \in Sandboxes |-> None]
    /\ running = None /\ interrupted = FALSE

\* The main thread is at work: it neither runs a handler nor has been ended.
MainFree == running = None /\ ~interrupted

\* __init__ and start() (_register_exit_handlers); outside the main thread
\* signal.signal raises after the previous handler has been stored.
Start(s, inMain) ==
    /\ s \notin built /\ (inMain => MainFree)
    /\ built' = built \cup {s} /\ up' = up \cup {s}
    /\ previous' = [previous EXCEPT ![s] = handler]
    /\ handler' = IF inMain THEN s ELSE handler
    /\ UNCHANGED <<stopping, running, interrupted>>

\* The end of stop() in the main thread (_unregister_exit_handlers)
Stopped(s) ==
    /\ up' = up \ {s}
    /\ handler' = IF previous[s] # None THEN previous[s] ELSE handler
    /\ previous' = [previous EXCEPT ![s] = None]

StopInMain(s) ==
    /\ MainFree /\ s \in up \ stopping
    /\ Stopped(s)
    /\ UNCHANGED <<built, stopping, running, interrupted>>

\* stop() of the reaper or of a background adapter ...
StopElsewhere(s) ==
    /\ s \in up \ stopping
    /\ stopping' = stopping \cup {s}
    /\ UNCHANGED <<built, up, handler, previous, running, interrupted>>

\* ... which cannot put the previous handler back, but forgets it.
StoppedElsewhere(s) ==
    /\ s \in stopping
    /\ stopping' = stopping \ {s} /\ up' = up \ {s}
    /\ previous' = [previous EXCEPT ![s] = None]
    /\ UNCHANGED <<built, handler, running, interrupted>>

Sigint ==
    /\ MainFree
    /\ running' = handler
    /\ UNCHANGED <<built, up, stopping, handler, previous, interrupted>>

\* _handle_exit_signal: stop(), which forgets the previous handler, and then
\* the previous handler, which is known only if another thread is in stop().
HandleExitSignal(s) ==
    /\ running = s
    /\ IF s \in stopping
       THEN running' = previous[s] /\ UNCHANGED <<up, handler, previous>>
       ELSE running' = None /\ Stopped(s)
    /\ UNCHANGED <<built, stopping, interrupted>>

RaiseInterrupt ==
    /\ running = Python
    /\ running' = None /\ interrupted' = TRUE
    /\ UNCHANGED <<built, up, stopping, handler, previous>>

Next ==
    \/ \E s \in Sandboxes :
          \/ \E inMain \in BOOLEAN : Start(s, inMain)
          \/ StopInMain(s) \/ StopElsewhere(s) \/ StoppedElsewhere(s)
          \/ HandleExitSignal(s)
    \/ Sigint \/ RaiseInterrupt

Spec == Init /\ [][Next]_vars

----------------------------------------------------------------------------
\* A SIGINT that arrives when no VM runs raises the KeyboardInterrupt that
\* ends main() ("except KeyboardInterrupt" in main.py).
IdleInterruptEnds ==
    [][running # None /\ running' = None /\ up = {} => interrupted']_vars

=============================================================================
