----------------------------- MODULE WinTunnel ------------------------------
(***************************************************************************)
(* internal/wintunnel: the tunnel on Windows.  openconnect makes an        *)
(* adapter and runs bin/uni-vpn-vpnc.js, which writes the tunnel's address *)
(* or an error to a state file; serveWhenUp follows that file, starts the  *)
(* SOCKS server once there is an address and moves it to a new one.        *)
(* WaitReady waits for the server, Stop and the hook after openconnect's   *)
(* exit end it.  Start, the reader and MarkStopping are those of           *)
(* tunnel.go, here without the second factor, which module Tunnel has.     *)
(* openconnect and the script's timing are external.                       *)
(***************************************************************************)
EXTENDS Naturals

CONSTANTS
    Addresses,      \* what the gateway assigns
    MaxReports,     \* runs of the script
    WinStoppers     \* threads that may call Stop

ASSUME WinAssumption == MaxReports \in Nat /\ "" \notin Addresses

\* What the script writes, an address, an error, or both; and what is read from no file.
Reports == {r \in [error: BOOLEAN, address: Addresses \cup {""}] : r.error \/ r.address # ""}
Nothing == [error |-> FALSE, address |-> ""]

VARIABLES
    leftover,                       \* an adapter of an earlier openconnect has the name
    begin,                          \* Start
    process, signal, reports,       \* openconnect, what was sent to it, history: runs of the script
    file, script,                   \* the state file; what the script is about to write
    child, byCore, said, output,    \* t.cmd is set, t.stoppedByUs, classification, readOutput
    context,                        \* w.cancel: unset, live or cancelled
    serve, seen,                    \* serveWhenUp and the values it read
    socks, source, route, listener, \* w.socks is set, w.source; the server's address and listener
    opened,                         \* history: w.socks was set
    stopper                         \* the threads in Stop

procVarsW == <<process, signal, reports, file, script>>
baseVars == <<child, byCore, said, output>>
serverVars == <<socks, source, route, listener, opened>>
winVars == <<leftover, begin, procVarsW, baseVars, context, serve, seen, serverVars, stopper>>

WinInit ==
    /\ leftover \in BOOLEAN /\ begin = "begin"
    /\ process = "none" /\ signal = "none" /\ reports = 0 /\ file = Nothing /\ script = Nothing
    /\ child = FALSE /\ byCore = FALSE /\ said = "none" /\ output = "off"
    /\ context = "unset" /\ serve = "off" /\ seen = Nothing
    /\ socks = FALSE /\ source = "" /\ route = "" /\ listener = FALSE /\ opened = FALSE
    /\ stopper = [t \in WinStoppers |-> "no"]

Gone == output \in {"exited", "taken", "clear", "done"}

-----------------------------------------------------------------------------
\* removeAdapter, and the state file of this port is removed (env); either may fail to do more.
StartPrepares ==
    /\ begin = "begin"
    /\ begin' \in {"failed", "exec"} /\ leftover' \in {leftover, FALSE}
    /\ UNCHANGED <<procVarsW, baseVars, context, serve, seen, serverVars, stopper>>

\* tunnel.Start: the process, then t.cmd and the reader.
StartRuns ==
    /\ \/ begin = "exec" /\ begin' = "failed" /\ UNCHANGED <<process, child, output>>
       \/ begin = "exec" /\ begin' = "publish" /\ process' = "login" /\ UNCHANGED <<child, output>>
       \/ begin = "publish" /\ begin' = "check" /\ child' = TRUE /\ output' = "lines"
          /\ UNCHANGED process
    /\ UNCHANGED <<leftover, signal, reports, file, script, byCore, said, context, serve, seen,
                   serverVars, stopper>>

\* Its end: Stop came while the process was being started.
StartChecks ==
    /\ begin = "check" /\ begin' = "follow"
    /\ signal' = IF byCore THEN "kill" ELSE signal
    /\ UNCHANGED <<leftover, process, reports, file, script, baseVars, context, serve, seen,
                   serverVars, stopper>>

\* Start: w.cancel is set, the state file is followed from here on.
StartFollows ==
    /\ begin = "follow" /\ begin' = "done"
    /\ context' = "live" /\ serve' = "head"
    /\ UNCHANGED <<leftover, procVarsW, baseVars, seen, serverVars, stopper>>

WinStart == StartPrepares \/ StartRuns \/ StartChecks \/ StartFollows

-----------------------------------------------------------------------------
\* stopServer takes the server from under the lock, and what follows it is told to end.
Takes ==
    /\ context' = IF context = "unset" THEN "unset" ELSE "cancelled"
    /\ socks' = FALSE

\* Then it stops the server it took and removes the state file.
Clears(took) ==
    /\ listener' = (listener /\ ~took)
    /\ file' = Nothing

\* readOutput: the process ended, t.exited is closed, then AfterExit.
ReaderEnds ==
    /\ output = "lines" /\ process = "dead" /\ output' = "exited"
    /\ UNCHANGED <<leftover, begin, procVarsW, child, byCore, said, context, serve, seen, serverVars,
                   stopper>>

ReaderTakes ==
    /\ output = "exited" /\ output' = IF socks THEN "taken" ELSE "clear"
    /\ Takes
    /\ UNCHANGED <<leftover, begin, procVarsW, child, byCore, said, serve, seen, source, route,
                   listener, opened, stopper>>

ReaderClears ==
    /\ output \in {"taken", "clear"} /\ output' = "done"
    /\ Clears(output = "taken")
    /\ UNCHANGED <<leftover, begin, process, signal, reports, script, child, byCore, said, context,
                   serve, seen, socks, source, route, opened, stopper>>

WinReader == ReaderEnds \/ ReaderTakes \/ ReaderClears

-----------------------------------------------------------------------------
\* endProcess from one of its steps to the next, or to after when openconnect is gone.
Signal1(s) == signal' = IF signal = "kill" THEN signal ELSE s

Ending(step, next, after) ==
    CASE step = "end" /\ (~child \/ Gone) -> next = after /\ UNCHANGED signal
      [] step = "end" /\ child /\ ~Gone ->
            \/ next = "grace" /\ Signal1("ctrlc")
            \/ next = "kill" /\ UNCHANGED signal
      [] step = "grace" -> \/ Gone /\ next = after /\ UNCHANGED signal
                           \/ next = "kill" /\ UNCHANGED signal
      [] step = "kill" -> next = "killed" /\ Signal1("kill")
      [] step = "killed" -> Gone /\ next = after /\ UNCHANGED signal

EndSteps == {"end", "grace", "kill", "killed"}

serveRest == <<leftover, begin, process, reports, file, script, child, byCore, output, context,
               opened, stopper>>

\* serveWhenUp: the head of its loop, then the state file.
ServeReads ==
    /\ \/ /\ serve = "head"
          /\ serve' = IF Gone \/ context = "cancelled" THEN "gone" ELSE "read"
          /\ UNCHANGED seen
       \/ serve = "read" /\ seen' = file /\ serve' = "decide"
    /\ UNCHANGED <<serveRest, signal, said, socks, source, route, listener>>

\* An error ends an attempt that is not up yet; one after a reconnect does not end the tunnel.
ServeDecides ==
    /\ serve = "decide"
    /\ serve' = CASE seen.error /\ ~socks -> "end"
                  [] seen.address # "" /\ ~socks -> "bind"
                  [] seen.address # "" /\ socks -> "update"
                  [] OTHER -> "sleep"
    /\ said' = IF seen.error /\ ~socks THEN "setup" ELSE said
    /\ UNCHANGED <<serveRest, seen, signal, socks, source, route, listener>>

\* NewSocks: the port is free, or another program has it.
ServeBinds ==
    /\ serve = "bind"
    /\ \/ serve' = "publish" /\ listener' = TRUE /\ route' = seen.address /\ UNCHANGED said
       \/ /\ serve' = IF context = "cancelled" THEN "gone" ELSE "end"
          /\ said' = IF context = "cancelled" THEN said ELSE "port"
          /\ UNCHANGED <<listener, route>>
    /\ UNCHANGED <<serveRest, seen, signal, socks, source>>

\* The server is the tunnel's from here on, unless it was stopped while the server started.
ServePublishes ==
    /\ serve = "publish"
    /\ IF context = "cancelled" THEN serve' = "drop" /\ UNCHANGED <<socks, opened, source>>
       ELSE serve' = "sleep" /\ socks' = TRUE /\ opened' = TRUE /\ source' = seen.address
    /\ UNCHANGED <<leftover, begin, procVarsW, baseVars, context, seen, route, listener, stopper>>

ServeDrops ==
    /\ serve = "drop" /\ serve' = "gone" /\ listener' = FALSE
    /\ UNCHANGED <<serveRest, seen, signal, said, socks, source, route>>

\* openconnect reconnected and has another address; a server that was taken is left alone.
ServeUpdates ==
    /\ \/ /\ serve = "update"
          /\ IF socks /\ source # seen.address THEN source' = seen.address /\ serve' = "set"
             ELSE serve' = "sleep" /\ UNCHANGED source
          /\ UNCHANGED route
       \/ serve = "set" /\ route' = seen.address /\ serve' = "sleep" /\ UNCHANGED source
    /\ UNCHANGED <<serveRest, seen, signal, said, socks, listener>>

ServeSleeps ==
    /\ serve = "sleep"
    /\ serve' = IF context = "cancelled" THEN "gone" ELSE "head"
    /\ UNCHANGED <<serveRest, seen, signal, said, socks, source, route, listener>>

ServeEnds ==
    /\ serve \in EndSteps
    /\ Ending(serve, serve', "gone")
    /\ UNCHANGED <<serveRest, seen, said, socks, source, route, listener>>

Serve ==
    \/ ServeReads \/ ServeDecides \/ ServeBinds \/ ServePublishes \/ ServeDrops \/ ServeUpdates
    \/ ServeSleeps \/ ServeEnds

-----------------------------------------------------------------------------
stopRest == <<leftover, begin, process, reports, script, child, said, output, serve, seen, source,
              route, opened>>

\* Stop: MarkStopping, then endProcess for a process there is.
WinStopMarks(t) ==
    /\ stopper[t] = "no"
    /\ byCore' = (byCore \/ ~child \/ ~Gone)
    /\ stopper' = [stopper EXCEPT ![t] = IF child /\ ~Gone THEN "end" ELSE "server"]
    /\ UNCHANGED <<stopRest, signal, file, context, socks, listener>>

WinStopEnds(t) ==
    /\ stopper[t] \in EndSteps
    /\ \E next \in EndSteps \cup {"server"} :
          Ending(stopper[t], next, "server") /\ stopper' = [stopper EXCEPT ![t] = next]
    /\ UNCHANGED <<stopRest, byCore, file, context, socks, listener>>

WinStopTakes(t) ==
    /\ stopper[t] = "server"
    /\ stopper' = [stopper EXCEPT ![t] = IF socks THEN "taken" ELSE "clear"]
    /\ Takes
    /\ UNCHANGED <<stopRest, byCore, signal, file, listener>>

WinStopClears(t) ==
    /\ stopper[t] \in {"taken", "clear"}
    /\ stopper' = [stopper EXCEPT ![t] = "returned"]
    /\ Clears(stopper[t] = "taken")
    /\ UNCHANGED <<stopRest, byCore, signal, context, socks>>

WinStop(t) == WinStopEnds(t) \/ WinStopTakes(t) \/ WinStopClears(t)

-----------------------------------------------------------------------------
ocRestW == <<begin, child, byCore, output, context, serve, seen, serverVars, stopper>>

\* openconnect signs in; with an adapter left over it cannot open its own and gives up.
WinLogin ==
    /\ process = "login" /\ signal # "kill"
    /\ \/ ~leftover /\ process' = "up" /\ script' \in Reports /\ reports' = reports + 1
       \/ process' = "dying" /\ UNCHANGED <<script, reports>>
    /\ UNCHANGED <<ocRestW, leftover, signal, file, said>>

\* writeState: the old file is deleted, the new one moved in its place, also by a script whose
\* openconnect was killed.
ScriptWrites ==
    /\ script # Nothing
    /\ \/ file # Nothing /\ file' = Nothing /\ UNCHANGED script
       \/ file = Nothing /\ file' = script /\ script' = Nothing
    /\ UNCHANGED <<ocRestW, leftover, process, signal, reports, said>>

\* It reconnects by itself and runs the script again.
WinReconnects ==
    /\ process = "up" /\ script = Nothing /\ reports < MaxReports
    /\ script' \in Reports /\ reports' = reports + 1
    /\ UNCHANGED <<ocRestW, leftover, process, signal, file, said>>

\* It ends by itself, on Ctrl+C, or is killed; the script removes the file unless it is killed.
WinDrops ==
    /\ process = "up" /\ script = Nothing /\ process' = "dying"
    /\ UNCHANGED <<ocRestW, leftover, signal, reports, file, script, said>>

WinExits ==
    /\ \/ signal = "kill" /\ process \notin {"none", "dead"} /\ UNCHANGED file
       \/ /\ process = "dying" \/ (process \in {"login", "up"} /\ signal = "ctrlc")
          /\ script = Nothing /\ file' = Nothing
    /\ process' = "dead"
    /\ UNCHANGED <<ocRestW, leftover, signal, reports, script, said>>

WinNext ==
    \/ WinStart \/ WinReader \/ Serve
    \/ \E t \in WinStoppers : WinStopMarks(t) \/ WinStop(t)
    \/ WinLogin \/ ScriptWrites \/ WinReconnects \/ WinDrops \/ WinExits

\* Goroutines run, a killed process ends and the script finishes.
WinFairness ==
    /\ WF_winVars(WinStart) /\ WF_winVars(WinReader) /\ WF_winVars(Serve)
    /\ \A t \in WinStoppers : WF_winVars(WinStop(t))
    /\ WF_winVars(WinExits) /\ WF_winVars(ScriptWrites)

-----------------------------------------------------------------------------
\* Once openconnect is gone, its hook has run and what followed the state file has ended, nothing
\* listens on the tunnel's port, unless a Stop is about to stop the server it took; nor is there a
\* state file that a script did not write after its openconnect was killed (serveWhenUp, stopServer).
ServerGone ==
    output = "done" /\ serve \in {"off", "gone"} /\ begin = "done" =>
        /\ listener => \E t \in WinStoppers : stopper[t] = "taken"
        /\ file # Nothing => signal = "kill"
=============================================================================
