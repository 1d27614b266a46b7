------------------------------ MODULE MCTunnels ------------------------------
(***************************************************************************)
(* The kinds of tunnel the daemon makes (makeTunnel), for TLC: the         *)
(* openconnect process, the library in the core, openconnect on Windows,   *)
(* and the SOCKS server of the latter two.  A device has one kind: each    *)
(* behaviour is one of them, the others stay as they begin.                *)
(***************************************************************************)
EXTENDS TunnelProperties, InProcess, WinTunnel, Socks

VARIABLE kind

kindVars == <<kind, vars, libVars, winVars, socksVars>>

\* Where a difference is of no account to a kind, one case of it is enough: an openconnect that does
\* not answer SIGTERM with a token's file, a push, which the library answers as a typed code, and the
\* gateway for the kinds that do not look at it.
KindInit ==
    /\ Init /\ LibInit /\ WinInit /\ SocksInit
    /\ kind \in {"process", "library", "windows", "socks"}
    /\ kind = "process" => (gate.stubborn => mfa = "totp_field")
    /\ kind = "library" => gate.known /\ ~gate.stubborn /\ mfa \in {"none", "totp_field", "typed"}
    /\ kind \in {"windows", "socks"} =>
          mfa = "none" /\ gate.asks = "nothing" /\ gate.known /\ ~gate.stubborn
    /\ kind # "windows" => ~leftover

Process == kind = "process" /\ Next /\ UNCHANGED <<kind, libVars, winVars, socksVars>>
Library == kind = "library" /\ LibNext /\ UNCHANGED <<kind, vars, winVars, socksVars>>
Windows == kind = "windows" /\ WinNext /\ UNCHANGED <<kind, vars, libVars, socksVars>>
Server == kind = "socks" /\ SocksNext /\ UNCHANGED <<kind, vars, libVars, winVars>>

KindNext == Process \/ Library \/ Windows \/ Server

\* The fairness of each kind, for the one there is.
KindFairness ==
    /\ WF_vars(kind = "process" /\ Start) /\ WF_vars(kind = "process" /\ CodeTimerFires)
    /\ WF_vars(kind = "process" /\ PromptTimerFires) /\ WF_vars(kind = "process" /\ AtPrompt)
    /\ WF_vars(kind = "process" /\ Reader) /\ WF_vars(kind = "process" /\ Abort)
    /\ WF_vars(kind = "process" /\ (WaitExited \/ WaitOpen \/ MarkReady \/ MarkReadyFile))
    /\ \A t \in Stoppers : WF_vars(kind = "process" /\ Stop(t))
    /\ WF_vars(kind = "process" /\ wait = "late" /\ \E t \in Stoppers : StopBegin(t))
    /\ WF_vars(kind = "process" /\ Openconnect)
    /\ WF_libVars(kind = "library" /\ Login) /\ WF_libVars(kind = "library" /\ cancelled /\ LoginEnds)
    /\ WF_libVars(kind = "library" /\ Watcher) /\ WF_libVars(kind = "library" /\ Run)
    /\ \A t \in Stoppers : WF_libVars(kind = "library" /\ LibStop(t))
    /\ WF_winVars(kind = "windows" /\ WinStart) /\ WF_winVars(kind = "windows" /\ WinReader)
    /\ WF_winVars(kind = "windows" /\ Serve)
    /\ \A t \in WinStoppers : WF_winVars(kind = "windows" /\ WinStop(t))
    /\ WF_winVars(kind = "windows" /\ WinExits) /\ WF_winVars(kind = "windows" /\ ScriptWrites)
    /\ WF_socksVars(kind = "socks" /\ Serves) /\ WF_socksVars(kind = "socks" /\ StopServer)
    /\ \A c \in Clients : WF_socksVars(kind = "socks" /\ Handles(c))

KindSpec == KindInit /\ [][KindNext]_kindVars /\ KindFairness

-----------------------------------------------------------------------------
\* Whatever the kind, nothing is left open behind a tunnel, nor used after it is gone: the library's
\* session, its pipe and what run opened; the server and the state file of a tunnel on Windows.
NothingLeftOpen == LibraryAlive /\ []ServerGone

\* Whatever the kind, Stop returns and leaves what it promises: no process and a free port; no
\* adapter's server; and every client of the SOCKS server, also one accepted or dialled meanwhile, is
\* closed and its handler ends, as it does when both of its ends have left (Stop of tunnel.go,
\* wintunnel.go and socks.go, track, pipe).
StopBegan ==
    \/ kind = "process" /\ \E t \in Stoppers : stop[t] = "mark"
    \/ kind = "windows" /\ \E t \in WinStoppers : stopper[t] \in {"end", "server"}
    \/ kind = "socks" /\ (ending # "no" \/ \A c \in Clients : Side \subseteq away[c])
StopOver ==
    \/ kind = "process" /\ \/ core # "up"
                           \/ \A t \in Stoppers : Released(t)
    \/ kind = "windows" /\ \A t \in WinStoppers : stopper[t] = "returned"
    \/ kind = "socks" /\ \A c \in Clients : Through(c)
StopsReturn == StopBegan ~> StopOver

\* A tunnel of any kind is one of the connect loop's.
Kind == INSTANCE TunnelLife WITH
    phase <- CASE kind = "process" ->
                    (IF core # "up" \/ Exited \/ start = "failed" THEN "exited"
                     ELSE IF ~cmd THEN "new"
                     ELSE IF start = "killed" THEN "killed"
                     ELSE IF proxy # "no" THEN "ready" ELSE "up")
               [] kind = "library" ->
                    (IF exited \/ begun = "failed" THEN "exited"
                     ELSE IF begun = "no" THEN "new" ELSE IF ready THEN "ready" ELSE "up")
               [] kind = "windows" ->
                    (IF Gone \/ begin = "failed" THEN "exited"
                     ELSE IF ~child THEN "new" ELSE IF opened THEN "ready" ELSE "up")
               [] kind = "socks" -> "new",
    byUs <- CASE kind = "process" -> byUs /\ start # "failed"
              [] kind = "library" -> marked /\ begun # "failed"
              [] kind = "windows" -> byCore /\ begin # "failed"
              [] kind = "socks" -> FALSE

EveryKindIsLoops == Kind!Spec
=============================================================================
