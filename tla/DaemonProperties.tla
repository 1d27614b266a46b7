-------------------------- MODULE DaemonProperties --------------------------
(***************************************************************************)
(* What the connection life cycle of internal/daemon/daemon.go promises.   *)
(***************************************************************************)
EXTENDS Daemon

Live(i) == tunnels[i].phase # "exited"
Starts == tun = 0 /\ tun' # 0
AtRest(ts) == \A t \in ts : th[t].pc = "idle"

\* Every openconnect that runs signs in to the gateway of the account whose password and
\* secret it was given: "its user and password never go to the old gateway" (connectLoop,
\* while completeSetup switches the account under it).
TunnelsConsistent ==
    \A i \in Ids : Live(i) => /\ tunnels[i].user = tunnels[i].host
                              /\ tunnels[i].owner = tunnels[i].user

\* The daemon forgets no process that may still carry traffic: every openconnect but the
\* current one is being stopped, and it was killed or a thread waits for its exit, whatever
\* Disconnect, a slow gateway and new attempts do.
BeingStopped(i) == tunnels[i].phase = "killed" \/ \E t \in Threads : th[t].tgt = i
OneTunnel == \A i \in Ids : Live(i) /\ i # tun => tunnels[i].byUs /\ BeingStopped(i)

\* A Disconnect holds: after one with no page waiting, or after an idle teardown, a tunnel
\* starts only if someone asked again.  A tunnel that opened its port meanwhile ("whose demand
\* would connect again") and the last bytes of a dying connection do not count.
DisconnectHonoured == [][Starts => wanted]_vars

\* The gateway's refusal of old secrets is never shown as a verdict on the new ones, once
\* secretsChanged has been told of every change (a setup that failed tells it nothing).
VerdictIsCurrent ==
    /\ state = "auth_failed" /\ verdict.by = "gateway"
    /\ AtRest({"edit", "setup"}) /\ secretsGen = edits
    => verdict.ver = stored[cfgUser]

\* No window's one-time code goes to the gateway twice (it would be refused, and a second
\* refusal ends the loop): the windows are marked when openconnect starts and when its output
\* names another one.
NoCodeTwice ==
    [][\A i \in Ids : tunnels[i].code = 0 /\ tunnels'[i].code # 0
                      => tunnels'[i].code \notin used]_vars

\* When the daemon has ended, no loop runs and every process left was killed or has a thread
\* that is stopping it, so the next core finds no tunnel.
EndsClean ==
    run = "ended" =>
        /\ loop.pc = "off"
        /\ \A i \in Ids : Live(i) => BeingStopped(i)

\* A code the user typed never outlives the job it was typed for: "a later sign-in would send
\* it stale".
OnceCodeHasJob == onceCode => th["job"].pc # "idle"

-----------------------------------------------------------------------------
\* Disconnect returns, also when a new "connect now" starts another loop while it waits.
DisconnectReturns == th["user"].pc # "idle" ~> th["user"].pc = "idle"

\* "disconnecting" is never the last word of a daemon that goes on, also when openconnect exits
\* on its own first.
DisconnectingEnds == state = "disconnecting" ~> state # "disconnecting" \/ run # "up"

\* "blocked" is taken back once Cisco Secure Client stays disconnected.
BlockedEnds == <>[](~ciscoSeen) => []<>(state # "blocked" \/ run # "up")

\* Stop ends Run, whatever the loop and the tunnel are doing.
StopEnds == run = "stopping" ~> run = "ended"
=============================================================================
