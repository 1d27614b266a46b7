--------------------------- MODULE DaemonRequests ---------------------------
(***************************************************************************)
(* What happens around the connect loop of internal/daemon/daemon.go:      *)
(* Disconnect and connect, the setup of an account, new secrets, the job   *)
(* of a typed code (enroll.go), the ticker, and the browser connections    *)
(* that wait in acquire.                                                   *)
(***************************************************************************)
EXTENDS DaemonState

-----------------------------------------------------------------------------
\* RequestDisconnect by thread t, which goes on at ret.  A secretsChanged that is stopping
\* its attempt learns of it by the count of disconnects (`raced`).
Raced(f) == [x \in Threads |->
                IF "reconnect" \in {f[x].ret, f[x].pc} THEN [f[x] EXCEPT !.raced = TRUE] ELSE f[x]]

WaitingPages == {p \in Pages : page[p] \in {"waiting", "notified"}}

RequestDisconnect(t, ret) ==
    /\ explicit' = FALSE /\ demand' = FALSE /\ wanted' = (WaitingPages # {})
    /\ onceCode' = FALSE
    /\ IF tun # 0
       THEN /\ Show("disconnecting")
            /\ th' = Raced([th EXCEPT ![t] = Calls(t, "closeAll", tun, ret)])
            /\ loop' = loop
       ELSE /\ UNCHANGED <<state, page>>
            /\ IF loop.pc # "off"
               THEN /\ loop' = [loop EXCEPT !.cancelled = TRUE]
                    /\ th' = Raced([th EXCEPT ![t] = Calls(t, "waitDone", 0, ret)])
               ELSE /\ th' = Raced([th EXCEPT ![t] = Calls(t, "closeIdle", 0, ret)])
                    /\ loop' = loop
    /\ UNCHANGED <<idle, woke, totpRetried, pausedByCisco, offlineRun, lastStep, signedIn,
                   tun, tunnels, acctVars, secrVars, lifeVars, codeVars, ciscoSeen, verdict>>

Disconnect ==
    /\ "disconnect" \in Events /\ run = "up" /\ th["user"].pc = "idle"
    /\ RequestDisconnect("user", "idle")

\* The forwarder's closeAll before the stop of the tunnel.
ThreadClosesAll(t) ==
    /\ th[t].pc = "closeAll"
    /\ CloseAll
    /\ th' = [th EXCEPT ![t].pc = "stop"]
    /\ UNCHANGED <<state, wishVars, flagVars, tun, tunnels, loop, acctVars, secrVars,
                   lifeVars, codeVars, ciscoSeen, verdict>>

\* Stop: marks the attempt as ours, and waits for a process that runs.
ThreadStops(t) ==
    /\ th[t].pc = "stop"
    /\ tunnels' = MarkStopping(th[t].tgt)
    /\ th' = [th EXCEPT ![t] = IF MustEnd(th[t].tgt) THEN [@ EXCEPT !.pc = "stopping"]
                                                    ELSE Returned(t)]
    /\ UNCHANGED <<state, pageVars, wishVars, flagVars, tun, loop, acctVars, secrVars,
                   lifeVars, codeVars, ciscoSeen, verdict>>

ThreadStopped(t) ==
    /\ th[t].pc = "stopping" /\ Exited(th[t].tgt)
    /\ th' = [th EXCEPT ![t] = Returned(t)]
    /\ UNCHANGED <<state, pageVars, wishVars, flagVars, tun, tunnels, loop, acctVars,
                   secrVars, lifeVars, codeVars, ciscoSeen, verdict>>

\* Mutant: waits until no loop runs at all.
LoopIsOff(t) ==
    /\ th[t].pc = "waitDone" /\ loop.pc = "off"
    /\ th' = [th EXCEPT ![t].pc = "closeIdle"]
    /\ UNCHANGED <<state, pageVars, wishVars, flagVars, tun, tunnels, loop, acctVars,
                   secrVars, lifeVars, codeVars, ciscoSeen, verdict>>

\* RequestDisconnect without a tunnel: the cancelled loop has ended ...
LoopIsDone(t) ==
    /\ th[t].pc = "waitDone" /\ ~(loop.pc # "off" /\ loop.cancelled)
    /\ th' = [th EXCEPT ![t].pc = "closeIdle"]
    /\ UNCHANGED <<state, pageVars, wishVars, flagVars, tun, tunnels, loop, acctVars,
                   secrVars, lifeVars, codeVars, ciscoSeen, verdict>>

\* ... the pages that wait are dropped ...
ThreadClosesIdle(t) ==
    /\ th[t].pc = "closeIdle"
    /\ CloseAll
    /\ th' = [th EXCEPT ![t].pc = "toIdle"]
    /\ UNCHANGED <<state, wishVars, flagVars, tun, tunnels, loop, acctVars, secrVars,
                   lifeVars, codeVars, ciscoSeen, verdict>>

\* ... and the state is idle.
ThreadToIdle(t) ==
    /\ th[t].pc = "toIdle"
    /\ IF state \in Final THEN UNCHANGED <<state, page>> ELSE Show("idle")
    /\ th' = [th EXCEPT ![t] = Returned(t)]
    /\ UNCHANGED <<woke, wishVars, flagVars, tun, tunnels, loop, acctVars, secrVars,
                   lifeVars, codeVars, ciscoSeen, verdict>>

\* "connect now": the app's button.
RequestConnect ==
    /\ "connect" \in Events /\ run = "up"
    /\ ConnectLocked
    /\ UNCHANGED <<woke, onceCode, pausedByCisco, offlineRun, lastStep, signedIn, tun, tunnels,
                   th, acctVars, secrVars, lifeVars, codeVars, ciscoSeen>>
-----------------------------------------------------------------------------
\* startEnrollLocked: connected, the code goes to the portal only.
JobStart == IF state = "connected" THEN "takeCode" ELSE "waitConnected"

JobUnchanged ==
    UNCHANGED <<state, pageVars, wishVars, totpRetried, pausedByCisco, offlineRun, lastStep,
                signedIn, tun, tunnels, loop, acctVars, secrVars, lifeVars, codeVars, ciscoSeen,
                verdict>>

\* completeSetup, for account a: the thread "setup" (setupMu lets in one at a time).  `edits`
\* numbers the secrets that are stored, so that two writes are never the same.
SetupBegins(a) ==
    /\ "setup" \in Events /\ run = "up" /\ th["setup"].pc = "idle" /\ edits < MaxEdits
    /\ edits' = edits + 1
    /\ setup' = [to |-> a, prev |-> cfgUser, ver |-> edits + 1]
    /\ th' = [th EXCEPT !["setup"].pc = IF tun # 0 THEN "teardown" ELSE "switch"]
    /\ UNCHANGED <<state, pageVars, wishVars, flagVars, tun, tunnels, loop, cfgUser, cfgHost,
                   switching, accountGen, secretsGen, stored, lifeVars, codeVars, ciscoSeen,
                   verdict>>

SetupTearsDown == th["setup"].pc = "teardown" /\ RequestDisconnect("setup", "switch")

SetupSwitches ==
    /\ th["setup"].pc = "switch"
    /\ cfgUser' = setup.to /\ switching' = TRUE
    /\ th' = [th EXCEPT !["setup"].pc = "storing"]
    /\ UNCHANGED <<state, pageVars, wishVars, flagVars, tun, tunnels, loop, cfgHost, accountGen,
                   setup, secrVars, lifeVars, codeVars, ciscoSeen, verdict>>

SetupStores ==
    /\ th["setup"].pc = "storing"
    /\ stored' = [stored EXCEPT ![setup.to] = setup.ver]
    /\ th' = [th EXCEPT !["setup"].pc = "writing"]
    /\ UNCHANGED <<state, pageVars, wishVars, flagVars, tun, tunnels, loop, acctVars, secretsGen,
                   edits, lifeVars, codeVars, ciscoSeen, verdict>>

\* The keyring refused, or config.toml could not be written.
SetupFails ==
    /\ th["setup"].pc \in {"storing", "writing"}
    /\ cfgUser' = setup.prev /\ switching' = FALSE
    /\ accountGen' = accountGen + 1
    /\ signedFile' = NoSignIn
    /\ setup' = NoSetup
    /\ th' = [th EXCEPT !["setup"] = IdleThread]
    /\ UNCHANGED <<state, pageVars, wishVars, flagVars, tun, tunnels, loop, cfgHost, secrVars,
                   run, restarts, codeVars, ciscoSeen, verdict>>

\* The gateway follows, with a code from the user's app instead of a secret (`typed`) or not.
SetupApplies(typed) ==
    /\ th["setup"].pc = "writing"
    /\ cfgHost' = setup.to /\ switching' = FALSE
    /\ accountGen' = accountGen + 1
    /\ offlineRun' = 0
    /\ signedFile' = NoSignIn
    /\ setup' = NoSetup
    /\ IF typed /\ NeedsTOTP /\ state # "connected"
       THEN /\ onceCode' = TRUE
            /\ IF state \in Final THEN Show("idle") ELSE UNCHANGED <<state, page>>
       ELSE UNCHANGED <<onceCode, state, page>>
    /\ th' = [th EXCEPT !["setup"] = [IdleThread EXCEPT !.pc = "changed"],
                        !["job"].pc = IF typed /\ NeedsTOTP THEN JobStart ELSE @]
    /\ UNCHANGED <<woke, wishVars, totpRetried, pausedByCisco, lastStep, signedIn, tun, tunnels,
                   loop, cfgUser, secrVars, run, restarts, codeVars, ciscoSeen, verdict>>

-----------------------------------------------------------------------------
\* The thread "edit": SetPassword, SetTOTP and the typed code of Enroll.
EditStores(next) ==
    /\ run = "up" /\ th["edit"].pc = "idle" /\ edits < MaxEdits
    /\ edits' = edits + 1
    /\ stored' = [stored EXCEPT ![cfgUser] = edits + 1]
    /\ th' = [th EXCEPT !["edit"].pc = next]
    /\ UNCHANGED <<state, pageVars, wishVars, flagVars, tun, tunnels, loop, acctVars, secretsGen,
                   lifeVars, codeVars, ciscoSeen, verdict>>

SetPassword == "password" \in Events /\ EditStores("changed")
SetTOTP == "totp" \in Events /\ NeedsTOTP /\ EditStores("noteCode")

\* NoteCodeShown: the page shows the new check code, which the user may use up.
NoteCodeShown ==
    /\ th["edit"].pc = "noteCode"
    /\ lastStep' = now /\ used' = used \cup {now}
    /\ th' = [th EXCEPT !["edit"].pc = "changed"]
    /\ UNCHANGED <<state, pageVars, wishVars, onceCode, totpRetried, pausedByCisco, offlineRun,
                   signedIn, tun, tunnels, loop, acctVars, secrVars, lifeVars, now, ciscoSeen,
                   verdict>>

\* Enroll: a typed code starts the job of enroll.go.  Not connected, the code signs in to the
\* VPN first.
TypeCode ==
    /\ "code" \in Events /\ run = "up" /\ th["edit"].pc = "idle" /\ edits < MaxEdits
    /\ NeedsTOTP /\ state # "connected" /\ th["job"].pc = "idle"
    /\ edits' = edits + 1
    /\ onceCode' = TRUE
    /\ IF state \in Final THEN Show("idle") ELSE UNCHANGED <<state, page>>
    /\ th' = [th EXCEPT !["edit"].pc = "changed", !["job"].pc = JobStart]
    /\ UNCHANGED <<woke, wishVars, totpRetried, pausedByCisco, offlineRun, lastStep, signedIn,
                   tun, tunnels, loop, acctVars, secretsGen, stored, lifeVars, codeVars,
                   ciscoSeen, verdict>>

\* Enroll with cancel.
CancelCode ==
    /\ "cancel" \in Events /\ th["job"].pc # "idle"
    /\ onceCode' = FALSE
    /\ th' = [th EXCEPT !["job"] = IdleThread]
    /\ JobUnchanged

\* waitConnected: connected, or no sign-in with the code is to be expected any more.
JobWaits ==
    /\ th["job"].pc = "waitConnected"
    /\ \/ /\ state = "connected"
          /\ th' = [th EXCEPT !["job"].pc = "takeCode"]
       \/ /\ \/ state \in Final
             \/ state \in {"idle", "error"} /\ loop.pc = "off" /\ ~onceCode
             \/ "cancel" \in Events   \* its time is up
          /\ th' = [th EXCEPT !["job"].pc = "failed"]
    /\ UNCHANGED onceCode
    /\ JobUnchanged

\* The code that was not needed signs in to the portal; a failed job's code is dropped.
JobEnds ==
    /\ th["job"].pc \in {"takeCode", "failed"}
    /\ onceCode' = FALSE
    /\ th' = [th EXCEPT !["job"] = IdleThread]
    /\ JobUnchanged

\* secretsChanged: an attempt that still runs with the old ones starts over.
SecretsChanged(t) ==
    /\ th[t].pc = "changed"
    /\ secretsGen' = secretsGen + 1
    /\ signedFile' = NoSignIn
    /\ IF tun # 0 /\ state = "connecting" /\ ~Exited(tun)
       THEN /\ th' = [th EXCEPT ![t] = Calls(t, "stop", tun, "reconnect")]
            /\ UNCHANGED <<state, page, wishVars, totpRetried, loop, verdict>>
       ELSE /\ th' = [th EXCEPT ![t] = IdleThread]
            /\ ConnectLocked
    /\ UNCHANGED <<woke, onceCode, pausedByCisco, offlineRun, lastStep, signedIn, tun, tunnels,
                   acctVars, stored, edits, run, restarts, codeVars, ciscoSeen>>

\* A Disconnect during the stop wins.
DisconnectWon(t) == th[t].raced

Reconnects(t) ==
    /\ th[t].pc = "reconnect"
    /\ th' = [th EXCEPT ![t] = IdleThread]
    /\ IF DisconnectWon(t)
       THEN UNCHANGED <<state, page, wishVars, totpRetried, loop, verdict>>
       ELSE ConnectLocked
    /\ UNCHANGED <<woke, onceCode, pausedByCisco, offlineRun, lastStep, signedIn, tun, tunnels,
                   acctVars, secrVars, lifeVars, codeVars, ciscoSeen>>

-----------------------------------------------------------------------------
\* The ticker.  Between two of its calls outside mu the rest of a tick is one step.
TickChecksCisco ==
    /\ "cisco" \in Events /\ run # "ended" /\ th["ticker"].pc = "idle" /\ th["run"].pc = "idle"
    /\ state \in {"connected", "blocked"}
    /\ th' = [th EXCEPT !["ticker"].pc = "ciscoCheck"]
    /\ UNCHANGED <<state, pageVars, wishVars, flagVars, tun, tunnels, loop, acctVars, secrVars,
                   lifeVars, codeVars, ciscoSeen, verdict>>

\* Mutant: nobody takes back "blocked".
TickCiscoStops(cisco) ==
    /\ th["ticker"].pc = "ciscoCheck"
    /\ ciscoSeen' = cisco
    /\ IF cisco /\ state = "connected" /\ tun # 0
       THEN /\ pausedByCisco' = TRUE
            /\ Show("blocked")
            /\ th' = [th EXCEPT !["ticker"] = Calls("ticker", "closeAll", tun, "tickRest")]
       ELSE /\ th' = [th EXCEPT !["ticker"].pc = "tickRest"]
            /\ UNCHANGED <<state, page, pausedByCisco>>
    /\ UNCHANGED <<woke, wishVars, onceCode, totpRetried, offlineRun, lastStep, signedIn, tun,
                   tunnels, loop, acctVars, secrVars, lifeVars, codeVars, verdict>>

TickCisco(cisco) ==
    /\ th["ticker"].pc = "ciscoCheck"
    /\ ciscoSeen' = cisco
    /\ \/ /\ cisco /\ state = "connected" /\ tun # 0
          /\ pausedByCisco' = TRUE
          /\ Show("blocked")
          /\ th' = [th EXCEPT !["ticker"] = Calls("ticker", "closeAll", tun, "tickRest")]
       \/ /\ ~(cisco /\ state = "connected" /\ tun # 0)
          /\ IF ~cisco /\ state = "blocked" /\ loop.pc = "off"
             THEN Show("idle") ELSE UNCHANGED <<state, page>>
          /\ th' = [th EXCEPT !["ticker"].pc = "tickRest"]
          /\ UNCHANGED pausedByCisco
    /\ UNCHANGED <<woke, wishVars, onceCode, totpRetried, offlineRun, lastStep, signedIn, tun,
                   tunnels, loop, acctVars, secrVars, lifeVars, codeVars, verdict>>

TickerAtRest == run # "ended" /\ th["run"].pc = "idle" /\ th["ticker"].pc \in {"idle", "tickRest"}

\* The computer slept: the tunnel is stopped cleanly and comes back if something wants it.
TickResumes ==
    /\ "resume" \in Events /\ TickerAtRest
    /\ offlineRun' = 0
    /\ IF tun # 0
       THEN /\ Show("disconnecting")
            /\ th' = [th EXCEPT !["ticker"] = Calls("ticker", "closeAll", tun, "tickIdle")]
       ELSE /\ th' = [th EXCEPT !["ticker"] = IdleThread]
            /\ UNCHANGED <<state, page>>
    /\ UNCHANGED <<woke, wishVars, onceCode, totpRetried, pausedByCisco, lastStep, signedIn, tun,
                   tunnels, loop, acctVars, secrVars, lifeVars, codeVars, ciscoSeen, verdict>>

IdleTooLong == state = "connected" /\ tun # 0 /\ idle

TickStopsIdle ==
    /\ run # "ended" /\ th["run"].pc = "idle"
    /\ th["ticker"].pc \in {"idle", "tickRest", "tickIdle"}
    /\ IdleTooLong
    /\ explicit' = FALSE /\ demand' = FALSE /\ wanted' = (WaitingPages # {})
    /\ Show("disconnecting")
    /\ th' = [th EXCEPT !["ticker"] = Calls("ticker", "closeAll", tun, "idle")]
    /\ UNCHANGED <<idle, woke, flagVars, tun, tunnels, loop, acctVars, secrVars, lifeVars,
                   codeVars, ciscoSeen, verdict>>

TickEnds ==
    /\ th["ticker"].pc \in {"tickRest", "tickIdle"} /\ ~IdleTooLong
    /\ th' = [th EXCEPT !["ticker"] = IdleThread]
    /\ UNCHANGED <<state, pageVars, wishVars, flagVars, tun, tunnels, loop, acctVars, secrVars,
                   lifeVars, codeVars, ciscoSeen, verdict>>
-----------------------------------------------------------------------------
\* Browser connections.  One pass of acquire: the tunnel's port, a refusal, or a wait for
\* the next state.  Whether the last look for the network is recent is left open.
Refused(p) == page' = [page EXCEPT ![p] = "none"] /\ woke' = woke \ {p}
Waits(p, wk) == page' = [page EXCEPT ![p] = "waiting"] /\ woke' = wk
MayBeAway == offlineRun = AwayAfter

AcquirePass(p) ==
    \/ /\ state = "connected" /\ tun # 0
       /\ page' = [page EXCEPT ![p] = "tunnelled"] /\ woke' = woke \ {p}
       /\ loop' = loop
    \/ state \in Final /\ Refused(p) /\ loop' = loop
    \/ /\ state = "offline" /\ p \notin woke
       /\ loop' = Ensured
       /\ Waits(p, woke \cup {p}) \/ (MayBeAway /\ Refused(p))
    \/ state \in Retry /\ loop' = Ensured /\ Refused(p)
    \/ /\ state = "idle"
       /\ loop' = Ensured
       /\ Waits(p, woke) \/ (MayBeAway /\ Refused(p))
    \/ /\ state \in {"connecting", "disconnecting"} \/ (state = "connected" /\ tun = 0)
       /\ Waits(p, woke) /\ loop' = loop

PageUnchanged == UNCHANGED <<state, flagVars, tun, tunnels, th, acctVars, secrVars, lifeVars,
                             codeVars, ciscoSeen, verdict>>

PageOpens(p) ==
    /\ run = "up" /\ page[p] = "none"
    /\ NoteActivity
    /\ wanted' = TRUE
    /\ AcquirePass(p)
    /\ UNCHANGED explicit
    /\ PageUnchanged

PageLooksAgain(p) ==
    /\ page[p] = "notified"
    /\ AcquirePass(p)
    /\ UNCHANGED wishVars /\ PageUnchanged

\* ClientWait is over, or the browser closed the connection.
PageEnds(p) ==
    /\ page[p] # "none"
    /\ Refused(p)
    /\ UNCHANGED <<wishVars, loop>> /\ PageUnchanged

\* noteActivity, for bytes that pass: the last ones of a tunnel that stops are no new use.
CountsAsUse == state # "disconnecting"

Traffic(p) ==
    /\ "traffic" \in Events /\ page[p] = "tunnelled"
    /\ idle' = FALSE
    /\ demand' = (demand \/ CountsAsUse)
    /\ UNCHANGED <<explicit, wanted, pageVars, loop>> /\ PageUnchanged

\* Time passes: the demand window ends, the last activity is too long ago, a code window ends.
DemandEnds ==
    /\ demand /\ demand' = FALSE
    /\ UNCHANGED <<explicit, idle, wanted, pageVars, loop>> /\ PageUnchanged

IdleElapses ==
    /\ "idle" \in Events /\ ~idle /\ state = "connected" /\ idle' = TRUE
    /\ UNCHANGED <<explicit, demand, wanted, pageVars, loop>> /\ PageUnchanged

WindowEnds ==
    /\ now < MaxWindow /\ now' = now + 1
    /\ UNCHANGED <<state, pageVars, wishVars, flagVars, tun, tunnels, loop, th, acctVars,
                   secrVars, lifeVars, used, ciscoSeen, verdict>>
=============================================================================
