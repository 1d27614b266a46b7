------------------------------- MODULE Daemon -------------------------------
(***************************************************************************)
(* The connection life cycle of internal/daemon/daemon.go: the connect     *)
(* loop, everything around it, and the end of the program.                 *)
(***************************************************************************)
EXTENDS DaemonRequests, DaemonLoop

-----------------------------------------------------------------------------
\* The end of the program: Stop, and what Run does then.
Stop ==
    /\ "stop" \in Events /\ run = "up" /\ run' = "stopping"
    /\ UNCHANGED <<state, pageVars, wishVars, flagVars, tun, tunnels, loop, th, acctVars,
                   secrVars, restarts, signedFile, codeVars, ciscoSeen, verdict>>

\* Mutant: the tunnel is stopped, but not the loop.
RunStopsTunnel ==
    /\ run = "stopping" /\ th["run"].pc = "idle" /\ th["ticker"].pc = "idle"
    /\ th' = [th EXCEPT !["run"] = IF tun # 0 THEN Calls("run", "stop", tun, "runWait")
                                              ELSE Calls("run", "runWait", 0, "idle")]
    /\ UNCHANGED <<state, pageVars, wishVars, flagVars, tun, tunnels, loop, acctVars, secrVars,
                   lifeVars, codeVars, ciscoSeen, verdict>>

RunCancels ==
    /\ run = "stopping" /\ th["run"].pc = "idle" /\ th["ticker"].pc = "idle"
    /\ loop' = IF loop.pc = "off" THEN loop ELSE [loop EXCEPT !.cancelled = TRUE]
    /\ th' = [th EXCEPT !["run"] = IF tun # 0 THEN Calls("run", "stop", tun, "runWait")
                                              ELSE Calls("run", "runWait", 0, "idle")]
    /\ UNCHANGED <<state, pageVars, wishVars, flagVars, tun, tunnels, acctVars, secrVars,
                   lifeVars, codeVars, ciscoSeen, verdict>>

RunEnds ==
    /\ th["run"].pc = "runWait" /\ loop.pc = "off"
    /\ CloseAll
    /\ run' = "ended"
    /\ th' = [th EXCEPT !["run"] = IdleThread]
    /\ UNCHANGED <<state, wishVars, flagVars, tun, tunnels, loop, acctVars, secrVars, restarts,
                   signedFile, codeVars, ciscoSeen, verdict>>

\* The next core (a restarted service, the other half of the iPhone app): it reads the used
\* window and the last sign-in from the state folder.
Restart ==
    /\ run = "ended" /\ restarts < MaxRestarts
    /\ \A t \in Threads : th[t].pc = "idle"
    /\ restarts' = restarts + 1 /\ run' = "up"
    /\ signedIn' = IF signedFile.user = cfgUser /\ signedFile.host = cfgHost
                   THEN <<1, 1>> ELSE <<0, 0>>
    /\ secretsGen' = 0 /\ accountGen' = 0
    /\ state' = "idle"
    /\ explicit' = FALSE /\ demand' = FALSE /\ idle' = FALSE /\ wanted' = FALSE
    /\ onceCode' = FALSE /\ totpRetried' = FALSE /\ pausedByCisco' = FALSE
    /\ offlineRun' = 0
    /\ tun' = 0
    /\ ciscoSeen' = FALSE /\ verdict' = NoVerdict
    /\ UNCHANGED <<pageVars, lastStep, tunnels, loop, th, cfgUser, cfgHost, switching, setup,
                   stored, edits, signedFile, codeVars>>

-----------------------------------------------------------------------------
DisconnectSteps(t) ==
    ThreadClosesAll(t) \/ ThreadStops(t) \/ ThreadStopped(t) \/ LoopIsDone(t)
        \/ ThreadClosesIdle(t) \/ ThreadToIdle(t)

SetupSteps ==
    \/ SetupTearsDown \/ SetupSwitches \/ SetupStores \/ SetupFails
    \/ \E typed \in {FALSE, "code" \in Events} : SetupApplies(typed)

SecretsSteps(t) == SecretsChanged(t) \/ Reconnects(t)

TickerSteps ==
    (\E cisco \in CiscoAnswers : TickCisco(cisco)) \/ TickEnds

PageSteps(p) ==
    PageOpens(p) \/ PageLooksAgain(p) \/ PageEnds(p) \/ Traffic(p)

LoopSteps ==
    \/ LoopBegins \/ LoopWakes
    \/ \E cisco \in CiscoAnswers : LoopCisco(cisco)
    \/ \E online \in BOOLEAN : LoopProbe(online)
    \/ \E result \in Reads : PasswordIsRead(result) \/ TOTPIsRead(result)
    \/ ReadWhileChanging \/ ReadFailed \/ PasswordThere \/ TOTPThere
    \/ \E st \in StartErrors : StartFails(st)
    \/ StartReturns
    \/ \E ready \in BOOLEAN : WaitReadyEnds(ready)
    \/ JudgeGoingAway \/ JudgeConnected \/ JudgeStale \/ DropStale \/ LoopStops
    \/ JudgeStopped \/ JudgeSlow \/ JudgeError
    \/ \E message \in Rejections : JudgeRejected(message)
    \/ TunnelWasUp \/ LoopClosesAll \/ AfterUp \/ LoopCancelled

Next ==
    \/ RequestConnect \/ Disconnect
    \/ \E t \in Threads : DisconnectSteps(t) \/ SecretsSteps(t)
    \/ \E a \in Accounts : SetupBegins(a)
    \/ SetupSteps
    \/ SetPassword \/ SetTOTP \/ NoteCodeShown \/ TypeCode \/ CancelCode \/ JobWaits \/ JobEnds
    \/ TickChecksCisco \/ TickResumes \/ TickStopsIdle \/ TickerSteps
    \/ \E p \in Pages : PageSteps(p)
    \/ DemandEnds \/ IdleElapses \/ WindowEnds
    \/ LoopSteps
    \/ TunnelSpawns
    \/ \E i \in Ids : TunnelSendsCode(i) \/ TunnelOpensPort(i) \/ TunnelExits(i)
    \/ Stop \/ RunCancels \/ RunEnds \/ Restart

Spec == Init /\ [][Next]_vars

\* The calls of a thread come to an end, and every process that is told to stop exits (Stop
\* kills it after the grace time).  The ticker looks for Cisco Secure Client again and again.
\* Between two ticks its select finds the stop, sooner or later.  Nothing makes the user, a page
\* or the gateway do anything.
Fairness ==
    /\ WF_vars(LoopSteps) /\ WF_vars(TunnelSpawns)
    /\ \A t \in Threads : WF_vars(DisconnectSteps(t)) /\ WF_vars(SecretsSteps(t))
    /\ WF_vars(SetupSteps) /\ WF_vars(NoteCodeShown) /\ WF_vars(JobWaits) /\ WF_vars(JobEnds)
    /\ WF_vars(TickerSteps \/ (th["ticker"].pc # "idle" /\ TickStopsIdle))
    /\ WF_vars(TickChecksCisco)
    /\ \A i \in Ids : WF_vars(tunnels[i].byUs /\ TunnelExits(i))
    /\ SF_vars(RunCancels) /\ WF_vars(RunEnds)

FairSpec == Spec /\ Fairness
=============================================================================
