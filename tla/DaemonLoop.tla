----------------------------- MODULE DaemonLoop -----------------------------
(***************************************************************************)
(* connectLoop of internal/daemon/daemon.go, and the openconnect processes *)
(* it runs, as far as internal/tunnel/tunnel.go shows them to the loop.    *)
(***************************************************************************)
EXTENDS DaemonState

-----------------------------------------------------------------------------
\* The connect loop.  Every action but the calls' own ends is a stretch of connectLoop that
\* holds mu; after each call a cancelled loop returns at once (LoopCancelled).

Goes(pc) == loop' = [loop EXCEPT !.pc = pc]

\* The state the loop leaves behind when nothing wants a tunnel any more.
Rested(st) == IF st \in {"offline", "error", "connecting", "disconnecting"} THEN "idle" ELSE st

\* The head of the loop after a stretch that left state st and pages pg.
LoopHead(st, pg) ==
    \/ /\ ~HasDemand(pg)
       /\ state' = Rested(st)
       /\ page' = IF Rested(st) # st THEN Notified(pg) ELSE pg
       /\ loop' = LoopOff
       /\ UNCHANGED <<explicit, onceCode, verdict>>
    \/ /\ HasDemand(pg) /\ "ok" \in Preconditions
       /\ state' = st /\ page' = pg
       /\ loop' = [LoopOff EXCEPT !.pc = "cisco", !.cancelled = loop.cancelled]
       /\ UNCHANGED <<explicit, onceCode, verdict>>
    \/ /\ HasDemand(pg) /\ "not_elevated" \in Preconditions
       /\ state' = "error" /\ page' = Notified(pg)
       /\ loop' = LoopOff
       /\ explicit' = FALSE /\ onceCode' = FALSE /\ verdict' = NoVerdict
    \/ /\ HasDemand(pg) /\ "saml" \in Preconditions
       /\ state' = "auth_failed" /\ page' = Notified(pg)
       /\ loop' = LoopOff
       /\ explicit' = FALSE /\ verdict' = NoVerdict /\ UNCHANGED onceCode

\* `final`: the loop ends with a verdict, "connect now" is over.
EndsWith(st, by) ==
    /\ Show(st)
    /\ explicit' = FALSE
    /\ verdict' = [by |-> by, ver |-> loop.ver]
    /\ loop' = LoopOff

\* What no stretch of the loop touches.
LoopUnchanged == UNCHANGED <<demand, idle, wanted, th, acctVars, secrVars, run, restarts, codeVars>>

LoopBegins ==
    /\ loop.pc = "begin"
    /\ LoopHead(state, page)
    /\ LoopUnchanged
    /\ UNCHANGED <<woke, totpRetried, pausedByCisco, offlineRun, lastStep, signedIn, tun, tunnels,
                   signedFile, ciscoSeen>>

LoopWakes ==
    /\ loop.pc = "sleep" /\ ~loop.cancelled
    /\ LoopHead(state, page)
    /\ LoopUnchanged
    /\ UNCHANGED <<woke, totpRetried, pausedByCisco, offlineRun, lastStep, signedIn, tun, tunnels,
                   signedFile, ciscoSeen>>

LoopCisco(cisco) ==
    /\ loop.pc = "cisco" /\ ~loop.cancelled
    /\ ciscoSeen' = cisco
    /\ IF cisco THEN Show("blocked") /\ Goes("sleep")
                ELSE UNCHANGED <<state, page>> /\ Goes("probe")
    /\ LoopUnchanged
    /\ UNCHANGED <<explicit, woke, flagVars, tun, tunnels, signedFile, verdict>>

\* otpWait: the code of this window was used.
CodeIsUsed == NeedsTOTP /\ lastStep = now

LoopProbe(online) ==
    /\ loop.pc = "probe" /\ ~loop.cancelled
    /\ online \/ "offline" \in Events
    /\ IF ~online
       THEN /\ offlineRun' = IF offlineRun < AwayAfter THEN offlineRun + 1 ELSE AwayAfter
            /\ Show("offline") /\ Goes("sleep")
       ELSE /\ offlineRun' = 0
            /\ IF CodeIsUsed /\ ~onceCode
               THEN Show("connecting") /\ Goes("sleep")
               ELSE /\ UNCHANGED <<state, page>>
                    /\ loop' = [loop EXCEPT !.pc = "password", !.gen = secretsGen,
                                            !.acc = accountGen]
    /\ LoopUnchanged
    /\ UNCHANGED <<explicit, woke, onceCode, totpRetried, pausedByCisco, lastStep, signedIn, tun,
                   tunnels, signedFile, ciscoSeen, verdict>>

\* PasswordGetter reads the user (under mu) and then that user's password.
PasswordIsRead(result) ==
    /\ loop.pc = "password" /\ result # "auth_failed"
    /\ loop' = [loop EXCEPT !.pc = "passwordRead", !.owner = cfgUser, !.ver = stored[cfgUser],
                            !.result = result]
    /\ LoopUnchanged
    /\ UNCHANGED <<state, pageVars, explicit, flagVars, tun, tunnels, signedFile, ciscoSeen,
                   verdict>>

\* TOTPGetter, in the same way: a secret of another user makes the pair nobody's.
TOTPIsRead(result) ==
    /\ loop.pc = "totp"
    /\ loop' = [loop EXCEPT !.pc = "totpRead", !.result = result,
                            !.owner = IF @ = cfgUser THEN @ ELSE NoAccount]
    /\ LoopUnchanged
    /\ UNCHANGED <<state, pageVars, explicit, flagVars, tun, tunnels, signedFile, ciscoSeen,
                   verdict>>
\* Mutant: an account that was already put back or applied goes unnoticed.
SwitchingOnly == switching

\* An account being set up or just put back: what was read meanwhile may be the other
\* account's, no verdict on it and no sign-in with it.
Changing == switching \/ loop.acc # accountGen

\* Tunnels no thread refers to; the smallest one is the next run of openconnect.
FreeIds == {i \in Ids : i # tun /\ Exited(i) /\ \A t \in Threads : th[t].tgt # i}

\* TunnelFactory takes user and gateway from the settings of this moment; `typed`: with a
\* code the user typed, which signs in once.
StartsTunnel(typed) ==
    \E i \in FreeIds :
       /\ \A j \in FreeIds : i <= j
       /\ Show("connecting")
       /\ tun' = i
       /\ tunnels' = [tunnels EXCEPT ![i] = [Dead EXCEPT !.phase = "new", !.user = cfgUser,
                          !.host = cfgHost, !.owner = loop.owner, !.ver = loop.ver,
                          !.once = typed]]
       /\ loop' = [loop EXCEPT !.pc = "start", !.once = typed]
       /\ UNCHANGED <<explicit, verdict>>

\* Back with mu after a read: the account may be changing, then the read says nothing.
ReadWhileChanging ==
    /\ loop.pc \in {"passwordRead", "totpRead"} /\ ~loop.cancelled
    /\ Changing
    /\ IF switching
       THEN Goes("sleep") /\ UNCHANGED <<state, page, explicit, onceCode, verdict>>
       ELSE LoopHead(state, page)
    /\ LoopUnchanged
    /\ UNCHANGED <<woke, totpRetried, pausedByCisco, offlineRun, lastStep, signedIn, tun, tunnels,
                   signedFile, ciscoSeen>>

ReadFailed ==
    /\ loop.pc \in {"passwordRead", "totpRead"} /\ ~loop.cancelled
    /\ ~Changing /\ loop.result # "ok"
    /\ EndsWith(loop.result, "read")
    /\ LoopUnchanged
    /\ UNCHANGED <<woke, flagVars, tun, tunnels, signedFile, ciscoSeen>>

\* The password is there.  A typed code goes with it; else the secret is read next.
PasswordThere ==
    /\ loop.pc = "passwordRead" /\ ~loop.cancelled
    /\ ~Changing /\ loop.result = "ok"
    /\ IF NeedsTOTP /\ ~onceCode
       THEN /\ Goes("totp")
            /\ UNCHANGED <<state, page, explicit, onceCode, tun, tunnels, verdict>>
       ELSE StartsTunnel(NeedsTOTP) /\ onceCode' = FALSE
    /\ LoopUnchanged
    /\ UNCHANGED <<woke, totpRetried, pausedByCisco, offlineRun, lastStep, signedIn, signedFile,
                   ciscoSeen>>

TOTPThere ==
    /\ loop.pc = "totpRead" /\ ~loop.cancelled
    /\ ~Changing /\ loop.result = "ok"
    /\ StartsTunnel(FALSE)
    /\ LoopUnchanged
    /\ UNCHANGED <<woke, flagVars, signedFile, ciscoSeen>>

-----------------------------------------------------------------------------
\* The loop drops d.tun.  Nobody reads an exited tunnel again but to see that it exited.
Dropped == IF Exited(tun) THEN [tunnels EXCEPT ![tun] = Dead] ELSE tunnels

\* tun.Start failed before there was a process (also TunnelFactory, which makes none).
StartFails(st) ==
    /\ loop.pc = "start" /\ tunnels[tun].phase = "new"
    /\ tun' = 0
    /\ tunnels' = [tunnels EXCEPT ![tun] = Dead]
    /\ EndsWith(st, "read")
    /\ LoopUnchanged
    /\ UNCHANGED <<woke, flagVars, signedFile, ciscoSeen>>

\* Mutant: a stop that came before there was a process is forgotten.
NeverKilled == tunnels

\* The end of tun.Start: a stop that came while the process was being started kills it.
KilledIfStopped ==
    IF tunnels[tun].byUs /\ ~Exited(tun) THEN [tunnels EXCEPT ![tun].phase = "killed"] ELSE tunnels

\* tun.Start returned: the window of this moment counts as used.
StartReturns ==
    /\ loop.pc = "start" /\ tunnels[tun].phase # "new" /\ ~loop.cancelled
    /\ loop' = [loop EXCEPT !.pc = "waitReady", !.fresh = (lastStep # now)]
    /\ lastStep' = now
    /\ tunnels' = KilledIfStopped
    /\ LoopUnchanged
    /\ UNCHANGED <<state, pageVars, explicit, onceCode, totpRetried, pausedByCisco, offlineRun,
                   signedIn, tun, signedFile, ciscoSeen, verdict>>

\* WaitReady: the port opened, openconnect exited, or the time is up.
WaitReadyEnds(ready) ==
    /\ loop.pc = "waitReady"
    /\ ready => tunnels[tun].phase = "ready"
    /\ \/ ready \/ Exited(tun)
       \/ "slow" \in Events /\ tunnels[tun].phase # "killed"
    /\ loop' = [loop EXCEPT !.pc = "judge", !.ready = ready]
    /\ LoopUnchanged
    /\ UNCHANGED <<state, pageVars, explicit, flagVars, tun, tunnels, signedFile, ciscoSeen,
                   verdict>>

\* Mutant: the window openconnect's output names is ignored.
StartWindow == lastStep

\* OTPGeneratedAt: when openconnect really made its code.
CodeWindow == IF tunnels[tun].code # 0 THEN tunnels[tun].code ELSE lastStep

\* Mutant: a tunnel that is being stopped counts as connected.
NeverGoingAway == FALSE

\* A Disconnect (or a resume) came while the port opened.
GoingAway == tunnels[tun].byUs \/ state = "disconnecting"

JudgeGoingAway ==
    /\ loop.pc = "judge" /\ ~loop.cancelled /\ loop.ready /\ GoingAway
    /\ lastStep' = CodeWindow
    /\ Goes("awaitExit")
    /\ LoopUnchanged
    /\ UNCHANGED <<state, pageVars, explicit, onceCode, totpRetried, pausedByCisco, offlineRun,
                   signedIn, tun, tunnels, signedFile, ciscoSeen, verdict>>

\* Connected: "connect now" is fulfilled, from here on only real use counts.
JudgeConnected ==
    /\ loop.pc = "judge" /\ ~loop.cancelled /\ loop.ready /\ ~GoingAway
    /\ lastStep' = CodeWindow
    /\ totpRetried' = FALSE
    /\ signedIn' = <<loop.gen + 1, loop.acc + 1>>
    /\ signedFile' = [user |-> cfgUser, host |-> cfgHost, ver |-> loop.ver]
    /\ Show("connected")
    /\ explicit' = FALSE
    /\ NoteActivity
    /\ Goes("up")
    /\ UNCHANGED <<woke, wanted, onceCode, pausedByCisco, offlineRun, tun, tunnels, th, acctVars,
                   secrVars, run, restarts, codeVars, ciscoSeen, verdict>>
\* No tunnel came of it.  The secrets may have changed meanwhile: then the result says
\* nothing about the new ones.
NotReady ==
    /\ ~loop.cancelled
    /\ \/ loop.pc = "judge" /\ ~loop.ready
       \/ loop.pc = "awaitExit" /\ Exited(tun)
\* Mutant: changed secrets go unnoticed.
NeverStale == FALSE

Stale == loop.gen # secretsGen

AfterStop == IF pausedByCisco THEN "blocked" ELSE "idle"

JudgeStale ==
    /\ NotReady /\ Stale /\ ~Exited(tun)
    /\ lastStep' = CodeWindow
    /\ Goes("stopChanged")
    /\ LoopUnchanged
    /\ UNCHANGED <<state, pageVars, explicit, onceCode, totpRetried, pausedByCisco, offlineRun,
                   signedIn, tun, tunnels, signedFile, ciscoSeen, verdict>>

DropStale ==
    /\ \/ NotReady /\ Stale
       \/ loop.pc = "changedStopped" /\ ~loop.cancelled
    /\ Exited(tun)
    /\ lastStep' = CodeWindow
    /\ tun' = 0 /\ tunnels' = Dropped
    /\ IF tunnels[tun].byUs /\ state = "disconnecting"
       THEN pausedByCisco' = FALSE /\ LoopHead(AfterStop, Notified(page))
       ELSE UNCHANGED pausedByCisco /\ LoopHead(state, page)
    /\ LoopUnchanged
    /\ UNCHANGED <<woke, totpRetried, offlineRun, signedIn, signedFile, ciscoSeen>>

\* The loop's own calls of Stop.
LoopStops ==
    /\ loop.pc \in {"stopChanged", "stopSlow"}
    /\ tunnels' = MarkStopping(tun)
    /\ Goes(IF loop.pc = "stopSlow" THEN "slowStopped" ELSE "changedStopped")
    /\ LoopUnchanged
    /\ UNCHANGED <<state, pageVars, explicit, flagVars, tun, signedFile, ciscoSeen, verdict>>

\* Stopped by us: a RequestConnect in the meantime takes effect at the head of the loop.
JudgeStopped ==
    /\ NotReady /\ ~Stale /\ tunnels[tun].byUs
    /\ lastStep' = CodeWindow
    /\ tun' = 0 /\ tunnels' = Dropped
    /\ pausedByCisco' = FALSE
    /\ LoopHead(AfterStop, Notified(page))
    /\ LoopUnchanged
    /\ UNCHANGED <<woke, totpRetried, offlineRun, signedIn, signedFile, ciscoSeen>>

\* Mutant: a slow attempt is given up but not stopped.
JudgeSlowDrops ==
    /\ NotReady /\ ~Stale /\ ~tunnels[tun].byUs /\ ~Exited(tun)
    /\ lastStep' = CodeWindow
    /\ tun' = 0 /\ UNCHANGED tunnels
    /\ Show("error") /\ Goes("sleep")
    /\ LoopUnchanged
    /\ UNCHANGED <<woke, explicit, onceCode, totpRetried, pausedByCisco, offlineRun, signedIn,
                   signedFile, ciscoSeen, verdict>>

JudgeSlow ==
    /\ NotReady /\ ~Stale /\ ~tunnels[tun].byUs /\ ~Exited(tun)
    /\ lastStep' = CodeWindow
    /\ Goes("stopSlow")
    /\ LoopUnchanged
    /\ UNCHANGED <<state, pageVars, explicit, onceCode, totpRetried, pausedByCisco, offlineRun,
                   signedIn, tun, tunnels, signedFile, ciscoSeen, verdict>>

\* An error that may pass: the loop waits and tries again, unless a typed code is used up.
JudgeError ==
    /\ \/ NotReady /\ ~Stale /\ ~tunnels[tun].byUs
       \/ loop.pc = "slowStopped" /\ ~loop.cancelled
    /\ Exited(tun)
    /\ lastStep' = CodeWindow
    /\ tun' = 0 /\ tunnels' = Dropped
    /\ IF loop.once
       THEN Show("idle") /\ explicit' = FALSE /\ loop' = LoopOff
       ELSE Show("error") /\ Goes("sleep") /\ UNCHANGED explicit
    /\ LoopUnchanged
    /\ UNCHANGED <<woke, onceCode, totpRetried, pausedByCisco, offlineRun, signedIn, signedFile,
                   ciscoSeen, verdict>>

Rejections == CASE Mfa = "none" -> {"auth"}
                [] Mfa = "totp_field" -> {"auth", "totp"}
                [] Mfa = "totp_append" -> {"auth", "append"}

\* The code alone may be to blame: another device can have used this window's code.
CodeOnly(message) ==
    \/ message = "totp"
    \/ message = "append" /\ signedIn = <<loop.gen + 1, loop.acc + 1>>
OnceMore(message) == CodeOnly(message) /\ loop.fresh /\ ~loop.once /\ ~totpRetried

JudgeRejected(message) ==
    /\ NotReady /\ ~Stale /\ ~tunnels[tun].byUs /\ Exited(tun)
    /\ lastStep' = CodeWindow
    /\ tun' = 0 /\ tunnels' = Dropped
    /\ IF OnceMore(message)
       THEN /\ totpRetried' = TRUE
            /\ LoopHead(state, page)
            /\ UNCHANGED <<signedIn, signedFile>>
       ELSE /\ EndsWith("auth_failed", "gateway")
            /\ IF message = "append"
               THEN signedIn' = <<0, 0>> /\ signedFile' = NoSignIn
               ELSE UNCHANGED <<signedIn, signedFile>>
            /\ UNCHANGED <<onceCode, totpRetried>>
    /\ LoopUnchanged
    /\ UNCHANGED <<woke, pausedByCisco, offlineRun, ciscoSeen>>

\* The tunnel was up and has exited: its connections are closed, then the loop goes on.
TunnelWasUp ==
    /\ loop.pc = "up" /\ ~loop.cancelled /\ Exited(tun)
    /\ tun' = 0 /\ tunnels' = Dropped
    /\ loop' = [loop EXCEPT !.pc = "closing", !.stopped = tunnels[tun].byUs]
    /\ LoopUnchanged
    /\ UNCHANGED <<state, pageVars, explicit, flagVars, signedFile, ciscoSeen, verdict>>

LoopClosesAll ==
    /\ loop.pc = "closing"
    /\ CloseAll
    /\ Goes("closed")
    /\ LoopUnchanged
    /\ UNCHANGED <<state, explicit, flagVars, tun, tunnels, signedFile, ciscoSeen, verdict>>

\* Mutant: a tunnel nobody misses ends without a new state.
AfterUpSilent ==
    /\ loop.pc = "closed" /\ ~loop.cancelled
    /\ \/ /\ loop.stopped
          /\ pausedByCisco' = FALSE
          /\ LoopHead(AfterStop, Notified(page))
       \/ /\ ~loop.stopped
          /\ IF HasDemand(page)
             THEN Show("error") /\ Goes("sleep")
             ELSE UNCHANGED <<state, page>> /\ loop' = LoopOff
          /\ UNCHANGED <<explicit, onceCode, pausedByCisco, verdict>>
    /\ LoopUnchanged
    /\ UNCHANGED <<woke, totpRetried, offlineRun, lastStep, signedIn, tun, tunnels, signedFile,
                   ciscoSeen>>

AfterUp ==
    /\ loop.pc = "closed" /\ ~loop.cancelled
    /\ \/ /\ loop.stopped
          /\ pausedByCisco' = FALSE
          /\ LoopHead(AfterStop, Notified(page))
       \/ /\ ~loop.stopped
          /\ IF HasDemand(page)
             THEN Show("error") /\ Goes("sleep")
             ELSE Show("idle") /\ loop' = LoopOff
          /\ UNCHANGED <<explicit, onceCode, pausedByCisco, verdict>>
    /\ LoopUnchanged
    /\ UNCHANGED <<woke, totpRetried, offlineRun, lastStep, signedIn, tun, tunnels, signedFile,
                   ciscoSeen>>

\* The cancelled loop is back from a call.
BackFromCall ==
    CASE loop.pc \in {"off", "begin", "waitReady", "stopChanged", "stopSlow", "closing"} -> FALSE
      [] loop.pc = "start" -> tunnels[tun].phase # "new"
      [] loop.pc \in {"changedStopped", "slowStopped"} -> Exited(tun)
      [] OTHER -> TRUE

LoopCancelled ==
    /\ loop.cancelled /\ BackFromCall
    /\ loop' = LoopOff
    /\ tunnels' = IF loop.pc = "start" THEN KilledIfStopped ELSE tunnels
    /\ LoopUnchanged
    /\ UNCHANGED <<state, pageVars, explicit, flagVars, tun, signedFile, ciscoSeen,
                   verdict>>

-----------------------------------------------------------------------------
\* openconnect, run i.
TunnelUnchanged == UNCHANGED <<state, pageVars, wishVars, flagVars, tun, loop, th, acctVars,
                               secrVars, lifeVars, now, ciscoSeen, verdict>>

\* Start has its process.
TunnelSpawns ==
    /\ loop.pc = "start" /\ tunnels[tun].phase = "new"
    /\ tunnels' = [tunnels EXCEPT ![tun].phase = "up"]
    /\ used' = used /\ TunnelUnchanged

\* It sends the code of the window it is in.
TunnelSendsCode(i) ==
    /\ tunnels[i].phase = "up" /\ NeedsTOTP /\ ~tunnels[i].once /\ tunnels[i].code = 0
    /\ tunnels' = [tunnels EXCEPT ![i].code = now]
    /\ used' = used \cup {now}
    /\ TunnelUnchanged

TunnelOpensPort(i) ==
    /\ tunnels[i].phase = "up"
    /\ (NeedsTOTP /\ ~tunnels[i].once) => tunnels[i].code # 0
    /\ tunnels' = [tunnels EXCEPT ![i].phase = "ready"]
    /\ used' = used /\ TunnelUnchanged

TunnelExits(i) ==
    /\ tunnels[i].phase \in {"up", "ready", "killed"}
    /\ tunnels' = [tunnels EXCEPT ![i] = IF i = tun THEN [@ EXCEPT !.phase = "exited"] ELSE Dead]
    /\ used' = used /\ TunnelUnchanged
=============================================================================
