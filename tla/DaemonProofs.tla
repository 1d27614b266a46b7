---------------------------- MODULE DaemonProofs ----------------------------
(***************************************************************************)
(* Safety of Daemon, for every value of the constants.                     *)
(*  - Types: they alone are not inductive, as the loop reads               *)
(*    tunnels[tun], Restart clears tun, and completeSetup copies the one   *)
(*    in `setup`; TypeInv adds when tun and setup hold one and that an     *)
(*    ended program runs no loop.                                          *)
(*  - No openconnect signs in with one account's password at another's     *)
(*    gateway: AccountInv follows what completeSetup does to the account   *)
(*    under the loop's reads.                                              *)
(*  - A refusal of old secrets is never shown as one of the new ones, and  *)
(*    a typed code is gone when its job is: SecretsInv counts the edits    *)
(*    secretsChanged has not been told of yet, and dates what the loop has *)
(*    read by the secretsGen it noted before.                              *)
(*  - No openconnect is forgotten while it runs, and none survives the     *)
(*    program: StopInv follows d.tun and the calls of Stop.                *)
(*  - A Disconnect holds, as long as one kind of withdrawal can happen:    *)
(*    WishInv says what may still run while nobody asks.                   *)
(*  - No code goes twice, as long as the sign-ins are the core's own and   *)
(*    end in time: CodeTimesInv dates the marks against the attempt.       *)
(***************************************************************************)
EXTENDS DaemonProperties, TLAPS

\* While the loop is at one of these, d.tun is the attempt it works on.
TunnelPcs == {"start", "waitReady", "judge", "awaitExit", "stopChanged", "changedStopped",
              "stopSlow", "slowStopped", "up"}
LoopHasTunnel == loop.pc \in TunnelPcs => tun \in Ids

\* completeSetup knows the account it switches to, and the one it may have to put back.
SetupPcs == {"teardown", "switch", "storing", "writing"}
SetupRuns == th["setup"].pc \in SetupPcs \/ th["setup"].ret = "switch"
SetupNames == SetupRuns => setup.to \in Accounts /\ setup.prev \in Accounts

EndedIsOff == run = "ended" => loop.pc = "off"

TypeInv == TypeOK /\ LoopHasTunnel /\ SetupNames /\ EndedIsOff

-----------------------------------------------------------------------------
\* What the operators of the model return.

LEMMA LoopOffType == LoopOff \in LoopType /\ LoopOff.pc = "off"
  BY DEF LoopOff, LoopType, LoopPcs, AnyAccount

LEMMA DeadType == Dead \in TunnelType /\ Dead.phase = "exited"
  BY DaemonAssumption DEF Dead, TunnelType, Phases, AnyAccount

LEMMA IdleType == IdleThread \in ThreadType /\ IdleThread.pc = "idle" /\ IdleThread.ret = "idle"
  BY DEF IdleThread, ThreadType, ThreadPcs, RetPcs

LEMMA NoneTypes == NoSetup \in SetupType /\ NoSignIn \in SignInType /\ NoVerdict \in VerdictType
  BY DEF NoSetup, SetupType, NoSignIn, SignInType, NoVerdict, VerdictType, AnyAccount

\* The loop goes on at pc.
LEMMA LoopAt ==
  ASSUME NEW l \in LoopType, NEW pc \in LoopPcs
  PROVE  [l EXCEPT !.pc = pc] \in LoopType /\ [l EXCEPT !.pc = pc].pc = pc
  BY DEF LoopType

\* A thread goes on at pc.
LEMMA ThreadAt ==
  ASSUME NEW r \in ThreadType, NEW pc \in ThreadPcs
  PROVE  /\ [r EXCEPT !.pc = pc] \in ThreadType
         /\ [r EXCEPT !.pc = pc].pc = pc /\ [r EXCEPT !.pc = pc].ret = r.ret
  BY DEF ThreadType

LEMMA NotifiedType ==
  ASSUME NEW pg \in [Pages -> PageStates] PROVE Notified(pg) \in [Pages -> PageStates]
  BY DEF Notified, PageStates

LEMMA NoPagesType == NoPages \in [Pages -> PageStates]
  BY DEF NoPages, PageStates

\* ensureLoop starts a loop, or leaves things as they are; never once the service stops.
LEMMA EnsuredType ==
  ASSUME TypeOK
  PROVE  /\ Ensured \in LoopType
         /\ Ensured = loop \/ (run = "up" /\ Ensured.pc = "begin")
<1> DEFINE l == [LoopOff EXCEPT !.pc = "begin"]
<1>1. l \in LoopType /\ l.pc = "begin"
  BY LoopOffType, LoopAt DEF LoopPcs
<1> QED BY <1>1 DEF Ensured, TypeOK

LEMMA CallsType ==
  ASSUME TypeOK, NEW t \in Threads, NEW pc \in ThreadPcs, NEW i \in Ids \cup {0},
         NEW ret \in RetPcs
  PROVE  /\ Calls(t, pc, i, ret) \in ThreadType
         /\ Calls(t, pc, i, ret).pc = pc /\ Calls(t, pc, i, ret).ret = ret
         /\ Calls(t, pc, i, ret).tgt = i
  BY DEF TypeOK, Calls, ThreadType

LEMMA ReturnedType ==
  ASSUME TypeOK, NEW t \in Threads
  PROVE  /\ Returned(t) \in ThreadType
         /\ Returned(t).pc = th[t].ret /\ Returned(t).ret = "idle" /\ Returned(t).tgt = 0
  BY ZenonT(40) DEF TypeOK, Returned, ThreadType, RetPcs, ThreadPcs

LEMMA RacedType ==
  ASSUME NEW f \in [Threads -> ThreadType]
  PROVE  /\ Raced(f) \in [Threads -> ThreadType]
         /\ \A t \in Threads : /\ Raced(f)[t].pc = f[t].pc
                               /\ Raced(f)[t].ret = f[t].ret
                               /\ Raced(f)[t].tgt = f[t].tgt
  BY DEF Raced, ThreadType

\* A thread that is not in completeSetup does not get there.
LEMMA ThreadBecomes ==
  ASSUME TypeOK, NEW t \in Threads, NEW r \in ThreadType, th' = [th EXCEPT ![t] = r],
         t = "setup" /\ (r.pc \in SetupPcs \/ r.ret = "switch") => SetupRuns
  PROVE  th' \in [Threads -> ThreadType] /\ (SetupRuns' => SetupRuns)
  BY DEF TypeOK, SetupRuns, Threads

LEMMA ThreadGoesTo ==
  ASSUME TypeOK, NEW t \in Threads, NEW pc \in ThreadPcs, th' = [th EXCEPT ![t].pc = pc],
         t = "setup" /\ pc \in SetupPcs => SetupRuns
  PROVE  th' \in [Threads -> ThreadType] /\ (SetupRuns' => SetupRuns)
<1>1. th' = [th EXCEPT ![t] = [th[t] EXCEPT !.pc = pc]]
  OBVIOUS
<1> DEFINE r == [th[t] EXCEPT !.pc = pc]
<1>2. r \in ThreadType /\ r.pc = pc /\ r.ret = th[t].ret
  BY ThreadAt DEF TypeOK
<1>3. t = "setup" /\ (r.pc \in SetupPcs \/ r.ret = "switch") => SetupRuns
  BY <1>2 DEF SetupRuns
<1> HIDE DEF r
<1> QED BY <1>1, <1>2, <1>3, ThreadBecomes DEF r

\* A thread's call returns.
LEMMA ThreadReturns ==
  ASSUME TypeOK, NEW t \in Threads, th' = [th EXCEPT ![t] = Returned(t)]
  PROVE  th' \in [Threads -> ThreadType] /\ (SetupRuns' => SetupRuns)
<1>1. th[t].ret \in RetPcs
  BY DEF TypeOK, ThreadType
<1> QED BY <1>1, ReturnedType, ThreadBecomes DEF SetupRuns, SetupPcs, RetPcs

LEMMA ThreadRests ==
  ASSUME TypeOK, NEW t \in Threads, th' = [th EXCEPT ![t] = IdleThread]
  PROVE  th' \in [Threads -> ThreadType] /\ (SetupRuns' => SetupRuns)
  BY IdleType, ThreadBecomes DEF SetupPcs

\* A thread calls Stop or RequestDisconnect.
LEMMA ThreadCalls ==
  ASSUME TypeOK, NEW t \in Threads, NEW pc \in ThreadPcs \ SetupPcs, NEW i \in Ids \cup {0},
         NEW ret \in RetPcs \ {"switch"}, th' = [th EXCEPT ![t] = Calls(t, pc, i, ret)]
  PROVE  th' \in [Threads -> ThreadType] /\ (SetupRuns' => SetupRuns)
<1> DEFINE r == Calls(t, pc, i, ret)
<1>1. r \in ThreadType /\ r.pc \notin SetupPcs /\ r.ret # "switch"
  BY CallsType
<1> HIDE DEF r
<1> QED BY <1>1, ThreadBecomes DEF r

LEMMA ConnectLockedType ==
  ASSUME TypeOK, ConnectLocked
  PROVE  /\ state' \in States /\ page' \in [Pages -> PageStates] /\ verdict' \in VerdictType
         /\ explicit' \in BOOLEAN /\ demand' \in BOOLEAN /\ idle' \in BOOLEAN
         /\ wanted' \in BOOLEAN /\ totpRetried' \in BOOLEAN
         /\ loop' \in LoopType
         /\ loop' = loop \/ (run = "up" /\ loop'.pc = "begin")
<1>1. state' \in States /\ page' \in [Pages -> PageStates]
  BY NotifiedType DEF ConnectLocked, TypeOK, Show, States
<1> QED
  BY <1>1, NoneTypes, EnsuredType DEF ConnectLocked, NoteActivity

LEMMA MarkType ==
  ASSUME TypeOK, NEW i \in Ids \cup {0}
  PROVE  MarkStopping(i) \in [Ids -> TunnelType]
  BY ZenonT(40) DEF TypeOK, MarkStopping, TunnelType

\* RequestDisconnect, which the setup calls to go on at "switch".
LEMMA DisconnectKeepsTypes ==
  ASSUME TypeInv, NEW t \in Threads, NEW ret \in RetPcs, ret = "switch" /\ t = "setup" =>
         SetupRuns,
         th[t].pc \in {"idle", "teardown"}, RequestDisconnect(t, ret)
  PROVE  TypeInv'
<1> USE DEF TypeInv, TypeOK, acctVars, secrVars, codeVars, lifeVars, flagVars, wishVars,
      pageVars, RequestDisconnect
<1>1. state' \in States /\ page' \in [Pages -> PageStates]
  BY NotifiedType DEF Show, States
<1>2. loop' \in LoopType /\ loop'.pc = loop.pc
  BY DEF LoopType
<1>3. PICK pc \in {"closeAll", "waitDone", "closeIdle"}, i \in Ids \cup {0} :
           th' = Raced([th EXCEPT ![t] = Calls(t, pc, i, ret)])
  BY ZenonT(40)
<1> DEFINE f == [th EXCEPT ![t] = Calls(t, pc, i, ret)]
<1>4. Calls(t, pc, i, ret) \in ThreadType /\ Calls(t, pc, i, ret).pc = pc /\ Calls(t, pc, i,
      ret).ret = ret
  BY CallsType DEF ThreadPcs
<1>5. f \in [Threads -> ThreadType]
  BY <1>4
<1>6. th' \in [Threads -> ThreadType] /\ th'["setup"].pc = f["setup"].pc /\
      th'["setup"].ret = f["setup"].ret
  BY <1>3, <1>5, RacedType DEF Threads
<1>7. SetupRuns' => SetupRuns
  BY <1>4, <1>6 DEF SetupRuns, SetupPcs, Threads
<1> QED
  BY ZenonT(40), <1>1, <1>2, <1>6, <1>7 DEF LoopHasTunnel, SetupNames, EndedIsOff, TunnelPcs

\* The steps of a RequestDisconnect or a Stop under way.
LEMMA DisconnectStepsKeepTypes ==
  ASSUME TypeInv, NEW t \in Threads, DisconnectSteps(t)
  PROVE  TypeInv'
<1> USE DEF TypeInv, TypeOK, acctVars, secrVars, codeVars, lifeVars, flagVars, wishVars, pageVars
<1>1. CASE ThreadClosesAll(t)
  <2>1. page' \in [Pages -> PageStates] /\ woke' \in SUBSET Pages
    BY <1>1, NoPagesType DEF ThreadClosesAll, CloseAll
  <2>2. th' \in [Threads -> ThreadType] /\ (SetupRuns' => SetupRuns)
    BY ZenonT(40), <1>1, ThreadGoesTo DEF ThreadClosesAll, ThreadPcs, RetPcs, SetupPcs
  <2> QED
    BY <1>1, <2>1, <2>2
    DEF ThreadClosesAll, LoopHasTunnel, SetupNames, EndedIsOff, TunnelPcs
<1>2. CASE ThreadStops(t)
  <2>1. tunnels' \in [Ids -> TunnelType]
    BY <1>2, MarkType DEF ThreadStops, ThreadType
  <2>2. th' \in [Threads -> ThreadType] /\ (SetupRuns' => SetupRuns)
    BY ZenonT(40), <1>2, ThreadGoesTo, ThreadReturns DEF ThreadStops, ThreadPcs, RetPcs, SetupPcs
  <2> QED
    BY <1>2, <2>1, <2>2
    DEF ThreadStops, LoopHasTunnel, SetupNames, EndedIsOff, TunnelPcs
<1>3. CASE ThreadStopped(t)
  <2>1. th' \in [Threads -> ThreadType] /\ (SetupRuns' => SetupRuns)
    BY <1>3, ThreadReturns DEF ThreadStopped, ThreadPcs, RetPcs, SetupPcs
  <2> QED
    BY <1>3, <2>1
    DEF ThreadStopped, LoopHasTunnel, SetupNames, EndedIsOff, TunnelPcs
<1>4. CASE LoopIsDone(t)
  <2>1. th' \in [Threads -> ThreadType] /\ (SetupRuns' => SetupRuns)
    BY <1>4, ThreadGoesTo DEF LoopIsDone, ThreadPcs, RetPcs, SetupPcs
  <2> QED
    BY <1>4, <2>1
    DEF LoopIsDone, LoopHasTunnel, SetupNames, EndedIsOff, TunnelPcs
<1>5. CASE ThreadClosesIdle(t)
  <2>1. page' \in [Pages -> PageStates] /\ woke' \in SUBSET Pages
    BY <1>5, NoPagesType DEF ThreadClosesIdle, CloseAll
  <2>2. th' \in [Threads -> ThreadType] /\ (SetupRuns' => SetupRuns)
    BY ZenonT(40), <1>5, ThreadGoesTo DEF ThreadClosesIdle, ThreadPcs, RetPcs, SetupPcs
  <2> QED
    BY <1>5, <2>1, <2>2
    DEF ThreadClosesIdle, LoopHasTunnel, SetupNames, EndedIsOff, TunnelPcs
<1>6. CASE ThreadToIdle(t)
  <2>1. state' \in States /\ page' \in [Pages -> PageStates]
    BY <1>6, NotifiedType DEF ThreadToIdle, Show, States
  <2>2. th' \in [Threads -> ThreadType] /\ (SetupRuns' => SetupRuns)
    BY ZenonT(40), <1>6, ThreadReturns DEF ThreadToIdle, ThreadPcs, RetPcs, SetupPcs
  <2> QED
    BY <1>6, <2>1, <2>2
    DEF ThreadToIdle, LoopHasTunnel, SetupNames, EndedIsOff, TunnelPcs
<1> QED BY <1>1, <1>2, <1>3, <1>4, <1>5, <1>6 DEF DisconnectSteps

\* secretsChanged, and the connect button.
LEMMA SecretsStepsKeepTypes ==
  ASSUME TypeInv, NEW t \in Threads, RequestConnect \/ SecretsSteps(t)
  PROVE  TypeInv'
<1> USE DEF TypeInv, TypeOK, acctVars, secrVars, codeVars, lifeVars, flagVars, wishVars, pageVars
<1>1. CASE RequestConnect
  <2>1. /\ state' \in States /\ page' \in [Pages -> PageStates] /\ verdict' \in VerdictType
        /\ explicit' \in BOOLEAN /\ demand' \in BOOLEAN /\ idle' \in BOOLEAN
        /\ wanted' \in BOOLEAN /\ totpRetried' \in BOOLEAN
        /\ loop' \in LoopType
        /\ loop' = loop \/ (run = "up" /\ loop'.pc = "begin")
    BY <1>1, ConnectLockedType DEF RequestConnect
  <2> QED
    BY <1>1, <2>1
    DEF RequestConnect, SetupRuns, LoopHasTunnel, SetupNames, EndedIsOff, TunnelPcs
<1>2. CASE SecretsChanged(t)
  <2>1. /\ state' \in States /\ page' \in [Pages -> PageStates] /\ verdict' \in VerdictType
        /\ explicit' \in BOOLEAN /\ demand' \in BOOLEAN /\ idle' \in BOOLEAN
        /\ wanted' \in BOOLEAN /\ totpRetried' \in BOOLEAN
        /\ loop' \in LoopType
        /\ loop' = loop \/ (run = "up" /\ loop'.pc = "begin")
    BY <1>2, ConnectLockedType DEF SecretsChanged
  <2>2. th' \in [Threads -> ThreadType] /\ (SetupRuns' => SetupRuns)
    BY SMTT(30), <1>2, ThreadCalls, ThreadRests DEF SecretsChanged, ThreadPcs, RetPcs, SetupPcs
  <2>3. signedFile' \in SignInType
    BY <1>2, NoneTypes DEF SecretsChanged
  <2> QED
    BY <1>2, <2>1, <2>2, <2>3
    DEF SecretsChanged, LoopHasTunnel, SetupNames, EndedIsOff, TunnelPcs
<1>3. CASE Reconnects(t)
  <2>1. /\ state' \in States /\ page' \in [Pages -> PageStates] /\ verdict' \in VerdictType
        /\ explicit' \in BOOLEAN /\ demand' \in BOOLEAN /\ idle' \in BOOLEAN
        /\ wanted' \in BOOLEAN /\ totpRetried' \in BOOLEAN
        /\ loop' \in LoopType
        /\ loop' = loop \/ (run = "up" /\ loop'.pc = "begin")
    BY <1>3, ConnectLockedType DEF Reconnects
  <2>2. th' \in [Threads -> ThreadType] /\ (SetupRuns' => SetupRuns)
    BY ZenonT(40), <1>3, ThreadRests DEF Reconnects, ThreadPcs, RetPcs, SetupPcs
  <2> QED
    BY <1>3, <2>1, <2>2
    DEF Reconnects, LoopHasTunnel, SetupNames, EndedIsOff, TunnelPcs
<1> QED BY <1>1, <1>2, <1>3 DEF SecretsSteps

\* completeSetup.
LEMMA SetupStepsKeepTypes ==
  ASSUME TypeInv, NEW a \in Accounts, SetupSteps \/ SetupBegins(a)
  PROVE  TypeInv'
<1> USE DEF TypeInv, TypeOK, acctVars, secrVars, codeVars, lifeVars, flagVars, wishVars, pageVars
<1>1. CASE SetupBegins(a)
  <2>1. setup' \in SetupType /\ setup'.to \in Accounts /\ setup'.prev \in Accounts
    BY <1>1 DEF SetupBegins, SetupType, AnyAccount
  <2>2. th' \in [Threads -> ThreadType]
    BY <1>1 DEF SetupBegins, ThreadType, ThreadPcs, Threads
  <2> QED
    BY <1>1, <2>1, <2>2
    DEF SetupBegins, LoopHasTunnel, SetupNames, EndedIsOff, TunnelPcs
<1>2. CASE SetupTearsDown
  <2>1. SetupRuns
    BY <1>2 DEF SetupTearsDown, SetupRuns, SetupPcs
  <2>2. TypeInv'
    BY <1>2, <2>1, DisconnectKeepsTypes DEF SetupTearsDown, Threads, RetPcs
  <2> QED
    BY <1>2, <2>1, <2>2
    DEF SetupTearsDown, LoopHasTunnel, SetupNames, EndedIsOff, TunnelPcs
<1>3. CASE SetupSwitches
  <2>1. SetupRuns
    BY <1>3 DEF SetupSwitches, SetupRuns, SetupPcs
  <2>2. th' \in [Threads -> ThreadType]
    BY <1>3 DEF SetupSwitches, ThreadType, ThreadPcs, Threads
  <2> QED
    BY <1>3, <2>1, <2>2
    DEF SetupSwitches, LoopHasTunnel, SetupNames, EndedIsOff, TunnelPcs
<1>4. CASE SetupStores
  <2>1. SetupRuns
    BY <1>4 DEF SetupStores, SetupRuns, SetupPcs
  <2>2. stored' \in [Accounts -> Nat]
    BY <1>4 DEF SetupStores, SetupType
  <2>3. th' \in [Threads -> ThreadType]
    BY <1>4 DEF SetupStores, ThreadType, ThreadPcs, Threads
  <2> QED
    BY <1>4, <2>1, <2>2, <2>3
    DEF SetupStores, LoopHasTunnel, SetupNames, EndedIsOff, TunnelPcs
<1>5. CASE SetupFails
  <2>1. SetupRuns
    BY <1>5 DEF SetupFails, SetupRuns, SetupPcs
  <2>2. th' \in [Threads -> ThreadType]
    BY <1>5, IdleType DEF SetupFails
  <2>3. ~SetupRuns'
    BY <1>5, <2>2, <2>2, IdleType DEF SetupFails, SetupRuns, SetupPcs, Threads
  <2>4. cfgUser' \in Accounts /\ signedFile' \in SignInType /\ setup' \in SetupType
    BY <1>5, <2>1, NoneTypes DEF SetupFails, SetupNames
  <2>5. switching' \in BOOLEAN
    BY <1>5 DEF SetupFails
  <2>6. accountGen' \in Nat
    BY <1>5 DEF SetupFails
  <2>7. UNCHANGED <<state, pageVars, wishVars, flagVars, tun, tunnels, loop, cfgHost, secrVars,
                      run, restarts, codeVars, ciscoSeen, verdict>>
    BY <1>5 DEF SetupFails
  <2> QED
    BY <2>1, <2>2, <2>3, <2>4, <2>5, <2>6, <2>7
    DEF LoopHasTunnel, SetupNames, EndedIsOff, TunnelPcs
<1>6. ASSUME NEW typed \in {FALSE, "code" \in Events}, SetupApplies(typed) PROVE TypeInv'
  <2>1. SetupRuns
    BY <1>6 DEF SetupApplies, SetupRuns, SetupPcs
  <2>2. state' \in States /\ page' \in [Pages -> PageStates] /\ onceCode' \in BOOLEAN
    BY <1>6, NotifiedType DEF SetupApplies, Show, States
  <2>3. th' = [th EXCEPT !["setup"] = th'["setup"], !["job"] = th'["job"]]
    BY <1>6 DEF SetupApplies, Threads
  <2>4. th'["setup"] \in ThreadType /\ th'["setup"].pc = "changed" /\ th'["setup"].ret = "idle"
    BY <1>6 DEF SetupApplies, IdleThread, Threads, ThreadType, ThreadPcs, RetPcs
  <2>5. th'["job"] \in ThreadType
    BY <1>6 DEF SetupApplies, JobStart, Threads, ThreadType, ThreadPcs
  <2>6. th' \in [Threads -> ThreadType] /\ ~SetupRuns'
    BY <1>6, <2>3, <2>4, <2>5 DEF SetupApplies, SetupRuns, SetupPcs, Threads
  <2>7. cfgHost' \in Accounts /\ signedFile' \in SignInType /\ setup' \in SetupType
    BY <1>6, <2>1, NoneTypes DEF SetupApplies, SetupNames
  <2>8. switching' \in BOOLEAN
    BY <1>6 DEF SetupApplies
  <2>9. accountGen' \in Nat /\ offlineRun' \in 0..AwayAfter
    BY <1>6 DEF SetupApplies, AwayAfter
  <2>10. UNCHANGED <<woke, wishVars, totpRetried, pausedByCisco, lastStep, signedIn, tun, tunnels,
                      loop, cfgUser, secrVars, run, restarts, codeVars, ciscoSeen, verdict>>
    BY <1>6 DEF SetupApplies
  <2>11. TypeOK'
    BY <1>6, <2>2, <2>6, <2>7, <2>8, <2>9, <2>10 DEF SetupApplies
  <2> QED
    BY <2>6, <2>10, <2>11
    DEF LoopHasTunnel, SetupNames, EndedIsOff, TunnelPcs
<1> QED BY <1>1, <1>2, <1>3, <1>4, <1>5, <1>6 DEF SetupSteps

\* New secrets and the typed code.
LEMMA EditStepsKeepTypes ==
  ASSUME TypeInv, SetPassword \/ SetTOTP \/ NoteCodeShown \/ TypeCode \/ CancelCode \/
         JobWaits \/ JobEnds
  PROVE  TypeInv'
<1> USE DEF TypeInv, TypeOK, acctVars, secrVars, codeVars, lifeVars, flagVars, wishVars, pageVars
<1>1. CASE SetPassword
  <2>1. stored' \in [Accounts -> Nat]
    BY <1>1 DEF SetPassword, EditStores
  <2>2. th' \in [Threads -> ThreadType] /\ (SetupRuns' => SetupRuns)
    BY SMTT(30), <1>1, ThreadGoesTo DEF SetPassword, EditStores, Threads, ThreadPcs, SetupPcs
  <2> QED
    BY <1>1, <2>1, <2>2
    DEF SetPassword, EditStores, LoopHasTunnel, SetupNames, EndedIsOff, TunnelPcs
<1>2. CASE SetTOTP
  <2>1. stored' \in [Accounts -> Nat]
    BY <1>2 DEF SetTOTP, EditStores
  <2>2. th' \in [Threads -> ThreadType] /\ (SetupRuns' => SetupRuns)
    BY SMTT(30), <1>2, ThreadGoesTo DEF SetTOTP, EditStores, Threads, ThreadPcs, SetupPcs
  <2> QED
    BY <1>2, <2>1, <2>2
    DEF SetTOTP, EditStores, LoopHasTunnel, SetupNames, EndedIsOff, TunnelPcs
<1>3. CASE NoteCodeShown
  <2>1. th' \in [Threads -> ThreadType] /\ (SetupRuns' => SetupRuns)
    BY <1>3, ThreadGoesTo DEF NoteCodeShown, Threads, ThreadPcs, SetupPcs
  <2>2. lastStep' \in 0..MaxWindow /\ used' \in SUBSET (1..MaxWindow)
    BY <1>3, DaemonAssumption DEF NoteCodeShown
  <2> QED
    BY <1>3, <2>1, <2>2
    DEF NoteCodeShown, LoopHasTunnel, SetupNames, EndedIsOff, TunnelPcs
<1>4. CASE TypeCode
  <2>1. state' \in States /\ page' \in [Pages -> PageStates]
    BY <1>4, NotifiedType DEF TypeCode, Show, States
  <2>2. th' \in [Threads -> ThreadType] /\ (SetupRuns' => SetupRuns)
    BY SMTT(30), <1>4
    DEF TypeCode, IdleThread, JobStart, ThreadType, ThreadPcs, RetPcs, SetupRuns, SetupPcs,
        Threads
  <2> QED
    BY <1>4, <2>1, <2>2
    DEF TypeCode, LoopHasTunnel, SetupNames, EndedIsOff, TunnelPcs
<1>5. CASE CancelCode
  <2>1. th' \in [Threads -> ThreadType] /\ (SetupRuns' => SetupRuns)
    BY <1>5, ThreadRests DEF CancelCode, Threads
  <2>2. onceCode' \in BOOLEAN /\ JobUnchanged
    BY <1>5 DEF CancelCode
  <2> QED
    BY <2>1, <2>2
    DEF JobUnchanged, LoopHasTunnel, SetupNames, EndedIsOff, TunnelPcs
<1>6. CASE JobWaits
  <2>1. th' \in [Threads -> ThreadType] /\ (SetupRuns' => SetupRuns)
    BY <1>6, ThreadGoesTo DEF JobWaits, Threads, ThreadPcs, SetupPcs
  <2> QED
    BY <1>6, <2>1
    DEF JobWaits, JobUnchanged, LoopHasTunnel, SetupNames, EndedIsOff, TunnelPcs
<1>7. CASE JobEnds
  <2>1. th' \in [Threads -> ThreadType] /\ (SetupRuns' => SetupRuns)
    BY <1>7, ThreadRests DEF JobEnds, Threads
  <2>2. onceCode' \in BOOLEAN /\ JobUnchanged
    BY <1>7 DEF JobEnds
  <2> QED
    BY <2>1, <2>2
    DEF JobUnchanged, LoopHasTunnel, SetupNames, EndedIsOff, TunnelPcs
<1> QED BY <1>1, <1>2, <1>3, <1>4, <1>5, <1>6, <1>7

\* The ticker.
LEMMA TickerStepsKeepTypes ==
  ASSUME TypeInv, TickChecksCisco \/ TickResumes \/ TickStopsIdle \/ TickerSteps
  PROVE  TypeInv'
<1> USE DEF TypeInv, TypeOK, acctVars, secrVars, codeVars, lifeVars, flagVars, wishVars, pageVars
<1>1. CASE TickChecksCisco
  <2>1. th' \in [Threads -> ThreadType] /\ (SetupRuns' => SetupRuns)
    BY <1>1, ThreadGoesTo DEF TickChecksCisco, Threads, ThreadPcs, SetupPcs
  <2> QED
    BY <1>1, <2>1
    DEF TickChecksCisco, LoopHasTunnel, SetupNames, EndedIsOff, TunnelPcs
<1>2. CASE TickResumes
  <2>1. state' \in States /\ page' \in [Pages -> PageStates]
    BY SMTT(30), <1>2, NotifiedType DEF TickResumes, Show, States
  <2>2. th' \in [Threads -> ThreadType] /\ (SetupRuns' => SetupRuns)
    BY SMTT(30), <1>2, ThreadCalls, ThreadGoesTo, ThreadRests
    DEF TickResumes, Threads, ThreadPcs, RetPcs, SetupPcs
  <2>3. offlineRun' \in 0..AwayAfter
    BY <1>2 DEF TickResumes, AwayAfter
  <2> QED
    BY <1>2, <2>1, <2>2, <2>3
    DEF TickResumes, LoopHasTunnel, SetupNames, EndedIsOff, TunnelPcs
<1>3. CASE TickStopsIdle
  <2>1. state' \in States /\ page' \in [Pages -> PageStates]
    BY <1>3, NotifiedType DEF TickStopsIdle, Show, States
  <2>2. th' \in [Threads -> ThreadType] /\ (SetupRuns' => SetupRuns)
    BY ZenonT(40), <1>3, ThreadCalls, ThreadGoesTo, ThreadRests
    DEF TickStopsIdle, Threads, ThreadPcs, RetPcs, SetupPcs, IdleTooLong
  <2> QED
    BY ZenonT(40), <1>3, <2>1, <2>2
    DEF TickStopsIdle, LoopHasTunnel, SetupNames, EndedIsOff, TunnelPcs
<1>4. ASSUME NEW cisco \in CiscoAnswers, TickCisco(cisco) PROVE TypeInv'
  <2>1. cisco \in BOOLEAN
    BY <1>4, DaemonAssumption DEF TickCisco
  <2>2. state' \in States /\ page' \in [Pages -> PageStates]
    BY SMTT(30), <1>4, NotifiedType DEF TickCisco, Show, States
  <2>3. th' \in [Threads -> ThreadType] /\ (SetupRuns' => SetupRuns)
    BY SMTT(30), <1>4, ThreadCalls, ThreadGoesTo, ThreadRests
    DEF TickCisco, Threads, ThreadPcs, RetPcs, SetupPcs
  <2>4. pausedByCisco' \in BOOLEAN /\ ciscoSeen' \in BOOLEAN
    BY <1>4, <2>1, <2>2, <2>3 DEF TickCisco
  <2>5. UNCHANGED <<woke, wishVars, onceCode, totpRetried, offlineRun, lastStep, signedIn, tun,
                      tunnels, loop, acctVars, secrVars, lifeVars, codeVars, verdict>>
    BY <1>4 DEF TickCisco
  <2> QED
    BY <2>1, <2>2, <2>3, <2>4, <2>5
    DEF LoopHasTunnel, SetupNames, EndedIsOff, TunnelPcs
<1>5. CASE TickEnds
  <2>1. th' \in [Threads -> ThreadType] /\ (SetupRuns' => SetupRuns)
    BY <1>5, ThreadRests DEF TickEnds, Threads
  <2> QED
    BY <1>5, <2>1
    DEF TickEnds, LoopHasTunnel, SetupNames, EndedIsOff, TunnelPcs
<1> QED BY <1>1, <1>2, <1>3, <1>4, <1>5 DEF TickerSteps

\* Browser connections, and time that passes.
LEMMA PageStepsKeepTypes ==
  ASSUME TypeInv, NEW p \in Pages, PageSteps(p)
  PROVE  TypeInv'
<1> USE DEF TypeInv, TypeOK, acctVars, secrVars, codeVars, lifeVars, flagVars, wishVars, pageVars
<1>1. CASE PageOpens(p)
  <2>1. page' \in [Pages -> PageStates] /\ woke' \in SUBSET Pages
    BY <1>1 DEF PageOpens, AcquirePass, Refused, Waits, PageStates
  <2>2. loop' \in LoopType /\ (loop' = loop \/ (run = "up" /\ loop'.pc = "begin"))
    BY <1>1, EnsuredType DEF PageOpens, AcquirePass
  <2> QED
    BY ZenonT(40), <1>1, <2>1, <2>2
    DEF PageOpens, NoteActivity, PageUnchanged, SetupRuns, LoopHasTunnel, SetupNames, EndedIsOff,
        TunnelPcs
<1>2. CASE PageLooksAgain(p)
  <2>1. page' \in [Pages -> PageStates] /\ woke' \in SUBSET Pages
    BY <1>2 DEF PageLooksAgain, AcquirePass, Refused, Waits, PageStates
  <2>2. loop' \in LoopType /\ (loop' = loop \/ (run = "up" /\ loop'.pc = "begin"))
    BY <1>2, EnsuredType DEF PageLooksAgain, AcquirePass
  <2> QED
    BY <1>2, <2>1, <2>2
    DEF PageLooksAgain, PageUnchanged, SetupRuns, LoopHasTunnel, SetupNames, EndedIsOff,
        TunnelPcs
<1>3. CASE PageEnds(p)
  <2>1. page' \in [Pages -> PageStates] /\ woke' \in SUBSET Pages
    BY <1>3 DEF PageEnds, AcquirePass, Refused, Waits, PageStates
  <2> QED
    BY <1>3, <2>1
    DEF PageEnds, PageUnchanged, SetupRuns, LoopHasTunnel, SetupNames, EndedIsOff, TunnelPcs
<1>4. CASE Traffic(p)
  <2>1. demand' \in BOOLEAN /\ idle' \in BOOLEAN
    BY <1>4 DEF Traffic
  <2>2. UNCHANGED <<explicit, wanted, pageVars, loop>> /\ PageUnchanged
    BY <1>4 DEF Traffic
  <2> QED
    BY <2>1, <2>2
    DEF PageUnchanged, SetupRuns, LoopHasTunnel, SetupNames, EndedIsOff, TunnelPcs
<1> QED BY <1>1, <1>2, <1>3, <1>4 DEF PageSteps

\* Time that passes.
LEMMA TimeKeepsTypes ==
  ASSUME TypeInv, DemandEnds \/ IdleElapses \/ WindowEnds
  PROVE  TypeInv'
<1> USE DEF TypeInv, TypeOK, acctVars, secrVars, codeVars, lifeVars, flagVars, wishVars, pageVars
<1>1. CASE DemandEnds
  <2>1. demand' \in BOOLEAN
    BY <1>1 DEF DemandEnds
  <2>2. UNCHANGED <<explicit, idle, wanted, pageVars, loop>> /\ PageUnchanged
    BY <1>1 DEF DemandEnds
  <2> QED
    BY <2>1, <2>2
    DEF PageUnchanged, SetupRuns, LoopHasTunnel, SetupNames, EndedIsOff, TunnelPcs
<1>2. CASE IdleElapses
  <2> QED
    BY <1>2
    DEF IdleElapses, PageUnchanged, SetupRuns, LoopHasTunnel, SetupNames, EndedIsOff, TunnelPcs
<1>3. CASE WindowEnds
  <2>1. now' \in 1..MaxWindow
    BY <1>3, DaemonAssumption DEF WindowEnds
  <2> QED
    BY <1>3, <2>1
    DEF WindowEnds, SetupRuns, LoopHasTunnel, SetupNames, EndedIsOff, TunnelPcs
<1> QED BY <1>1, <1>2, <1>3

\* openconnect.
LEMMA TunnelKeepsTypes ==
  ASSUME TypeInv, NEW i \in Ids, TunnelSpawns \/ TunnelSendsCode(i) \/ TunnelOpensPort(i) \/
         TunnelExits(i)
  PROVE  TypeInv'
<1> USE DEF TypeInv, TypeOK, acctVars, secrVars, codeVars, lifeVars, flagVars, wishVars, pageVars
<1>1. CASE TunnelSpawns
  <2>1. tun \in Ids
    BY <1>1 DEF TunnelSpawns, LoopHasTunnel, TunnelPcs
  <2>2. [tunnels[tun] EXCEPT !.phase = "up"] \in TunnelType
    BY <2>1 DEF TunnelType, Phases
  <2>3. tunnels' = [tunnels EXCEPT ![tun] = [tunnels[tun] EXCEPT !.phase = "up"]]
    BY <1>1 DEF TunnelSpawns
  <2>4. tunnels' \in [Ids -> TunnelType]
    BY <2>1, <2>2, <2>3
  <2> QED
    BY <1>1, <2>4
    DEF TunnelSpawns, TunnelUnchanged, SetupRuns, LoopHasTunnel, SetupNames, EndedIsOff,
        TunnelPcs
<1>2. CASE TunnelSendsCode(i)
  <2>1. tunnels' \in [Ids -> TunnelType] /\ used' \in SUBSET (1..MaxWindow)
    BY <1>2, DaemonAssumption DEF TunnelSendsCode, TunnelType
  <2> QED
    BY <1>2, <2>1
    DEF TunnelSendsCode, TunnelUnchanged, SetupRuns, LoopHasTunnel, SetupNames, EndedIsOff,
        TunnelPcs
<1>3. CASE TunnelOpensPort(i)
  <2>1. tunnels' \in [Ids -> TunnelType]
    BY <1>3 DEF TunnelOpensPort, TunnelType, Phases
  <2> QED
    BY <1>3, <2>1
    DEF TunnelOpensPort, TunnelUnchanged, SetupRuns, LoopHasTunnel, SetupNames, EndedIsOff,
        TunnelPcs
<1>4. CASE TunnelExits(i)
  <2>1. [tunnels[i] EXCEPT !.phase = "exited"] \in TunnelType
    BY <1>4 DEF TunnelExits, TunnelType, Phases
  <2>2. tunnels' \in [Ids -> TunnelType]
    BY <1>4, <2>1, DeadType DEF TunnelExits
  <2> QED
    BY <1>4, <2>1, <2>2
    DEF TunnelExits, TunnelUnchanged, SetupRuns, LoopHasTunnel, SetupNames, EndedIsOff,
        TunnelPcs
<1> QED BY <1>1, <1>2, <1>3, <1>4

\* The end of the program, and the next one.
LEMMA RunStepsKeepTypes ==
  ASSUME TypeInv, Stop \/ RunCancels \/ RunEnds \/ Restart
  PROVE  TypeInv'
<1> USE DEF TypeInv, TypeOK, acctVars, secrVars, codeVars, lifeVars, flagVars, wishVars, pageVars
<1>1. CASE Stop
  <2> QED
    BY <1>1
    DEF Stop, SetupRuns, LoopHasTunnel, SetupNames, EndedIsOff, TunnelPcs
<1>2. CASE RunCancels
  <2>1. th' \in [Threads -> ThreadType] /\ (SetupRuns' => SetupRuns)
    BY <1>2, ThreadCalls DEF RunCancels, Threads, ThreadPcs, RetPcs, SetupPcs
  <2>2. loop' \in LoopType /\ loop'.pc = loop.pc
    BY <1>2 DEF RunCancels, LoopType
  <2> QED
    BY <1>2, <2>1, <2>2
    DEF RunCancels, LoopHasTunnel, SetupNames, EndedIsOff, TunnelPcs
<1>3. CASE RunEnds
  <2>1. page' \in [Pages -> PageStates] /\ woke' \in SUBSET Pages
    BY <1>3, NoPagesType DEF RunEnds, CloseAll
  <2>2. th' \in [Threads -> ThreadType] /\ (SetupRuns' => SetupRuns)
    BY SMTT(30), <1>3, ThreadRests DEF RunEnds, Threads
  <2> QED
    BY <1>3, <2>1, <2>2
    DEF RunEnds, LoopHasTunnel, SetupNames, EndedIsOff, TunnelPcs
<1>4. CASE Restart
  <2>1. loop.pc \notin TunnelPcs
    BY <1>4 DEF Restart, EndedIsOff, TunnelPcs
  <2>2. /\ state' \in States /\ signedIn' \in Nat \X Nat /\ verdict' \in VerdictType
        /\ offlineRun' \in 0..AwayAfter
    BY <1>4, NoneTypes DEF Restart, States, AwayAfter
  <2>3. /\ explicit' \in BOOLEAN /\ demand' \in BOOLEAN /\ idle' \in BOOLEAN
        /\ wanted' \in BOOLEAN
        /\ onceCode' \in BOOLEAN /\ totpRetried' \in BOOLEAN /\ pausedByCisco' \in BOOLEAN
        /\ ciscoSeen' \in BOOLEAN
    BY <1>4 DEF Restart
  <2>4. /\ restarts' \in Nat /\ run' = "up" /\ secretsGen' \in Nat /\ accountGen' \in Nat
        /\ tun' = 0
    BY <1>4 DEF Restart
  <2>5. UNCHANGED <<pageVars, lastStep, tunnels, loop, th, cfgUser, cfgHost, switching, setup,
                      stored, edits, signedFile, codeVars>>
    BY <1>4 DEF Restart
  <2> QED
    BY <2>1, <2>2, <2>3, <2>4, <2>5
    DEF SetupRuns, LoopHasTunnel, SetupNames, EndedIsOff, TunnelPcs
<1> QED BY <1>1, <1>2, <1>3, <1>4

\* The head of the loop leaves an attempt behind.
LEMMA LoopHeadTypes ==
  ASSUME TypeOK, NEW st \in States, NEW pg \in [Pages -> PageStates], LoopHead(st, pg)
  PROVE  /\ state' \in States /\ page' \in [Pages -> PageStates]
         /\ loop' \in LoopType /\ loop'.pc \notin TunnelPcs
         /\ explicit' \in BOOLEAN /\ onceCode' \in BOOLEAN /\ verdict' \in VerdictType
<1>1. state' \in States /\ page' \in [Pages -> PageStates]
  BY NotifiedType DEF LoopHead, Rested, States
<1> DEFINE l == [LoopOff EXCEPT !.pc = "cisco", !.cancelled = loop.cancelled]
<1>2. l \in LoopType /\ l.pc = "cisco"
  BY LoopOffType DEF TypeOK, LoopType, LoopPcs
<1>3. loop' = LoopOff \/ loop' = l
  BY DEF LoopHead
<1>4. loop' \in LoopType /\ loop'.pc \notin TunnelPcs
  BY <1>2, <1>3, LoopOffType DEF TunnelPcs
<1>5. explicit' \in BOOLEAN /\ onceCode' \in BOOLEAN
  BY DEF LoopHead, TypeOK
<1>6. verdict' \in VerdictType
  BY NoneTypes DEF LoopHead, TypeOK
<1> QED BY <1>1, <1>4, <1>5, <1>6

\* The loop ends with a verdict.
LEMMA EndsWithTypes ==
  ASSUME TypeOK, NEW st \in States, NEW by \in {"read", "gateway"}, EndsWith(st, by)
  PROVE  /\ state' \in States /\ page' \in [Pages -> PageStates]
         /\ loop' \in LoopType /\ loop'.pc \notin TunnelPcs
         /\ explicit' \in BOOLEAN /\ verdict' \in VerdictType
<1>1. state' \in States /\ page' \in [Pages -> PageStates]
  BY NotifiedType DEF EndsWith, Show, TypeOK
<1>2. loop' \in LoopType /\ loop'.pc \notin TunnelPcs
  BY LoopOffType DEF EndsWith, TunnelPcs
<1>3. explicit' \in BOOLEAN
  BY DEF EndsWith
<1>4. verdict' \in VerdictType
  BY DEF EndsWith, TypeOK, LoopType, VerdictType
<1> QED BY <1>1, <1>2, <1>3, <1>4

\* The loop goes on at pc; to a stage with an attempt only from such a one.
LEMMA LoopGoesTo ==
  ASSUME TypeOK, NEW pc \in LoopPcs, loop' = [loop EXCEPT !.pc = pc]
  PROVE  loop' \in LoopType /\ loop'.pc = pc
  BY LoopAt DEF TypeOK

\* Reads of the attempt the loop works on.
LEMMA AttemptTypes ==
  ASSUME TypeInv, loop.pc \in TunnelPcs
  PROVE  /\ tun \in Ids /\ tunnels[tun] \in TunnelType
         /\ CodeWindow \in 0..MaxWindow
         /\ Dropped \in [Ids -> TunnelType]
         /\ KilledIfStopped \in [Ids -> TunnelType]
<1>1. tun \in Ids /\ tunnels[tun] \in TunnelType
  BY DEF TypeInv, TypeOK, LoopHasTunnel
<1>2. CodeWindow \in 0..MaxWindow
  BY <1>1 DEF CodeWindow, TypeInv, TypeOK, TunnelType
<1>3. Dropped \in [Ids -> TunnelType]
  BY <1>1, DeadType DEF Dropped, TypeInv, TypeOK
<1>4. [tunnels[tun] EXCEPT !.phase = "killed"] \in TunnelType
  BY <1>1 DEF TunnelType, Phases
<1>5. KilledIfStopped \in [Ids -> TunnelType]
  BY <1>1, <1>4 DEF KilledIfStopped, TypeInv, TypeOK
<1> QED BY <1>1, <1>2, <1>3, <1>5

\* A new attempt.
LEMMA StartsTunnelTypes ==
  ASSUME TypeOK, NEW typed \in BOOLEAN, StartsTunnel(typed)
  PROVE  /\ state' \in States /\ page' \in [Pages -> PageStates]
         /\ tun' \in Ids /\ tunnels' \in [Ids -> TunnelType]
         /\ loop' \in LoopType
         /\ UNCHANGED <<explicit, verdict>>
<1>1. state' \in States /\ page' \in [Pages -> PageStates] /\ UNCHANGED <<explicit, verdict>>
  BY NotifiedType DEF StartsTunnel, Show, States, TypeOK
<1>2. PICK i \in Ids :
        /\ tun' = i
        /\ tunnels' = [tunnels EXCEPT ![i] = [Dead EXCEPT !.phase = "new", !.user = cfgUser,
                          !.host = cfgHost, !.owner = loop.owner, !.ver = loop.ver,
                          !.once = typed]]
        /\ loop' = [loop EXCEPT !.pc = "start", !.once = typed]
  BY DEF StartsTunnel, FreeIds
<1>3. [Dead EXCEPT !.phase = "new", !.user = cfgUser, !.host = cfgHost, !.owner = loop.owner,
                   !.ver = loop.ver, !.once = typed] \in TunnelType
  BY DeadType DEF TunnelType, Phases, TypeOK, LoopType, AnyAccount
<1>4. tunnels' \in [Ids -> TunnelType]
  BY <1>2, <1>3 DEF TypeOK
<1>5. loop' \in LoopType
  BY <1>2 DEF TypeOK, LoopType, LoopPcs
<1> QED BY <1>1, <1>2, <1>4, <1>5

\* The connect loop.
LEMMA LoopStepsKeepTypes ==
  ASSUME TypeInv, LoopSteps
  PROVE  TypeInv'
<1> USE DEF TypeInv, TypeOK, acctVars, secrVars, codeVars, lifeVars, flagVars, wishVars, pageVars
<1>1. CASE LoopBegins
  <2>1. /\ state' \in States /\ page' \in [Pages -> PageStates]
        /\ loop' \in LoopType /\ loop'.pc \notin TunnelPcs
        /\ explicit' \in BOOLEAN /\ onceCode' \in BOOLEAN /\ verdict' \in VerdictType
    BY <1>1, LoopHeadTypes DEF LoopBegins
  <2> QED
    BY <1>1, <2>1
    DEF LoopBegins, LoopUnchanged, SetupRuns, LoopHasTunnel, SetupNames, EndedIsOff, TunnelPcs
<1>2. CASE LoopWakes
  <2>1. /\ state' \in States /\ page' \in [Pages -> PageStates]
        /\ loop' \in LoopType /\ loop'.pc \notin TunnelPcs
        /\ explicit' \in BOOLEAN /\ onceCode' \in BOOLEAN /\ verdict' \in VerdictType
    BY <1>2, LoopHeadTypes DEF LoopWakes
  <2> QED
    BY <1>2, <2>1
    DEF LoopWakes, LoopUnchanged, SetupRuns, LoopHasTunnel, SetupNames, EndedIsOff, TunnelPcs
<1>3. ASSUME NEW cisco \in CiscoAnswers, LoopCisco(cisco) PROVE TypeInv'
  <2>1. ciscoSeen' \in BOOLEAN
    BY <1>3, DaemonAssumption DEF LoopCisco
  <2>2. state' \in States /\ page' \in [Pages -> PageStates]
    BY <1>3, NotifiedType DEF LoopCisco, Show, States
  <2>3. loop' \in LoopType /\ loop'.pc \in {"sleep", "probe"}
    BY <1>3, LoopGoesTo DEF LoopCisco, Goes, LoopPcs
  <2> QED
    BY <1>3, <2>1, <2>2, <2>3
    DEF LoopCisco, LoopUnchanged, SetupRuns, LoopHasTunnel, SetupNames, EndedIsOff, TunnelPcs
<1>4. ASSUME NEW online \in BOOLEAN, LoopProbe(online) PROVE TypeInv'
  <2>1. state' \in States /\ page' \in [Pages -> PageStates]
    BY <1>4, NotifiedType DEF LoopProbe, Show, States
  <2>2. [loop EXCEPT !.pc = "password", !.gen = secretsGen, !.acc = accountGen] \in LoopType
    BY <1>4 DEF LoopProbe, LoopType, LoopPcs
  <2>3. loop'.pc \in {"sleep", "password"}
    BY <1>4 DEF LoopProbe, Goes, LoopType
  <2>4. loop' \in LoopType /\ loop'.pc \notin TunnelPcs
    BY <1>4, <2>1, <2>2, <2>3, LoopGoesTo DEF LoopProbe, Goes, LoopPcs, TunnelPcs
  <2>5. offlineRun' \in 0..AwayAfter
    BY <1>4 DEF LoopProbe, AwayAfter
  <2> QED
    BY <1>4, <2>1, <2>2, <2>3, <2>4, <2>5
    DEF LoopProbe, LoopUnchanged, SetupRuns, LoopHasTunnel, SetupNames, EndedIsOff, TunnelPcs
<1>5. ASSUME NEW result \in Reads, PasswordIsRead(result) PROVE TypeInv'
  <2>1. loop' \in LoopType /\ loop'.pc = "passwordRead"
    BY <1>5, DaemonAssumption DEF PasswordIsRead, LoopType, LoopPcs, AnyAccount
  <2> QED
    BY <1>5, <2>1
    DEF PasswordIsRead, LoopUnchanged, SetupRuns, LoopHasTunnel, SetupNames, EndedIsOff,
        TunnelPcs
<1>6. ASSUME NEW result \in Reads, TOTPIsRead(result) PROVE TypeInv'
  <2>1. loop' \in LoopType /\ loop'.pc = "totpRead"
    BY <1>6, DaemonAssumption DEF TOTPIsRead, LoopType, LoopPcs, AnyAccount
  <2> QED
    BY <1>6, <2>1
    DEF TOTPIsRead, LoopUnchanged, SetupRuns, LoopHasTunnel, SetupNames, EndedIsOff, TunnelPcs
<1>7. CASE ReadWhileChanging
  <2>1. /\ state' \in States /\ page' \in [Pages -> PageStates]
        /\ loop' \in LoopType /\ loop'.pc \notin TunnelPcs
        /\ explicit' \in BOOLEAN /\ onceCode' \in BOOLEAN /\ verdict' \in VerdictType
    BY <1>7, LoopHeadTypes, LoopGoesTo DEF ReadWhileChanging, Goes, LoopPcs, TunnelPcs
  <2> QED
    BY <1>7, <2>1
    DEF ReadWhileChanging, LoopUnchanged, SetupRuns, LoopHasTunnel, SetupNames, EndedIsOff,
        TunnelPcs
<1>8. CASE ReadFailed
  <2>1. loop.result \in States
    BY <1>8 DEF ReadFailed, LoopType, States
  <2>2. /\ state' \in States /\ page' \in [Pages -> PageStates]
        /\ loop' \in LoopType /\ loop'.pc \notin TunnelPcs
        /\ explicit' \in BOOLEAN /\ verdict' \in VerdictType
    BY <1>8, <2>1, EndsWithTypes DEF ReadFailed, States
  <2> QED
    BY <1>8, <2>1, <2>2
    DEF ReadFailed, LoopUnchanged, SetupRuns, LoopHasTunnel, SetupNames, EndedIsOff, TunnelPcs
<1>9. CASE PasswordThere
  <2>1. /\ state' \in States /\ page' \in [Pages -> PageStates]
        /\ tun' \in Ids \cup {0} /\ tunnels' \in [Ids -> TunnelType]
        /\ loop' \in LoopType /\ (loop'.pc = "totp" \/ tun' \in Ids)
        /\ UNCHANGED <<explicit, verdict>>
    BY <1>9, StartsTunnelTypes, LoopGoesTo DEF PasswordThere, Goes, LoopPcs, NeedsTOTP
  <2>2. onceCode' \in BOOLEAN
    BY <1>9 DEF PasswordThere
  <2> QED
    BY <1>9, <2>1, <2>2
    DEF PasswordThere, LoopUnchanged, SetupRuns, LoopHasTunnel, SetupNames, EndedIsOff,
        TunnelPcs
<1>10. CASE TOTPThere
  <2>1. /\ state' \in States /\ page' \in [Pages -> PageStates]
        /\ tun' \in Ids /\ tunnels' \in [Ids -> TunnelType]
        /\ loop' \in LoopType /\ UNCHANGED <<explicit, verdict>>
    BY <1>10, StartsTunnelTypes DEF TOTPThere
  <2> QED
    BY <1>10, <2>1
    DEF TOTPThere, LoopUnchanged, SetupRuns, LoopHasTunnel, SetupNames, EndedIsOff, TunnelPcs
<1>11. ASSUME NEW st \in StartErrors, StartFails(st) PROVE TypeInv'
  <2>1. st \in States
    BY <1>11, DaemonAssumption DEF StartFails, States
  <2>2. /\ tun \in Ids /\ CodeWindow \in 0..MaxWindow
        /\ Dropped \in [Ids -> TunnelType] /\ KilledIfStopped \in [Ids -> TunnelType]
    BY <1>11, AttemptTypes DEF StartFails, TunnelPcs
  <2>3. /\ state' \in States /\ page' \in [Pages -> PageStates]
        /\ loop' \in LoopType /\ loop'.pc \notin TunnelPcs
        /\ explicit' \in BOOLEAN /\ verdict' \in VerdictType
    BY <1>11, <2>1, <2>2, EndsWithTypes DEF StartFails, States
  <2>4. tunnels' \in [Ids -> TunnelType]
    BY <1>11, DeadType DEF StartFails
  <2> QED
    BY <1>11, <2>1, <2>2, <2>3, <2>4
    DEF StartFails, LoopUnchanged, SetupRuns, LoopHasTunnel, SetupNames, EndedIsOff, TunnelPcs
<1>12. CASE StartReturns
  <2>1. /\ tun \in Ids /\ CodeWindow \in 0..MaxWindow
        /\ Dropped \in [Ids -> TunnelType] /\ KilledIfStopped \in [Ids -> TunnelType]
    BY <1>12, AttemptTypes DEF StartReturns, TunnelPcs
  <2>2. loop' \in LoopType /\ loop'.pc = "waitReady"
    BY <1>12 DEF StartReturns, LoopType, LoopPcs
  <2>3. lastStep' \in 0..MaxWindow
    BY <1>12, DaemonAssumption DEF StartReturns
  <2> QED
    BY <1>12, <2>1, <2>2, <2>3
    DEF StartReturns, LoopUnchanged, SetupRuns, LoopHasTunnel, SetupNames, EndedIsOff, TunnelPcs
<1>13. ASSUME NEW ready \in BOOLEAN, WaitReadyEnds(ready) PROVE TypeInv'
  <2>1. /\ tun \in Ids /\ CodeWindow \in 0..MaxWindow
        /\ Dropped \in [Ids -> TunnelType] /\ KilledIfStopped \in [Ids -> TunnelType]
    BY <1>13, AttemptTypes DEF WaitReadyEnds, TunnelPcs
  <2>2. loop' \in LoopType /\ loop'.pc = "judge"
    BY <1>13 DEF WaitReadyEnds, LoopType, LoopPcs
  <2> QED
    BY <1>13, <2>1, <2>2
    DEF WaitReadyEnds, LoopUnchanged, SetupRuns, LoopHasTunnel, SetupNames, EndedIsOff,
        TunnelPcs
<1>14. CASE JudgeGoingAway
  <2>1. /\ tun \in Ids /\ CodeWindow \in 0..MaxWindow
        /\ Dropped \in [Ids -> TunnelType] /\ KilledIfStopped \in [Ids -> TunnelType]
    BY <1>14, AttemptTypes DEF JudgeGoingAway, TunnelPcs
  <2>2. loop' \in LoopType /\ loop'.pc \in {"awaitExit"}
    BY <1>14, LoopGoesTo DEF JudgeGoingAway, Goes, LoopPcs
  <2> QED
    BY <1>14, <2>1, <2>2
    DEF JudgeGoingAway, LoopUnchanged, SetupRuns, LoopHasTunnel, SetupNames, EndedIsOff,
        TunnelPcs
<1>15. CASE JudgeConnected
  <2>1. /\ tun \in Ids /\ CodeWindow \in 0..MaxWindow
        /\ Dropped \in [Ids -> TunnelType] /\ KilledIfStopped \in [Ids -> TunnelType]
    BY <1>15, AttemptTypes DEF JudgeConnected, TunnelPcs
  <2>2. state' \in States /\ page' \in [Pages -> PageStates]
    BY <1>15, NotifiedType DEF JudgeConnected, Show, States
  <2>3. loop' \in LoopType /\ loop'.pc \in {"up"}
    BY <1>15, LoopGoesTo DEF JudgeConnected, Goes, LoopPcs
  <2>4. signedFile' \in SignInType /\ signedIn' \in Nat \X Nat
    BY <1>15 DEF JudgeConnected, LoopType, SignInType, AnyAccount
  <2> QED
    BY <1>15, <2>1, <2>2, <2>3, <2>4
    DEF JudgeConnected, NoteActivity, LoopUnchanged, SetupRuns, LoopHasTunnel, SetupNames,
        EndedIsOff, TunnelPcs
<1>16. CASE JudgeStale
  <2>1. /\ tun \in Ids /\ CodeWindow \in 0..MaxWindow
        /\ Dropped \in [Ids -> TunnelType] /\ KilledIfStopped \in [Ids -> TunnelType]
    BY <1>16, AttemptTypes DEF JudgeStale, TunnelPcs, NotReady
  <2>2. loop' \in LoopType /\ loop'.pc \in {"stopChanged"}
    BY <1>16, LoopGoesTo DEF JudgeStale, Goes, LoopPcs
  <2> QED
    BY <1>16, <2>1, <2>2
    DEF JudgeStale, NotReady, LoopUnchanged, SetupRuns, LoopHasTunnel, SetupNames, EndedIsOff,
        TunnelPcs
<1>17. CASE DropStale
  <2>1. /\ tun \in Ids /\ CodeWindow \in 0..MaxWindow
        /\ Dropped \in [Ids -> TunnelType] /\ KilledIfStopped \in [Ids -> TunnelType]
    BY <1>17, AttemptTypes DEF DropStale, TunnelPcs, NotReady
  <2>2. AfterStop \in States /\ Notified(page) \in [Pages -> PageStates]
    BY <1>17, NotifiedType DEF DropStale, AfterStop, States
  <2>3. /\ state' \in States /\ page' \in [Pages -> PageStates]
        /\ loop' \in LoopType /\ loop'.pc \notin TunnelPcs
        /\ explicit' \in BOOLEAN /\ onceCode' \in BOOLEAN /\ verdict' \in VerdictType
    BY <1>17, <2>1, <2>2, LoopHeadTypes DEF DropStale
  <2>4. pausedByCisco' \in BOOLEAN
    BY <1>17 DEF DropStale
  <2> QED
    BY <1>17, <2>1, <2>2, <2>3, <2>4
    DEF DropStale, NotReady, LoopUnchanged, SetupRuns, LoopHasTunnel, SetupNames, EndedIsOff,
        TunnelPcs
<1>18. CASE LoopStops
  <2>1. /\ tun \in Ids /\ CodeWindow \in 0..MaxWindow
        /\ Dropped \in [Ids -> TunnelType] /\ KilledIfStopped \in [Ids -> TunnelType]
    BY <1>18, AttemptTypes DEF LoopStops, TunnelPcs
  <2>2. tunnels' \in [Ids -> TunnelType]
    BY <1>18, MarkType DEF LoopStops
  <2>3. loop' \in LoopType /\ loop'.pc \in {"slowStopped", "changedStopped"}
    BY <1>18, LoopGoesTo DEF LoopStops, Goes, LoopPcs
  <2> QED
    BY <1>18, <2>1, <2>2, <2>3
    DEF LoopStops, LoopUnchanged, SetupRuns, LoopHasTunnel, SetupNames, EndedIsOff, TunnelPcs
<1>19. CASE JudgeStopped
  <2>1. /\ tun \in Ids /\ CodeWindow \in 0..MaxWindow
        /\ Dropped \in [Ids -> TunnelType] /\ KilledIfStopped \in [Ids -> TunnelType]
    BY <1>19, AttemptTypes DEF JudgeStopped, TunnelPcs, NotReady
  <2>2. AfterStop \in States /\ Notified(page) \in [Pages -> PageStates]
    BY <1>19, NotifiedType DEF JudgeStopped, AfterStop, States
  <2>3. /\ state' \in States /\ page' \in [Pages -> PageStates]
        /\ loop' \in LoopType /\ loop'.pc \notin TunnelPcs
        /\ explicit' \in BOOLEAN /\ onceCode' \in BOOLEAN /\ verdict' \in VerdictType
    BY <1>19, <2>1, <2>2, LoopHeadTypes DEF JudgeStopped
  <2>4. pausedByCisco' \in BOOLEAN
    BY <1>19 DEF JudgeStopped
  <2> QED
    BY <1>19, <2>1, <2>2, <2>3, <2>4
    DEF JudgeStopped, NotReady, LoopUnchanged, SetupRuns, LoopHasTunnel, SetupNames, EndedIsOff,
        TunnelPcs
<1>20. CASE JudgeSlow
  <2>1. /\ tun \in Ids /\ CodeWindow \in 0..MaxWindow
        /\ Dropped \in [Ids -> TunnelType] /\ KilledIfStopped \in [Ids -> TunnelType]
    BY <1>20, AttemptTypes DEF JudgeSlow, TunnelPcs, NotReady
  <2>2. loop' \in LoopType /\ loop'.pc \in {"stopSlow"}
    BY <1>20, LoopGoesTo DEF JudgeSlow, Goes, LoopPcs
  <2> QED
    BY <1>20, <2>1, <2>2
    DEF JudgeSlow, NotReady, LoopUnchanged, SetupRuns, LoopHasTunnel, SetupNames, EndedIsOff,
        TunnelPcs
<1>21. CASE JudgeError
  <2>1. /\ tun \in Ids /\ CodeWindow \in 0..MaxWindow
        /\ Dropped \in [Ids -> TunnelType] /\ KilledIfStopped \in [Ids -> TunnelType]
    BY <1>21, AttemptTypes DEF JudgeError, TunnelPcs, NotReady
  <2>2. state' \in States /\ page' \in [Pages -> PageStates]
    BY <1>21, NotifiedType DEF JudgeError, Show, States
  <2>3. loop' \in LoopType /\ loop'.pc \notin TunnelPcs
    BY <1>21, LoopGoesTo, LoopOffType DEF JudgeError, Goes, LoopPcs, TunnelPcs
  <2>4. explicit' \in BOOLEAN
    BY <1>21 DEF JudgeError
  <2> QED
    BY <1>21, <2>1, <2>2, <2>3, <2>4
    DEF JudgeError, NotReady, LoopUnchanged, SetupRuns, LoopHasTunnel, SetupNames, EndedIsOff,
        TunnelPcs
<1>22. ASSUME NEW message \in Rejections, JudgeRejected(message) PROVE TypeInv'
  <2>1. /\ tun \in Ids /\ CodeWindow \in 0..MaxWindow
        /\ Dropped \in [Ids -> TunnelType] /\ KilledIfStopped \in [Ids -> TunnelType]
    BY <1>22, AttemptTypes DEF JudgeRejected, TunnelPcs, NotReady
  <2>2. /\ state' \in States /\ page' \in [Pages -> PageStates]
        /\ loop' \in LoopType /\ loop'.pc \notin TunnelPcs
        /\ explicit' \in BOOLEAN /\ onceCode' \in BOOLEAN /\ verdict' \in VerdictType
    BY <1>22, LoopHeadTypes, EndsWithTypes DEF JudgeRejected, States
  <2>3. totpRetried' \in BOOLEAN
    BY <1>22 DEF JudgeRejected
  <2>4. signedIn' \in Nat \X Nat /\ signedFile' \in SignInType
    BY <1>22, NoneTypes DEF JudgeRejected
  <2> QED
    BY <1>22, <2>1, <2>2, <2>3, <2>4
    DEF JudgeRejected, NotReady, LoopUnchanged, SetupRuns, LoopHasTunnel, SetupNames, EndedIsOff,
        TunnelPcs
<1>23. CASE TunnelWasUp
  <2>1. /\ tun \in Ids /\ CodeWindow \in 0..MaxWindow
        /\ Dropped \in [Ids -> TunnelType] /\ KilledIfStopped \in [Ids -> TunnelType]
    BY <1>23, AttemptTypes DEF TunnelWasUp, TunnelPcs
  <2>2. tunnels[tun].byUs \in BOOLEAN
    BY <1>23, <2>1 DEF TunnelWasUp, TunnelType
  <2>3. loop' \in LoopType /\ loop'.pc = "closing"
    BY <1>23, <2>1, <2>2 DEF TunnelWasUp, LoopType, LoopPcs
  <2> QED
    BY <1>23, <2>1, <2>2, <2>3
    DEF TunnelWasUp, LoopUnchanged, SetupRuns, LoopHasTunnel, SetupNames, EndedIsOff, TunnelPcs
<1>24. CASE LoopClosesAll
  <2>1. page' \in [Pages -> PageStates] /\ woke' \in SUBSET Pages
    BY <1>24, NoPagesType DEF LoopClosesAll, CloseAll
  <2>2. loop' \in LoopType /\ loop'.pc \in {"closed"}
    BY <1>24, LoopGoesTo DEF LoopClosesAll, Goes, LoopPcs
  <2> QED
    BY <1>24, <2>1, <2>2
    DEF LoopClosesAll, LoopUnchanged, SetupRuns, LoopHasTunnel, SetupNames, EndedIsOff,
        TunnelPcs
<1>25. CASE AfterUp
  <2>1. AfterStop \in States /\ Notified(page) \in [Pages -> PageStates]
    BY <1>25, NotifiedType DEF AfterUp, AfterStop, States
  <2>2. /\ state' \in States /\ page' \in [Pages -> PageStates]
        /\ loop' \in LoopType /\ loop'.pc \notin TunnelPcs
        /\ explicit' \in BOOLEAN /\ onceCode' \in BOOLEAN /\ verdict' \in VerdictType
    BY <1>25, <2>1, LoopHeadTypes, NotifiedType, LoopGoesTo, LoopOffType
    DEF AfterUp, Goes, Show, States, LoopPcs, TunnelPcs
  <2>3. pausedByCisco' \in BOOLEAN
    BY <1>25 DEF AfterUp
  <2> QED
    BY <1>25, <2>1, <2>2, <2>3
    DEF AfterUp, LoopUnchanged, SetupRuns, LoopHasTunnel, SetupNames, EndedIsOff, TunnelPcs
<1>26. CASE LoopCancelled
  <2>1. tunnels' \in [Ids -> TunnelType]
    BY <1>26, AttemptTypes DEF LoopCancelled, TunnelPcs
  <2>2. loop' \in LoopType /\ loop'.pc = "off"
    BY <1>26, LoopOffType DEF LoopCancelled
  <2> QED
    BY <1>26, <2>1, <2>2
    DEF LoopCancelled, LoopUnchanged, SetupRuns, LoopHasTunnel, SetupNames, EndedIsOff,
        TunnelPcs
<1> QED BY <1>1, <1>2, <1>3, <1>4, <1>5, <1>6, <1>7, <1>8, <1>9, <1>10, <1>11, <1>12, <1>13,
      <1>14, <1>15, <1>16, <1>17, <1>18, <1>19, <1>20, <1>21, <1>22, <1>23, <1>24, <1>25,
      <1>26 DEF LoopSteps

-----------------------------------------------------------------------------
LEMMA TypesInit == Init => TypeInv
<1> SUFFICES ASSUME Init PROVE TypeInv
  OBVIOUS
<1>1. /\ state \in States /\ page \in [Pages -> PageStates] /\ woke \in SUBSET Pages
      /\ explicit \in BOOLEAN /\ demand \in BOOLEAN /\ idle \in BOOLEAN /\ wanted \in BOOLEAN
      /\ onceCode \in BOOLEAN /\ totpRetried \in BOOLEAN /\ pausedByCisco \in BOOLEAN
      /\ switching \in BOOLEAN /\ ciscoSeen \in BOOLEAN
  BY DEF Init, States, PageStates
<1>2. /\ offlineRun \in 0..AwayAfter /\ lastStep \in 0..MaxWindow /\ now \in 1..MaxWindow
      /\ signedIn \in Nat \X Nat /\ tun \in Ids \cup {0}
      /\ used \in SUBSET (1..MaxWindow)
  BY DaemonAssumption DEF Init, AwayAfter
<1>3. /\ tunnels \in [Ids -> TunnelType] /\ loop \in LoopType /\ th \in [Threads -> ThreadType]
      /\ loop.pc = "off" /\ th["setup"].pc = "idle" /\ th["setup"].ret = "idle"
  BY DeadType, LoopOffType, IdleType DEF Init, Threads
<1>4. /\ cfgUser \in Accounts /\ cfgHost \in Accounts /\ accountGen \in Nat
      /\ setup \in SetupType /\ signedFile \in SignInType /\ verdict \in VerdictType
      /\ secretsGen \in Nat /\ stored \in [Accounts -> Nat] /\ edits \in Nat
      /\ run \in {"up", "stopping", "ended"} /\ restarts \in Nat
  BY NoneTypes DEF Init
<1>5. TypeOK
  BY <1>1, <1>2, <1>3, <1>4 DEF TypeOK
<1> QED
  BY <1>3, <1>5
  DEF TypeInv, LoopHasTunnel, TunnelPcs, SetupNames, SetupRuns, SetupPcs, EndedIsOff

LEMMA DisconnectTypes == ASSUME TypeInv, Disconnect PROVE TypeInv'
<1>1. "user" \in Threads /\ "idle" \in RetPcs
  BY DEF Threads, RetPcs
<1> QED BY <1>1, DisconnectKeepsTypes DEF Disconnect

LEMMA TypesStep == TypeInv /\ [Next]_vars => TypeInv'
<1> SUFFICES ASSUME TypeInv, [Next]_vars PROVE TypeInv'
  OBVIOUS
<1>1. CASE UNCHANGED vars
  BY <1>1 DEF vars, TypeInv, TypeOK, LoopHasTunnel, SetupNames, SetupRuns, EndedIsOff,
              acctVars, secrVars, codeVars, lifeVars, flagVars, wishVars, pageVars
<1>2. CASE Next
  <2>1. CASE RequestConnect
    BY <2>1, SecretsStepsKeepTypes DEF Threads
  <2>2. CASE Disconnect
    BY <2>2, DisconnectTypes
  <2>3. ASSUME NEW t \in Threads, DisconnectSteps(t) \/ SecretsSteps(t) PROVE TypeInv'
    BY <2>3, DisconnectStepsKeepTypes, SecretsStepsKeepTypes
  <2>4. ASSUME NEW a \in Accounts, SetupBegins(a) \/ SetupSteps PROVE TypeInv'
    BY <2>4, SetupStepsKeepTypes
  <2>5. Accounts # {}
    BY DEF TypeInv, TypeOK
  <2>6. CASE SetPassword \/ SetTOTP \/ NoteCodeShown \/ TypeCode \/ CancelCode \/ JobWaits \/
        JobEnds
    BY <2>6, EditStepsKeepTypes
  <2>7. CASE TickChecksCisco \/ TickResumes \/ TickStopsIdle \/ TickerSteps
    BY <2>7, TickerStepsKeepTypes
  <2>8. ASSUME NEW p \in Pages, PageSteps(p) PROVE TypeInv'
    BY <2>8, PageStepsKeepTypes
  <2>9. CASE DemandEnds \/ IdleElapses \/ WindowEnds
    BY <2>9, TimeKeepsTypes
  <2>10. CASE LoopSteps
    BY <2>10, LoopStepsKeepTypes
  <2>11. CASE TunnelSpawns
    <3>1. 1 \in Ids
      BY DaemonAssumption DEF Ids
    <3> QED BY <2>11, <3>1, TunnelKeepsTypes
  <2>12. ASSUME NEW i \in Ids, TunnelSendsCode(i) \/ TunnelOpensPort(i) \/ TunnelExits(i)
         PROVE  TypeInv'
    BY <2>12, TunnelKeepsTypes
  <2>13. CASE Stop \/ RunCancels \/ RunEnds \/ Restart
    BY <2>13, RunStepsKeepTypes
  <2> QED
    BY <1>2, <2>1, <2>2, <2>3, <2>4, <2>5, <2>6, <2>7, <2>8, <2>9, <2>10, <2>11, <2>12, <2>13
    DEF Next
<1> QED BY <1>1, <1>2

\* The types together with the facts about tun, setup and the ended program are inductive.
THEOREM TypesInvariant == Spec => []TypeInv
  BY TypesInit, TypesStep, PTL DEF Spec

\* Every variable of the daemon keeps its type: the loop always has a tunnel where connectLoop
\* reads d.tun, and completeSetup always has an account to put back.
THEOREM TypeCorrect == Spec => []TypeOK
<1>1. TypeInv => TypeOK
  BY DEF TypeInv
<1> QED BY <1>1, TypesInvariant, PTL

-----------------------------------------------------------------------------
\* The account.

\* The gateway lags behind the user only between the switch and its end, and what the setup
\* would put back is the gateway's account.
SwitchIsSetup == switching => th["setup"].pc \in {"storing", "writing"}
UserHasGateway == switching \/ cfgUser = cfgHost
SetupPutsBack == SetupRuns => setup.prev = cfgHost
SetupSwitched == th["setup"].pc \in {"storing", "writing"} => cfgUser = setup.to

\* What the loop has read is the account's, unless an account changed since the loop noted
\* accountGen, which only grows.
ReadPcs == {"password", "passwordRead", "totp", "totpRead"}
GenNoted == loop.pc \in ReadPcs => loop.acc <= accountGen
ReadOwner == loop.pc \in ReadPcs \ {"password"} => Changing \/ loop.owner = cfgUser

AccountInv ==
    /\ SwitchIsSetup /\ UserHasGateway /\ SetupPutsBack /\ SetupSwitched
    /\ GenNoted /\ ReadOwner
    /\ TunnelsConsistent


-----------------------------------------------------------------------------
\* A step that leaves the account alone: a setup under way stays where it is, the loop keeps
\* what it read, and no attempt begins.
SetupStays ==
    /\ UNCHANGED acctVars
    /\ {th["setup"].pc, th'["setup"].pc} \cap {"storing", "writing"} # {} =>
           th'["setup"].pc = th["setup"].pc
    /\ SetupRuns' => SetupRuns
LoopKeepsRead ==
    loop'.pc \in ReadPcs => loop'.pc = loop.pc /\ loop'.acc = loop.acc /\ loop'.owner = loop.owner
NoneBegins ==
    \A i \in Ids : tunnels'[i].phase # "exited" =>
        /\ tunnels[i].phase # "exited"
        /\ tunnels'[i].user = tunnels[i].user
        /\ tunnels'[i].host = tunnels[i].host
        /\ tunnels'[i].owner = tunnels[i].owner

LEMMA AccountStays ==
  ASSUME AccountInv, SetupStays, LoopKeepsRead, NoneBegins
  PROVE  AccountInv'
<1>1. SwitchIsSetup' /\ UserHasGateway' /\ SetupPutsBack' /\ SetupSwitched'
  BY DEF AccountInv, SetupStays, acctVars, SwitchIsSetup, UserHasGateway, SetupPutsBack,
         SetupSwitched
<1>2. GenNoted' /\ ReadOwner'
  BY DEF AccountInv, SetupStays, LoopKeepsRead, acctVars, GenNoted, ReadOwner, Changing, ReadPcs
<1>3. TunnelsConsistent'
  BY DEF AccountInv, NoneBegins, TunnelsConsistent, Live
<1> QED BY <1>1, <1>2, <1>3 DEF AccountInv

\* A thread outside the setup's own stretch leaves the setup where it is.
LEMMA SetupStaysGoesTo ==
  ASSUME TypeOK, UNCHANGED acctVars, NEW t \in Threads, NEW pc \in ThreadPcs \ SetupPcs,
         th[t].pc \notin {"storing", "writing"}, th' = [th EXCEPT ![t].pc = pc]
  PROVE  SetupStays
<1>1. SetupRuns' => SetupRuns
  BY ThreadGoesTo
<1>2. th'["setup"].pc = th["setup"].pc \/ (t = "setup" /\ th'["setup"].pc = pc)
  BY DEF TypeOK, Threads, ThreadType
<1> QED BY <1>1, <1>2 DEF SetupStays, SetupPcs

LEMMA SetupStaysBecomes ==
  ASSUME TypeOK, UNCHANGED acctVars, NEW t \in Threads, NEW r \in ThreadType,
         th[t].pc \notin {"storing", "writing"}, th' = [th EXCEPT ![t] = r],
         r.pc \notin {"storing", "writing"}, SetupRuns' => SetupRuns
  PROVE  SetupStays
<1>1. th'["setup"].pc = th["setup"].pc \/ (t = "setup" /\ th'["setup"].pc = r.pc)
  BY DEF TypeOK, Threads
<1> QED BY <1>1 DEF SetupStays

LEMMA SetupStaysReturns ==
  ASSUME TypeOK, UNCHANGED acctVars, NEW t \in Threads, th[t].pc \notin {"storing", "writing"},
         th' = [th EXCEPT ![t] = Returned(t)]
  PROVE  SetupStays
<1>1. Returned(t) \in ThreadType /\ Returned(t).pc \notin {"storing", "writing"}
  BY ReturnedType DEF TypeOK, ThreadType, RetPcs
<1> QED BY <1>1, ThreadReturns, SetupStaysBecomes

LEMMA SetupStaysRests ==
  ASSUME TypeOK, UNCHANGED acctVars, NEW t \in Threads, th[t].pc \notin {"storing", "writing"},
         th' = [th EXCEPT ![t] = IdleThread]
  PROVE  SetupStays
  BY IdleType, ThreadRests, SetupStaysBecomes

LEMMA SetupStaysCalls ==
  ASSUME TypeOK, UNCHANGED acctVars, NEW t \in Threads, th[t].pc \notin {"storing", "writing"},
         NEW pc \in ThreadPcs \ SetupPcs, NEW i \in Ids \cup {0}, NEW ret \in RetPcs \ {"switch"},
         th' = [th EXCEPT ![t] = Calls(t, pc, i, ret)]
  PROVE  SetupStays
<1> DEFINE r == Calls(t, pc, i, ret)
<1>1. r \in ThreadType /\ r.pc \notin {"storing", "writing"}
  BY CallsType DEF SetupPcs
<1>2. SetupRuns' => SetupRuns
  BY ThreadCalls
<1> HIDE DEF r
<1> QED BY <1>1, <1>2, SetupStaysBecomes DEF r

LEMMA ThreadStays ==
  ASSUME TypeOK, UNCHANGED <<th, acctVars>>
  PROVE  SetupStays
  BY DEF SetupStays, SetupRuns

LEMMA LoopKept == loop' = loop => LoopKeepsRead
  BY DEF LoopKeepsRead
LEMMA TunnelsKept == tunnels' = tunnels => NoneBegins
  BY DEF NoneBegins
LEMMA LoopElsewhere == loop'.pc \notin ReadPcs => LoopKeepsRead
  BY DEF LoopKeepsRead

\* The calls of a thread.
LEMMA DisconnectStepsKeepAccount ==
  ASSUME TypeInv, AccountInv, NEW t \in Threads, DisconnectSteps(t)
  PROVE  AccountInv'
<1> USE DEF TypeInv, TypeOK, acctVars, secrVars, codeVars, lifeVars, flagVars, wishVars, pageVars
<1>1. CASE ThreadClosesAll(t)
  <2>1. SetupStays
    BY <1>1, SetupStaysGoesTo DEF ThreadClosesAll, ThreadPcs, SetupPcs
  <2>2. LoopKeepsRead
    BY <1>1, LoopKept DEF ThreadClosesAll
  <2>3. NoneBegins
    BY <1>1, TunnelsKept DEF ThreadClosesAll
  <2> QED
    BY <2>1, <2>2, <2>3, AccountStays
<1>2. CASE ThreadStops(t)
  <2>1. SetupStays
    BY <1>2, SetupStaysGoesTo, SetupStaysReturns DEF ThreadStops, ThreadPcs, SetupPcs
  <2>2. LoopKeepsRead
    BY <1>2, LoopKept DEF ThreadStops
  <2>3. NoneBegins
    BY <1>2 DEF ThreadStops, NoneBegins, MarkStopping, TunnelType
  <2> QED
    BY <2>1, <2>2, <2>3, AccountStays
<1>3. CASE ThreadStopped(t)
  <2>1. SetupStays
    BY <1>3, SetupStaysReturns DEF ThreadStopped
  <2>2. LoopKeepsRead
    BY <1>3, LoopKept DEF ThreadStopped
  <2>3. NoneBegins
    BY <1>3, TunnelsKept DEF ThreadStopped
  <2> QED
    BY <2>1, <2>2, <2>3, AccountStays
<1>4. CASE LoopIsDone(t)
  <2>1. SetupStays
    BY <1>4, SetupStaysGoesTo DEF LoopIsDone, ThreadPcs, SetupPcs
  <2>2. LoopKeepsRead
    BY <1>4, LoopKept DEF LoopIsDone
  <2>3. NoneBegins
    BY <1>4, TunnelsKept DEF LoopIsDone
  <2> QED
    BY <2>1, <2>2, <2>3, AccountStays
<1>5. CASE ThreadClosesIdle(t)
  <2>1. SetupStays
    BY <1>5, SetupStaysGoesTo DEF ThreadClosesIdle, ThreadPcs, SetupPcs
  <2>2. LoopKeepsRead
    BY <1>5, LoopKept DEF ThreadClosesIdle
  <2>3. NoneBegins
    BY <1>5, TunnelsKept DEF ThreadClosesIdle
  <2> QED
    BY <2>1, <2>2, <2>3, AccountStays
<1>6. CASE ThreadToIdle(t)
  <2>1. SetupStays
    BY <1>6, SetupStaysReturns DEF ThreadToIdle
  <2>2. LoopKeepsRead
    BY <1>6, LoopKept DEF ThreadToIdle
  <2>3. NoneBegins
    BY <1>6, TunnelsKept DEF ThreadToIdle
  <2> QED
    BY <2>1, <2>2, <2>3, AccountStays
<1> QED BY <1>1, <1>2, <1>3, <1>4, <1>5, <1>6 DEF DisconnectSteps

\* secretsChanged, and the connect button.
LEMMA SecretsStepsKeepAccount ==
  ASSUME TypeInv, AccountInv, NEW t \in Threads, RequestConnect \/ SecretsSteps(t)
  PROVE  AccountInv'
<1> USE DEF TypeInv, TypeOK, acctVars, secrVars, codeVars, lifeVars, flagVars, wishVars, pageVars
<1>1. CASE RequestConnect
  <2>1. SetupStays
    BY <1>1, ThreadStays DEF RequestConnect
  <2>2. LoopKeepsRead
    BY <1>1, ConnectLockedType, LoopKept DEF RequestConnect, LoopKeepsRead, ReadPcs
  <2>3. NoneBegins
    BY <1>1, TunnelsKept DEF RequestConnect
  <2> QED
    BY <2>1, <2>2, <2>3, AccountStays
<1>2. CASE SecretsChanged(t)
  <2>1. SetupStays
    BY <1>2, SetupStaysCalls, SetupStaysRests DEF SecretsChanged, ThreadPcs, SetupPcs, RetPcs
  <2>2. LoopKeepsRead
    BY <1>2, ConnectLockedType, LoopKept DEF SecretsChanged, LoopKeepsRead, ReadPcs
  <2>3. NoneBegins
    BY <1>2, TunnelsKept DEF SecretsChanged
  <2> QED
    BY <2>1, <2>2, <2>3, AccountStays
<1>3. CASE Reconnects(t)
  <2>1. SetupStays
    BY <1>3, SetupStaysRests DEF Reconnects, ThreadPcs, SetupPcs
  <2>2. LoopKeepsRead
    BY <1>3, ConnectLockedType, LoopKept DEF Reconnects, LoopKeepsRead, ReadPcs
  <2>3. NoneBegins
    BY <1>3, TunnelsKept DEF Reconnects
  <2> QED
    BY <2>1, <2>2, <2>3, AccountStays
<1> QED BY <1>1, <1>2, <1>3 DEF SecretsSteps

\* RequestDisconnect by the user or by a setup.
LEMMA RequestDisconnectKeepsAccount ==
  ASSUME TypeInv, AccountInv, NEW t \in Threads, NEW ret \in RetPcs,
         t = "setup" => SetupRuns, th[t].pc \in {"idle", "teardown"}, RequestDisconnect(t, ret),
         ret = "switch" => t = "setup"
  PROVE  AccountInv'
<1> USE DEF TypeInv, TypeOK, acctVars, secrVars, codeVars, lifeVars, flagVars, wishVars, pageVars
<1>1. LoopKeepsRead /\ NoneBegins
  BY DEF RequestDisconnect, LoopKeepsRead, NoneBegins, LoopType
<1>2. PICK pc \in {"closeAll", "waitDone", "closeIdle"}, i \in Ids \cup {0} :
           th' = Raced([th EXCEPT ![t] = Calls(t, pc, i, ret)])
  BY DEF RequestDisconnect
<1> DEFINE f == [th EXCEPT ![t] = Calls(t, pc, i, ret)]
<1>3. Calls(t, pc, i, ret) \in ThreadType /\ Calls(t, pc, i, ret).pc = pc /\ Calls(t, pc, i,
      ret).ret = ret
  BY CallsType DEF ThreadPcs
<1>4. f \in [Threads -> ThreadType]
  BY <1>3
<1>5. th'["setup"].pc = f["setup"].pc /\ th'["setup"].ret = f["setup"].ret
  BY <1>2, <1>4, RacedType DEF Threads
<1>6. UNCHANGED acctVars
  BY DEF RequestDisconnect
<1>7. SetupStays
  BY <1>3, <1>5, <1>6 DEF SetupStays, SetupRuns, SetupPcs, Threads
<1> QED BY <1>1, <1>7, AccountStays

\* completeSetup moves the user first and the gateway last.
LEMMA SetupStepsKeepAccount ==
  ASSUME TypeInv, AccountInv, NEW a \in Accounts, SetupBegins(a) \/ SetupSteps
  PROVE  AccountInv'
<1> USE DEF TypeInv, TypeOK, acctVars, secrVars, codeVars, lifeVars, flagVars, wishVars, pageVars
<1>1. CASE SetupBegins(a)
  <2>1. SetupPutsBack' /\ SetupSwitched'
    BY <1>1
    DEF SetupBegins, AccountInv, UserHasGateway, SwitchIsSetup, SetupPutsBack, SetupSwitched,
        Threads
  <2>2. SwitchIsSetup' /\ UserHasGateway'
    BY <1>1 DEF SetupBegins, AccountInv, UserHasGateway, SwitchIsSetup, Threads
  <2>3. GenNoted' /\ ReadOwner'
    BY <1>1 DEF SetupBegins, AccountInv, GenNoted, ReadOwner, Changing
  <2>4. TunnelsConsistent'
    BY <1>1 DEF SetupBegins, AccountInv, TunnelsConsistent, Live
  <2> QED
    BY <2>1, <2>2, <2>3, <2>4 DEF AccountInv
<1>2. CASE SetupTearsDown
  <2>1. SetupRuns
    BY <1>2 DEF SetupTearsDown, SetupRuns, SetupPcs
  <2>2. AccountInv'
    BY <1>2, <2>1, RequestDisconnectKeepsAccount DEF SetupTearsDown, Threads, RetPcs
  <2> QED
    BY <2>2
<1>3. CASE SetupSwitches
  <2>1. SetupRuns
    BY <1>3 DEF SetupSwitches, SetupRuns, SetupPcs
  <2>2. SetupPutsBack' /\ SetupSwitched'
    BY <1>3, <2>1 DEF SetupSwitches, AccountInv, SetupPutsBack, SetupSwitched, Threads
  <2>3. SwitchIsSetup' /\ UserHasGateway'
    BY <1>3 DEF SetupSwitches, UserHasGateway, SwitchIsSetup, Threads
  <2>4. GenNoted' /\ ReadOwner'
    BY <1>3 DEF SetupSwitches, AccountInv, GenNoted, ReadOwner, Changing
  <2>5. TunnelsConsistent'
    BY <1>3 DEF SetupSwitches, AccountInv, TunnelsConsistent, Live
  <2> QED
    BY <2>2, <2>3, <2>4, <2>5 DEF AccountInv
<1>4. CASE SetupStores
  <2>1. SetupRuns
    BY <1>4 DEF SetupStores, SetupRuns, SetupPcs
  <2>2. SetupPutsBack' /\ SetupSwitched'
    BY <1>4, <2>1 DEF SetupStores, AccountInv, SetupPutsBack, SetupSwitched, Threads
  <2>3. SwitchIsSetup' /\ UserHasGateway'
    BY <1>4 DEF SetupStores, AccountInv, UserHasGateway, SwitchIsSetup, Threads
  <2>4. GenNoted' /\ ReadOwner'
    BY <1>4 DEF SetupStores, AccountInv, GenNoted, ReadOwner, Changing
  <2>5. TunnelsConsistent'
    BY <1>4 DEF SetupStores, AccountInv, TunnelsConsistent, Live
  <2> QED
    BY <2>2, <2>3, <2>4, <2>5 DEF AccountInv
<1>5. CASE SetupFails
  <2>1. SetupRuns
    BY <1>5 DEF SetupFails, SetupRuns, SetupPcs
  <2>2. ~SetupRuns' /\ SetupSwitched'
    BY <1>5, IdleType DEF SetupFails, SetupRuns, SetupPcs, SetupSwitched, Threads
  <2>3. SwitchIsSetup' /\ UserHasGateway' /\ SetupPutsBack'
    BY <1>5, <2>1, <2>2 DEF SetupFails, AccountInv, UserHasGateway, SwitchIsSetup, SetupPutsBack
  <2>4. loop.pc \in ReadPcs => loop.acc <= accountGen /\ loop.acc # accountGen + 1
    BY <1>5 DEF SetupFails, AccountInv, GenNoted, LoopType
  <2>5. GenNoted' /\ ReadOwner'
    BY <1>5, <2>4 DEF SetupFails, GenNoted, ReadOwner, Changing, LoopType
  <2>6. TunnelsConsistent'
    BY <1>5 DEF SetupFails, AccountInv, TunnelsConsistent, Live
  <2> QED
    BY <2>2, <2>3, <2>5, <2>6 DEF AccountInv
<1>6. ASSUME NEW typed \in {FALSE, "code" \in Events}, SetupApplies(typed) PROVE AccountInv'
  <2>1. SetupRuns
    BY <1>6 DEF SetupApplies, SetupRuns, SetupPcs
  <2>2. cfgUser = setup.to
    BY <1>6 DEF SetupApplies, AccountInv, SetupSwitched
  <2>3. ~SetupRuns' /\ SetupSwitched'
    BY <1>6, IdleType DEF SetupApplies, SetupRuns, SetupPcs, SetupSwitched, Threads, IdleThread
  <2>4. SwitchIsSetup' /\ UserHasGateway' /\ SetupPutsBack'
    BY <1>6, <2>1, <2>2, <2>3 DEF SetupApplies, UserHasGateway, SwitchIsSetup, SetupPutsBack
  <2>5. loop.pc \in ReadPcs => loop.acc <= accountGen /\ loop.acc # accountGen + 1
    BY <1>6 DEF SetupApplies, AccountInv, GenNoted, LoopType
  <2>6. GenNoted' /\ ReadOwner'
    BY <1>6, <2>5 DEF SetupApplies, GenNoted, ReadOwner, Changing, LoopType
  <2>7. TunnelsConsistent'
    BY <1>6 DEF SetupApplies, AccountInv, TunnelsConsistent, Live
  <2> QED
    BY <2>3, <2>4, <2>6, <2>7 DEF AccountInv
<1> QED BY <1>1, <1>2, <1>3, <1>4, <1>5, <1>6 DEF SetupSteps

\* New secrets and the typed code.
LEMMA EditStepsKeepAccount ==
  ASSUME TypeInv, AccountInv, SetPassword \/ SetTOTP \/ NoteCodeShown \/ TypeCode \/
         CancelCode \/ JobWaits \/ JobEnds
  PROVE  AccountInv'
<1> USE DEF TypeInv, TypeOK, acctVars, secrVars, codeVars, lifeVars, flagVars, wishVars, pageVars
<1>1. CASE SetPassword
  <2>1. SetupStays
    BY <1>1, SetupStaysGoesTo DEF SetPassword, EditStores, Threads, ThreadPcs, SetupPcs
  <2>2. LoopKeepsRead
    BY <1>1, LoopKept DEF SetPassword, EditStores
  <2>3. NoneBegins
    BY <1>1, TunnelsKept DEF SetPassword, EditStores
  <2> QED
    BY <2>1, <2>2, <2>3, AccountStays
<1>2. CASE SetTOTP
  <2>1. SetupStays
    BY <1>2, SetupStaysGoesTo DEF SetTOTP, EditStores, Threads, ThreadPcs, SetupPcs
  <2>2. LoopKeepsRead
    BY <1>2, LoopKept DEF SetTOTP, EditStores
  <2>3. NoneBegins
    BY <1>2, TunnelsKept DEF SetTOTP, EditStores
  <2> QED
    BY <2>1, <2>2, <2>3, AccountStays
<1>3. CASE NoteCodeShown
  <2>1. SetupStays
    BY <1>3, SetupStaysGoesTo DEF NoteCodeShown, Threads, ThreadPcs, SetupPcs
  <2>2. LoopKeepsRead
    BY <1>3, LoopKept DEF NoteCodeShown
  <2>3. NoneBegins
    BY <1>3, TunnelsKept DEF NoteCodeShown
  <2> QED
    BY <2>1, <2>2, <2>3, AccountStays
<1>4. CASE TypeCode
  <2>1. SetupStays
    BY <1>4 DEF TypeCode, SetupStays, SetupRuns, Threads, ThreadType
  <2>2. LoopKeepsRead
    BY <1>4, LoopKept DEF TypeCode
  <2>3. NoneBegins
    BY <1>4, TunnelsKept DEF TypeCode
  <2> QED
    BY <2>1, <2>2, <2>3, AccountStays
<1>5. CASE CancelCode
  <2>1. th["job"] \in ThreadType
    BY <1>5 DEF CancelCode, Threads
  <2>2. SetupStays
    BY <1>5 DEF CancelCode, JobUnchanged, SetupStays, SetupRuns, Threads
  <2>3. LoopKeepsRead
    BY <1>5, LoopKept DEF CancelCode, JobUnchanged
  <2>4. NoneBegins
    BY <1>5, TunnelsKept DEF CancelCode, JobUnchanged
  <2> QED
    BY <2>2, <2>3, <2>4, AccountStays
<1>6. CASE JobWaits
  <2>1. SetupStays
    BY <1>6 DEF JobWaits, JobUnchanged, SetupStays, SetupRuns, Threads, ThreadType
  <2>2. LoopKeepsRead
    BY <1>6, LoopKept DEF JobWaits, JobUnchanged
  <2>3. NoneBegins
    BY <1>6, TunnelsKept DEF JobWaits, JobUnchanged
  <2> QED
    BY <2>1, <2>2, <2>3, AccountStays
<1>7. CASE JobEnds
  <2>1. SetupStays
    BY <1>7 DEF JobEnds, JobUnchanged, SetupStays, SetupRuns, Threads
  <2>2. LoopKeepsRead
    BY <1>7, LoopKept DEF JobEnds, JobUnchanged
  <2>3. NoneBegins
    BY <1>7, TunnelsKept DEF JobEnds, JobUnchanged
  <2> QED
    BY <2>1, <2>2, <2>3, AccountStays
<1> QED BY <1>1, <1>2, <1>3, <1>4, <1>5, <1>6, <1>7

\* The ticker.
LEMMA TickerStepsKeepAccount ==
  ASSUME TypeInv, AccountInv, TickChecksCisco \/ TickResumes \/ TickStopsIdle \/ TickerSteps
  PROVE  AccountInv'
<1> USE DEF TypeInv, TypeOK, acctVars, secrVars, codeVars, lifeVars, flagVars, wishVars, pageVars
<1>1. CASE TickChecksCisco
  <2>1. SetupStays
    BY <1>1, SetupStaysCalls, SetupStaysGoesTo, SetupStaysRests
    DEF TickChecksCisco, Threads, ThreadPcs, SetupPcs, RetPcs
  <2>2. LoopKeepsRead
    BY <1>1, LoopKept DEF TickChecksCisco
  <2>3. NoneBegins
    BY <1>1, TunnelsKept DEF TickChecksCisco
  <2> QED
    BY <2>1, <2>2, <2>3, AccountStays
<1>2. CASE TickResumes
  <2>1. SetupStays
    BY <1>2, SetupStaysCalls, SetupStaysRests
    DEF TickResumes, TickerAtRest, Threads, ThreadPcs, SetupPcs, RetPcs
  <2>2. LoopKeepsRead
    BY <1>2, LoopKept DEF TickResumes
  <2>3. NoneBegins
    BY <1>2, TunnelsKept DEF TickResumes
  <2> QED
    BY <2>1, <2>2, <2>3, AccountStays
<1>3. CASE TickStopsIdle
  <2>1. SetupStays
    BY <1>3, SetupStaysCalls, SetupStaysGoesTo, SetupStaysRests
    DEF TickStopsIdle, Threads, ThreadPcs, SetupPcs, RetPcs, IdleTooLong
  <2>2. LoopKeepsRead
    BY <1>3, LoopKept DEF TickStopsIdle
  <2>3. NoneBegins
    BY <1>3, TunnelsKept DEF TickStopsIdle
  <2> QED
    BY <2>1, <2>2, <2>3, AccountStays
<1>4. ASSUME NEW cisco \in CiscoAnswers, TickCisco(cisco) PROVE AccountInv'
  <2>1. SetupStays
    BY <1>4, SetupStaysCalls, SetupStaysGoesTo, SetupStaysRests
    DEF TickCisco, Threads, ThreadPcs, SetupPcs, RetPcs
  <2>2. LoopKeepsRead
    BY <1>4, LoopKept DEF TickCisco
  <2>3. NoneBegins
    BY <1>4, TunnelsKept DEF TickCisco
  <2> QED
    BY <2>1, <2>2, <2>3, AccountStays
<1>5. CASE TickEnds
  <2>1. SetupStays
    BY <1>5, SetupStaysCalls, SetupStaysGoesTo, SetupStaysRests
    DEF TickEnds, Threads, ThreadPcs, SetupPcs, RetPcs
  <2>2. LoopKeepsRead
    BY <1>5, LoopKept DEF TickEnds
  <2>3. NoneBegins
    BY <1>5, TunnelsKept DEF TickEnds
  <2> QED
    BY <2>1, <2>2, <2>3, AccountStays
<1> QED BY <1>1, <1>2, <1>3, <1>4, <1>5 DEF TickerSteps

\* Browser connections.
LEMMA PageStepsKeepAccount ==
  ASSUME TypeInv, AccountInv, NEW p \in Pages, PageSteps(p)
  PROVE  AccountInv'
<1> USE DEF TypeInv, TypeOK, acctVars, secrVars, codeVars, lifeVars, flagVars, wishVars, pageVars
<1>1. CASE PageOpens(p)
  <2>1. SetupStays
    BY <1>1, ThreadStays DEF PageOpens, PageUnchanged
  <2>2. LoopKeepsRead
    BY <1>1, EnsuredType, LoopKept DEF PageOpens, AcquirePass, LoopKeepsRead, ReadPcs
  <2>3. NoneBegins
    BY <1>1, TunnelsKept DEF PageOpens, PageUnchanged
  <2> QED
    BY <2>1, <2>2, <2>3, AccountStays
<1>2. CASE PageLooksAgain(p)
  <2>1. SetupStays
    BY <1>2, ThreadStays DEF PageLooksAgain, PageUnchanged
  <2>2. LoopKeepsRead
    BY <1>2, EnsuredType, LoopKept DEF PageLooksAgain, AcquirePass, LoopKeepsRead, ReadPcs
  <2>3. NoneBegins
    BY <1>2, TunnelsKept DEF PageLooksAgain, PageUnchanged
  <2> QED
    BY <2>1, <2>2, <2>3, AccountStays
<1>3. CASE PageEnds(p)
  <2>1. SetupStays
    BY <1>3, ThreadStays DEF PageEnds, PageUnchanged
  <2>2. LoopKeepsRead
    BY <1>3, LoopKept DEF PageEnds
  <2>3. NoneBegins
    BY <1>3, TunnelsKept DEF PageEnds, PageUnchanged
  <2> QED
    BY <2>1, <2>2, <2>3, AccountStays
<1>4. CASE Traffic(p)
  <2>1. SetupStays
    BY <1>4, ThreadStays DEF Traffic, PageUnchanged
  <2>2. LoopKeepsRead
    BY <1>4, LoopKept DEF Traffic
  <2>3. NoneBegins
    BY <1>4, TunnelsKept DEF Traffic, PageUnchanged
  <2> QED
    BY <2>1, <2>2, <2>3, AccountStays
<1> QED BY <1>1, <1>2, <1>3, <1>4 DEF PageSteps

\* Time that passes.
LEMMA TimeKeepsAccount ==
  ASSUME TypeInv, AccountInv, DemandEnds \/ IdleElapses \/ WindowEnds
  PROVE  AccountInv'
<1> USE DEF TypeInv, TypeOK, acctVars, secrVars, codeVars, lifeVars, flagVars, wishVars, pageVars
<1>1. CASE DemandEnds
  <2>1. SetupStays
    BY <1>1, ThreadStays DEF DemandEnds, PageUnchanged
  <2>2. LoopKeepsRead
    BY <1>1, LoopKept DEF DemandEnds
  <2>3. NoneBegins
    BY <1>1, TunnelsKept DEF DemandEnds, PageUnchanged
  <2> QED
    BY <2>1, <2>2, <2>3, AccountStays
<1>2. CASE IdleElapses
  <2>1. SetupStays
    BY <1>2, ThreadStays DEF IdleElapses, PageUnchanged
  <2>2. LoopKeepsRead
    BY <1>2, LoopKept DEF IdleElapses
  <2>3. NoneBegins
    BY <1>2, TunnelsKept DEF IdleElapses, PageUnchanged
  <2> QED
    BY <2>1, <2>2, <2>3, AccountStays
<1>3. CASE WindowEnds
  <2>1. SetupStays
    BY <1>3, ThreadStays DEF WindowEnds
  <2>2. LoopKeepsRead
    BY <1>3, LoopKept DEF WindowEnds
  <2>3. NoneBegins
    BY <1>3, TunnelsKept DEF WindowEnds
  <2> QED
    BY <2>1, <2>2, <2>3, AccountStays
<1> QED BY <1>1, <1>2, <1>3

\* openconnect.
LEMMA TunnelKeepsAccount ==
  ASSUME TypeInv, AccountInv, NEW i \in Ids, TunnelSpawns \/ TunnelSendsCode(i) \/
         TunnelOpensPort(i) \/ TunnelExits(i)
  PROVE  AccountInv'
<1> USE DEF TypeInv, TypeOK, acctVars, secrVars, codeVars, lifeVars, flagVars, wishVars, pageVars
<1>1. CASE TunnelSpawns
  <2>1. SetupStays
    BY <1>1, ThreadStays DEF TunnelSpawns, TunnelUnchanged
  <2>2. LoopKeepsRead
    BY <1>1, LoopKept DEF TunnelSpawns, TunnelUnchanged
  <2>3. NoneBegins
    BY <1>1 DEF TunnelSpawns, NoneBegins, TunnelType
  <2> QED
    BY <2>1, <2>2, <2>3, AccountStays
<1>2. CASE TunnelSendsCode(i)
  <2>1. SetupStays
    BY <1>2, ThreadStays DEF TunnelSendsCode, TunnelUnchanged
  <2>2. LoopKeepsRead
    BY <1>2, LoopKept DEF TunnelSendsCode, TunnelUnchanged
  <2>3. NoneBegins
    BY <1>2 DEF TunnelSendsCode, NoneBegins, TunnelType
  <2> QED
    BY <2>1, <2>2, <2>3, AccountStays
<1>3. CASE TunnelOpensPort(i)
  <2>1. SetupStays
    BY <1>3, ThreadStays DEF TunnelOpensPort, TunnelUnchanged
  <2>2. LoopKeepsRead
    BY <1>3, LoopKept DEF TunnelOpensPort, TunnelUnchanged
  <2>3. NoneBegins
    BY <1>3 DEF TunnelOpensPort, NoneBegins, TunnelType
  <2> QED
    BY <2>1, <2>2, <2>3, AccountStays
<1>4. CASE TunnelExits(i)
  <2>1. SetupStays
    BY <1>4, ThreadStays DEF TunnelExits, TunnelUnchanged
  <2>2. LoopKeepsRead
    BY <1>4, LoopKept DEF TunnelExits, TunnelUnchanged
  <2>3. NoneBegins
    BY <1>4, DeadType DEF TunnelExits, NoneBegins, TunnelType
  <2> QED
    BY <2>1, <2>2, <2>3, AccountStays
<1> QED BY <1>1, <1>2, <1>3, <1>4

\* The end of the program, and the next one.
LEMMA RunStepsKeepAccount ==
  ASSUME TypeInv, AccountInv, Stop \/ RunCancels \/ RunEnds \/ Restart
  PROVE  AccountInv'
<1> USE DEF TypeInv, TypeOK, acctVars, secrVars, codeVars, lifeVars, flagVars, wishVars, pageVars
<1>1. CASE Stop
  <2>1. SetupStays
    BY <1>1, ThreadStays DEF Stop
  <2>2. LoopKeepsRead
    BY <1>1, LoopKept DEF Stop
  <2>3. NoneBegins
    BY <1>1, TunnelsKept DEF Stop
  <2> QED
    BY <2>1, <2>2, <2>3, AccountStays
<1>2. CASE RunCancels
  <2>1. SetupStays
    BY <1>2, SetupStaysCalls DEF RunCancels, Threads, ThreadPcs, SetupPcs, RetPcs
  <2>2. LoopKeepsRead
    BY <1>2 DEF RunCancels, LoopKeepsRead, LoopType
  <2>3. NoneBegins
    BY <1>2, TunnelsKept DEF RunCancels
  <2> QED
    BY <2>1, <2>2, <2>3, AccountStays
<1>3. CASE RunEnds
  <2>1. SetupStays
    BY <1>3, SetupStaysRests DEF RunEnds, Threads, ThreadPcs, SetupPcs
  <2>2. LoopKeepsRead
    BY <1>3, LoopKept DEF RunEnds
  <2>3. NoneBegins
    BY <1>3, TunnelsKept DEF RunEnds
  <2> QED
    BY <2>1, <2>2, <2>3, AccountStays
<1>4. CASE Restart
  <2>1. loop'.pc \notin ReadPcs
    BY <1>4 DEF Restart, EndedIsOff, ReadPcs
  <2>2. SwitchIsSetup' /\ UserHasGateway'
    BY <1>4 DEF Restart, AccountInv, SwitchIsSetup, UserHasGateway
  <2>3. SetupPutsBack' /\ SetupSwitched'
    BY <1>4 DEF Restart, AccountInv, SetupPutsBack, SetupSwitched, SetupRuns
  <2>4. TunnelsConsistent'
    BY <1>4 DEF Restart, AccountInv, TunnelsConsistent, Live
  <2> QED
    BY <2>1, <2>2, <2>3, <2>4 DEF AccountInv, GenNoted, ReadOwner
<1> QED BY <1>1, <1>2, <1>3, <1>4

\* What the head of the loop and the end of an attempt leave of the read and of the attempts.
LEMMA LoopHeadKeeps ==
  ASSUME TypeOK, NEW st, NEW pg, LoopHead(st, pg)
  PROVE  LoopKeepsRead
<1>1. loop' = LoopOff \/ loop' = [LoopOff EXCEPT !.pc = "cisco", !.cancelled = loop.cancelled]
  BY DEF LoopHead
<1>2. loop'.pc \in {"off", "cisco"}
  BY <1>1, LoopOffType DEF LoopType
<1> QED BY <1>2, LoopElsewhere DEF ReadPcs

LEMMA EndsWithKeeps ==
  ASSUME NEW st, NEW by, EndsWith(st, by)
  PROVE  LoopKeepsRead
  BY LoopElsewhere DEF EndsWith, LoopOff, ReadPcs

LEMMA DroppedKeeps ==
  ASSUME TypeOK, tun \in Ids, tunnels' = Dropped
  PROVE  NoneBegins
  BY DeadType DEF Dropped, NoneBegins, TypeOK

LEMMA KilledKeeps ==
  ASSUME TypeOK, tun \in Ids, tunnels' = KilledIfStopped
  PROVE  NoneBegins
  BY DEF KilledIfStopped, NoneBegins, TypeOK, TunnelType, Live, Exited

LEMMA MarkKeeps ==
  ASSUME TypeOK, NEW i \in Ids \cup {0}, tunnels' = MarkStopping(i)
  PROVE  NoneBegins
  BY DEF MarkStopping, NoneBegins, TypeOK, TunnelType

\* The attempt that begins is the account's: nothing has changed since the read.
LEMMA StartIsConsistent ==
  ASSUME TypeInv, AccountInv, NEW typed \in BOOLEAN, StartsTunnel(typed),
         loop.pc \in {"passwordRead", "totpRead"}, ~Changing, UNCHANGED <<th, acctVars>>
  PROVE  AccountInv'
<1> USE DEF TypeInv, TypeOK
<1>1. loop.owner = cfgUser /\ cfgUser = cfgHost
  BY DEF AccountInv, ReadOwner, ReadPcs, UserHasGateway, Changing
<1>2. PICK i \in Ids :
        /\ tunnels' = [tunnels EXCEPT ![i] = [Dead EXCEPT !.phase = "new", !.user = cfgUser,
                          !.host = cfgHost, !.owner = loop.owner, !.ver = loop.ver,
                          !.once = typed]]
        /\ loop' = [loop EXCEPT !.pc = "start", !.once = typed]
  BY DEF StartsTunnel, FreeIds
<1>3. TunnelsConsistent'
  BY <1>1, <1>2 DEF AccountInv, TunnelsConsistent, Live, TunnelType, Dead
<1>4. loop'.pc = "start"
  BY <1>2 DEF LoopType
<1>5. GenNoted' /\ ReadOwner'
  BY <1>4 DEF GenNoted, ReadOwner, ReadPcs
<1>6. SwitchIsSetup' /\ UserHasGateway' /\ SetupPutsBack' /\ SetupSwitched'
  BY
  DEF AccountInv, SwitchIsSetup, UserHasGateway, SetupPutsBack, SetupSwitched, SetupRuns,
      acctVars
<1> QED BY <1>3, <1>5, <1>6 DEF AccountInv

\* The connect loop reads the settings and two secrets in turn, and starts openconnect with them.
LEMMA LoopStepsKeepAccount ==
  ASSUME TypeInv, AccountInv, LoopSteps
  PROVE  AccountInv'
<1> USE DEF TypeInv, TypeOK, acctVars, secrVars, codeVars, lifeVars, flagVars, wishVars, pageVars
<1>1. CASE LoopBegins
  <2>1. SetupStays
    BY <1>1, ThreadStays DEF LoopBegins, LoopUnchanged
  <2>2. LoopKeepsRead
    BY <1>1, LoopHeadKeeps DEF LoopBegins
  <2>3. NoneBegins
    BY <1>1, TunnelsKept DEF LoopBegins
  <2> QED
    BY <2>1, <2>2, <2>3, AccountStays
<1>2. CASE LoopWakes
  <2>1. SetupStays
    BY <1>2, ThreadStays DEF LoopWakes, LoopUnchanged
  <2>2. LoopKeepsRead
    BY <1>2, LoopHeadKeeps DEF LoopWakes
  <2>3. NoneBegins
    BY <1>2, TunnelsKept DEF LoopWakes
  <2> QED
    BY <2>1, <2>2, <2>3, AccountStays
<1>3. ASSUME NEW cisco \in CiscoAnswers, LoopCisco(cisco) PROVE AccountInv'
  <2>1. SetupStays
    BY <1>3, ThreadStays DEF LoopCisco, LoopUnchanged
  <2>2. LoopKeepsRead
    BY <1>3 DEF LoopCisco, LoopKeepsRead, Goes, ReadPcs, LoopType
  <2>3. NoneBegins
    BY <1>3, TunnelsKept DEF LoopCisco
  <2> QED
    BY <2>1, <2>2, <2>3, AccountStays
<1>4. ASSUME NEW online \in BOOLEAN, LoopProbe(online) PROVE AccountInv'
  <2>1. SwitchIsSetup' /\ UserHasGateway' /\ SetupPutsBack' /\ SetupSwitched'
    BY <1>4
    DEF LoopProbe, LoopUnchanged, AccountInv, SwitchIsSetup, UserHasGateway, SetupPutsBack,
        SetupSwitched, SetupRuns
  <2>2. loop'.pc \in ReadPcs => loop'.pc = "password" /\ loop'.acc = accountGen
    BY <1>4 DEF LoopProbe, Goes, ReadPcs, LoopType
  <2>3. GenNoted' /\ ReadOwner'
    BY <1>4, <2>2 DEF LoopProbe, LoopUnchanged, GenNoted, ReadOwner
  <2>4. TunnelsConsistent'
    BY <1>4 DEF LoopProbe, LoopUnchanged, AccountInv, TunnelsConsistent, Live
  <2> QED
    BY <2>1, <2>3, <2>4 DEF AccountInv
<1>5. ASSUME NEW result \in Reads, PasswordIsRead(result) PROVE AccountInv'
  <2>1. SwitchIsSetup' /\ UserHasGateway' /\ SetupPutsBack' /\ SetupSwitched'
    BY <1>5
    DEF PasswordIsRead, LoopUnchanged, AccountInv, SwitchIsSetup, UserHasGateway, SetupPutsBack,
        SetupSwitched, SetupRuns
  <2>2. GenNoted'
    BY <1>5 DEF PasswordIsRead, LoopUnchanged, AccountInv, GenNoted, ReadPcs, LoopType
  <2>3. ReadOwner'
    BY <1>5 DEF PasswordIsRead, LoopUnchanged, ReadOwner, LoopType
  <2>4. TunnelsConsistent'
    BY <1>5 DEF PasswordIsRead, LoopUnchanged, AccountInv, TunnelsConsistent, Live
  <2> QED
    BY <2>1, <2>2, <2>3, <2>4 DEF AccountInv
<1>6. ASSUME NEW result \in Reads, TOTPIsRead(result) PROVE AccountInv'
  <2>1. SwitchIsSetup' /\ UserHasGateway' /\ SetupPutsBack' /\ SetupSwitched'
    BY <1>6
    DEF TOTPIsRead, LoopUnchanged, AccountInv, SwitchIsSetup, UserHasGateway, SetupPutsBack,
        SetupSwitched, SetupRuns
  <2>2. GenNoted'
    BY <1>6 DEF TOTPIsRead, LoopUnchanged, AccountInv, GenNoted, ReadPcs, LoopType
  <2>3. ReadOwner'
    BY <1>6 DEF TOTPIsRead, LoopUnchanged, AccountInv, ReadOwner, ReadPcs, Changing, LoopType
  <2>4. TunnelsConsistent'
    BY <1>6 DEF TOTPIsRead, LoopUnchanged, AccountInv, TunnelsConsistent, Live
  <2> QED
    BY <2>1, <2>2, <2>3, <2>4 DEF AccountInv
<1>7. CASE ReadWhileChanging
  <2>1. SetupStays
    BY <1>7, ThreadStays DEF ReadWhileChanging, LoopUnchanged
  <2>2. LoopKeepsRead
    BY <1>7, LoopHeadKeeps DEF ReadWhileChanging, LoopKeepsRead, Goes, ReadPcs, LoopType
  <2>3. NoneBegins
    BY <1>7, TunnelsKept DEF ReadWhileChanging
  <2> QED
    BY <2>1, <2>2, <2>3, AccountStays
<1>8. CASE ReadFailed
  <2>1. SetupStays
    BY <1>8, ThreadStays DEF ReadFailed, LoopUnchanged
  <2>2. LoopKeepsRead
    BY <1>8, EndsWithKeeps DEF ReadFailed
  <2>3. NoneBegins
    BY <1>8, TunnelsKept DEF ReadFailed
  <2> QED
    BY <2>1, <2>2, <2>3, AccountStays
<1>9. CASE PasswordThere
  <2>1. SetupStays
    BY <1>9, ThreadStays DEF PasswordThere, LoopUnchanged
  <2>2. (Goes("totp") /\ UNCHANGED tunnels) \/ (\E typed \in BOOLEAN : StartsTunnel(typed))
    BY <1>9 DEF PasswordThere, NeedsTOTP
  <2>3. ASSUME NEW typed \in BOOLEAN, StartsTunnel(typed) PROVE AccountInv'
    BY <1>9, <2>3, StartIsConsistent DEF PasswordThere, LoopUnchanged
  <2>4. ASSUME Goes("totp"), UNCHANGED tunnels PROVE AccountInv'
    BY <1>9, <2>4
    DEF PasswordThere, LoopUnchanged, Goes, AccountInv, SwitchIsSetup, UserHasGateway,
        SetupPutsBack, SetupSwitched, SetupRuns, GenNoted, ReadOwner, ReadPcs, Changing,
        TunnelsConsistent, Live, LoopType
  <2> QED
    BY <2>2, <2>3, <2>4, AccountStays
<1>10. CASE TOTPThere
  <2>1. AccountInv'
    BY <1>10, StartIsConsistent DEF TOTPThere, LoopUnchanged
  <2> QED
    BY <2>1, AccountStays
<1>11. ASSUME NEW st \in StartErrors, StartFails(st) PROVE AccountInv'
  <2>1. tun \in Ids
    BY <1>11, AttemptTypes DEF StartFails, TunnelPcs
  <2>2. SetupStays
    BY <1>11, ThreadStays DEF StartFails, LoopUnchanged
  <2>3. LoopKeepsRead
    BY <1>11, EndsWithKeeps DEF StartFails
  <2>4. NoneBegins
    BY <1>11, <2>1, DeadType DEF StartFails, NoneBegins
  <2> QED
    BY <2>2, <2>3, <2>4, AccountStays
<1>12. CASE StartReturns
  <2>1. tun \in Ids
    BY <1>12, AttemptTypes DEF StartReturns, TunnelPcs
  <2>2. SetupStays
    BY <1>12, ThreadStays DEF StartReturns, LoopUnchanged
  <2>3. LoopKeepsRead
    BY <1>12 DEF StartReturns, LoopKeepsRead, Goes, ReadPcs, LoopType
  <2>4. NoneBegins
    BY <1>12, <2>1, KilledKeeps DEF StartReturns
  <2> QED
    BY <2>2, <2>3, <2>4, AccountStays
<1>13. ASSUME NEW ready \in BOOLEAN, WaitReadyEnds(ready) PROVE AccountInv'
  <2>1. SetupStays
    BY <1>13, ThreadStays DEF WaitReadyEnds, LoopUnchanged
  <2>2. LoopKeepsRead
    BY <1>13 DEF WaitReadyEnds, LoopKeepsRead, Goes, ReadPcs, LoopType
  <2>3. NoneBegins
    BY <1>13, TunnelsKept DEF WaitReadyEnds
  <2> QED
    BY <2>1, <2>2, <2>3, AccountStays
<1>14. CASE JudgeGoingAway
  <2>1. SetupStays
    BY <1>14, ThreadStays DEF JudgeGoingAway, LoopUnchanged
  <2>2. LoopKeepsRead
    BY <1>14 DEF JudgeGoingAway, LoopKeepsRead, Goes, ReadPcs, LoopType
  <2>3. NoneBegins
    BY <1>14, TunnelsKept DEF JudgeGoingAway
  <2> QED
    BY <2>1, <2>2, <2>3, AccountStays
<1>15. CASE JudgeConnected
  <2>1. SetupStays
    BY <1>15, ThreadStays DEF JudgeConnected
  <2>2. LoopKeepsRead
    BY <1>15 DEF JudgeConnected, LoopKeepsRead, Goes, ReadPcs, LoopType
  <2>3. NoneBegins
    BY <1>15, TunnelsKept DEF JudgeConnected
  <2> QED
    BY <2>1, <2>2, <2>3, AccountStays
<1>16. CASE JudgeStale
  <2>1. SetupStays
    BY <1>16, ThreadStays DEF JudgeStale, LoopUnchanged
  <2>2. LoopKeepsRead
    BY <1>16 DEF JudgeStale, LoopKeepsRead, Goes, ReadPcs, LoopType
  <2>3. NoneBegins
    BY <1>16, TunnelsKept DEF JudgeStale
  <2> QED
    BY <2>1, <2>2, <2>3, AccountStays
<1>17. CASE DropStale
  <2>1. tun \in Ids
    BY <1>17, AttemptTypes DEF DropStale, TunnelPcs, NotReady
  <2>2. SetupStays
    BY <1>17, ThreadStays DEF DropStale, LoopUnchanged
  <2>3. LoopKeepsRead
    BY <1>17, LoopHeadKeeps DEF DropStale
  <2>4. NoneBegins
    BY <1>17, <2>1, DroppedKeeps DEF DropStale
  <2> QED
    BY <2>2, <2>3, <2>4, AccountStays
<1>18. CASE LoopStops
  <2>1. SetupStays
    BY <1>18, ThreadStays DEF LoopStops, LoopUnchanged
  <2>2. LoopKeepsRead
    BY <1>18 DEF LoopStops, LoopKeepsRead, Goes, ReadPcs, LoopType
  <2>3. NoneBegins
    BY <1>18, MarkKeeps DEF LoopStops
  <2> QED
    BY <2>1, <2>2, <2>3, AccountStays
<1>19. CASE JudgeStopped
  <2>1. tun \in Ids
    BY <1>19, AttemptTypes DEF JudgeStopped, TunnelPcs, NotReady
  <2>2. SetupStays
    BY <1>19, ThreadStays DEF JudgeStopped, LoopUnchanged
  <2>3. LoopKeepsRead
    BY <1>19, LoopHeadKeeps DEF JudgeStopped
  <2>4. NoneBegins
    BY <1>19, <2>1, DroppedKeeps DEF JudgeStopped
  <2> QED
    BY <2>2, <2>3, <2>4, AccountStays
<1>20. CASE JudgeSlow
  <2>1. SetupStays
    BY <1>20, ThreadStays DEF JudgeSlow, LoopUnchanged
  <2>2. LoopKeepsRead
    BY <1>20 DEF JudgeSlow, LoopKeepsRead, Goes, ReadPcs, LoopType
  <2>3. NoneBegins
    BY <1>20, TunnelsKept DEF JudgeSlow
  <2> QED
    BY <2>1, <2>2, <2>3, AccountStays
<1>21. CASE JudgeError
  <2>1. tun \in Ids
    BY <1>21, AttemptTypes DEF JudgeError, TunnelPcs, NotReady
  <2>2. SetupStays
    BY <1>21, ThreadStays DEF JudgeError, LoopUnchanged
  <2>3. LoopKeepsRead
    BY <1>21 DEF JudgeError, LoopKeepsRead, Goes, ReadPcs, LoopType, LoopOff
  <2>4. NoneBegins
    BY <1>21, <2>1, DroppedKeeps DEF JudgeError
  <2> QED
    BY <2>2, <2>3, <2>4, AccountStays
<1>22. ASSUME NEW message \in Rejections, JudgeRejected(message) PROVE AccountInv'
  <2>1. tun \in Ids
    BY <1>22, AttemptTypes DEF JudgeRejected, TunnelPcs, NotReady
  <2>2. SetupStays
    BY <1>22, ThreadStays DEF JudgeRejected, LoopUnchanged
  <2>3. LoopKeepsRead
    BY <1>22, LoopHeadKeeps, EndsWithKeeps DEF JudgeRejected
  <2>4. NoneBegins
    BY <1>22, <2>1, DroppedKeeps DEF JudgeRejected
  <2> QED
    BY <2>2, <2>3, <2>4, AccountStays
<1>23. CASE TunnelWasUp
  <2>1. tun \in Ids
    BY <1>23, AttemptTypes DEF TunnelWasUp, TunnelPcs
  <2>2. SetupStays
    BY <1>23, ThreadStays DEF TunnelWasUp, LoopUnchanged
  <2>3. LoopKeepsRead
    BY <1>23 DEF TunnelWasUp, LoopKeepsRead, Goes, ReadPcs, LoopType
  <2>4. NoneBegins
    BY <1>23, <2>1, DroppedKeeps DEF TunnelWasUp
  <2> QED
    BY <2>2, <2>3, <2>4, AccountStays
<1>24. CASE LoopClosesAll
  <2>1. SetupStays
    BY <1>24, ThreadStays DEF LoopClosesAll, LoopUnchanged
  <2>2. LoopKeepsRead
    BY <1>24 DEF LoopClosesAll, LoopKeepsRead, Goes, ReadPcs, LoopType
  <2>3. NoneBegins
    BY <1>24, TunnelsKept DEF LoopClosesAll
  <2> QED
    BY <2>1, <2>2, <2>3, AccountStays
<1>25. CASE AfterUp
  <2>1. SetupStays
    BY <1>25, ThreadStays DEF AfterUp, LoopUnchanged
  <2>2. LoopKeepsRead
    BY <1>25, LoopHeadKeeps DEF AfterUp, LoopKeepsRead, Goes, ReadPcs, LoopType, LoopOff
  <2>3. NoneBegins
    BY <1>25, TunnelsKept DEF AfterUp
  <2> QED
    BY <2>1, <2>2, <2>3, AccountStays
<1>26. CASE LoopCancelled
  <2>1. SetupStays
    BY <1>26, ThreadStays DEF LoopCancelled, LoopUnchanged
  <2>2. LoopKeepsRead
    BY <1>26, LoopOffType, LoopElsewhere DEF LoopCancelled, ReadPcs
  <2>3. loop.pc = "start" => tun \in Ids
    BY <1>26, AttemptTypes DEF LoopCancelled, TunnelPcs
  <2>4. NoneBegins
    BY <1>26, <2>3, KilledKeeps, TunnelsKept DEF LoopCancelled
  <2> QED
    BY <2>1, <2>2, <2>4, AccountStays
<1> QED BY <1>1, <1>2, <1>3, <1>4, <1>5, <1>6, <1>7, <1>8, <1>9, <1>10, <1>11, <1>12, <1>13,
      <1>14, <1>15, <1>16, <1>17, <1>18, <1>19, <1>20, <1>21, <1>22, <1>23, <1>24, <1>25,
      <1>26 DEF LoopSteps

LEMMA AccountInit == Init => AccountInv
  BY
  DEF Init, AccountInv, SwitchIsSetup, UserHasGateway, SetupPutsBack, SetupSwitched, SetupRuns,
      SetupPcs,
         GenNoted, ReadOwner, ReadPcs, LoopOff, TunnelsConsistent, Live, Dead, IdleThread, Threads

LEMMA AccountStep == TypeInv /\ AccountInv /\ [Next]_vars => AccountInv'
<1> SUFFICES ASSUME TypeInv, AccountInv, [Next]_vars PROVE AccountInv'
  OBVIOUS
<1>1. CASE UNCHANGED vars
  BY <1>1, ThreadStays, LoopKept, TunnelsKept, AccountStays DEF vars, TypeInv, acctVars
<1>2. CASE Next
  <2>1. CASE RequestConnect
    BY <2>1, SecretsStepsKeepAccount DEF Threads
  <2>2. CASE Disconnect
    BY <2>2, RequestDisconnectKeepsAccount DEF Disconnect, Threads, RetPcs
  <2>3. ASSUME NEW t \in Threads, DisconnectSteps(t) \/ SecretsSteps(t) PROVE AccountInv'
    BY <2>3, DisconnectStepsKeepAccount, SecretsStepsKeepAccount
  <2>4. ASSUME NEW a \in Accounts, SetupBegins(a) \/ SetupSteps PROVE AccountInv'
    BY <2>4, SetupStepsKeepAccount
  <2>5. Accounts # {}
    BY DEF TypeInv, TypeOK
  <2>6. CASE SetPassword \/ SetTOTP \/ NoteCodeShown \/ TypeCode \/ CancelCode \/ JobWaits \/
        JobEnds
    BY <2>6, EditStepsKeepAccount
  <2>7. CASE TickChecksCisco \/ TickResumes \/ TickStopsIdle \/ TickerSteps
    BY <2>7, TickerStepsKeepAccount
  <2>8. ASSUME NEW p \in Pages, PageSteps(p) PROVE AccountInv'
    BY <2>8, PageStepsKeepAccount
  <2>9. CASE DemandEnds \/ IdleElapses \/ WindowEnds
    BY <2>9, TimeKeepsAccount
  <2>10. CASE LoopSteps
    BY <2>10, LoopStepsKeepAccount
  <2>11. CASE TunnelSpawns
    <3>1. 1 \in Ids
      BY DaemonAssumption DEF Ids
    <3> QED BY <2>11, <3>1, TunnelKeepsAccount
  <2>12. ASSUME NEW i \in Ids, TunnelSendsCode(i) \/ TunnelOpensPort(i) \/ TunnelExits(i)
         PROVE  AccountInv'
    BY <2>12, TunnelKeepsAccount
  <2>13. CASE Stop \/ RunCancels \/ RunEnds \/ Restart
    BY <2>13, RunStepsKeepAccount
  <2> QED
    BY <1>2, <2>1, <2>2, <2>3, <2>4, <2>5, <2>6, <2>7, <2>8, <2>9, <2>10, <2>11, <2>12, <2>13
    DEF Next
<1> QED BY <1>1, <1>2

\* The account moves only as completeSetup moves it, and what the loop has read is the account's
\* unless accountGen or `switching` says otherwise.
THEOREM AccountInvariant == Spec => []AccountInv
  BY TypesInvariant, AccountInit, AccountStep, PTL DEF Spec

\* Whatever a setup does to the account while the loop reads, no openconnect ever signs in with
\* one account's user or password at another account's gateway.
THEOREM Consistent == Spec => []TunnelsConsistent
<1>1. AccountInv => TunnelsConsistent
  BY DEF AccountInv
<1> QED BY <1>1, AccountInvariant, PTL

-----------------------------------------------------------------------------
\* The edits under way.
SetupPends == SetupRuns \/ th["setup"].pc = "changed"
EditPends == th["edit"].pc \in {"noteCode", "changed"}
One(b) == IF b THEN 1 ELSE 0

\* secretsGen counts an edit after it is stored, so it equals `edits` only when no thread is in
\* the middle of one.
Told == secretsGen + One(EditPends) + One(SetupPends) <= edits
EditorsTell == \A t \in Threads : th[t].pc = "changed" => t \in {"edit", "setup"}

\* From the read of the password to the verdict, the loop holds the version it read, which is
\* the stored one as long as no edit came after the note of secretsGen.
JudgePcs == {"passwordRead", "totp", "totpRead", "start", "waitReady", "judge", "awaitExit"}
GenTold == loop.pc # "off" => loop.gen <= secretsGen
VersionRead == loop.pc \in JudgePcs /\ loop.gen = edits => loop.ver = stored[cfgUser]

\* VerdictIsCurrent without its wait for the editing threads.
RefusalShown == state = "auth_failed" /\ verdict.by = "gateway"
VerdictTold == RefusalShown /\ secretsGen = edits => verdict.ver = stored[cfgUser]

\* The job of a typed code makes no call that another thread's pcs describe.
JobPcs == {"idle", "waitConnected", "takeCode", "failed"}
JobPlaces == th["job"].pc \in JobPcs

VersionInv == Told /\ EditorsTell /\ GenTold /\ VersionRead /\ VerdictTold
CodeInv == JobPlaces /\ OnceCodeHasJob

\* A step that tells and stores nothing: no thread begins an edit or leaves its job.
NothingEdited == UNCHANGED <<cfgUser, stored, edits, secretsGen>>
ThreadsKeep ==
    /\ SetupRuns' => SetupRuns
    /\ \A t \in Threads : th'[t].pc \in {"noteCode", "changed"} => th'[t].pc = th[t].pc
    /\ th'["job"].pc = th["job"].pc
LoopKeepsGen ==
    /\ loop'.pc # "off" => loop'.gen = 0 \/ (loop.pc # "off" /\ loop'.gen = loop.gen)
    /\ loop'.pc \in JudgePcs => loop.pc \in JudgePcs /\ loop'.gen = loop.gen /\ loop'.ver = loop.ver
NoRefusal == RefusalShown' => RefusalShown /\ verdict' = verdict

LEMMA VersionStays ==
  ASSUME TypeOK, VersionInv, NothingEdited, ThreadsKeep, LoopKeepsGen, NoRefusal
  PROVE  VersionInv'
<1>1. (EditPends' => EditPends) /\ (SetupPends' => SetupPends)
  BY DEF ThreadsKeep, EditPends, SetupPends, Threads
<1>2. Told' /\ EditorsTell'
  BY <1>1 DEF VersionInv, NothingEdited, ThreadsKeep, Told, One, EditorsTell, TypeOK
<1>3. GenTold' /\ VersionRead'
  BY DEF VersionInv, NothingEdited, LoopKeepsGen, GenTold, VersionRead, TypeOK, LoopType, JudgePcs
<1>4. VerdictTold'
  BY DEF VersionInv, NothingEdited, NoRefusal, VerdictTold
<1> QED BY <1>2, <1>3, <1>4 DEF VersionInv

LEMMA CodeStays ==
  ASSUME CodeInv, ThreadsKeep, onceCode' => onceCode
  PROVE  CodeInv'
  BY DEF CodeInv, ThreadsKeep, JobPlaces, OnceCodeHasJob

\* The whole invariant, under a step that leaves the edits and the job alone.
SecretsInv == VersionInv /\ CodeInv
LEMMA SecretsStay ==
  ASSUME TypeOK, SecretsInv, NothingEdited, ThreadsKeep, LoopKeepsGen, NoRefusal,
         onceCode' => onceCode
  PROVE  SecretsInv'
  BY VersionStays, CodeStays DEF SecretsInv

\* The steps of a thread that begins no edit.
LEMMA KeepBecomes ==
  ASSUME TypeOK, NEW t \in Threads, t # "job", NEW r \in ThreadType, th' = [th EXCEPT ![t] = r],
         r.pc \notin {"noteCode", "changed"}, SetupRuns' => SetupRuns
  PROVE  ThreadsKeep
  BY DEF TypeOK, ThreadsKeep, Threads

LEMMA KeepGoesTo ==
  ASSUME TypeOK, NEW t \in Threads, t # "job", NEW pc \in ThreadPcs \ {"noteCode", "changed"},
         th' = [th EXCEPT ![t].pc = pc], t = "setup" /\ pc \in SetupPcs => SetupRuns
  PROVE  ThreadsKeep
<1> DEFINE r == [th[t] EXCEPT !.pc = pc]
<1>1. r \in ThreadType /\ r.pc = pc /\ th' = [th EXCEPT ![t] = r]
  BY ThreadAt DEF TypeOK
<1>2. SetupRuns' => SetupRuns
  BY ThreadGoesTo
<1> HIDE DEF r
<1> QED BY <1>1, <1>2, KeepBecomes

LEMMA KeepReturns ==
  ASSUME TypeOK, NEW t \in Threads, t # "job", th' = [th EXCEPT ![t] = Returned(t)]
  PROVE  ThreadsKeep
<1>1. Returned(t) \in ThreadType /\ Returned(t).pc \notin {"noteCode", "changed"}
  BY ReturnedType DEF TypeOK, ThreadType, RetPcs
<1> QED BY <1>1, ThreadReturns, KeepBecomes

LEMMA KeepRests ==
  ASSUME TypeOK, NEW t \in Threads, t # "job", th' = [th EXCEPT ![t] = IdleThread]
  PROVE  ThreadsKeep
  BY IdleType, ThreadRests, KeepBecomes

LEMMA KeepCalls ==
  ASSUME TypeOK, NEW t \in Threads, t # "job", NEW i \in Ids \cup {0},
         NEW pc \in ThreadPcs \ (SetupPcs \cup {"noteCode", "changed"}),
         NEW ret \in RetPcs \ {"switch"}, th' = [th EXCEPT ![t] = Calls(t, pc, i, ret)]
  PROVE  ThreadsKeep
<1> DEFINE r == Calls(t, pc, i, ret)
<1>1. r \in ThreadType /\ r.pc \notin {"noteCode", "changed"}
  BY CallsType
<1>2. SetupRuns' => SetupRuns
  BY ThreadCalls
<1> HIDE DEF r
<1> QED BY <1>1, <1>2, KeepBecomes DEF r

LEMMA KeepAll == TypeOK /\ th' = th => ThreadsKeep
  BY DEF ThreadsKeep, SetupRuns

\* The steps of the loop that keep what it noted, or start it afresh.
LEMMA GenKept == loop' = loop => LoopKeepsGen
  BY DEF LoopKeepsGen
LEMMA GenEnsured == TypeOK /\ loop' = Ensured => LoopKeepsGen
  BY DEF Ensured, LoopOff, LoopKeepsGen, JudgePcs
LEMMA GenGoes ==
  ASSUME TypeOK, NEW pc \in LoopPcs, Goes(pc), loop.pc # "off",
         pc \in JudgePcs => loop.pc \in JudgePcs
  PROVE  LoopKeepsGen
  BY DEF Goes, LoopKeepsGen, TypeOK, LoopType
LEMMA GenHead ==
  ASSUME NEW st, NEW pg, LoopHead(st, pg)
  PROVE  LoopKeepsGen /\ (onceCode' => onceCode)
<1>1. loop' = LoopOff \/ loop' = [LoopOff EXCEPT !.pc = "cisco", !.cancelled = loop.cancelled]
  BY DEF LoopHead
<1>2. LoopOff.gen = 0
  BY DEF LoopOff
<1>3. loop'.gen = 0 /\ loop'.pc \in {"off", "cisco"}
  BY <1>1, <1>2, LoopOffType DEF LoopType
<1>4. onceCode' => onceCode
  BY DEF LoopHead
<1> QED BY <1>3, <1>4 DEF LoopKeepsGen, JudgePcs
LEMMA GenOff == loop' = LoopOff => LoopKeepsGen
  BY DEF LoopOff, LoopKeepsGen, JudgePcs

\* A verdict is dropped, or stays with the state that shows it.
LEMMA RefusedHead ==
  ASSUME NEW st, NEW pg, LoopHead(st, pg), st = state \/ st # "auth_failed"
  PROVE  NoRefusal
  BY DEF LoopHead, NoRefusal, RefusalShown, Rested, NoVerdict
LEMMA RefusedShow ==
  ASSUME NEW st, st # "auth_failed", Show(st)
  PROVE  NoRefusal
  BY DEF Show, NoRefusal, RefusalShown
LEMMA RefusedStays == state' = state /\ verdict' = verdict => NoRefusal
  BY DEF NoRefusal, RefusalShown
LEMMA RefusedConnect == ConnectLocked => NoRefusal
  BY DEF ConnectLocked, NoRefusal, RefusalShown, NoVerdict

\* The calls of a thread; the job of a code makes none of them.
LEMMA DisconnectStepsKeepSecrets ==
  ASSUME TypeInv, SecretsInv, NEW t \in Threads \ {"job"}, DisconnectSteps(t)
  PROVE  SecretsInv'
<1> USE DEF TypeInv, TypeOK, acctVars, secrVars, codeVars, lifeVars, flagVars, wishVars, pageVars
<1>1. CASE ThreadClosesAll(t)
  <2>1. ThreadsKeep
    BY <1>1, KeepGoesTo DEF ThreadClosesAll, Threads, ThreadPcs, SetupPcs, RetPcs
  <2>2. LoopKeepsGen
    BY <1>1, GenKept DEF ThreadClosesAll
  <2>3. NoRefusal
    BY <1>1, RefusedStays DEF ThreadClosesAll
  <2>4. NothingEdited /\ (onceCode' => onceCode)
    BY <1>1 DEF ThreadClosesAll, NothingEdited
  <2> QED
    BY <2>1, <2>2, <2>3, <2>4, SecretsStay
<1>2. CASE ThreadStops(t)
  <2>1. ThreadsKeep
    BY <1>2, KeepGoesTo, KeepReturns DEF ThreadStops, Threads, ThreadPcs, SetupPcs, RetPcs
  <2>2. LoopKeepsGen
    BY <1>2, GenKept DEF ThreadStops
  <2>3. NoRefusal
    BY <1>2, RefusedStays DEF ThreadStops
  <2>4. NothingEdited /\ (onceCode' => onceCode)
    BY <1>2 DEF ThreadStops, NothingEdited
  <2> QED
    BY <2>1, <2>2, <2>3, <2>4, SecretsStay
<1>3. CASE ThreadStopped(t)
  <2>1. ThreadsKeep
    BY <1>3, KeepReturns DEF ThreadStopped, Threads, ThreadPcs, SetupPcs, RetPcs
  <2>2. LoopKeepsGen
    BY <1>3, GenKept DEF ThreadStopped
  <2>3. NoRefusal
    BY <1>3, RefusedStays DEF ThreadStopped
  <2>4. NothingEdited /\ (onceCode' => onceCode)
    BY <1>3 DEF ThreadStopped, NothingEdited
  <2> QED
    BY <2>1, <2>2, <2>3, <2>4, SecretsStay
<1>4. CASE LoopIsDone(t)
  <2>1. ThreadsKeep
    BY <1>4, KeepGoesTo DEF LoopIsDone, Threads, ThreadPcs, SetupPcs, RetPcs
  <2>2. LoopKeepsGen
    BY <1>4, GenKept DEF LoopIsDone
  <2>3. NoRefusal
    BY <1>4, RefusedStays DEF LoopIsDone
  <2>4. NothingEdited /\ (onceCode' => onceCode)
    BY <1>4 DEF LoopIsDone, NothingEdited
  <2> QED
    BY <2>1, <2>2, <2>3, <2>4, SecretsStay
<1>5. CASE ThreadClosesIdle(t)
  <2>1. ThreadsKeep
    BY <1>5, KeepGoesTo DEF ThreadClosesIdle, Threads, ThreadPcs, SetupPcs, RetPcs
  <2>2. LoopKeepsGen
    BY <1>5, GenKept DEF ThreadClosesIdle
  <2>3. NoRefusal
    BY <1>5, RefusedStays DEF ThreadClosesIdle
  <2>4. NothingEdited /\ (onceCode' => onceCode)
    BY <1>5 DEF ThreadClosesIdle, NothingEdited
  <2> QED
    BY <2>1, <2>2, <2>3, <2>4, SecretsStay
<1>6. CASE ThreadToIdle(t)
  <2>1. ThreadsKeep
    BY <1>6, KeepReturns DEF ThreadToIdle, Threads, ThreadPcs, SetupPcs, RetPcs
  <2>2. LoopKeepsGen
    BY <1>6, GenKept DEF ThreadToIdle
  <2>3. NoRefusal
    BY <1>6, RefusedStays, RefusedShow DEF ThreadToIdle
  <2>4. NothingEdited /\ (onceCode' => onceCode)
    BY <1>6 DEF ThreadToIdle, NothingEdited
  <2> QED
    BY <2>1, <2>2, <2>3, <2>4, SecretsStay
<1> QED BY <1>1, <1>2, <1>3, <1>4, <1>5, <1>6 DEF DisconnectSteps

\* The ticker.
LEMMA TickerStepsKeepSecrets ==
  ASSUME TypeInv, SecretsInv, TickChecksCisco \/ TickResumes \/ TickStopsIdle \/ TickerSteps
  PROVE  SecretsInv'
<1> USE DEF TypeInv, TypeOK, acctVars, secrVars, codeVars, lifeVars, flagVars, wishVars, pageVars
<1>1. CASE TickChecksCisco
  <2>1. ThreadsKeep
    BY <1>1, KeepCalls, KeepGoesTo, KeepRests
    DEF TickChecksCisco, Threads, ThreadPcs, SetupPcs, RetPcs
  <2>2. LoopKeepsGen
    BY <1>1, GenKept DEF TickChecksCisco
  <2>3. NoRefusal
    BY <1>1, RefusedStays DEF TickChecksCisco
  <2>4. NothingEdited /\ (onceCode' => onceCode)
    BY <1>1 DEF TickChecksCisco, NothingEdited
  <2> QED
    BY <2>1, <2>2, <2>3, <2>4, SecretsStay
<1>2. CASE TickResumes
  <2>1. ThreadsKeep
    BY <1>2, KeepCalls, KeepRests
    DEF TickResumes, Threads, ThreadPcs, SetupPcs, RetPcs, TickerAtRest
  <2>2. LoopKeepsGen
    BY <1>2, GenKept DEF TickResumes
  <2>3. NoRefusal
    BY <1>2, RefusedStays, RefusedShow DEF TickResumes
  <2>4. NothingEdited /\ (onceCode' => onceCode)
    BY <1>2 DEF TickResumes, NothingEdited
  <2> QED
    BY <2>1, <2>2, <2>3, <2>4, SecretsStay
<1>3. CASE TickStopsIdle
  <2>1. ThreadsKeep
    BY <1>3, KeepCalls DEF TickStopsIdle, Threads, ThreadPcs, SetupPcs, RetPcs, IdleTooLong
  <2>2. LoopKeepsGen
    BY <1>3, GenKept DEF TickStopsIdle
  <2>3. NoRefusal
    BY <1>3, RefusedShow DEF TickStopsIdle
  <2>4. NothingEdited /\ (onceCode' => onceCode)
    BY <1>3 DEF TickStopsIdle, NothingEdited
  <2> QED
    BY <2>1, <2>2, <2>3, <2>4, SecretsStay
<1>4. ASSUME NEW cisco \in CiscoAnswers, TickCisco(cisco) PROVE SecretsInv'
  <2>1. ThreadsKeep
    BY <1>4, KeepCalls, KeepGoesTo, KeepRests DEF TickCisco, Threads, ThreadPcs, SetupPcs, RetPcs
  <2>2. LoopKeepsGen
    BY <1>4, GenKept DEF TickCisco
  <2>3. NoRefusal
    BY <1>4, RefusedStays, RefusedShow DEF TickCisco
  <2>4. NothingEdited /\ (onceCode' => onceCode)
    BY <1>4 DEF TickCisco, NothingEdited
  <2> QED
    BY <2>1, <2>2, <2>3, <2>4, SecretsStay
<1>5. CASE TickEnds
  <2>1. ThreadsKeep
    BY <1>5, KeepRests DEF TickEnds, Threads, ThreadPcs, SetupPcs, RetPcs
  <2>2. LoopKeepsGen
    BY <1>5, GenKept DEF TickEnds
  <2>3. NoRefusal
    BY <1>5, RefusedStays DEF TickEnds
  <2>4. NothingEdited /\ (onceCode' => onceCode)
    BY <1>5 DEF TickEnds, NothingEdited
  <2> QED
    BY <2>1, <2>2, <2>3, <2>4, SecretsStay
<1> QED BY <1>1, <1>2, <1>3, <1>4, <1>5 DEF TickerSteps

\* Browser connections.
LEMMA PageStepsKeepSecrets ==
  ASSUME TypeInv, SecretsInv, NEW p \in Pages, PageSteps(p)
  PROVE  SecretsInv'
<1> USE DEF TypeInv, TypeOK, acctVars, secrVars, codeVars, lifeVars, flagVars, wishVars, pageVars
<1>1. CASE PageOpens(p)
  <2>1. ThreadsKeep
    BY <1>1, KeepAll DEF PageOpens, PageUnchanged
  <2>2. LoopKeepsGen
    BY <1>1, GenKept, GenEnsured DEF PageOpens, AcquirePass, PageUnchanged
  <2>3. NoRefusal
    BY <1>1, RefusedStays DEF PageOpens, PageUnchanged
  <2>4. NothingEdited /\ (onceCode' => onceCode)
    BY <1>1 DEF PageOpens, NothingEdited, PageUnchanged
  <2> QED
    BY <2>1, <2>2, <2>3, <2>4, SecretsStay
<1>2. CASE PageLooksAgain(p)
  <2>1. ThreadsKeep
    BY <1>2, KeepAll DEF PageLooksAgain, PageUnchanged
  <2>2. LoopKeepsGen
    BY <1>2, GenKept, GenEnsured DEF PageLooksAgain, AcquirePass, PageUnchanged
  <2>3. NoRefusal
    BY <1>2, RefusedStays DEF PageLooksAgain, PageUnchanged
  <2>4. NothingEdited /\ (onceCode' => onceCode)
    BY <1>2 DEF PageLooksAgain, NothingEdited, PageUnchanged
  <2> QED
    BY <2>1, <2>2, <2>3, <2>4, SecretsStay
<1>3. CASE PageEnds(p)
  <2>1. ThreadsKeep
    BY <1>3, KeepAll DEF PageEnds, PageUnchanged
  <2>2. LoopKeepsGen
    BY <1>3, GenKept DEF PageEnds, PageUnchanged
  <2>3. NoRefusal
    BY <1>3, RefusedStays DEF PageEnds, PageUnchanged
  <2>4. NothingEdited /\ (onceCode' => onceCode)
    BY <1>3 DEF PageEnds, NothingEdited, PageUnchanged
  <2> QED
    BY <2>1, <2>2, <2>3, <2>4, SecretsStay
<1>4. CASE Traffic(p)
  <2>1. ThreadsKeep
    BY <1>4, KeepAll DEF Traffic, PageUnchanged
  <2>2. LoopKeepsGen
    BY <1>4, GenKept DEF Traffic, PageUnchanged
  <2>3. NoRefusal
    BY <1>4, RefusedStays DEF Traffic, PageUnchanged
  <2>4. NothingEdited /\ (onceCode' => onceCode)
    BY <1>4 DEF Traffic, NothingEdited, PageUnchanged
  <2> QED
    BY <2>1, <2>2, <2>3, <2>4, SecretsStay
<1> QED BY <1>1, <1>2, <1>3, <1>4 DEF PageSteps

\* Time that passes.
LEMMA TimeKeepsSecrets ==
  ASSUME TypeInv, SecretsInv, DemandEnds \/ IdleElapses \/ WindowEnds
  PROVE  SecretsInv'
<1> USE DEF TypeInv, TypeOK, acctVars, secrVars, codeVars, lifeVars, flagVars, wishVars, pageVars
<1>1. CASE DemandEnds
  <2>1. ThreadsKeep
    BY <1>1, KeepAll DEF DemandEnds, PageUnchanged
  <2>2. LoopKeepsGen
    BY <1>1, GenKept DEF DemandEnds, PageUnchanged
  <2>3. NoRefusal
    BY <1>1, RefusedStays DEF DemandEnds, PageUnchanged
  <2>4. NothingEdited /\ (onceCode' => onceCode)
    BY <1>1 DEF DemandEnds, NothingEdited, PageUnchanged
  <2> QED
    BY <2>1, <2>2, <2>3, <2>4, SecretsStay
<1>2. CASE IdleElapses
  <2>1. ThreadsKeep
    BY <1>2, KeepAll DEF IdleElapses, PageUnchanged
  <2>2. LoopKeepsGen
    BY <1>2, GenKept DEF IdleElapses, PageUnchanged
  <2>3. NoRefusal
    BY <1>2, RefusedStays DEF IdleElapses, PageUnchanged
  <2>4. NothingEdited /\ (onceCode' => onceCode)
    BY <1>2 DEF IdleElapses, NothingEdited, PageUnchanged
  <2> QED
    BY <2>1, <2>2, <2>3, <2>4, SecretsStay
<1>3. CASE WindowEnds
  <2>1. ThreadsKeep
    BY <1>3, KeepAll DEF WindowEnds
  <2>2. LoopKeepsGen
    BY <1>3, GenKept DEF WindowEnds
  <2>3. NoRefusal
    BY <1>3, RefusedStays DEF WindowEnds
  <2>4. NothingEdited /\ (onceCode' => onceCode)
    BY <1>3 DEF WindowEnds, NothingEdited
  <2> QED
    BY <2>1, <2>2, <2>3, <2>4, SecretsStay
<1> QED BY <1>1, <1>2, <1>3

\* openconnect.
LEMMA TunnelKeepsSecrets ==
  ASSUME TypeInv, SecretsInv, NEW i \in Ids,
         TunnelSpawns \/ TunnelSendsCode(i) \/ TunnelOpensPort(i) \/ TunnelExits(i)
  PROVE  SecretsInv'
<1> USE DEF TypeInv, TypeOK, acctVars, secrVars, codeVars, lifeVars, flagVars, wishVars, pageVars
<1>1. CASE TunnelSpawns
  <2>1. ThreadsKeep
    BY <1>1, KeepAll DEF TunnelSpawns, TunnelUnchanged
  <2>2. LoopKeepsGen
    BY <1>1, GenKept DEF TunnelSpawns, TunnelUnchanged
  <2>3. NoRefusal
    BY <1>1, RefusedStays DEF TunnelSpawns, TunnelUnchanged
  <2>4. NothingEdited /\ (onceCode' => onceCode)
    BY <1>1 DEF TunnelSpawns, NothingEdited, TunnelUnchanged
  <2> QED
    BY <2>1, <2>2, <2>3, <2>4, SecretsStay
<1>2. CASE TunnelSendsCode(i)
  <2>1. ThreadsKeep
    BY <1>2, KeepAll DEF TunnelSendsCode, TunnelUnchanged
  <2>2. LoopKeepsGen
    BY <1>2, GenKept DEF TunnelSendsCode, TunnelUnchanged
  <2>3. NoRefusal
    BY <1>2, RefusedStays DEF TunnelSendsCode, TunnelUnchanged
  <2>4. NothingEdited /\ (onceCode' => onceCode)
    BY <1>2 DEF TunnelSendsCode, NothingEdited, TunnelUnchanged
  <2> QED
    BY <2>1, <2>2, <2>3, <2>4, SecretsStay
<1>3. CASE TunnelOpensPort(i)
  <2>1. ThreadsKeep
    BY <1>3, KeepAll DEF TunnelOpensPort, TunnelUnchanged
  <2>2. LoopKeepsGen
    BY <1>3, GenKept DEF TunnelOpensPort, TunnelUnchanged
  <2>3. NoRefusal
    BY <1>3, RefusedStays DEF TunnelOpensPort, TunnelUnchanged
  <2>4. NothingEdited /\ (onceCode' => onceCode)
    BY <1>3 DEF TunnelOpensPort, NothingEdited, TunnelUnchanged
  <2> QED
    BY <2>1, <2>2, <2>3, <2>4, SecretsStay
<1>4. CASE TunnelExits(i)
  <2>1. ThreadsKeep
    BY <1>4, KeepAll DEF TunnelExits, TunnelUnchanged
  <2>2. LoopKeepsGen
    BY <1>4, GenKept DEF TunnelExits, TunnelUnchanged
  <2>3. NoRefusal
    BY <1>4, RefusedStays DEF TunnelExits, TunnelUnchanged
  <2>4. NothingEdited /\ (onceCode' => onceCode)
    BY <1>4 DEF TunnelExits, NothingEdited, TunnelUnchanged
  <2> QED
    BY <2>1, <2>2, <2>3, <2>4, SecretsStay
<1> QED BY <1>1, <1>2, <1>3, <1>4

\* The connect loop but for its read of the password and its verdict.
LEMMA LoopStepsKeepSecrets ==
  ASSUME TypeInv, SecretsInv, LoopSteps
  PROVE  SecretsInv'
<1> USE DEF TypeInv, TypeOK, acctVars, secrVars, codeVars, lifeVars, flagVars, wishVars, pageVars
<1>1. CASE LoopBegins
  <2>1. ThreadsKeep
    BY <1>1, KeepAll DEF LoopBegins, LoopUnchanged
  <2>2. LoopKeepsGen
    BY <1>1, GenHead DEF LoopBegins, LoopUnchanged
  <2>3. NoRefusal
    BY <1>1, RefusedHead DEF LoopBegins, LoopUnchanged
  <2>4. NothingEdited /\ (onceCode' => onceCode)
    BY <1>1, GenHead DEF LoopBegins, NothingEdited, LoopUnchanged
  <2> QED
    BY <2>1, <2>2, <2>3, <2>4, SecretsStay
<1>2. CASE LoopWakes
  <2>1. ThreadsKeep
    BY <1>2, KeepAll DEF LoopWakes, LoopUnchanged
  <2>2. LoopKeepsGen
    BY <1>2, GenHead DEF LoopWakes, LoopUnchanged
  <2>3. NoRefusal
    BY <1>2, RefusedHead DEF LoopWakes, LoopUnchanged
  <2>4. NothingEdited /\ (onceCode' => onceCode)
    BY <1>2, GenHead DEF LoopWakes, NothingEdited, LoopUnchanged
  <2> QED
    BY <2>1, <2>2, <2>3, <2>4, SecretsStay
<1>3. ASSUME NEW cisco \in CiscoAnswers, LoopCisco(cisco) PROVE SecretsInv'
  <2>1. ThreadsKeep
    BY <1>3, KeepAll DEF LoopCisco, LoopUnchanged
  <2>2. LoopKeepsGen
    BY <1>3, GenGoes DEF LoopCisco, LoopPcs, JudgePcs, LoopUnchanged
  <2>3. NoRefusal
    BY <1>3, RefusedStays, RefusedShow DEF LoopCisco, LoopUnchanged
  <2>4. NothingEdited /\ (onceCode' => onceCode)
    BY <1>3 DEF LoopCisco, NothingEdited, LoopUnchanged
  <2> QED
    BY <2>1, <2>2, <2>3, <2>4, SecretsStay
<1>4. ASSUME NEW online \in BOOLEAN, LoopProbe(online) PROVE SecretsInv'
  <2>1. ThreadsKeep /\ NothingEdited /\ (onceCode' => onceCode)
    BY <1>4, KeepAll DEF LoopProbe, LoopUnchanged, NothingEdited
  <2>2. NoRefusal
    BY <1>4, RefusedStays, RefusedShow DEF LoopProbe
  <2>3. loop'.pc \in {"sleep", "password"} /\ loop'.gen \in {loop.gen, secretsGen}
    BY <1>4 DEF LoopProbe, Goes, LoopType
  <2>4. GenTold' /\ VersionRead'
    BY <1>4, <2>1, <2>3
    DEF LoopProbe, SecretsInv, VersionInv, GenTold, VersionRead, JudgePcs, NothingEdited, LoopType
  <2>5. Told' /\ EditorsTell' /\ VerdictTold'
    BY <1>4, <2>2
    DEF LoopProbe, LoopUnchanged, SecretsInv, VersionInv, Told, EditorsTell, EditPends, SetupPends,
        SetupRuns, VerdictTold, NoRefusal
  <2> QED
    BY <2>1, <2>4, <2>5, CodeStays DEF SecretsInv, VersionInv
<1>5. ASSUME NEW result \in Reads, PasswordIsRead(result) PROVE SecretsInv'
  <2>1. ThreadsKeep /\ NothingEdited /\ (onceCode' => onceCode)
    BY <1>5, KeepAll DEF PasswordIsRead, LoopUnchanged, NothingEdited
  <2>2. loop'.gen = loop.gen /\ loop.pc # "off" /\ loop'.ver = stored[cfgUser]
    BY <1>5 DEF PasswordIsRead, LoopType
  <2>3. GenTold' /\ VersionRead'
    BY <2>1, <2>2 DEF SecretsInv, VersionInv, GenTold, VersionRead, NothingEdited
  <2>4. Told' /\ EditorsTell' /\ VerdictTold'
    BY <1>5
    DEF PasswordIsRead, LoopUnchanged, SecretsInv, VersionInv, Told, EditorsTell, EditPends,
        SetupPends, SetupRuns, VerdictTold, RefusalShown
  <2> QED
    BY <2>1, <2>3, <2>4, CodeStays DEF SecretsInv, VersionInv
<1>6. ASSUME NEW result \in Reads, TOTPIsRead(result) PROVE SecretsInv'
  <2>1. ThreadsKeep
    BY <1>6, KeepAll DEF TOTPIsRead, LoopUnchanged
  <2>2. LoopKeepsGen
    BY <1>6 DEF TOTPIsRead, LoopUnchanged, LoopKeepsGen, LoopType, JudgePcs, LoopUnchanged
  <2>3. NoRefusal
    BY <1>6, RefusedStays DEF TOTPIsRead, LoopUnchanged
  <2>4. NothingEdited /\ (onceCode' => onceCode)
    BY <1>6 DEF TOTPIsRead, NothingEdited, LoopUnchanged
  <2> QED
    BY <2>1, <2>2, <2>3, <2>4, SecretsStay
<1>7. CASE ReadWhileChanging
  <2>1. ThreadsKeep
    BY <1>7, KeepAll DEF ReadWhileChanging, LoopUnchanged
  <2>2. LoopKeepsGen
    BY <1>7, GenHead, GenGoes DEF ReadWhileChanging, LoopPcs, JudgePcs, LoopUnchanged
  <2>3. NoRefusal
    BY <1>7, RefusedHead, RefusedStays DEF ReadWhileChanging, LoopUnchanged
  <2>4. NothingEdited /\ (onceCode' => onceCode)
    BY <1>7, GenHead DEF ReadWhileChanging, NothingEdited, LoopUnchanged
  <2> QED
    BY <2>1, <2>2, <2>3, <2>4, SecretsStay
<1>8. CASE ReadFailed
  <2>1. ThreadsKeep
    BY <1>8, KeepAll DEF ReadFailed, LoopUnchanged
  <2>2. LoopKeepsGen
    BY <1>8, GenOff DEF ReadFailed, EndsWith
  <2>3. NoRefusal
    BY <1>8 DEF ReadFailed, EndsWith, NoRefusal, RefusalShown
  <2>4. NothingEdited /\ (onceCode' => onceCode)
    BY <1>8 DEF ReadFailed, LoopUnchanged, NothingEdited
  <2> QED
    BY <2>1, <2>2, <2>3, <2>4, SecretsStay
<1>9. CASE PasswordThere
  <2>1. ThreadsKeep
    BY <1>9, KeepAll DEF PasswordThere, LoopUnchanged
  <2>2. LoopKeepsGen
    BY <1>9, GenGoes
    DEF PasswordThere, LoopPcs, StartsTunnel, LoopKeepsGen, LoopType, JudgePcs, LoopUnchanged
  <2>3. NoRefusal
    BY <1>9, RefusedStays, RefusedShow DEF PasswordThere, StartsTunnel, LoopUnchanged
  <2>4. NothingEdited /\ (onceCode' => onceCode)
    BY <1>9 DEF PasswordThere, NothingEdited, LoopUnchanged
  <2> QED
    BY <2>1, <2>2, <2>3, <2>4, SecretsStay
<1>10. CASE TOTPThere
  <2>1. ThreadsKeep
    BY <1>10, KeepAll DEF TOTPThere, LoopUnchanged
  <2>2. LoopKeepsGen
    BY <1>10 DEF TOTPThere, StartsTunnel, LoopKeepsGen, LoopType, JudgePcs, LoopUnchanged
  <2>3. NoRefusal
    BY <1>10, RefusedShow DEF TOTPThere, StartsTunnel, LoopUnchanged
  <2>4. NothingEdited /\ (onceCode' => onceCode)
    BY <1>10 DEF TOTPThere, NothingEdited, LoopUnchanged
  <2> QED
    BY <2>1, <2>2, <2>3, <2>4, SecretsStay
<1>11. ASSUME NEW st \in StartErrors, StartFails(st) PROVE SecretsInv'
  <2>1. ThreadsKeep
    BY <1>11, KeepAll DEF StartFails, LoopUnchanged
  <2>2. LoopKeepsGen
    BY <1>11, GenOff DEF StartFails, EndsWith, LoopUnchanged
  <2>3. NoRefusal
    BY <1>11 DEF StartFails, EndsWith, NoRefusal, RefusalShown, LoopUnchanged
  <2>4. NothingEdited /\ (onceCode' => onceCode)
    BY <1>11 DEF StartFails, NothingEdited, LoopUnchanged
  <2> QED
    BY <2>1, <2>2, <2>3, <2>4, SecretsStay
<1>12. CASE StartReturns
  <2>1. ThreadsKeep
    BY <1>12, KeepAll DEF StartReturns, LoopUnchanged
  <2>2. LoopKeepsGen
    BY <1>12 DEF StartReturns, LoopUnchanged, LoopKeepsGen, LoopType, JudgePcs, LoopUnchanged
  <2>3. NoRefusal
    BY <1>12, RefusedStays DEF StartReturns, LoopUnchanged
  <2>4. NothingEdited /\ (onceCode' => onceCode)
    BY <1>12 DEF StartReturns, NothingEdited, LoopUnchanged
  <2> QED
    BY <2>1, <2>2, <2>3, <2>4, SecretsStay
<1>13. ASSUME NEW ready \in BOOLEAN, WaitReadyEnds(ready) PROVE SecretsInv'
  <2>1. ThreadsKeep
    BY <1>13, KeepAll DEF WaitReadyEnds, LoopUnchanged
  <2>2. LoopKeepsGen
    BY <1>13 DEF WaitReadyEnds, LoopUnchanged, LoopKeepsGen, LoopType, JudgePcs, LoopUnchanged
  <2>3. NoRefusal
    BY <1>13, RefusedStays DEF WaitReadyEnds, LoopUnchanged
  <2>4. NothingEdited /\ (onceCode' => onceCode)
    BY <1>13 DEF WaitReadyEnds, NothingEdited, LoopUnchanged
  <2> QED
    BY <2>1, <2>2, <2>3, <2>4, SecretsStay
<1>14. CASE JudgeGoingAway
  <2>1. ThreadsKeep
    BY <1>14, KeepAll DEF JudgeGoingAway, LoopUnchanged
  <2>2. LoopKeepsGen
    BY <1>14, GenGoes DEF JudgeGoingAway, LoopPcs, JudgePcs, LoopUnchanged
  <2>3. NoRefusal
    BY <1>14, RefusedStays DEF JudgeGoingAway, LoopUnchanged
  <2>4. NothingEdited /\ (onceCode' => onceCode)
    BY <1>14 DEF JudgeGoingAway, NothingEdited, LoopUnchanged
  <2> QED
    BY <2>1, <2>2, <2>3, <2>4, SecretsStay
<1>15. CASE JudgeConnected
  <2>1. ThreadsKeep
    BY <1>15, KeepAll DEF JudgeConnected, LoopUnchanged
  <2>2. LoopKeepsGen
    BY <1>15, GenGoes DEF JudgeConnected, LoopPcs, JudgePcs, LoopUnchanged
  <2>3. NoRefusal
    BY <1>15, RefusedShow DEF JudgeConnected, LoopUnchanged
  <2>4. NothingEdited /\ (onceCode' => onceCode)
    BY <1>15 DEF JudgeConnected, NothingEdited, LoopUnchanged
  <2> QED
    BY <2>1, <2>2, <2>3, <2>4, SecretsStay
<1>16. CASE JudgeStale
  <2>1. ThreadsKeep
    BY <1>16, KeepAll DEF JudgeStale, LoopUnchanged
  <2>2. LoopKeepsGen
    BY <1>16, GenGoes DEF JudgeStale, LoopPcs, JudgePcs, NotReady, LoopUnchanged
  <2>3. NoRefusal
    BY <1>16, RefusedStays DEF JudgeStale, LoopUnchanged
  <2>4. NothingEdited /\ (onceCode' => onceCode)
    BY <1>16 DEF JudgeStale, NothingEdited, LoopUnchanged
  <2> QED
    BY <2>1, <2>2, <2>3, <2>4, SecretsStay
<1>17. CASE DropStale
  <2>1. ThreadsKeep
    BY <1>17, KeepAll DEF DropStale, LoopUnchanged
  <2>2. LoopKeepsGen
    BY <1>17, GenHead DEF DropStale, LoopUnchanged
  <2>3. NoRefusal
    BY <1>17, RefusedHead DEF DropStale, AfterStop, LoopUnchanged
  <2>4. NothingEdited /\ (onceCode' => onceCode)
    BY <1>17, GenHead DEF DropStale, NothingEdited, LoopUnchanged
  <2> QED
    BY <2>1, <2>2, <2>3, <2>4, SecretsStay
<1>18. CASE LoopStops
  <2>1. ThreadsKeep
    BY <1>18, KeepAll DEF LoopStops, LoopUnchanged
  <2>2. LoopKeepsGen
    BY <1>18, GenGoes DEF LoopStops, LoopPcs, JudgePcs, LoopUnchanged
  <2>3. NoRefusal
    BY <1>18, RefusedStays DEF LoopStops, LoopUnchanged
  <2>4. NothingEdited /\ (onceCode' => onceCode)
    BY <1>18 DEF LoopStops, NothingEdited, LoopUnchanged
  <2> QED
    BY <2>1, <2>2, <2>3, <2>4, SecretsStay
<1>19. CASE JudgeStopped
  <2>1. ThreadsKeep
    BY <1>19, KeepAll DEF JudgeStopped, LoopUnchanged
  <2>2. LoopKeepsGen
    BY <1>19, GenHead DEF JudgeStopped, LoopUnchanged
  <2>3. NoRefusal
    BY <1>19, RefusedHead DEF JudgeStopped, AfterStop, LoopUnchanged
  <2>4. NothingEdited /\ (onceCode' => onceCode)
    BY <1>19, GenHead DEF JudgeStopped, NothingEdited, LoopUnchanged
  <2> QED
    BY <2>1, <2>2, <2>3, <2>4, SecretsStay
<1>20. CASE JudgeSlow
  <2>1. ThreadsKeep
    BY <1>20, KeepAll DEF JudgeSlow, LoopUnchanged
  <2>2. LoopKeepsGen
    BY <1>20, GenGoes DEF JudgeSlow, LoopPcs, JudgePcs, NotReady, LoopUnchanged
  <2>3. NoRefusal
    BY <1>20, RefusedStays DEF JudgeSlow, LoopUnchanged
  <2>4. NothingEdited /\ (onceCode' => onceCode)
    BY <1>20 DEF JudgeSlow, NothingEdited, LoopUnchanged
  <2> QED
    BY <2>1, <2>2, <2>3, <2>4, SecretsStay
<1>21. CASE JudgeError
  <2>1. ThreadsKeep
    BY <1>21, KeepAll DEF JudgeError, LoopUnchanged
  <2>2. LoopKeepsGen
    BY <1>21, GenGoes, GenOff DEF JudgeError, LoopPcs, JudgePcs, NotReady, LoopUnchanged
  <2>3. NoRefusal
    BY <1>21, RefusedShow DEF JudgeError, LoopUnchanged
  <2>4. NothingEdited /\ (onceCode' => onceCode)
    BY <1>21 DEF JudgeError, NothingEdited, LoopUnchanged
  <2> QED
    BY <2>1, <2>2, <2>3, <2>4, SecretsStay
<1>22. ASSUME NEW message \in Rejections, JudgeRejected(message) PROVE SecretsInv'
  <2>1. ThreadsKeep /\ NothingEdited
    BY <1>22, KeepAll DEF JudgeRejected, LoopUnchanged, NothingEdited
  <2>2. CASE OnceMore(message)
    <3>1. LoopHead(state, page)
      BY <1>22, <2>2 DEF JudgeRejected
    <3>2. LoopKeepsGen /\ (onceCode' => onceCode)
      BY <3>1, GenHead
    <3>3. NoRefusal
      BY <3>1, RefusedHead
    <3> QED
      BY <2>1, <3>2, <3>3, SecretsStay
  <2>3. CASE ~OnceMore(message)
    <3>1. EndsWith("auth_failed", "gateway") /\ onceCode' = onceCode
      BY <1>22, <2>3 DEF JudgeRejected
    <3>2. loop.gen = secretsGen /\ loop.pc \in JudgePcs
      BY <1>22 DEF JudgeRejected, Stale, NotReady, JudgePcs
    <3>3. verdict'.ver = loop.ver
      BY <3>1 DEF EndsWith
    <3>4. VerdictTold'
      BY <2>1, <3>2, <3>3 DEF NothingEdited, VerdictTold, SecretsInv, VersionInv, VersionRead
    <3>5. LoopKeepsGen
      BY <3>1, GenOff DEF EndsWith
    <3>6. GenTold' /\ VersionRead'
      BY <3>1 DEF EndsWith, LoopOff, GenTold, VersionRead, JudgePcs
    <3>7. Told' /\ EditorsTell'
      BY <1>22
      DEF JudgeRejected, LoopUnchanged, SecretsInv, VersionInv, Told, EditorsTell, EditPends,
          SetupPends, SetupRuns
    <3>8. CodeInv'
      BY <2>1, <3>1, CodeStays DEF SecretsInv
    <3> QED
      BY <3>4, <3>6, <3>7, <3>8 DEF SecretsInv, VersionInv
  <2> QED
    BY <2>2, <2>3
<1>23. CASE TunnelWasUp
  <2>1. ThreadsKeep
    BY <1>23, KeepAll DEF TunnelWasUp, LoopUnchanged
  <2>2. LoopKeepsGen
    BY <1>23 DEF TunnelWasUp, LoopUnchanged, LoopKeepsGen, LoopType, JudgePcs, LoopUnchanged
  <2>3. NoRefusal
    BY <1>23, RefusedStays DEF TunnelWasUp, LoopUnchanged
  <2>4. NothingEdited /\ (onceCode' => onceCode)
    BY <1>23 DEF TunnelWasUp, NothingEdited, LoopUnchanged
  <2> QED
    BY <2>1, <2>2, <2>3, <2>4, SecretsStay
<1>24. CASE LoopClosesAll
  <2>1. ThreadsKeep
    BY <1>24, KeepAll DEF LoopClosesAll, LoopUnchanged
  <2>2. LoopKeepsGen
    BY <1>24, GenGoes DEF LoopClosesAll, LoopPcs, JudgePcs, LoopUnchanged
  <2>3. NoRefusal
    BY <1>24, RefusedStays DEF LoopClosesAll, LoopUnchanged
  <2>4. NothingEdited /\ (onceCode' => onceCode)
    BY <1>24 DEF LoopClosesAll, NothingEdited, LoopUnchanged
  <2> QED
    BY <2>1, <2>2, <2>3, <2>4, SecretsStay
<1>25. CASE AfterUp
  <2>1. ThreadsKeep
    BY <1>25, KeepAll DEF AfterUp, LoopUnchanged
  <2>2. LoopKeepsGen
    BY <1>25, GenHead, GenGoes, GenOff DEF AfterUp, LoopPcs, JudgePcs, LoopUnchanged
  <2>3. NoRefusal
    BY <1>25, RefusedHead, RefusedShow DEF AfterUp, AfterStop, LoopUnchanged
  <2>4. NothingEdited /\ (onceCode' => onceCode)
    BY <1>25, GenHead DEF AfterUp, NothingEdited, LoopUnchanged
  <2> QED
    BY <2>1, <2>2, <2>3, <2>4, SecretsStay
<1>26. CASE LoopCancelled
  <2>1. ThreadsKeep
    BY <1>26, KeepAll DEF LoopCancelled, LoopUnchanged
  <2>2. LoopKeepsGen
    BY <1>26, GenOff DEF LoopCancelled, LoopUnchanged
  <2>3. NoRefusal
    BY <1>26, RefusedStays DEF LoopCancelled, LoopUnchanged
  <2>4. NothingEdited /\ (onceCode' => onceCode)
    BY <1>26 DEF LoopCancelled, NothingEdited, LoopUnchanged
  <2> QED
    BY <2>1, <2>2, <2>3, <2>4, SecretsStay
<1> QED BY <1>1, <1>2, <1>3, <1>4, <1>5, <1>6, <1>7, <1>8, <1>9, <1>10, <1>11, <1>12, <1>13,
      <1>14, <1>15, <1>16, <1>17, <1>18, <1>19, <1>20, <1>21, <1>22, <1>23, <1>24, <1>25,
      <1>26 DEF LoopSteps

\* The user's and the setup's Disconnect drop a typed code.
LEMMA RequestDisconnectKeepsSecrets ==
  ASSUME TypeInv, SecretsInv, NEW t \in Threads \ {"job"}, NEW ret \in RetPcs,
         t = "setup" => SetupRuns, RequestDisconnect(t, ret)
  PROVE  SecretsInv'
<1> USE DEF TypeInv, TypeOK, acctVars, secrVars, codeVars, lifeVars, flagVars, wishVars, pageVars
<1>1. PICK pc \in {"closeAll", "waitDone", "closeIdle"}, i \in Ids \cup {0} :
           th' = Raced([th EXCEPT ![t] = Calls(t, pc, i, ret)])
  BY DEF RequestDisconnect
<1> DEFINE r == Calls(t, pc, i, ret)
           f == [th EXCEPT ![t] = r]
<1>2. r \in ThreadType /\ r.pc = pc
  BY CallsType DEF ThreadPcs
<1>3. f \in [Threads -> ThreadType] /\ f[t] = r /\ \A x \in Threads \ {t} : f[x] = th[x]
  BY <1>2
<1>4. \A x \in Threads : th'[x].pc = f[x].pc /\ th'[x].ret = f[x].ret
  BY <1>1, <1>3, RacedType
<1> HIDE DEF r, f
<1>5. SetupRuns' => SetupRuns
  BY <1>3, <1>4 DEF SetupRuns, Threads
<1>6. ThreadsKeep
  BY <1>2, <1>3, <1>4, <1>5 DEF ThreadsKeep, Threads
<1>7. LoopKeepsGen
  BY DEF RequestDisconnect, LoopKeepsGen, LoopType, JudgePcs
<1>8. NoRefusal
  BY RefusedStays, RefusedShow DEF RequestDisconnect
<1>9. NothingEdited /\ ~onceCode'
  BY DEF RequestDisconnect, NothingEdited
<1> QED BY <1>6, <1>7, <1>8, <1>9, SecretsStay

LEMMA ConnectKeepsGen == ASSUME TypeOK, ConnectLocked PROVE LoopKeepsGen
  BY GenEnsured DEF ConnectLocked

\* "connect now", and secretsChanged, which tells the loop of one edit.
LEMMA SecretsStepsKeepSecrets ==
  ASSUME TypeInv, SecretsInv, NEW t \in Threads, RequestConnect \/ SecretsSteps(t)
  PROVE  SecretsInv'
<1> USE DEF TypeInv, TypeOK, acctVars, secrVars, codeVars, lifeVars, flagVars, wishVars, pageVars
<1>1. CASE RequestConnect
  <2>1. ThreadsKeep /\ NothingEdited /\ (onceCode' => onceCode)
    BY <1>1, KeepAll DEF RequestConnect, NothingEdited
  <2>2. LoopKeepsGen /\ NoRefusal
    BY <1>1, ConnectKeepsGen, RefusedConnect DEF RequestConnect
  <2> QED
    BY <2>1, <2>2, SecretsStay
<1>2. CASE Reconnects(t)
  <2>1. t # "job"
    BY <1>2 DEF Reconnects, SecretsInv, CodeInv, JobPlaces, JobPcs
  <2>2. ThreadsKeep /\ NothingEdited /\ (onceCode' => onceCode)
    BY <1>2, <2>1, KeepRests DEF Reconnects, NothingEdited
  <2>3. LoopKeepsGen /\ NoRefusal
    BY <1>2, ConnectKeepsGen, RefusedConnect, GenKept, RefusedStays DEF Reconnects
  <2> QED
    BY <2>2, <2>3, SecretsStay
<1>3. CASE SecretsChanged(t)
  <2>1. t \in {"edit", "setup"}
    BY <1>3 DEF SecretsChanged, SecretsInv, VersionInv, EditorsTell
  <2>2. ThreadsKeep
    BY <1>3, <2>1, KeepCalls, KeepRests
    DEF SecretsChanged, Threads, ThreadPcs, SetupPcs, RetPcs
  <2>3. LoopKeepsGen /\ NoRefusal
    BY <1>3, ConnectKeepsGen, RefusedConnect, GenKept, RefusedStays DEF SecretsChanged
  <2>4. th[t].pc = "changed" /\ th'[t].pc \in {"stop", "idle"} /\ th'[t].ret # "switch"
    <3>1. th[t].pc = "changed" /\ th'[t] \in {IdleThread, Calls(t, "stop", tun, "reconnect")}
      BY <1>3 DEF SecretsChanged
    <3>2. Calls(t, "stop", tun, "reconnect").pc = "stop"
          /\ Calls(t, "stop", tun, "reconnect").ret = "reconnect"
      BY CallsType DEF ThreadPcs, RetPcs
    <3> QED
      BY <3>1, <3>2, IdleType
  <2>5. UNCHANGED <<cfgUser, stored, edits, onceCode>> /\ secretsGen' = secretsGen + 1
    BY <1>3 DEF SecretsChanged
  <2>6. Told'
    <3>1. CASE t = "edit"
      <4>1. EditPends /\ ~EditPends' /\ (SetupPends' => SetupPends)
        BY <3>1, <2>2, <2>4 DEF EditPends, SetupPends, ThreadsKeep, Threads
      <4> QED
        BY <4>1, <2>5 DEF SecretsInv, VersionInv, Told, One
    <3>2. CASE t = "setup"
      <4>1. SetupPends /\ ~SetupPends' /\ (EditPends' => EditPends)
        BY <3>2, <2>2, <2>4 DEF EditPends, SetupPends, SetupRuns, SetupPcs, ThreadsKeep, Threads
      <4> QED
        BY <4>1, <2>5 DEF SecretsInv, VersionInv, Told, One
    <3> QED
      BY <2>1, <3>1, <3>2
  <2>7. EditorsTell'
    BY <2>2 DEF ThreadsKeep, SecretsInv, VersionInv, EditorsTell
  <2>8. GenTold' /\ VersionRead'
    BY <2>3, <2>5 DEF LoopKeepsGen, SecretsInv, VersionInv, GenTold, VersionRead, JudgePcs, LoopType
  <2>9. ~RefusalShown'
    BY <1>3 DEF SecretsChanged, ConnectLocked, NoVerdict, RefusalShown
  <2>10. CodeInv'
    BY <2>2, <2>5, CodeStays DEF SecretsInv
  <2> QED
    BY <2>6, <2>7, <2>8, <2>9, <2>10 DEF SecretsInv, VersionInv, VerdictTold
<1> QED BY <1>1, <1>2, <1>3 DEF SecretsSteps

\* A step of an edit: secretsGen is behind afterwards, so neither the loop nor a verdict speaks
\* of the stored version.
LEMMA EditStays ==
  ASSUME TypeOK, VersionInv, UNCHANGED <<secretsGen, loop>>, edits' \in Nat, edits <= edits',
         secretsGen < edits', Told', EditorsTell'
  PROVE  VersionInv'
<1>1. GenTold'
  BY DEF VersionInv, GenTold
<1>2. VersionRead'
  BY <1>1 DEF VersionRead, GenTold, JudgePcs, TypeOK, LoopType
<1>3. VerdictTold'
  BY DEF VerdictTold, TypeOK
<1> QED BY <1>1, <1>2, <1>3 DEF VersionInv

\* completeSetup.
LEMMA SetupStepsKeepSecrets ==
  ASSUME TypeInv, SecretsInv, NEW a \in Accounts, SetupBegins(a) \/ SetupSteps
  PROVE  SecretsInv'
<1> USE DEF TypeInv, TypeOK, acctVars, secrVars, codeVars, lifeVars, flagVars, wishVars, pageVars
<1>1. CASE SetupBegins(a)
  <2>1. edits' = edits + 1 /\ UNCHANGED <<secretsGen, loop, onceCode>>
    BY <1>1 DEF SetupBegins
  <2>2. \A t \in Threads : t # "setup" => th'[t] = th[t]
    BY <1>1 DEF SetupBegins
  <2>3. th'["setup"].pc \in {"teardown", "switch"}
    BY <1>1 DEF SetupBegins, ThreadType, Threads
  <2>4. (EditPends' <=> EditPends) /\ EditorsTell'
    BY <2>2, <2>3 DEF EditPends, EditorsTell, SecretsInv, VersionInv, Threads
  <2>5. Told' /\ secretsGen < edits'
    BY <2>1, <2>4 DEF Told, One, SecretsInv, VersionInv
  <2>6. CodeInv'
    BY <2>1, <2>2 DEF SecretsInv, CodeInv, JobPlaces, OnceCodeHasJob, Threads
  <2> QED
    BY <2>1, <2>4, <2>5, <2>6, EditStays DEF SecretsInv
<1>2. CASE SetupTearsDown
  <2>1. SetupRuns
    BY <1>2 DEF SetupTearsDown, SetupRuns, SetupPcs
  <2> QED
    BY <1>2, <2>1, RequestDisconnectKeepsSecrets DEF SetupTearsDown, Threads, RetPcs
<1>3. ASSUME SetupSwitches \/ SetupStores PROVE SecretsInv'
  <2>1. UNCHANGED <<secretsGen, loop, edits, onceCode>> /\ th["setup"].pc \in SetupPcs
    BY <1>3 DEF SetupSwitches, SetupStores, SetupPcs
  <2>2. \A t \in Threads : t # "setup" => th'[t] = th[t]
    BY <1>3 DEF SetupSwitches, SetupStores
  <2>3. th'["setup"].pc \in {"storing", "writing"}
    BY <1>3 DEF SetupSwitches, SetupStores, ThreadType, Threads
  <2>4. (EditPends' <=> EditPends) /\ EditorsTell'
    BY <2>2, <2>3 DEF EditPends, EditorsTell, SecretsInv, VersionInv, Threads
  <2>5. SetupPends
    BY <2>1 DEF SetupPends, SetupRuns
  <2>6. Told' /\ secretsGen < edits'
    BY <2>1, <2>4, <2>5 DEF Told, One, SecretsInv, VersionInv
  <2>7. CodeInv'
    BY <2>1, <2>2 DEF SecretsInv, CodeInv, JobPlaces, OnceCodeHasJob, Threads
  <2> QED
    BY <2>1, <2>4, <2>6, <2>7, EditStays DEF SecretsInv
<1>4. CASE SetupFails
  <2>1. UNCHANGED <<secretsGen, loop, edits, onceCode>> /\ SetupPends
    BY <1>4 DEF SetupFails, SetupPends, SetupRuns, SetupPcs
  <2>2. \A t \in Threads : t # "setup" => th'[t] = th[t]
    BY <1>4 DEF SetupFails
  <2>3. th'["setup"].pc = "idle"
    BY <1>4, IdleType DEF SetupFails, Threads
  <2>4. (EditPends' <=> EditPends) /\ EditorsTell'
    BY <2>2, <2>3 DEF EditPends, EditorsTell, SecretsInv, VersionInv, Threads
  <2>5. Told' /\ secretsGen < edits'
    BY <2>1, <2>4 DEF Told, One, SecretsInv, VersionInv
  <2>6. CodeInv'
    BY <2>1, <2>2 DEF SecretsInv, CodeInv, JobPlaces, OnceCodeHasJob, Threads
  <2> QED
    BY <2>1, <2>4, <2>5, <2>6, EditStays DEF SecretsInv
<1>5. ASSUME NEW typed \in {FALSE, "code" \in Events}, SetupApplies(typed) PROVE SecretsInv'
  <2>1. UNCHANGED <<secretsGen, loop, edits>> /\ SetupPends
    BY <1>5 DEF SetupApplies, SetupPends, SetupRuns, SetupPcs
  <2>2. \A t \in Threads : t \notin {"setup", "job"} => th'[t] = th[t]
    BY <1>5 DEF SetupApplies
  <2>3. JobStart \in {"takeCode", "waitConnected"}
    BY DEF JobStart
  <2>4. th'["job"].pc \in {th["job"].pc, JobStart}
    BY <1>5, <2>3 DEF SetupApplies, Threads, ThreadType
  <2>5. onceCode' => onceCode \/ th'["job"].pc = JobStart
    BY <1>5, <2>3 DEF SetupApplies, Threads, ThreadType
  <2>6. CodeInv'
    BY <2>3, <2>4, <2>5 DEF SecretsInv, CodeInv, JobPlaces, JobPcs, OnceCodeHasJob
  <2>7. EditPends' <=> EditPends
    BY <2>2 DEF EditPends, Threads
  <2>8. EditorsTell'
    BY <2>2, <2>6 DEF EditorsTell, CodeInv, JobPlaces, JobPcs, SecretsInv, VersionInv
  <2>9. Told' /\ secretsGen < edits'
    BY <2>1, <2>7 DEF Told, One, SecretsInv, VersionInv
  <2> QED
    BY <2>1, <2>6, <2>8, <2>9, EditStays DEF SecretsInv
<1> QED BY <1>1, <1>2, <1>3, <1>4, <1>5 DEF SetupSteps

\* SetPassword, SetTOTP and the typed code.
LEMMA EditStepsKeepSecrets ==
  ASSUME TypeInv, SecretsInv, SetPassword \/ SetTOTP \/ NoteCodeShown \/ TypeCode \/ CancelCode \/
         JobWaits \/ JobEnds
  PROVE  SecretsInv'
<1> USE DEF TypeInv, TypeOK, acctVars, secrVars, codeVars, lifeVars, flagVars, wishVars, pageVars
<1>1. ASSUME NEW pc \in {"noteCode", "changed"}, EditStores(pc) PROVE SecretsInv'
  <2>1. edits' = edits + 1 /\ UNCHANGED <<secretsGen, loop, onceCode>> /\ th["edit"].pc = "idle"
    BY <1>1 DEF EditStores
  <2>2. \A t \in Threads : t # "edit" => th'[t] = th[t]
    BY <1>1 DEF EditStores
  <2>3. (SetupPends' <=> SetupPends) /\ EditorsTell'
    BY <2>2 DEF SetupPends, SetupRuns, EditorsTell, SecretsInv, VersionInv, Threads
  <2>4. Told' /\ secretsGen < edits'
    BY <2>1, <2>3 DEF Told, One, EditPends, SecretsInv, VersionInv
  <2>5. CodeInv'
    BY <2>1, <2>2 DEF SecretsInv, CodeInv, JobPlaces, OnceCodeHasJob, Threads
  <2> QED
    BY <2>1, <2>3, <2>4, <2>5, EditStays DEF SecretsInv
<1>2. CASE NoteCodeShown
  <2>1. UNCHANGED <<secretsGen, loop, edits, onceCode>> /\ EditPends
    BY <1>2 DEF NoteCodeShown, EditPends
  <2>2. \A t \in Threads : t # "edit" => th'[t] = th[t]
    BY <1>2 DEF NoteCodeShown
  <2>3. (SetupPends' <=> SetupPends) /\ EditorsTell'
    BY <2>2 DEF SetupPends, SetupRuns, EditorsTell, SecretsInv, VersionInv, Threads
  <2>4. Told' /\ secretsGen < edits'
    BY <2>1, <2>3 DEF Told, One, SecretsInv, VersionInv
  <2>5. CodeInv'
    BY <2>1, <2>2 DEF SecretsInv, CodeInv, JobPlaces, OnceCodeHasJob, Threads
  <2> QED
    BY <2>1, <2>3, <2>4, <2>5, EditStays DEF SecretsInv
<1>3. CASE TypeCode
  <2>1. edits' = edits + 1 /\ UNCHANGED <<secretsGen, loop>> /\ th["edit"].pc = "idle"
    BY <1>3 DEF TypeCode
  <2>2. \A t \in Threads : t \notin {"edit", "job"} => th'[t] = th[t]
    BY <1>3 DEF TypeCode
  <2>3. th'["job"].pc \in {"takeCode", "waitConnected"}
    BY <1>3 DEF TypeCode, JobStart, Threads, ThreadType
  <2>4. (SetupPends' <=> SetupPends) /\ EditorsTell'
    BY <2>2, <2>3 DEF SetupPends, SetupRuns, EditorsTell, SecretsInv, VersionInv, Threads
  <2>5. Told' /\ secretsGen < edits'
    BY <2>1, <2>4 DEF Told, One, EditPends, SecretsInv, VersionInv
  <2>6. CodeInv'
    BY <2>3 DEF CodeInv, JobPlaces, JobPcs, OnceCodeHasJob
  <2> QED
    BY <2>1, <2>4, <2>5, <2>6, EditStays DEF SecretsInv
<1>4. ASSUME CancelCode \/ JobWaits \/ JobEnds PROVE SecretsInv'
  <2>1. \A t \in Threads : t # "job" => th'[t] = th[t]
    BY <1>4 DEF CancelCode, JobWaits, JobEnds
  <2>2. th'["job"].pc \in JobPcs
    BY <1>4, IdleType DEF CancelCode, JobWaits, JobEnds, JobPcs, Threads, ThreadType
  <2>3. th'["job"].pc # "idle" \/ ~onceCode'
    BY <1>4 DEF CancelCode, JobWaits, JobEnds, Threads, ThreadType
  <2>4. NothingEdited /\ LoopKeepsGen /\ NoRefusal
    BY <1>4, GenKept, RefusedStays
    DEF CancelCode, JobWaits, JobEnds, JobUnchanged, NothingEdited
  <2>5. (EditPends' <=> EditPends) /\ (SetupPends' <=> SetupPends) /\ EditorsTell'
    BY <2>1, <2>2
    DEF EditPends, SetupPends, SetupRuns, EditorsTell, JobPcs, SecretsInv, VersionInv, Threads
  <2>6. Told' /\ VerdictTold'
    BY <2>4, <2>5 DEF Told, One, NothingEdited, NoRefusal, VerdictTold, SecretsInv, VersionInv
  <2>7. GenTold' /\ VersionRead'
    BY <2>4
    DEF NothingEdited, LoopKeepsGen, GenTold, VersionRead, SecretsInv, VersionInv, LoopType,
        JudgePcs
  <2> QED
    BY <2>2, <2>3, <2>5, <2>6, <2>7 DEF SecretsInv, VersionInv, CodeInv, JobPlaces, OnceCodeHasJob
<1> QED BY <1>1, <1>2, <1>3, <1>4 DEF SetPassword, SetTOTP

\* The end of the program, and the next one, which counts from the start.
LEMMA RunStepsKeepSecrets ==
  ASSUME TypeInv, SecretsInv, Stop \/ RunCancels \/ RunEnds \/ Restart
  PROVE  SecretsInv'
<1> USE DEF TypeInv, TypeOK, acctVars, secrVars, codeVars, lifeVars, flagVars, wishVars, pageVars
<1>1. CASE Stop
  <2>1. ThreadsKeep /\ LoopKeepsGen /\ NoRefusal
    BY <1>1, KeepAll, GenKept, RefusedStays DEF Stop
  <2>2. NothingEdited /\ (onceCode' => onceCode)
    BY <1>1 DEF Stop, NothingEdited
  <2> QED
    BY <2>1, <2>2, SecretsStay
<1>2. CASE RunCancels
  <2>1. ThreadsKeep
    BY <1>2, KeepCalls DEF RunCancels, Threads, ThreadPcs, SetupPcs, RetPcs
  <2>2. LoopKeepsGen /\ NoRefusal
    BY <1>2, RefusedStays DEF RunCancels, LoopKeepsGen, LoopType, JudgePcs
  <2>3. NothingEdited /\ (onceCode' => onceCode)
    BY <1>2 DEF RunCancels, NothingEdited
  <2> QED
    BY <2>1, <2>2, <2>3, SecretsStay
<1>3. CASE RunEnds
  <2>1. ThreadsKeep
    BY <1>3, KeepRests DEF RunEnds, Threads
  <2>2. LoopKeepsGen /\ NoRefusal
    BY <1>3, GenKept, RefusedStays DEF RunEnds
  <2>3. NothingEdited /\ (onceCode' => onceCode)
    BY <1>3 DEF RunEnds, NothingEdited
  <2> QED
    BY <2>1, <2>2, <2>3, SecretsStay
<1>4. CASE Restart
  <2>1. th' = th /\ loop' = loop /\ loop.pc = "off" /\ edits' = edits /\ secretsGen' = 0
    BY <1>4 DEF Restart, EndedIsOff
  <2>2. ~RefusalShown' /\ ~onceCode'
    BY <1>4 DEF Restart, RefusalShown
  <2>3. (EditPends' <=> EditPends) /\ (SetupPends' <=> SetupPends) /\ EditorsTell'
    BY <2>1 DEF EditPends, SetupPends, SetupRuns, EditorsTell, SecretsInv, VersionInv
  <2>4. Told'
    BY <2>1, <2>3 DEF Told, One, SecretsInv, VersionInv
  <2>5. GenTold' /\ VersionRead' /\ VerdictTold'
    BY <2>1, <2>2 DEF GenTold, VersionRead, VerdictTold, JudgePcs
  <2> QED
    BY <2>1, <2>2, <2>3, <2>4, <2>5
    DEF SecretsInv, VersionInv, CodeInv, JobPlaces, OnceCodeHasJob
<1> QED BY <1>1, <1>2, <1>3, <1>4

LEMMA SecretsInit == Init => SecretsInv
  BY IdleType
  DEF Init, SecretsInv, VersionInv, CodeInv, Told, One, EditPends, SetupPends, SetupRuns, SetupPcs,
      EditorsTell, GenTold, VersionRead, JudgePcs, VerdictTold, RefusalShown, JobPlaces, JobPcs,
      OnceCodeHasJob, LoopOff, Threads

LEMMA SecretsStep == TypeInv /\ SecretsInv /\ [Next]_vars => SecretsInv'
<1> SUFFICES ASSUME TypeInv, SecretsInv, [Next]_vars PROVE SecretsInv'
  OBVIOUS
<1>1. CASE UNCHANGED vars
  BY <1>1, KeepAll, GenKept, RefusedStays, SecretsStay
  DEF vars, TypeInv, NothingEdited, secrVars, acctVars, flagVars
<1>2. CASE Next
  <2>1. CASE RequestConnect
    BY <2>1, SecretsStepsKeepSecrets DEF Threads
  <2>2. CASE Disconnect
    BY <2>2, RequestDisconnectKeepsSecrets DEF Disconnect, Threads, RetPcs
  <2>3. ASSUME NEW t \in Threads, DisconnectSteps(t) PROVE SecretsInv'
    <3>1. t # "job"
      BY <2>3
      DEF DisconnectSteps, ThreadClosesAll, ThreadStops, ThreadStopped, LoopIsDone,
          ThreadClosesIdle, ThreadToIdle, SecretsInv, CodeInv, JobPlaces, JobPcs
    <3> QED
      BY <2>3, <3>1, DisconnectStepsKeepSecrets
  <2>4. ASSUME NEW t \in Threads, SecretsSteps(t) PROVE SecretsInv'
    BY <2>4, SecretsStepsKeepSecrets
  <2>5. ASSUME NEW a \in Accounts, SetupBegins(a) \/ SetupSteps PROVE SecretsInv'
    BY <2>5, SetupStepsKeepSecrets
  <2>6. Accounts # {}
    BY DEF TypeInv, TypeOK
  <2>7. CASE SetPassword \/ SetTOTP \/ NoteCodeShown \/ TypeCode \/ CancelCode \/ JobWaits \/
        JobEnds
    BY <2>7, EditStepsKeepSecrets
  <2>8. CASE TickChecksCisco \/ TickResumes \/ TickStopsIdle \/ TickerSteps
    BY <2>8, TickerStepsKeepSecrets
  <2>9. ASSUME NEW p \in Pages, PageSteps(p) PROVE SecretsInv'
    BY <2>9, PageStepsKeepSecrets
  <2>10. CASE DemandEnds \/ IdleElapses \/ WindowEnds
    BY <2>10, TimeKeepsSecrets
  <2>11. CASE LoopSteps
    BY <2>11, LoopStepsKeepSecrets
  <2>12. CASE TunnelSpawns
    <3>1. 1 \in Ids
      BY DaemonAssumption DEF Ids
    <3> QED BY <2>12, <3>1, TunnelKeepsSecrets
  <2>13. ASSUME NEW i \in Ids, TunnelSendsCode(i) \/ TunnelOpensPort(i) \/ TunnelExits(i)
         PROVE  SecretsInv'
    BY <2>13, TunnelKeepsSecrets
  <2>14. CASE Stop \/ RunCancels \/ RunEnds \/ Restart
    BY <2>14, RunStepsKeepSecrets
  <2> QED
    BY <1>2, <2>1, <2>2, <2>3, <2>4, <2>5, <2>6, <2>7, <2>8, <2>9, <2>10, <2>11, <2>12, <2>13,
       <2>14 DEF Next
<1> QED BY <1>1, <1>2

\* The inductive invariant: secretsGen lags behind the edits by those under way, the loop's note
\* of it dates what the loop read, and the job of a typed code keeps to its own places.
THEOREM SecretsInvariant == Spec => []SecretsInv
  BY TypesInvariant, SecretsInit, SecretsStep, PTL DEF Spec

\* However an edit or a setup interleaves with an attempt: a refusal of old secrets is never
\* shown as a verdict on the new ones.
THEOREM VerdictIsCurrentAlways == Spec => []VerdictIsCurrent
<1>1. SecretsInv => VerdictIsCurrent
  BY DEF SecretsInv, VersionInv, VerdictTold, RefusalShown, VerdictIsCurrent
<1> QED BY <1>1, SecretsInvariant, PTL

\* Every end of a typed code's job, and every way to the end of the program, drops the code.
THEOREM OnceCodeHasJobAlways == Spec => []OnceCodeHasJob
<1>1. SecretsInv => OnceCodeHasJob
  BY DEF SecretsInv, CodeInv
<1> QED BY <1>1, SecretsInvariant, PTL

-----------------------------------------------------------------------------
\* The attempts and the calls that stop them.

\* A thread refers to an attempt only on its way through Stop.
ThreadTargets ==
    \A t \in Threads : th[t].tgt # 0 => th[t].pc \in {"closeAll", "stop", "stopping"}

\* The job of a typed code calls nothing.
JobThread == th["job"].pc \in JobPcs

\* Outside the stages of an attempt the loop has none; one that ended may leave it behind only
\* to Run, which stops it.
LoopHasNone == loop.pc \notin TunnelPcs \cup {"off"} => tun = 0
OffHasNone == loop.pc = "off" \/ loop.cancelled => tun = 0 \/ run # "up"

\* An attempt without a process is the one the loop is starting.
NewIsStarting == \A i \in Ids : tunnels[i].phase = "new" => i = tun /\ loop.pc = "start"

\* A process marked as stopped is killed or waited for; the loop's own calls do both.
StopWaited ==
    \A i \in Ids : Live(i) /\ tunnels[i].byUs =>
        BeingStopped(i) \/ (i = tun /\ loop.pc \in {"start", "changedStopped", "slowStopped"})

\* The thread of Run: nothing connects while it stops the attempt there is.
RunThread ==
    /\ th["run"].pc \in {"idle", "stop", "stopping", "runWait"}
    /\ th["run"].pc # "idle" => run = "stopping"
    /\ th["run"].pc \in {"stop", "stopping"} =>
           th["run"].ret = "runWait" /\ (tun # 0 => th["run"].tgt = tun)
RunCancelled == th["run"].pc # "idle" => loop.pc = "off" \/ loop.cancelled
RunStopped ==
    th["run"].pc = "runWait" \/ run = "ended" => (tun # 0 /\ Live(tun) => tunnels[tun].byUs)

StopInv ==
    /\ ThreadTargets /\ JobThread /\ LoopHasNone /\ OffHasNone /\ NewIsStarting
    /\ StopWaited /\ OneTunnel
    /\ RunThread /\ RunCancelled /\ RunStopped

\* Steps that leave the attempts alone.  A thread gives up the attempt it refers to only when
\* that one has exited, and Run's thread stays where it is.
TargetsStay ==
    \A t \in Threads : /\ th[t].tgt \notin {0, th'[t].tgt} => Exited(th[t].tgt)
                       /\ th'[t].tgt # 0 => th'[t].pc \in {"closeAll", "stop", "stopping"}
                       /\ t = "job" => th'[t].pc \in JobPcs
RunStays ==
    /\ run' = run
    /\ th'["run"].pc = th["run"].pc
    /\ th'["run"].ret = th["run"].ret
    /\ th'["run"].tgt = th["run"].tgt
LoopGoesOn ==
    \/ /\ loop'.pc = loop.pc
       /\ loop'.cancelled = loop.cancelled \/ (tun = 0 /\ loop'.cancelled = TRUE)
    \/ loop.pc = "off" /\ run = "up" /\ loop'.pc = "begin" /\ ~loop'.cancelled

LEMMA WaitedStays ==
  ASSUME TypeInv, StopInv, TargetsStay, LoopGoesOn, UNCHANGED <<tun, tunnels>>
  PROVE  StopWaited' /\ OneTunnel'
<1>1. ASSUME NEW i \in Ids, Live(i), BeingStopped(i) PROVE BeingStopped(i)'
  <2>1. CASE tunnels[i].phase = "killed"
    BY <2>1 DEF BeingStopped
  <2>2. ASSUME NEW t \in Threads, th[t].tgt = i PROVE th'[t].tgt = i
    BY <1>1, <2>2 DEF TargetsStay, Live, Exited, Ids
  <2> QED BY <1>1, <2>1, <2>2 DEF BeingStopped
<1> QED BY <1>1 DEF StopInv, StopWaited, OneTunnel, Live, LoopGoesOn

LEMMA StopStays ==
  ASSUME TypeInv, StopInv, TargetsStay, RunStays, LoopGoesOn, UNCHANGED <<tun, tunnels>>
  PROVE  StopInv'
<1>1. ThreadTargets' /\ JobThread'
  BY DEF TargetsStay, ThreadTargets, JobThread, Threads
<1>2. LoopHasNone' /\ OffHasNone' /\ NewIsStarting'
  BY DEF StopInv, LoopHasNone, OffHasNone, NewIsStarting, LoopGoesOn, RunStays, TunnelPcs
<1>3. StopWaited' /\ OneTunnel'
  BY WaitedStays
<1>4. RunThread' /\ RunCancelled' /\ RunStopped'
  BY
  DEF StopInv, RunThread, RunCancelled, RunStopped, RunStays, LoopGoesOn, Live, TypeInv,
      EndedIsOff
<1> QED BY <1>1, <1>2, <1>3, <1>4 DEF StopInv

LEMMA TargetsStayIfBecomes ==
  ASSUME TypeOK, ThreadTargets, JobThread, NEW t \in Threads, NEW r \in ThreadType,
         th' = [th EXCEPT ![t] = r],
         th[t].pc \in {"closeAll", "stop", "stopping"} => r.tgt = th[t].tgt \/ Exited(th[t].tgt),
         r.tgt # 0 => r.pc \in {"closeAll", "stop", "stopping"},
         t = "job" => r.pc \in JobPcs
  PROVE  TargetsStay
  BY DEF TypeOK, ThreadTargets, JobThread, TargetsStay, Threads

\* Outside a call of Stop a thread refers to no attempt and goes on with none.
LEMMA TargetsStayIfGoesTo ==
  ASSUME TypeOK, ThreadTargets, JobThread, NEW t \in Threads, NEW pc \in ThreadPcs,
         th' = [th EXCEPT ![t].pc = pc],
         th[t].pc \in {"closeAll", "stop", "stopping"} => pc \in {"closeAll", "stop", "stopping"},
         t = "job" => pc \in JobPcs
  PROVE  TargetsStay
<1> DEFINE r == [th[t] EXCEPT !.pc = pc]
<1>1. r \in ThreadType /\ r.pc = pc /\ r.tgt = th[t].tgt
  BY DEF TypeOK, ThreadType
<1>2. th' = [th EXCEPT ![t] = r]
  OBVIOUS
<1>3. r.tgt # 0 => r.pc \in {"closeAll", "stop", "stopping"}
  BY <1>1 DEF ThreadTargets
<1> HIDE DEF r
<1> QED BY <1>1, <1>2, <1>3, TargetsStayIfBecomes

LEMMA TargetsStayIfRests ==
  ASSUME TypeOK, ThreadTargets, JobThread, NEW t \in Threads, th' = [th EXCEPT ![t] = IdleThread],
         th[t].pc \notin {"closeAll", "stop", "stopping"}
  PROVE  TargetsStay
<1>1. IdleThread.tgt = 0 /\ IdleThread.pc \in JobPcs
  BY DEF IdleThread, JobPcs
<1> QED BY <1>1, IdleType, TargetsStayIfBecomes

LEMMA TargetsStayIfReturns ==
  ASSUME TypeOK, ThreadTargets, JobThread, NEW t \in Threads,
         th' = [th EXCEPT ![t] = Returned(t)],
         th[t].tgt # 0 => Exited(th[t].tgt), t # "job"
  PROVE  TargetsStay
<1>1. Returned(t) \in ThreadType /\ Returned(t).tgt = 0
  BY ReturnedType
<1> QED BY <1>1, TargetsStayIfBecomes DEF TypeOK, TargetsStay, ThreadTargets

LEMMA TargetsStayIfCalls ==
  ASSUME TypeOK, ThreadTargets, JobThread, NEW t \in Threads, NEW pc \in ThreadPcs,
         NEW i \in Ids \cup {0},
         NEW ret \in RetPcs, th' = [th EXCEPT ![t] = Calls(t, pc, i, ret)],
         th[t].pc \notin {"closeAll", "stop", "stopping"},
         i # 0 => pc \in {"closeAll", "stop"}, t # "job"
  PROVE  TargetsStay
<1> DEFINE r == Calls(t, pc, i, ret)
<1>1. r \in ThreadType /\ r.pc = pc /\ r.tgt = i
  BY CallsType
<1> HIDE DEF r
<1> QED BY <1>1, TargetsStayIfBecomes DEF r

LEMMA RunStaysIfOther ==
  ASSUME TypeOK, NEW t \in Threads, t # "run", NEW r \in ThreadType, th' = [th EXCEPT ![t] = r],
         run' = run
  PROVE  RunStays
  BY DEF TypeOK, RunStays, Threads

LEMMA ThreadsStay ==
  ASSUME TypeOK, ThreadTargets, JobThread, UNCHANGED <<th, run>>
  PROVE  TargetsStay /\ RunStays
  BY DEF TargetsStay, RunStays, ThreadTargets, JobThread

LEMMA LoopGoesOnIfKept == loop' = loop => LoopGoesOn
  BY DEF LoopGoesOn
LEMMA LoopGoesOnIfEnsured == TypeOK /\ loop' = Ensured => LoopGoesOn
  BY DEF LoopGoesOn, Ensured, LoopOff
LEMMA LoopGoesOnIfConnects == TypeOK /\ ConnectLocked => LoopGoesOn
  BY LoopGoesOnIfEnsured DEF ConnectLocked

\* What Stop does to attempt g.
LEMMA Marked ==
  ASSUME TypeOK, NEW g \in Ids \cup {0}, tunnels' = MarkStopping(g)
  PROVE  \A i \in Ids : /\ tunnels'[i].phase = tunnels[i].phase
                        /\ tunnels[i].byUs => tunnels'[i].byUs
                        /\ i = g /\ Live(i) => tunnels'[i].byUs
                        /\ i # g => tunnels'[i].byUs = tunnels[i].byUs
  BY DEF MarkStopping, TypeOK, TunnelType, Live, Exited

\* A thread calls Stop: it waits for the process from here on.
LEMMA ThreadStopsKeepsStop ==
  ASSUME TypeInv, StopInv, NEW t \in Threads, ThreadStops(t)
  PROVE  StopInv'
<1> USE DEF TypeInv, TypeOK
<1>0. PICK g \in Ids \cup {0} : g = th[t].tgt
  BY DEF ThreadType
<1>1. th[t].pc = "stop" /\ tunnels' = MarkStopping(g) /\ UNCHANGED <<tun, loop, run>>
  BY <1>0 DEF ThreadStops, lifeVars
<1>2. PICK r \in ThreadType :
        /\ th' = [th EXCEPT ![t] = r]
        /\ r.tgt # 0 => r.pc = "stopping"
        /\ MustEnd(g) => r.pc = "stopping" /\ r.tgt = g /\ r.ret = th[t].ret
        /\ ~MustEnd(g) => r.pc = th[t].ret
  <2>1. CASE MustEnd(g)
    <3> DEFINE r == [th[t] EXCEPT !.pc = "stopping"]
    <3>1. th' = [th EXCEPT ![t] = r]
      BY <1>0, <2>1 DEF ThreadStops
    <3>2. r \in ThreadType /\ r.pc = "stopping" /\ r.tgt = g /\ r.ret = th[t].ret
      BY <1>0 DEF ThreadType, ThreadPcs
    <3> HIDE DEF r
    <3> QED BY <2>1, <3>1, <3>2
  <2>2. CASE ~MustEnd(g)
    BY <1>0, <2>2, ReturnedType DEF ThreadStops
  <2> QED BY <2>1, <2>2
<1>3. \A x \in Threads : x # t => th'[x] = th[x]
  BY <1>2
<1>4. th'[t] = r
  BY <1>2
<1>5. \A i \in Ids : /\ tunnels'[i].phase = tunnels[i].phase
                     /\ tunnels[i].byUs => tunnels'[i].byUs
                     /\ i = g /\ Live(i) => tunnels'[i].byUs
                     /\ i # g => tunnels'[i].byUs = tunnels[i].byUs
  BY <1>1, Marked
<1>6. ASSUME NEW i \in Ids, i # g, BeingStopped(i) PROVE BeingStopped(i)'
  <2>1. ASSUME NEW x \in Threads, th[x].tgt = i PROVE th'[x].tgt = i
    BY <1>0, <1>3, <1>6, <2>1
  <2> QED BY <1>5, <1>6, <2>1 DEF BeingStopped
<1>7. ASSUME g \in Ids, Live(g) PROVE BeingStopped(g)' \/ tunnels[g].phase = "new"
  <2>1. MustEnd(g) \/ tunnels[g].phase = "new"
    BY <1>7 DEF MustEnd, TunnelType, Phases, Live
  <2> QED BY <1>2, <1>4, <2>1 DEF BeingStopped
<1>8. ThreadTargets' /\ JobThread'
  BY <1>1, <1>2, <1>3, <1>4 DEF StopInv, ThreadTargets, JobThread, JobPcs, Threads
<1>9. LoopHasNone' /\ OffHasNone' /\ NewIsStarting'
  BY <1>1, <1>5 DEF StopInv, LoopHasNone, OffHasNone, NewIsStarting
<1>10. StopWaited'
  BY <1>1, <1>5, <1>6, <1>7 DEF StopInv, StopWaited, NewIsStarting, Live
<1>11. OneTunnel'
  BY <1>1, <1>5, <1>6, <1>7 DEF StopInv, OneTunnel, NewIsStarting, Live
<1>12. RunThread' /\ RunCancelled'
  BY <1>0, <1>1, <1>2, <1>3, <1>4 DEF StopInv, RunThread, RunCancelled, Threads
<1>13. RunStopped'
  <2>1. CASE t = "run"
    BY <1>0, <1>1, <1>2, <1>4, <1>5, <2>1 DEF StopInv, RunStopped, RunThread, Live
  <2>2. CASE t # "run"
    BY <1>1, <1>3, <1>5, <2>2 DEF StopInv, RunStopped, Live, Threads
  <2> QED BY <2>1, <2>2
<1> QED BY <1>8, <1>9, <1>10, <1>11, <1>12, <1>13 DEF StopInv

\* Its process has exited.
LEMMA ThreadStoppedKeepsStop ==
  ASSUME TypeInv, StopInv, NEW t \in Threads, ThreadStopped(t)
  PROVE  StopInv'
<1> USE DEF TypeInv, TypeOK
<1>1. UNCHANGED <<tun, tunnels, loop, run>> /\ Exited(th[t].tgt) /\ th[t].pc = "stopping"
      /\ th' = [th EXCEPT ![t] = Returned(t)]
  BY DEF ThreadStopped, lifeVars
<1>2. Returned(t) \in ThreadType /\ Returned(t).pc = th[t].ret /\ Returned(t).tgt = 0
  BY ReturnedType
<1>3. TargetsStay
  BY <1>1, TargetsStayIfReturns DEF StopInv, JobThread, JobPcs
<1>4. LoopGoesOn
  BY <1>1 DEF LoopGoesOn
<1>5. StopWaited' /\ OneTunnel'
  BY <1>1, <1>3, <1>4, WaitedStays
<1>6. ThreadTargets' /\ JobThread' /\ LoopHasNone' /\ OffHasNone' /\ NewIsStarting'
  BY <1>1, <1>3
  DEF StopInv, TargetsStay, ThreadTargets, JobThread, Threads, LoopHasNone, OffHasNone,
      NewIsStarting
<1>7. RunThread' /\ RunCancelled' /\ RunStopped'
  <2>1. CASE t = "run"
    BY <1>1, <1>2, <2>1 DEF StopInv, RunThread, RunCancelled, RunStopped, Live, Exited
  <2>2. CASE t # "run"
    BY <1>1, <2>2 DEF StopInv, RunThread, RunCancelled, RunStopped, Live, Threads
  <2> QED BY <2>1, <2>2
<1> QED BY <1>5, <1>6, <1>7 DEF StopInv

\* RequestDisconnect by the user or by a setup.
LEMMA RequestDisconnectKeepsStop ==
  ASSUME TypeInv, StopInv, NEW t \in Threads, t \notin {"run", "job"}, NEW ret \in RetPcs,
         th[t].pc \in {"idle", "teardown"}, RequestDisconnect(t, ret)
  PROVE  StopInv'
<1> USE DEF TypeInv, TypeOK
<1>1. UNCHANGED <<tun, tunnels, run>> /\ LoopGoesOn
  BY DEF RequestDisconnect, LoopGoesOn, LoopType, lifeVars
<1>2. PICK pc \in {"closeAll", "waitDone", "closeIdle"}, i \in Ids \cup {0} :
        /\ th' = Raced([th EXCEPT ![t] = Calls(t, pc, i, ret)])
        /\ i # 0 => pc = "closeAll"
  BY DEF RequestDisconnect
<1> DEFINE f == [th EXCEPT ![t] = Calls(t, pc, i, ret)]
<1>3. Calls(t, pc, i, ret) \in ThreadType /\ Calls(t, pc, i, ret).pc = pc /\ Calls(t, pc, i,
      ret).tgt = i
  BY CallsType DEF ThreadPcs
<1>4. f \in [Threads -> ThreadType]
  BY <1>3
<1>5. \A x \in Threads : th'[x].pc = f[x].pc /\ th'[x].ret = f[x].ret /\ th'[x].tgt = f[x].tgt
  BY <1>2, <1>4, RacedType
<1>6. TargetsStay
  <2>1. th[t].tgt = 0
    BY DEF StopInv, ThreadTargets
  <2>2. f[t].pc = pc /\ f[t].tgt = i /\ \A x \in Threads : x # t => f[x] = th[x]
    BY <1>3
  <2> HIDE DEF f
  <2>3. \A x \in Threads : x # t => th'[x].pc = th[x].pc /\ th'[x].tgt = th[x].tgt
    BY <1>5, <2>2
  <2>4. th'[t].pc = pc /\ th'[t].tgt = i
    BY <1>5, <2>2
  <2>5. \A x \in Threads : th[x].tgt # 0 => th[x].pc \in {"closeAll", "stop", "stopping"}
    BY DEF StopInv, ThreadTargets
  <2> QED BY ZenonT(40), <1>2, <2>1, <2>3, <2>4, <2>5 DEF TargetsStay, StopInv, JobThread
<1>7. RunStays
  BY <1>1, <1>3, <1>5 DEF RunStays, Threads
<1> QED BY <1>1, <1>6, <1>7, StopStays

\* The calls of a thread.
LEMMA DisconnectStepsKeepStop ==
  ASSUME TypeInv, StopInv, NEW t \in Threads, DisconnectSteps(t)
  PROVE  StopInv'
<1> USE DEF TypeInv, TypeOK, acctVars, secrVars, codeVars, lifeVars, flagVars, wishVars, pageVars
<1>1. CASE ThreadClosesAll(t)
  <2>1. TargetsStay
    BY <1>1, TargetsStayIfGoesTo
    DEF ThreadClosesAll, StopInv, JobThread, JobPcs, Threads, ThreadPcs, RetPcs
  <2>2. RunStays
    BY <1>1 DEF ThreadClosesAll, RunStays, StopInv, RunThread, Threads, ThreadType
  <2>3. LoopGoesOn
    BY <1>1, LoopGoesOnIfKept DEF ThreadClosesAll
  <2>4. UNCHANGED <<tun, tunnels>>
    BY <1>1 DEF ThreadClosesAll
  <2> QED
    BY <2>1, <2>2, <2>3, <2>4, StopStays
<1>2. CASE ThreadStops(t)
  <2>1. StopInv'
    BY <1>2, ThreadStopsKeepsStop DEF ThreadStops
  <2> QED
    BY <2>1, StopStays
<1>3. CASE ThreadStopped(t)
  <2>1. StopInv'
    BY <1>3, ThreadStoppedKeepsStop DEF ThreadStopped
  <2> QED
    BY <2>1, StopStays
<1>4. CASE LoopIsDone(t)
  <2>1. TargetsStay
    BY <1>4, TargetsStayIfGoesTo
    DEF LoopIsDone, StopInv, JobThread, JobPcs, Threads, ThreadPcs, RetPcs
  <2>2. RunStays
    BY <1>4 DEF LoopIsDone, RunStays, StopInv, RunThread, Threads, ThreadType
  <2>3. LoopGoesOn
    BY <1>4, LoopGoesOnIfKept DEF LoopIsDone
  <2>4. UNCHANGED <<tun, tunnels>>
    BY <1>4 DEF LoopIsDone
  <2> QED
    BY <2>1, <2>2, <2>3, <2>4, StopStays
<1>5. CASE ThreadClosesIdle(t)
  <2>1. TargetsStay
    BY <1>5, TargetsStayIfGoesTo
    DEF ThreadClosesIdle, StopInv, JobThread, JobPcs, Threads, ThreadPcs, RetPcs
  <2>2. RunStays
    BY <1>5 DEF ThreadClosesIdle, RunStays, StopInv, RunThread, Threads, ThreadType
  <2>3. LoopGoesOn
    BY <1>5, LoopGoesOnIfKept DEF ThreadClosesIdle
  <2>4. UNCHANGED <<tun, tunnels>>
    BY <1>5 DEF ThreadClosesIdle
  <2> QED
    BY <2>1, <2>2, <2>3, <2>4, StopStays
<1>6. CASE ThreadToIdle(t)
  <2>1. TargetsStay
    BY <1>6, TargetsStayIfReturns
    DEF ThreadToIdle, StopInv, JobThread, JobPcs, Threads, ThreadPcs, RetPcs, ThreadTargets
  <2>2. RunStays
    BY <1>6 DEF ThreadToIdle, RunStays, StopInv, RunThread, Threads, ThreadType
  <2>3. LoopGoesOn
    BY <1>6, LoopGoesOnIfKept DEF ThreadToIdle
  <2>4. UNCHANGED <<tun, tunnels>>
    BY <1>6 DEF ThreadToIdle
  <2> QED
    BY <2>1, <2>2, <2>3, <2>4, StopStays
<1> QED BY <1>1, <1>2, <1>3, <1>4, <1>5, <1>6 DEF DisconnectSteps

\* secretsChanged, and the connect button.
LEMMA SecretsStepsKeepStop ==
  ASSUME TypeInv, StopInv, NEW t \in Threads, RequestConnect \/ SecretsSteps(t)
  PROVE  StopInv'
<1> USE DEF TypeInv, TypeOK, acctVars, secrVars, codeVars, lifeVars, flagVars, wishVars, pageVars
<1>1. CASE RequestConnect
  <2>1. TargetsStay /\ RunStays
    BY <1>1, ThreadsStay DEF RequestConnect, StopInv
  <2>2. LoopGoesOn
    BY <1>1, LoopGoesOnIfConnects, LoopGoesOnIfKept DEF RequestConnect
  <2>3. UNCHANGED <<tun, tunnels>>
    BY <1>1 DEF RequestConnect
  <2> QED
    BY <2>1, <2>2, <2>3, StopStays
<1>2. CASE SecretsChanged(t)
  <2>1. TargetsStay
    <3>1. t # "job" /\ th[t].pc \notin {"closeAll", "stop", "stopping"}
      BY <1>2 DEF SecretsChanged, StopInv, JobThread, JobPcs
    <3>2. \/ th' = [th EXCEPT ![t] = IdleThread]
          \/ th' = [th EXCEPT ![t] = Calls(t, "stop", tun, "reconnect")]
      BY <1>2 DEF SecretsChanged
    <3>3. "stop" \in ThreadPcs /\ "reconnect" \in RetPcs
      BY DEF ThreadPcs, RetPcs
    <3>4. CASE th' = [th EXCEPT ![t] = IdleThread]
      BY <3>1, <3>4, TargetsStayIfRests DEF StopInv
    <3>5. CASE th' = [th EXCEPT ![t] = Calls(t, "stop", tun, "reconnect")]
      BY <3>1, <3>3, <3>5, TargetsStayIfCalls DEF StopInv
    <3> QED
      BY <3>2, <3>4, <3>5
  <2>2. RunStays
    BY <1>2 DEF SecretsChanged, RunStays, StopInv, RunThread, Threads, ThreadType
  <2>3. LoopGoesOn
    BY <1>2, LoopGoesOnIfConnects, LoopGoesOnIfKept DEF SecretsChanged
  <2>4. UNCHANGED <<tun, tunnels>>
    BY <1>2 DEF SecretsChanged
  <2> QED
    BY <2>1, <2>2, <2>3, <2>4, StopStays
<1>3. CASE Reconnects(t)
  <2>1. TargetsStay
    BY <1>3, TargetsStayIfRests
    DEF Reconnects, StopInv, JobThread, JobPcs, Threads, ThreadPcs, RetPcs
  <2>2. RunStays
    BY <1>3 DEF Reconnects, RunStays, StopInv, RunThread, Threads, ThreadType
  <2>3. LoopGoesOn
    BY <1>3, LoopGoesOnIfConnects, LoopGoesOnIfKept DEF Reconnects
  <2>4. UNCHANGED <<tun, tunnels>>
    BY <1>3 DEF Reconnects
  <2> QED
    BY <2>1, <2>2, <2>3, <2>4, StopStays
<1> QED BY <1>1, <1>2, <1>3 DEF SecretsSteps

\* completeSetup.
LEMMA SetupStepsKeepStop ==
  ASSUME TypeInv, StopInv, NEW a \in Accounts, SetupBegins(a) \/ SetupSteps
  PROVE  StopInv'
<1> USE DEF TypeInv, TypeOK, acctVars, secrVars, codeVars, lifeVars, flagVars, wishVars, pageVars
<1>1. CASE SetupBegins(a)
  <2>1. TargetsStay
    BY <1>1, TargetsStayIfGoesTo
    DEF SetupBegins, StopInv, JobThread, JobPcs, Threads, ThreadPcs, RetPcs
  <2>2. RunStays
    BY <1>1 DEF SetupBegins, RunStays, StopInv, RunThread, Threads, ThreadType
  <2>3. LoopGoesOn
    BY <1>1, LoopGoesOnIfKept DEF SetupBegins
  <2>4. UNCHANGED <<tun, tunnels>>
    BY <1>1 DEF SetupBegins
  <2> QED
    BY <2>1, <2>2, <2>3, <2>4, StopStays
<1>2. CASE SetupTearsDown
  <2>1. StopInv'
    BY <1>2, RequestDisconnectKeepsStop DEF SetupTearsDown, Threads, RetPcs
  <2> QED
    BY <2>1, StopStays
<1>3. CASE SetupSwitches
  <2>1. TargetsStay
    BY <1>3, TargetsStayIfGoesTo
    DEF SetupSwitches, StopInv, JobThread, JobPcs, Threads, ThreadPcs, RetPcs
  <2>2. RunStays
    BY <1>3 DEF SetupSwitches, RunStays, StopInv, RunThread, Threads, ThreadType
  <2>3. LoopGoesOn
    BY <1>3, LoopGoesOnIfKept DEF SetupSwitches
  <2>4. UNCHANGED <<tun, tunnels>>
    BY <1>3 DEF SetupSwitches
  <2> QED
    BY <2>1, <2>2, <2>3, <2>4, StopStays
<1>4. CASE SetupStores
  <2>1. TargetsStay
    BY <1>4, TargetsStayIfGoesTo
    DEF SetupStores, StopInv, JobThread, JobPcs, Threads, ThreadPcs, RetPcs
  <2>2. RunStays
    BY <1>4 DEF SetupStores, RunStays, StopInv, RunThread, Threads, ThreadType
  <2>3. LoopGoesOn
    BY <1>4, LoopGoesOnIfKept DEF SetupStores
  <2>4. UNCHANGED <<tun, tunnels>>
    BY <1>4 DEF SetupStores
  <2> QED
    BY <2>1, <2>2, <2>3, <2>4, StopStays
<1>5. CASE SetupFails
  <2>1. TargetsStay
    BY <1>5, TargetsStayIfRests
    DEF SetupFails, StopInv, JobThread, JobPcs, Threads, ThreadPcs, RetPcs
  <2>2. RunStays
    BY <1>5 DEF SetupFails, RunStays, StopInv, RunThread, Threads, ThreadType
  <2>3. LoopGoesOn
    BY <1>5, LoopGoesOnIfKept DEF SetupFails
  <2>4. UNCHANGED <<tun, tunnels>>
    BY <1>5 DEF SetupFails
  <2> QED
    BY <2>1, <2>2, <2>3, <2>4, StopStays
<1>6. ASSUME NEW typed \in {FALSE, "code" \in Events}, SetupApplies(typed) PROVE StopInv'
  <2>1. \A x \in Threads \ {"setup"} : th'[x].tgt = th[x].tgt /\ (x # "job" => th'[x] = th[x])
    BY <1>6 DEF SetupApplies, Threads, ThreadType
  <2>2. th["job"].tgt = 0 /\ th'["job"].pc \in JobPcs
    BY <1>6
    DEF SetupApplies, StopInv, JobThread, JobPcs, ThreadTargets, Threads, ThreadType, JobStart
  <2>3. th'["setup"].tgt = 0 /\ th["setup"].tgt = 0
    BY <1>6, IdleType DEF SetupApplies, StopInv, ThreadTargets, Threads, IdleThread
  <2>4. TargetsStay
    BY <1>6, <2>1, <2>2, <2>3 DEF SetupApplies, StopInv, TargetsStay, ThreadTargets, Threads
  <2>5. RunStays
    BY <1>6 DEF SetupApplies, RunStays, StopInv, RunThread, Threads, ThreadType
  <2>6. LoopGoesOn
    BY <1>6, LoopGoesOnIfKept DEF SetupApplies
  <2>7. UNCHANGED <<tun, tunnels>>
    BY <1>6 DEF SetupApplies
  <2> QED
    BY <2>4, <2>5, <2>6, <2>7, StopStays
<1> QED BY <1>1, <1>2, <1>3, <1>4, <1>5, <1>6 DEF SetupSteps

\* New secrets and the typed code.
LEMMA EditStepsKeepStop ==
  ASSUME TypeInv, StopInv, SetPassword \/ SetTOTP \/ NoteCodeShown \/ TypeCode \/ CancelCode \/
         JobWaits \/ JobEnds
  PROVE  StopInv'
<1> USE DEF TypeInv, TypeOK, acctVars, secrVars, codeVars, lifeVars, flagVars, wishVars, pageVars
<1>1. CASE SetPassword
  <2>1. TargetsStay
    BY <1>1, TargetsStayIfGoesTo
    DEF SetPassword, StopInv, JobThread, JobPcs, Threads, ThreadPcs, RetPcs, EditStores
  <2>2. RunStays
    BY <1>1 DEF SetPassword, RunStays, StopInv, RunThread, Threads, ThreadType, EditStores
  <2>3. LoopGoesOn
    BY <1>1, LoopGoesOnIfKept DEF SetPassword, EditStores
  <2>4. UNCHANGED <<tun, tunnels>>
    BY <1>1 DEF SetPassword, EditStores
  <2> QED
    BY <2>1, <2>2, <2>3, <2>4, StopStays
<1>2. CASE SetTOTP
  <2>1. TargetsStay
    BY <1>2, TargetsStayIfGoesTo
    DEF SetTOTP, StopInv, JobThread, JobPcs, Threads, ThreadPcs, RetPcs, EditStores
  <2>2. RunStays
    BY <1>2 DEF SetTOTP, RunStays, StopInv, RunThread, Threads, ThreadType, EditStores
  <2>3. LoopGoesOn
    BY <1>2, LoopGoesOnIfKept DEF SetTOTP, EditStores
  <2>4. UNCHANGED <<tun, tunnels>>
    BY <1>2 DEF SetTOTP, EditStores
  <2> QED
    BY <2>1, <2>2, <2>3, <2>4, StopStays
<1>3. CASE NoteCodeShown
  <2>1. TargetsStay
    BY <1>3, TargetsStayIfGoesTo
    DEF NoteCodeShown, StopInv, JobThread, JobPcs, Threads, ThreadPcs, RetPcs
  <2>2. RunStays
    BY <1>3 DEF NoteCodeShown, RunStays, StopInv, RunThread, Threads, ThreadType
  <2>3. LoopGoesOn
    BY <1>3, LoopGoesOnIfKept DEF NoteCodeShown
  <2>4. UNCHANGED <<tun, tunnels>>
    BY <1>3 DEF NoteCodeShown
  <2> QED
    BY <2>1, <2>2, <2>3, <2>4, StopStays
<1>4. CASE TypeCode
  <2>1. TargetsStay
    BY <1>4
    DEF TypeCode, StopInv, TargetsStay, JobThread, JobPcs, ThreadTargets, Threads, ThreadType,
        JobStart
  <2>2. RunStays
    BY <1>4 DEF TypeCode, RunStays, StopInv, RunThread, Threads, ThreadType
  <2>3. LoopGoesOn
    BY <1>4, LoopGoesOnIfKept DEF TypeCode
  <2>4. UNCHANGED <<tun, tunnels>>
    BY <1>4 DEF TypeCode
  <2> QED
    BY <2>1, <2>2, <2>3, <2>4, StopStays
<1>5. CASE CancelCode
  <2>1. TargetsStay
    BY <1>5, TargetsStayIfRests
    DEF CancelCode, StopInv, JobThread, JobPcs, Threads, ThreadPcs, RetPcs, JobUnchanged
  <2>2. RunStays
    BY <1>5 DEF CancelCode, RunStays, StopInv, RunThread, Threads, ThreadType, JobUnchanged
  <2>3. LoopGoesOn
    BY <1>5, LoopGoesOnIfKept DEF CancelCode, JobUnchanged
  <2>4. UNCHANGED <<tun, tunnels>>
    BY <1>5 DEF CancelCode, JobUnchanged
  <2> QED
    BY <2>1, <2>2, <2>3, <2>4, StopStays
<1>6. CASE JobWaits
  <2>1. TargetsStay
    BY <1>6, TargetsStayIfGoesTo
    DEF JobWaits, StopInv, JobThread, JobPcs, Threads, ThreadPcs, RetPcs, JobUnchanged
  <2>2. RunStays
    BY <1>6 DEF JobWaits, RunStays, StopInv, RunThread, Threads, ThreadType, JobUnchanged
  <2>3. LoopGoesOn
    BY <1>6, LoopGoesOnIfKept DEF JobWaits, JobUnchanged
  <2>4. UNCHANGED <<tun, tunnels>>
    BY <1>6 DEF JobWaits, JobUnchanged
  <2> QED
    BY <2>1, <2>2, <2>3, <2>4, StopStays
<1>7. CASE JobEnds
  <2>1. TargetsStay
    BY <1>7, TargetsStayIfRests
    DEF JobEnds, StopInv, JobThread, JobPcs, Threads, ThreadPcs, RetPcs, JobUnchanged
  <2>2. RunStays
    BY <1>7 DEF JobEnds, RunStays, StopInv, RunThread, Threads, ThreadType, JobUnchanged
  <2>3. LoopGoesOn
    BY <1>7, LoopGoesOnIfKept DEF JobEnds, JobUnchanged
  <2>4. UNCHANGED <<tun, tunnels>>
    BY <1>7 DEF JobEnds, JobUnchanged
  <2> QED
    BY <2>1, <2>2, <2>3, <2>4, StopStays
<1> QED BY <1>1, <1>2, <1>3, <1>4, <1>5, <1>6, <1>7

\* The ticker.
LEMMA TickerStepsKeepStop ==
  ASSUME TypeInv, StopInv, TickChecksCisco \/ TickResumes \/ TickStopsIdle \/ TickerSteps
  PROVE  StopInv'
<1> USE DEF TypeInv, TypeOK, acctVars, secrVars, codeVars, lifeVars, flagVars, wishVars, pageVars
<1>1. CASE TickChecksCisco
  <2>1. TargetsStay
    BY <1>1, TargetsStayIfGoesTo
    DEF TickChecksCisco, StopInv, JobThread, JobPcs, Threads, ThreadPcs, RetPcs
  <2>2. RunStays
    BY <1>1 DEF TickChecksCisco, RunStays, StopInv, RunThread, Threads, ThreadType
  <2>3. LoopGoesOn
    BY <1>1, LoopGoesOnIfKept DEF TickChecksCisco
  <2>4. UNCHANGED <<tun, tunnels>>
    BY <1>1 DEF TickChecksCisco
  <2> QED
    BY <2>1, <2>2, <2>3, <2>4, StopStays
<1>2. CASE TickResumes
  <2>1. TargetsStay
    BY <1>2, TargetsStayIfCalls, TargetsStayIfRests
    DEF TickResumes, StopInv, JobThread, JobPcs, Threads, ThreadPcs, RetPcs, TickerAtRest
  <2>2. RunStays
    BY <1>2 DEF TickResumes, RunStays, StopInv, RunThread, Threads, ThreadType
  <2>3. LoopGoesOn
    BY <1>2, LoopGoesOnIfKept DEF TickResumes
  <2>4. UNCHANGED <<tun, tunnels>>
    BY <1>2 DEF TickResumes
  <2> QED
    BY <2>1, <2>2, <2>3, <2>4, StopStays
<1>3. CASE TickStopsIdle
  <2>1. TargetsStay
    BY ZenonT(40), <1>3, TargetsStayIfCalls
    DEF TickStopsIdle, StopInv, JobThread, JobPcs, Threads, ThreadPcs, RetPcs, IdleTooLong
  <2>2. RunStays
    BY <1>3 DEF TickStopsIdle, RunStays, StopInv, RunThread, Threads, ThreadType
  <2>3. LoopGoesOn
    BY <1>3, LoopGoesOnIfKept DEF TickStopsIdle
  <2>4. UNCHANGED <<tun, tunnels>>
    BY <1>3 DEF TickStopsIdle
  <2> QED
    BY <2>1, <2>2, <2>3, <2>4, StopStays
<1>4. ASSUME NEW cisco \in CiscoAnswers, TickCisco(cisco) PROVE StopInv'
  <2>1. TargetsStay
    BY <1>4, TargetsStayIfCalls, TargetsStayIfGoesTo
    DEF TickCisco, StopInv, JobThread, JobPcs, Threads, ThreadPcs, RetPcs
  <2>2. RunStays
    BY <1>4 DEF TickCisco, RunStays, StopInv, RunThread, Threads, ThreadType
  <2>3. LoopGoesOn
    BY <1>4, LoopGoesOnIfKept DEF TickCisco
  <2>4. UNCHANGED <<tun, tunnels>>
    BY <1>4 DEF TickCisco
  <2> QED
    BY <2>1, <2>2, <2>3, <2>4, StopStays
<1>5. CASE TickEnds
  <2>1. TargetsStay
    BY <1>5, TargetsStayIfRests
    DEF TickEnds, StopInv, JobThread, JobPcs, Threads, ThreadPcs, RetPcs
  <2>2. RunStays
    BY <1>5 DEF TickEnds, RunStays, StopInv, RunThread, Threads, ThreadType
  <2>3. LoopGoesOn
    BY <1>5, LoopGoesOnIfKept DEF TickEnds
  <2>4. UNCHANGED <<tun, tunnels>>
    BY <1>5 DEF TickEnds
  <2> QED
    BY <2>1, <2>2, <2>3, <2>4, StopStays
<1> QED BY <1>1, <1>2, <1>3, <1>4, <1>5 DEF TickerSteps

\* Browser connections.
LEMMA PageStepsKeepStop ==
  ASSUME TypeInv, StopInv, NEW p \in Pages, PageSteps(p)
  PROVE  StopInv'
<1> USE DEF TypeInv, TypeOK, acctVars, secrVars, codeVars, lifeVars, flagVars, wishVars, pageVars
<1>1. CASE PageOpens(p)
  <2>1. TargetsStay /\ RunStays
    BY <1>1, ThreadsStay DEF PageOpens, StopInv, PageUnchanged
  <2>2. LoopGoesOn
    BY <1>1, LoopGoesOnIfKept, LoopGoesOnIfEnsured DEF PageOpens, AcquirePass
  <2>3. UNCHANGED <<tun, tunnels>>
    BY <1>1 DEF PageOpens, PageUnchanged
  <2> QED
    BY <2>1, <2>2, <2>3, StopStays
<1>2. CASE PageLooksAgain(p)
  <2>1. TargetsStay /\ RunStays
    BY <1>2, ThreadsStay DEF PageLooksAgain, StopInv, PageUnchanged
  <2>2. LoopGoesOn
    BY <1>2, LoopGoesOnIfKept, LoopGoesOnIfEnsured DEF PageLooksAgain, AcquirePass
  <2>3. UNCHANGED <<tun, tunnels>>
    BY <1>2 DEF PageLooksAgain, PageUnchanged
  <2> QED
    BY <2>1, <2>2, <2>3, StopStays
<1>3. CASE PageEnds(p)
  <2>1. TargetsStay /\ RunStays
    BY <1>3, ThreadsStay DEF PageEnds, StopInv, PageUnchanged
  <2>2. LoopGoesOn
    BY <1>3, LoopGoesOnIfKept DEF PageEnds, PageUnchanged
  <2>3. UNCHANGED <<tun, tunnels>>
    BY <1>3 DEF PageEnds, PageUnchanged
  <2> QED
    BY <2>1, <2>2, <2>3, StopStays
<1>4. CASE Traffic(p)
  <2>1. TargetsStay /\ RunStays
    BY <1>4, ThreadsStay DEF Traffic, StopInv, PageUnchanged
  <2>2. LoopGoesOn
    BY <1>4, LoopGoesOnIfKept DEF Traffic, PageUnchanged
  <2>3. UNCHANGED <<tun, tunnels>>
    BY <1>4 DEF Traffic, PageUnchanged
  <2> QED
    BY <2>1, <2>2, <2>3, StopStays
<1> QED BY <1>1, <1>2, <1>3, <1>4 DEF PageSteps

\* Time that passes.
LEMMA TimeKeepsStop ==
  ASSUME TypeInv, StopInv, DemandEnds \/ IdleElapses \/ WindowEnds
  PROVE  StopInv'
<1> USE DEF TypeInv, TypeOK, acctVars, secrVars, codeVars, lifeVars, flagVars, wishVars, pageVars
<1>1. CASE DemandEnds
  <2>1. TargetsStay /\ RunStays
    BY <1>1, ThreadsStay DEF DemandEnds, StopInv, PageUnchanged
  <2>2. LoopGoesOn
    BY <1>1, LoopGoesOnIfKept DEF DemandEnds, PageUnchanged
  <2>3. UNCHANGED <<tun, tunnels>>
    BY <1>1 DEF DemandEnds, PageUnchanged
  <2> QED
    BY <2>1, <2>2, <2>3, StopStays
<1>2. CASE IdleElapses
  <2>1. TargetsStay /\ RunStays
    BY <1>2, ThreadsStay DEF IdleElapses, StopInv, PageUnchanged
  <2>2. LoopGoesOn
    BY <1>2, LoopGoesOnIfKept DEF IdleElapses, PageUnchanged
  <2>3. UNCHANGED <<tun, tunnels>>
    BY <1>2 DEF IdleElapses, PageUnchanged
  <2> QED
    BY <2>1, <2>2, <2>3, StopStays
<1>3. CASE WindowEnds
  <2>1. TargetsStay /\ RunStays
    BY <1>3, ThreadsStay DEF WindowEnds, StopInv
  <2>2. LoopGoesOn
    BY <1>3, LoopGoesOnIfKept DEF WindowEnds
  <2>3. UNCHANGED <<tun, tunnels>>
    BY <1>3 DEF WindowEnds
  <2> QED
    BY <2>1, <2>2, <2>3, StopStays
<1> QED BY <1>1, <1>2, <1>3

\* Steps of the loop and of a process.

\* The loop goes on while d.tun and the threads stay as they are.
LoopMoves ==
    /\ UNCHANGED <<tun, tunnels, th, run>>
    /\ loop.pc \notin {"off", "start", "changedStopped", "slowStopped"}
    /\ loop'.pc \in TunnelPcs \/ tun = 0
    /\ loop'.pc = "off" \/ loop'.cancelled = loop.cancelled

LEMMA LoopMovesKeepsStop ==
  ASSUME TypeInv, StopInv, LoopMoves
  PROVE  StopInv'
<1> USE DEF TypeInv, TypeOK, LoopMoves
<1>1. ThreadTargets' /\ JobThread'
  BY DEF StopInv, ThreadTargets, JobThread
<1>2. LoopHasNone' /\ OffHasNone' /\ NewIsStarting'
  BY DEF StopInv, LoopHasNone, OffHasNone, NewIsStarting, TunnelPcs
<1>3. \A i \in Ids : BeingStopped(i)' <=> BeingStopped(i)
  BY DEF BeingStopped
<1>4. StopWaited' /\ OneTunnel'
  BY <1>3 DEF StopInv, StopWaited, OneTunnel, Live
<1>5. RunThread' /\ RunCancelled' /\ RunStopped'
  BY DEF StopInv, RunThread, RunCancelled, RunStopped, Live
<1> QED BY <1>1, <1>2, <1>4, <1>5 DEF StopInv

\* Processes change but for the calls of Stop: nothing begins, none that was killed lives on.
TunnelsMove ==
    \A i \in Ids : /\ tunnels'[i].phase # "exited" =>
                          /\ tunnels[i].phase # "exited"
                          /\ tunnels'[i].byUs = tunnels[i].byUs
                          /\ tunnels[i].phase = "killed" => tunnels'[i].phase = "killed"
                   /\ tunnels'[i].phase = "new" => tunnels[i].phase = "new"

LEMMA TunnelsMoveKeepsStop ==
  ASSUME TypeInv, StopInv, TunnelsMove, UNCHANGED <<tun, loop, th, run>>
  PROVE  StopInv'
<1> USE DEF TypeInv, TypeOK
<1>1. ThreadTargets' /\ JobThread' /\ LoopHasNone' /\ OffHasNone'
  BY DEF StopInv, ThreadTargets, JobThread, LoopHasNone, OffHasNone
<1>2. NewIsStarting'
  BY DEF StopInv, NewIsStarting, TunnelsMove
<1>3. \A i \in Ids : Live(i)' /\ BeingStopped(i) => BeingStopped(i)'
  BY DEF BeingStopped, TunnelsMove, Live
<1>4. StopWaited' /\ OneTunnel'
  BY <1>3 DEF StopInv, StopWaited, OneTunnel, Live, TunnelsMove
<1>5. RunThread' /\ RunCancelled' /\ RunStopped'
  BY DEF StopInv, RunThread, RunCancelled, RunStopped, Live, TunnelsMove
<1> QED BY <1>1, <1>2, <1>4, <1>5 DEF StopInv

\* Stop while openconnect was being started: Start kills it in the end.
LEMMA StartEndsKeepsStop ==
  ASSUME TypeInv, StopInv, tun \in Ids, loop.pc = "start", tunnels[tun].phase # "new",
         tunnels' = KilledIfStopped,
         UNCHANGED <<tun, th, run>>, loop'.pc \in {"off", "waitReady"},
         loop'.pc = "off" \/ loop'.cancelled = loop.cancelled, loop'.pc = "off" => loop.cancelled
  PROVE  StopInv'
<1> USE DEF TypeInv, TypeOK
<1>1. \A i \in Ids : /\ Live(i)' <=> Live(i)
                     /\ tunnels'[i].byUs = tunnels[i].byUs
                     /\ tunnels[i].phase = "killed" => tunnels'[i].phase = "killed"
                     /\ tunnels'[i].phase = "new" => tunnels[i].phase = "new"
                     /\ i = tun /\ Live(i) /\ tunnels[i].byUs => tunnels'[i].phase = "killed"
  BY DEF KilledIfStopped, Live, Exited, TunnelType
<1>2. ThreadTargets' /\ JobThread' /\ LoopHasNone' /\ OffHasNone'
  BY DEF StopInv, ThreadTargets, JobThread, LoopHasNone, OffHasNone, TunnelPcs
<1>3. NewIsStarting'
  BY <1>1 DEF StopInv, NewIsStarting
<1>4. \A i \in Ids : BeingStopped(i) => BeingStopped(i)'
  BY <1>1 DEF BeingStopped
<1>5. tunnels[tun].byUs /\ Live(tun) => BeingStopped(tun)'
  BY <1>1 DEF BeingStopped
<1>6. StopWaited' /\ OneTunnel'
  BY <1>1, <1>4, <1>5 DEF StopInv, StopWaited, OneTunnel
<1>7. RunThread' /\ RunCancelled' /\ RunStopped'
  BY <1>1 DEF StopInv, RunThread, RunCancelled, RunStopped
<1> QED BY <1>2, <1>3, <1>6, <1>7 DEF StopInv

\* The loop forgets an attempt that has exited, or that someone else is stopping.
LoopForgets ==
    /\ tun' = 0 /\ tunnels' = Dropped
    /\ UNCHANGED <<th, run>>
    /\ loop.pc \in TunnelPcs \ {"start"} /\ ~loop.cancelled
    /\ Exited(tun) \/ (tunnels[tun].byUs /\ loop.pc \notin {"changedStopped", "slowStopped"})
    /\ loop'.pc = "off" \/ loop'.cancelled = loop.cancelled

LEMMA LoopForgetsKeepsStop ==
  ASSUME TypeInv, StopInv, LoopForgets
  PROVE  StopInv'
<1> USE DEF TypeInv, TypeOK
<1>1. tun \in Ids /\ loop.pc # "off"
  BY AttemptTypes DEF LoopForgets, TunnelPcs
<1>2. \A i \in Ids : /\ Live(i)' <=> Live(i)
                     /\ Live(i) => tunnels'[i] = tunnels[i]
                     /\ tunnels'[i].phase = "new" => tunnels[i].phase = "new"
  BY <1>1, DeadType DEF LoopForgets, Dropped, Live, Exited
<1>3. Live(tun) => tunnels[tun].byUs /\ BeingStopped(tun)
  BY <1>1 DEF LoopForgets, Live, Exited, StopInv, StopWaited
<1>4. \A i \in Ids : Live(i) /\ BeingStopped(i) => BeingStopped(i)'
  BY <1>2 DEF BeingStopped, LoopForgets
<1>5. ThreadTargets' /\ JobThread' /\ LoopHasNone' /\ OffHasNone'
  BY DEF StopInv, ThreadTargets, JobThread, LoopHasNone, OffHasNone, LoopForgets
<1>6. NewIsStarting'
  BY <1>2 DEF StopInv, NewIsStarting, LoopForgets
<1>7. StopWaited' /\ OneTunnel'
  BY <1>1, <1>2, <1>3, <1>4 DEF StopInv, StopWaited, OneTunnel, LoopForgets
<1>8. th["run"].pc = "idle" /\ run # "ended"
  BY <1>1 DEF StopInv, RunCancelled, LoopForgets, EndedIsOff
<1>9. RunThread' /\ RunCancelled' /\ RunStopped'
  BY <1>8 DEF RunThread, RunCancelled, RunStopped, LoopForgets
<1> QED BY <1>5, <1>6, <1>7, <1>9 DEF StopInv

\* The attempt that begins is the only one nobody is stopping.
LEMMA StartKeepsStop ==
  ASSUME TypeInv, StopInv, NEW typed \in BOOLEAN, StartsTunnel(typed),
         loop.pc \in {"passwordRead", "totpRead"}, ~loop.cancelled, UNCHANGED <<th, run>>
  PROVE  StopInv'
<1> USE DEF TypeInv, TypeOK
<1>1. tun = 0
  BY DEF StopInv, LoopHasNone, TunnelPcs
<1> DEFINE new == [Dead EXCEPT !.phase = "new", !.user = cfgUser, !.host = cfgHost,
                               !.owner = loop.owner, !.ver = loop.ver, !.once = typed]
<1>2. PICK i \in Ids :
        /\ tun' = i
        /\ tunnels' = [tunnels EXCEPT ![i] = new]
        /\ loop' = [loop EXCEPT !.pc = "start", !.once = typed]
  BY DEF StartsTunnel, FreeIds
<1>3. new.phase = "new" /\ new.byUs = FALSE
  BY DEF Dead
<1> HIDE DEF new
<1>4. loop'.pc = "start" /\ loop'.cancelled = FALSE
  BY <1>2 DEF LoopType
<1>5. tunnels'[i] = new /\ \A j \in Ids : j # i => tunnels'[j] = tunnels[j]
  BY <1>2
<1>6. th["run"].pc = "idle" /\ run # "ended"
  BY DEF StopInv, RunCancelled, EndedIsOff
<1>7. \A j \in Ids : j # i /\ BeingStopped(j) => BeingStopped(j)'
  BY <1>5 DEF BeingStopped
<1>8. ThreadTargets' /\ JobThread'
  BY DEF StopInv, ThreadTargets, JobThread
<1>9. LoopHasNone' /\ OffHasNone'
  BY <1>4 DEF LoopHasNone, OffHasNone, TunnelPcs
<1>10. NewIsStarting'
  BY <1>1, <1>2, <1>4, <1>5 DEF StopInv, NewIsStarting, Ids
<1>11. StopWaited'
  BY <1>1, <1>3, <1>5, <1>7 DEF StopInv, StopWaited, Live, Ids
<1>12. OneTunnel'
  BY <1>1, <1>2, <1>5, <1>7 DEF StopInv, OneTunnel, Live, Ids
<1>13. RunThread' /\ RunCancelled' /\ RunStopped'
  BY <1>6 DEF RunThread, RunCancelled, RunStopped
<1> QED BY <1>8, <1>9, <1>10, <1>11, <1>12, <1>13 DEF StopInv

\* Start failed: the attempt never had a process.
LEMMA StartFailsKeepsStop ==
  ASSUME TypeInv, StopInv, NEW st, StartFails(st)
  PROVE  StopInv'
<1> USE DEF TypeInv, TypeOK
<1>1. tun \in Ids
  BY AttemptTypes DEF StartFails, TunnelPcs
<1>2. /\ tun' = 0 /\ tunnels' = [tunnels EXCEPT ![tun] = Dead]
      /\ loop' = LoopOff /\ UNCHANGED <<th, run>>
      /\ loop.pc = "start" /\ tunnels[tun].phase = "new"
  BY DEF StartFails, EndsWith, LoopUnchanged
<1>3. loop'.pc = "off"
  BY <1>2, LoopOffType
<1>4. \A j \in Ids : j # tun => tunnels'[j] = tunnels[j]
  BY <1>2
<1>5. tunnels'[tun].phase = "exited"
  BY <1>1, <1>2, DeadType
<1>6. \A j \in Ids : j # tun /\ BeingStopped(j) => BeingStopped(j)'
  BY <1>2, <1>4 DEF BeingStopped
<1>7. ThreadTargets' /\ JobThread' /\ LoopHasNone' /\ OffHasNone'
  BY <1>2, <1>3 DEF StopInv, ThreadTargets, JobThread, LoopHasNone, OffHasNone
<1>8. NewIsStarting'
  BY <1>4, <1>5 DEF StopInv, NewIsStarting
<1>9. \A j \in Ids : Live(j)' => j # tun /\ Live(j) /\ tunnels'[j] = tunnels[j]
  BY <1>4, <1>5 DEF Live
<1>10. StopWaited' /\ OneTunnel'
  BY <1>6, <1>9 DEF StopInv, StopWaited, OneTunnel
<1>11. RunThread' /\ RunCancelled' /\ RunStopped'
  BY <1>2, <1>3 DEF StopInv, RunThread, RunCancelled, RunStopped
<1> QED BY <1>7, <1>8, <1>10, <1>11 DEF StopInv

\* The loop's own call of Stop.
LEMMA LoopStopsKeepsStop ==
  ASSUME TypeInv, StopInv, LoopStops
  PROVE  StopInv'
<1> USE DEF TypeInv, TypeOK
<1>1. tun \in Ids
  BY AttemptTypes DEF LoopStops, TunnelPcs
<1>2. /\ tunnels' = MarkStopping(tun) /\ UNCHANGED <<tun, th, run>>
      /\ loop.pc \in {"stopChanged", "stopSlow"}
      /\ loop'.pc \in {"changedStopped", "slowStopped"} /\ loop'.cancelled = loop.cancelled
  BY DEF LoopStops, LoopUnchanged, Goes, LoopType
<1>3. \A i \in Ids : /\ tunnels'[i].phase = tunnels[i].phase
                     /\ tunnels[i].byUs => tunnels'[i].byUs
                     /\ i = tun /\ Live(i) => tunnels'[i].byUs
                     /\ i # tun => tunnels'[i].byUs = tunnels[i].byUs
  BY <1>2, Marked
<1>4. \A i \in Ids : BeingStopped(i)' <=> BeingStopped(i)
  BY <1>2, <1>3 DEF BeingStopped
<1>5. ThreadTargets' /\ JobThread' /\ LoopHasNone' /\ OffHasNone' /\ NewIsStarting'
  BY <1>2, <1>3
  DEF StopInv, ThreadTargets, JobThread, LoopHasNone, OffHasNone, NewIsStarting, TunnelPcs
<1>6. StopWaited' /\ OneTunnel'
  BY <1>2, <1>3, <1>4 DEF StopInv, StopWaited, OneTunnel, Live
<1>7. RunThread' /\ RunCancelled' /\ RunStopped'
  BY <1>1, <1>2, <1>3 DEF StopInv, RunThread, RunCancelled, RunStopped, Live
<1> QED BY <1>5, <1>6, <1>7 DEF StopInv

\* Where the head of the loop and a verdict lead.
LEMMA LoopHeadGoes ==
  ASSUME TypeOK, NEW st, NEW pg, LoopHead(st, pg)
  PROVE  loop'.pc \in {"off", "cisco"} /\ (loop'.pc = "off" \/ loop'.cancelled = loop.cancelled)
<1>1. loop' = LoopOff \/ loop' = [LoopOff EXCEPT !.pc = "cisco", !.cancelled = loop.cancelled]
  BY DEF LoopHead
<1> QED BY <1>1, LoopOffType DEF LoopType

LEMMA EndsWithGoes == ASSUME NEW st, NEW by, EndsWith(st, by) PROVE loop'.pc = "off"
  BY LoopOffType DEF EndsWith

\* The calls of Run's thread.
LEMMA RunCalls ==
  ASSUME TypeOK
  PROVE  /\ Calls("run", "stop", tun, "runWait").pc = "stop"
         /\ Calls("run", "stop", tun, "runWait").tgt = tun
         /\ Calls("run", "stop", tun, "runWait").ret = "runWait"
         /\ Calls("run", "runWait", 0, "idle").pc = "runWait"
<1>1. th["run"] \in ThreadType
  BY DEF TypeOK, Threads
<1> QED BY <1>1 DEF Calls, ThreadType

\* openconnect.
LEMMA TunnelKeepsStop ==
  ASSUME TypeInv, StopInv, NEW i \in Ids, TunnelSpawns \/ TunnelSendsCode(i) \/
         TunnelOpensPort(i) \/ TunnelExits(i)
  PROVE  StopInv'
<1> USE DEF TypeInv, TypeOK, acctVars, secrVars, codeVars, lifeVars, flagVars, wishVars, pageVars
<1>1. CASE TunnelSpawns
  <2>1. TunnelsMove
    BY <1>1 DEF TunnelSpawns, TunnelsMove, TunnelType
  <2>2. UNCHANGED <<tun, loop, th, run>>
    BY <1>1 DEF TunnelSpawns, TunnelUnchanged
  <2> QED
    BY <2>1, <2>2, TunnelsMoveKeepsStop
<1>2. CASE TunnelSendsCode(i)
  <2>1. TunnelsMove
    BY <1>2 DEF TunnelSendsCode, TunnelsMove, TunnelType
  <2>2. UNCHANGED <<tun, loop, th, run>>
    BY <1>2 DEF TunnelSendsCode, TunnelUnchanged
  <2> QED
    BY <2>1, <2>2, TunnelsMoveKeepsStop
<1>3. CASE TunnelOpensPort(i)
  <2>1. TunnelsMove
    BY <1>3 DEF TunnelOpensPort, TunnelsMove, TunnelType
  <2>2. UNCHANGED <<tun, loop, th, run>>
    BY <1>3 DEF TunnelOpensPort, TunnelUnchanged
  <2> QED
    BY <2>1, <2>2, TunnelsMoveKeepsStop
<1>4. CASE TunnelExits(i)
  <2>1. TunnelsMove
    BY <1>4, DeadType DEF TunnelExits, TunnelsMove, TunnelType
  <2>2. UNCHANGED <<tun, loop, th, run>>
    BY <1>4 DEF TunnelExits, TunnelUnchanged
  <2> QED
    BY <2>1, <2>2, TunnelsMoveKeepsStop
<1> QED BY <1>1, <1>2, <1>3, <1>4

\* The end of the program, and the next one.
LEMMA RunStepsKeepStop ==
  ASSUME TypeInv, StopInv, Stop \/ RunCancels \/ RunEnds \/ Restart
  PROVE  StopInv'
<1> USE DEF TypeInv, TypeOK, acctVars, secrVars, codeVars, lifeVars, flagVars, wishVars, pageVars
<1>1. CASE Stop
  <2>1. ThreadTargets' /\ JobThread' /\ LoopHasNone' /\ OffHasNone' /\ NewIsStarting'
    BY <1>1 DEF Stop, StopInv, ThreadTargets, JobThread, LoopHasNone, OffHasNone, NewIsStarting
  <2>2. \A i \in Ids : BeingStopped(i)' <=> BeingStopped(i)
    BY <1>1 DEF Stop, BeingStopped
  <2>3. StopWaited' /\ OneTunnel'
    BY <1>1, <2>2 DEF Stop, StopInv, StopWaited, OneTunnel, Live
  <2>4. RunThread' /\ RunCancelled' /\ RunStopped'
    BY <1>1 DEF Stop, StopInv, RunThread, RunCancelled, RunStopped, Live
  <2> QED
    BY <2>1, <2>3, <2>4 DEF StopInv
<1>2. CASE RunCancels
  <2>1. TargetsStay
    BY <1>2, TargetsStayIfCalls DEF RunCancels, StopInv, Threads, ThreadPcs, RetPcs
  <2>2. loop'.pc = loop.pc /\ (loop'.pc = "off" \/ loop'.cancelled = TRUE) /\ UNCHANGED <<tun,
        tunnels, run>> /\ run = "stopping"
    BY <1>2 DEF RunCancels, LoopType
  <2>3. \A i \in Ids : Live(i) /\ BeingStopped(i) => BeingStopped(i)'
    BY SMTT(30), <1>2, <2>1, <2>2 DEF RunCancels, BeingStopped, TargetsStay, Live, Exited, Ids
  <2>4. StopWaited' /\ OneTunnel'
    BY SMTT(30), <1>2, <2>2, <2>3 DEF RunCancels, StopInv, StopWaited, OneTunnel, Live
  <2>5. ThreadTargets' /\ JobThread' /\ LoopHasNone' /\ OffHasNone' /\ NewIsStarting'
    BY <1>2, <2>1, <2>2
    DEF RunCancels, StopInv, TargetsStay, ThreadTargets, JobThread, LoopHasNone, OffHasNone,
        NewIsStarting, Threads
  <2>6. (tun # 0 => th'["run"] = Calls("run", "stop", tun, "runWait")) /\ (tun = 0 =>
        th'["run"] = Calls("run", "runWait", 0, "idle"))
    BY <1>2 DEF RunCancels, Threads
  <2>7. tun # 0 => th'["run"].pc = "stop" /\ th'["run"].tgt = tun /\ th'["run"].ret = "runWait"
    BY <1>2, <2>6, RunCalls DEF RunCancels
  <2>8. tun = 0 => th'["run"].pc = "runWait"
    BY <1>2, <2>6, RunCalls DEF RunCancels
  <2>9. RunThread' /\ RunCancelled' /\ RunStopped'
    BY <1>2, <2>2, <2>7, <2>8 DEF RunCancels, RunThread, RunCancelled, RunStopped
  <2> QED
    BY <2>4, <2>5, <2>9 DEF StopInv
<1>3. CASE RunEnds
  <2>1. TargetsStay
    BY <1>3, TargetsStayIfRests DEF RunEnds, StopInv, Threads
  <2>2. LoopGoesOn /\ UNCHANGED <<tun, tunnels, loop>> /\ run' = "ended"
    BY <1>3, LoopGoesOnIfKept DEF RunEnds
  <2>3. StopWaited' /\ OneTunnel'
    BY <1>3, <2>1, <2>2, WaitedStays DEF RunEnds
  <2>4. ThreadTargets' /\ JobThread' /\ LoopHasNone' /\ OffHasNone' /\ NewIsStarting'
    BY <1>3, <2>1, <2>2
    DEF RunEnds, StopInv, TargetsStay, ThreadTargets, JobThread, LoopHasNone, OffHasNone,
        NewIsStarting, Threads
  <2>5. RunThread' /\ RunCancelled' /\ RunStopped'
    BY <1>3, <2>2, IdleType
    DEF RunEnds, StopInv, RunThread, RunCancelled, RunStopped, Threads, Live
  <2> QED
    BY <2>3, <2>4, <2>5 DEF StopInv
<1>4. CASE Restart
  <2>1. loop.pc = "off" /\ tun' = 0 /\ run' = "up" /\ UNCHANGED <<tunnels, loop, th>>
    BY <1>4 DEF Restart, EndedIsOff
  <2>2. \A i \in Ids : BeingStopped(i)' <=> BeingStopped(i)
    BY <1>4, <2>1 DEF Restart, BeingStopped
  <2>3. \A i \in Ids : Live(i) => tunnels[i].byUs
    BY <1>4, <2>1 DEF Restart, StopInv, OneTunnel, RunStopped, Ids
  <2>4. StopWaited' /\ OneTunnel'
    BY <1>4, <2>1, <2>2, <2>3 DEF Restart, StopInv, StopWaited, OneTunnel, Live
  <2>5. ThreadTargets' /\ JobThread' /\ LoopHasNone' /\ OffHasNone' /\ NewIsStarting'
    BY <1>4, <2>1
    DEF Restart, StopInv, ThreadTargets, JobThread, LoopHasNone, OffHasNone, NewIsStarting
  <2>6. RunThread' /\ RunCancelled' /\ RunStopped'
    BY <1>4, <2>1 DEF Restart, RunThread, RunCancelled, RunStopped, Threads
  <2> QED
    BY <2>4, <2>5, <2>6 DEF StopInv
<1> QED BY <1>1, <1>2, <1>3, <1>4

\* The connect loop.
LEMMA LoopStepsKeepStop ==
  ASSUME TypeInv, StopInv, LoopSteps
  PROVE  StopInv'
<1> USE DEF TypeInv, TypeOK, acctVars, secrVars, codeVars, lifeVars, flagVars, wishVars, pageVars
<1>1. CASE LoopBegins
  <2>1. LoopMoves
    BY <1>1, LoopHeadGoes
    DEF LoopBegins, LoopMoves, LoopUnchanged, StopInv, LoopHasNone, TunnelPcs, LoopType
  <2>2. StopInv'
    BY <1>1, <2>1, LoopMovesKeepsStop DEF LoopBegins
  <2> QED
    BY <2>2
<1>2. CASE LoopWakes
  <2>1. LoopMoves
    BY <1>2, LoopHeadGoes
    DEF LoopWakes, LoopMoves, LoopUnchanged, StopInv, LoopHasNone, TunnelPcs, LoopType
  <2>2. StopInv'
    BY <1>2, <2>1, LoopMovesKeepsStop DEF LoopWakes
  <2> QED
    BY <2>2
<1>3. ASSUME NEW cisco \in CiscoAnswers, LoopCisco(cisco) PROVE StopInv'
  <2>1. LoopMoves
    BY <1>3
    DEF LoopCisco, LoopMoves, LoopUnchanged, StopInv, LoopHasNone, TunnelPcs, LoopType, Goes
  <2>2. StopInv'
    BY <1>3, <2>1, LoopMovesKeepsStop DEF LoopCisco
  <2> QED
    BY <2>2
<1>4. ASSUME NEW online \in BOOLEAN, LoopProbe(online) PROVE StopInv'
  <2>1. LoopMoves
    BY <1>4
    DEF LoopProbe, LoopMoves, LoopUnchanged, StopInv, LoopHasNone, TunnelPcs, LoopType, Goes
  <2>2. StopInv'
    BY <1>4, <2>1, LoopMovesKeepsStop DEF LoopProbe
  <2> QED
    BY <2>2
<1>5. ASSUME NEW result \in Reads, PasswordIsRead(result) PROVE StopInv'
  <2>1. LoopMoves
    BY <1>5
    DEF PasswordIsRead, LoopMoves, LoopUnchanged, StopInv, LoopHasNone, TunnelPcs, LoopType
  <2>2. StopInv'
    BY <1>5, <2>1, LoopMovesKeepsStop DEF PasswordIsRead
  <2> QED
    BY <2>2
<1>6. ASSUME NEW result \in Reads, TOTPIsRead(result) PROVE StopInv'
  <2>1. LoopMoves
    BY <1>6 DEF TOTPIsRead, LoopMoves, LoopUnchanged, StopInv, LoopHasNone, TunnelPcs, LoopType
  <2>2. StopInv'
    BY <1>6, <2>1, LoopMovesKeepsStop DEF TOTPIsRead
  <2> QED
    BY <2>2
<1>7. CASE ReadWhileChanging
  <2>1. LoopMoves
    BY <1>7, LoopHeadGoes
    DEF ReadWhileChanging, LoopMoves, LoopUnchanged, StopInv, LoopHasNone, TunnelPcs, LoopType,
        Goes
  <2>2. StopInv'
    BY <1>7, <2>1, LoopMovesKeepsStop DEF ReadWhileChanging
  <2> QED
    BY <2>2
<1>8. CASE ReadFailed
  <2>1. LoopMoves
    BY <1>8, EndsWithGoes
    DEF ReadFailed, LoopMoves, LoopUnchanged, StopInv, LoopHasNone, TunnelPcs, LoopType
  <2>2. StopInv'
    BY <1>8, <2>1, LoopMovesKeepsStop DEF ReadFailed
  <2> QED
    BY <2>2
<1>9. CASE PasswordThere
  <2>1. (Goes("totp") /\ UNCHANGED <<tun, tunnels>>) \/
        (\E typed \in BOOLEAN : StartsTunnel(typed))
    BY <1>9 DEF PasswordThere, NeedsTOTP
  <2>2. ASSUME NEW typed \in BOOLEAN, StartsTunnel(typed) PROVE StopInv'
    BY <1>9, <2>2, StartKeepsStop DEF PasswordThere, LoopUnchanged
  <2>3. ASSUME Goes("totp"), UNCHANGED <<tun, tunnels>> PROVE LoopMoves
    BY <1>9, <2>3
    DEF PasswordThere, LoopMoves, LoopUnchanged, Goes, StopInv, LoopHasNone, TunnelPcs, LoopType
  <2>4. StopInv'
    BY <1>9, <2>1, <2>2, <2>3, LoopMovesKeepsStop DEF PasswordThere
  <2> QED
    BY <2>4
<1>10. CASE TOTPThere
  <2>1. StopInv'
    BY <1>10, StartKeepsStop DEF TOTPThere, LoopUnchanged
  <2> QED
    BY <2>1
<1>11. ASSUME NEW st \in StartErrors, StartFails(st) PROVE StopInv'
  <2>1. StopInv'
    BY <1>11, StartFailsKeepsStop DEF StartFails
  <2> QED
    BY <2>1
<1>12. CASE StartReturns
  <2>1. tun \in Ids
    BY <1>12, AttemptTypes DEF StartReturns, TunnelPcs
  <2>2. StopInv'
    BY <1>12, <2>1, StartEndsKeepsStop DEF StartReturns, LoopUnchanged, LoopType
  <2> QED
    BY <2>2
<1>13. ASSUME NEW ready \in BOOLEAN, WaitReadyEnds(ready) PROVE StopInv'
  <2>1. LoopMoves
    BY <1>13
    DEF WaitReadyEnds, LoopMoves, LoopUnchanged, StopInv, LoopHasNone, TunnelPcs, LoopType
  <2>2. StopInv'
    BY <1>13, <2>1, LoopMovesKeepsStop DEF WaitReadyEnds
  <2> QED
    BY <2>2
<1>14. CASE JudgeGoingAway
  <2>1. LoopMoves
    BY <1>14
    DEF JudgeGoingAway, LoopMoves, LoopUnchanged, StopInv, LoopHasNone, TunnelPcs, LoopType,
        Goes
  <2>2. StopInv'
    BY <1>14, <2>1, LoopMovesKeepsStop DEF JudgeGoingAway
  <2> QED
    BY <2>2
<1>15. CASE JudgeConnected
  <2>1. LoopMoves
    BY <1>15
    DEF JudgeConnected, LoopMoves, LoopUnchanged, StopInv, LoopHasNone, TunnelPcs, LoopType,
        Goes
  <2>2. StopInv'
    BY <1>15, <2>1, LoopMovesKeepsStop DEF JudgeConnected
  <2> QED
    BY <2>2
<1>16. CASE JudgeStale
  <2>1. LoopMoves
    BY <1>16
    DEF JudgeStale, LoopMoves, LoopUnchanged, StopInv, LoopHasNone, TunnelPcs, LoopType, Goes,
        NotReady
  <2>2. StopInv'
    BY <1>16, <2>1, LoopMovesKeepsStop DEF JudgeStale
  <2> QED
    BY <2>2
<1>17. CASE DropStale
  <2>1. LoopForgets
    BY <1>17, LoopHeadGoes
    DEF DropStale, LoopForgets, LoopUnchanged, TunnelPcs, LoopType, NotReady
  <2>2. StopInv'
    BY <1>17, <2>1, LoopForgetsKeepsStop DEF DropStale
  <2> QED
    BY <2>2
<1>18. CASE LoopStops
  <2>1. StopInv'
    BY <1>18, LoopStopsKeepsStop DEF LoopStops
  <2> QED
    BY <2>1
<1>19. CASE JudgeStopped
  <2>1. LoopForgets
    BY <1>19, LoopHeadGoes
    DEF JudgeStopped, LoopForgets, LoopUnchanged, TunnelPcs, LoopType, NotReady
  <2>2. StopInv'
    BY <1>19, <2>1, LoopForgetsKeepsStop DEF JudgeStopped
  <2> QED
    BY <2>2
<1>20. CASE JudgeSlow
  <2>1. LoopMoves
    BY <1>20
    DEF JudgeSlow, LoopMoves, LoopUnchanged, StopInv, LoopHasNone, TunnelPcs, LoopType, Goes,
        NotReady
  <2>2. StopInv'
    BY <1>20, <2>1, LoopMovesKeepsStop DEF JudgeSlow
  <2> QED
    BY <2>2
<1>21. CASE JudgeError
  <2>1. LoopForgets
    BY <1>21
    DEF JudgeError, LoopForgets, LoopUnchanged, TunnelPcs, LoopType, NotReady, Goes, LoopOff
  <2>2. StopInv'
    BY <1>21, <2>1, LoopForgetsKeepsStop DEF JudgeError
  <2> QED
    BY <2>2
<1>22. ASSUME NEW message \in Rejections, JudgeRejected(message) PROVE StopInv'
  <2>1. LoopForgets
    BY <1>22, LoopHeadGoes, EndsWithGoes
    DEF JudgeRejected, LoopForgets, LoopUnchanged, TunnelPcs, LoopType, NotReady
  <2>2. StopInv'
    BY <1>22, <2>1, LoopForgetsKeepsStop DEF JudgeRejected
  <2> QED
    BY <2>2
<1>23. CASE TunnelWasUp
  <2>1. LoopForgets
    BY <1>23 DEF TunnelWasUp, LoopForgets, LoopUnchanged, TunnelPcs, LoopType
  <2>2. StopInv'
    BY <1>23, <2>1, LoopForgetsKeepsStop DEF TunnelWasUp
  <2> QED
    BY <2>2
<1>24. CASE LoopClosesAll
  <2>1. LoopMoves
    BY <1>24
    DEF LoopClosesAll, LoopMoves, LoopUnchanged, StopInv, LoopHasNone, TunnelPcs, LoopType, Goes
  <2>2. StopInv'
    BY <1>24, <2>1, LoopMovesKeepsStop DEF LoopClosesAll
  <2> QED
    BY <2>2
<1>25. CASE AfterUp
  <2>1. LoopMoves
    BY <1>25, LoopHeadGoes
    DEF AfterUp, LoopMoves, LoopUnchanged, StopInv, LoopHasNone, TunnelPcs, LoopType, Goes,
        LoopOff
  <2>2. StopInv'
    BY <1>25, <2>1, LoopMovesKeepsStop DEF AfterUp
  <2> QED
    BY <2>2
<1>26. CASE LoopCancelled
  <2>1. loop'.pc = "off" /\ loop.cancelled /\ UNCHANGED <<tun, th, run>>
    BY <1>26, LoopOffType DEF LoopCancelled, LoopUnchanged
  <2>2. CASE loop.pc = "start"
    BY <1>26, <2>1, <2>2, AttemptTypes, StartEndsKeepsStop
    DEF LoopCancelled, BackFromCall, TunnelPcs
  <2>3. ASSUME loop.pc # "start" PROVE tunnels' = tunnels /\ loop.pc # "off"
    BY <1>26, <2>3 DEF LoopCancelled, BackFromCall
  <2>4. ASSUME loop.pc # "start" PROVE ThreadTargets' /\ JobThread' /\ LoopHasNone' /\
        OffHasNone' /\ NewIsStarting'
    BY <1>26, <2>1, <2>3, <2>4
    DEF LoopCancelled, StopInv, ThreadTargets, JobThread, LoopHasNone, OffHasNone, NewIsStarting
  <2>5. ASSUME loop.pc # "start" PROVE \A i \in Ids : BeingStopped(i)' <=> BeingStopped(i)
    BY <1>26, <2>1, <2>3, <2>5 DEF LoopCancelled, BeingStopped
  <2>6. ASSUME loop.pc # "start" PROVE StopWaited' /\ OneTunnel'
    BY <1>26, <2>1, <2>3, <2>5, <2>6
    DEF LoopCancelled, StopInv, StopWaited, OneTunnel, Live, Exited, BackFromCall
  <2>7. ASSUME loop.pc # "start" PROVE RunThread' /\ RunCancelled' /\ RunStopped'
    BY <1>26, <2>1, <2>3, <2>7
    DEF LoopCancelled, StopInv, RunThread, RunCancelled, RunStopped, Live
  <2> QED
    BY <2>2, <2>4, <2>6, <2>7 DEF StopInv
<1> QED BY <1>1, <1>2, <1>3, <1>4, <1>5, <1>6, <1>7, <1>8, <1>9, <1>10, <1>11, <1>12, <1>13,
      <1>14, <1>15, <1>16, <1>17, <1>18, <1>19, <1>20, <1>21, <1>22, <1>23, <1>24, <1>25,
      <1>26 DEF LoopSteps

LEMMA StopInit == Init => StopInv
  BY
  DEF Init, StopInv, ThreadTargets, JobThread, JobPcs, LoopHasNone, OffHasNone, NewIsStarting,
      StopWaited, OneTunnel,
         RunThread, RunCancelled, RunStopped, LoopOff, Live, Dead, IdleThread, Threads

LEMMA StopStep == TypeInv /\ StopInv /\ [Next]_vars => StopInv'
<1> SUFFICES ASSUME TypeInv, StopInv, [Next]_vars PROVE StopInv'
  OBVIOUS
<1>1. CASE UNCHANGED vars
  <2>1. TargetsStay /\ RunStays
    BY <1>1, ThreadsStay DEF vars, lifeVars, TypeInv, StopInv
  <2> QED BY <1>1, <2>1, LoopGoesOnIfKept, StopStays DEF vars
<1>2. CASE Next
  <2>1. CASE RequestConnect
    BY <2>1, SecretsStepsKeepStop DEF Threads
  <2>2. CASE Disconnect
    BY <2>2, RequestDisconnectKeepsStop DEF Disconnect, Threads, RetPcs
  <2>3. ASSUME NEW t \in Threads, DisconnectSteps(t) \/ SecretsSteps(t) PROVE StopInv'
    BY <2>3, DisconnectStepsKeepStop, SecretsStepsKeepStop
  <2>4. ASSUME NEW a \in Accounts, SetupBegins(a) \/ SetupSteps PROVE StopInv'
    BY <2>4, SetupStepsKeepStop
  <2>5. Accounts # {}
    BY DEF TypeInv, TypeOK
  <2>6. CASE SetPassword \/ SetTOTP \/ NoteCodeShown \/ TypeCode \/ CancelCode \/ JobWaits \/
        JobEnds
    BY <2>6, EditStepsKeepStop
  <2>7. CASE TickChecksCisco \/ TickResumes \/ TickStopsIdle \/ TickerSteps
    BY <2>7, TickerStepsKeepStop
  <2>8. ASSUME NEW p \in Pages, PageSteps(p) PROVE StopInv'
    BY <2>8, PageStepsKeepStop
  <2>9. CASE DemandEnds \/ IdleElapses \/ WindowEnds
    BY <2>9, TimeKeepsStop
  <2>10. CASE LoopSteps
    BY <2>10, LoopStepsKeepStop
  <2>11. CASE TunnelSpawns
    <3>1. 1 \in Ids
      BY DaemonAssumption DEF Ids
    <3> QED BY <2>11, <3>1, TunnelKeepsStop
  <2>12. ASSUME NEW i \in Ids, TunnelSendsCode(i) \/ TunnelOpensPort(i) \/ TunnelExits(i)
         PROVE  StopInv'
    BY <2>12, TunnelKeepsStop
  <2>13. CASE Stop \/ RunCancels \/ RunEnds \/ Restart
    BY <2>13, RunStepsKeepStop
  <2> QED
    BY <1>2, <2>1, <2>2, <2>3, <2>4, <2>5, <2>6, <2>7, <2>8, <2>9, <2>10, <2>11, <2>12, <2>13
    DEF Next
<1> QED BY <1>1, <1>2

\* Every attempt is d.tun's or is being stopped, and the thread of Run stops what the loop leaves.
THEOREM StopInvariant == Spec => []StopInv
  BY TypesInvariant, StopInit, StopStep, PTL DEF Spec

\* The daemon never forgets a process that may carry traffic: whatever a Disconnect, a slow
\* gateway, new secrets and the end of the program do to d.tun, every other openconnect was told
\* to stop and was killed or has a thread waiting for its exit.
THEOREM OneTunnelAlways == Spec => []OneTunnel
<1>1. StopInv => OneTunnel
  BY DEF StopInv
<1> QED BY <1>1, StopInvariant, PTL

\* When Run has ended, no loop runs and every process left is being stopped: the next core finds
\* no tunnel, wherever the loop was when the program was told to stop.
THEOREM EndsCleanAlways == Spec => []EndsClean
<1>1. TypeInv /\ StopInv => EndsClean
  <2> SUFFICES ASSUME TypeInv, StopInv, run = "ended" PROVE loop.pc = "off" /\
        \A i \in Ids : Live(i) => BeingStopped(i)
    BY DEF EndsClean, BeingStopped
  <2>1. loop.pc = "off"
    BY DEF TypeInv, EndedIsOff
  <2>2. ASSUME NEW i \in Ids, Live(i) PROVE BeingStopped(i)
    <3>1. i # tun => BeingStopped(i)
      BY <2>2 DEF StopInv, OneTunnel
    <3>2. i = tun => tunnels[i].byUs
      BY <2>2 DEF StopInv, RunStopped, Ids
    <3> QED BY <2>1, <2>2, <3>1, <3>2 DEF StopInv, StopWaited
  <2> QED BY <2>1, <2>2
<1> QED BY <1>1, TypesInvariant, StopInvariant, PTL


-----------------------------------------------------------------------------
\* A Disconnect holds.

\* Only one kind of withdrawal can happen: the user's Disconnect, a setup's, or the end of an
\* idle tunnel.  Two of them can be under way next to each other, and then one that began without
\* a tunnel writes "idle" over the other one's "disconnecting".
OneWithdraws == \A e, f \in Events \cap {"disconnect", "setup", "idle"} : e = f

\* A thread that disconnects without a tunnel is at one of these.
IdlePath == {"waitDone", "closeIdle", "toIdle"}
OnIdlePath(t) == th[t].pc \in IdlePath
Withdrawers ==
    /\ \A t \in Threads : OnIdlePath(t) => t \in {"user", "setup"}
    /\ OnIdlePath("user") => "disconnect" \in Events
    /\ OnIdlePath("setup") \/ th["setup"].pc = "teardown" => "setup" \in Events
    /\ idle => "idle" \in Events

\* The loop starts no tunnel any more, and no loop begins.
Resting == loop.pc = "off" \/ loop.cancelled
Over == run # "up" /\ Resting

\* A page goes through the tunnel only while the loop looks after it.
PagesFollow ==
    /\ run = "ended" => \A p \in Pages : page[p] = "none"
    /\ \A p \in Pages : page[p] = "tunnelled" => loop.pc \in {"up", "closing"} \/ Over
    /\ state = "connected" /\ tun # 0 => loop.pc = "up" \/ Over

NoneAsks == ~explicit /\ \A p \in Pages : page[p] \notin {"waiting", "notified"}

\* What is under way comes to its end without a new tunnel: one that is being started or ended
\* shows "disconnecting", so it is not taken for connected, and its last bytes do not count.
Ends ==
    /\ ~demand
    /\ loop.pc \in TunnelPcs \cup {"closing", "closed", "sleep"}
    /\ loop.pc \in TunnelPcs \cup {"closing"} => state = "disconnecting"
    /\ \A t \in Threads : ~OnIdlePath(t)
NothingStarts == Resting \/ Ends

WishInv ==
    /\ Withdrawers /\ PagesFollow
    /\ ~wanted => NoneAsks /\ NothingStarts

\* Steps of the threads: nobody sets out to disconnect.
PathStays ==
    \A t \in Threads : /\ OnIdlePath(t)' => OnIdlePath(t)
                       /\ th'[t].pc = "teardown" => th[t].pc = "teardown"
\* Pages are told, closed or left alone.
PagesFall ==
    \A p \in Pages : \/ page'[p] \in {"none", page[p]}
                     \/ page[p] = "waiting" /\ page'[p] = "notified"
\* What is shown stays, or it was not about a tunnel that goes.
ShownStays ==
    /\ state' = "connected" => state = "connected"
    /\ state = "disconnecting" => state' = "disconnecting"
WishStays ==
    /\ wanted' = wanted /\ (explicit' => explicit) /\ (demand' => demand) /\ (idle' => idle)

LEMMA PathIfBecomes ==
  ASSUME TypeOK, NEW t \in Threads, NEW r, th' = [th EXCEPT ![t] = r],
         r.pc \in IdlePath => OnIdlePath(t), r.pc = "teardown" => th[t].pc = "teardown"
  PROVE  PathStays
  BY DEF TypeOK, PathStays, OnIdlePath

LEMMA PathIfGoesTo ==
  ASSUME TypeOK, NEW t \in Threads, NEW pc \in ThreadPcs, th' = [th EXCEPT ![t].pc = pc],
         pc \in IdlePath => OnIdlePath(t), pc = "teardown" => th[t].pc = "teardown"
  PROVE  PathStays
<1> DEFINE r == [th[t] EXCEPT !.pc = pc]
<1>1. r.pc = pc /\ th' = [th EXCEPT ![t] = r]
  BY DEF TypeOK, ThreadType
<1> HIDE DEF r
<1> QED BY <1>1, PathIfBecomes

LEMMA PathIfRests ==
  ASSUME TypeOK, NEW t \in Threads, th' = [th EXCEPT ![t] = IdleThread]
  PROVE  PathStays
  BY IdleType, PathIfBecomes DEF IdlePath

LEMMA PathIfReturns ==
  ASSUME TypeOK, NEW t \in Threads, th' = [th EXCEPT ![t] = Returned(t)]
  PROVE  PathStays
<1>1. Returned(t).pc \in RetPcs
  BY ReturnedType DEF TypeOK, ThreadType
<1> HIDE DEF Returned
<1> QED BY <1>1, PathIfBecomes DEF RetPcs, IdlePath

LEMMA PathIfCalls ==
  ASSUME TypeOK, NEW t \in Threads, NEW pc \in {"closeAll", "stop", "runWait"},
         NEW i \in Ids \cup {0}, NEW ret \in RetPcs, th' = [th EXCEPT ![t] = Calls(t, pc, i, ret)]
  PROVE  PathStays
<1>1. Calls(t, pc, i, ret).pc = pc
  BY CallsType DEF ThreadPcs
<1> HIDE DEF Calls
<1> QED BY <1>1, PathIfBecomes DEF IdlePath

LEMMA PathKept == th' = th => PathStays
  BY DEF PathStays, OnIdlePath

LEMMA WithdrawersStay ==
  ASSUME Withdrawers, PathStays, idle' => idle PROVE Withdrawers'
  BY DEF Withdrawers, PathStays, OnIdlePath, Threads

LEMMA PagesKept == page' = page => PagesFall
  BY DEF PagesFall
LEMMA PagesNotified == TypeOK /\ page' = Notified(page) => PagesFall
  BY DEF PagesFall, Notified, TypeOK, PageStates
LEMMA PagesShown == TypeOK /\ ((\E st : Show(st)) \/ UNCHANGED <<state, page>>) => PagesFall
  BY PagesNotified, PagesKept DEF Show
LEMMA PagesClosed == CloseAll => PagesFall /\ \A p \in Pages : page'[p] = "none"
  BY DEF CloseAll, PagesFall, NoPages

\* Steps next to the loop.
LEMMA PagesFollowStays ==
  ASSUME TypeOK, PagesFollow, PagesFall, LoopGoesOn, UNCHANGED <<run, tun>>,
         state' = "connected" => state = "connected"
  PROVE  PagesFollow'
  BY DEF TypeOK, LoopType, PagesFollow, PagesFall, LoopGoesOn, Over, Resting

LEMMA WishInvStays ==
  ASSUME TypeOK, WishInv, PathStays, PagesFall, ShownStays, WishStays, UNCHANGED <<run, tun, loop>>
  PROVE  WishInv'
<1>1. Withdrawers' /\ PagesFollow'
  BY WithdrawersStay, PagesFollowStays, LoopGoesOnIfKept DEF WishInv, WishStays, ShownStays
<1>2. ASSUME ~wanted' PROVE NoneAsks' /\ NothingStarts'
  <2>1. NoneAsks /\ NothingStarts
    BY <1>2 DEF WishInv, WishStays
  <2>2. NoneAsks'
    BY <2>1 DEF NoneAsks, PagesFall, WishStays
  <2>3. NothingStarts'
    BY <2>1 DEF NothingStarts, Resting, Ends, WishStays, ShownStays, PathStays
  <2> QED BY <2>2, <2>3
<1> QED BY <1>1, <1>2 DEF WishInv

LEMMA DisconnectStepsKeepWish ==
  ASSUME TypeInv, WishInv, NEW t \in Threads, DisconnectSteps(t)
  PROVE  WishInv'
<1> USE DEF TypeInv, wishVars, lifeVars
<1>1. CASE ThreadClosesAll(t)
  <2>1. PathStays
    BY <1>1, PathIfGoesTo DEF ThreadClosesAll, ThreadPcs, IdlePath
  <2>2. PagesFall
    BY <1>1, PagesClosed DEF ThreadClosesAll
  <2> QED
    BY <1>1, <2>1, <2>2, WishInvStays DEF ThreadClosesAll, ShownStays, WishStays
<1>2. CASE ThreadStops(t)
  <2>1. PathStays
    <3>1. \/ th' = [th EXCEPT ![t].pc = "stopping"]
          \/ th' = [th EXCEPT ![t] = Returned(t)]
      BY <1>2 DEF ThreadStops
    <3> QED BY <3>1, PathIfGoesTo, PathIfReturns DEF ThreadPcs, IdlePath
  <2>2. PagesFall
    BY <1>2, PagesKept DEF ThreadStops, pageVars
  <2> QED
    BY <1>2, <2>1, <2>2, WishInvStays DEF ThreadStops, ShownStays, WishStays
<1>3. CASE ThreadStopped(t)
  <2>1. PathStays
    BY <1>3, PathIfReturns DEF ThreadStopped
  <2>2. PagesFall
    BY <1>3, PagesKept DEF ThreadStopped, pageVars
  <2> QED
    BY <1>3, <2>1, <2>2, WishInvStays DEF ThreadStopped, ShownStays, WishStays
<1>4. CASE LoopIsDone(t)
  <2>1. PathStays
    BY <1>4, PathIfGoesTo DEF LoopIsDone, ThreadPcs, IdlePath, OnIdlePath
  <2>2. PagesFall
    BY <1>4, PagesKept DEF LoopIsDone, pageVars
  <2> QED
    BY <1>4, <2>1, <2>2, WishInvStays DEF LoopIsDone, ShownStays, WishStays
<1>5. CASE ThreadClosesIdle(t)
  <2>1. PathStays
    BY <1>5, PathIfGoesTo DEF ThreadClosesIdle, ThreadPcs, IdlePath, OnIdlePath
  <2>2. PagesFall
    BY <1>5, PagesClosed DEF ThreadClosesIdle
  <2> QED
    BY <1>5, <2>1, <2>2, WishInvStays DEF ThreadClosesIdle, ShownStays, WishStays
<1>6. CASE ThreadToIdle(t)
  <2>1. PathStays
    BY <1>6, PathIfReturns DEF ThreadToIdle
  <2>2. PagesFall
    BY <1>6, PagesShown DEF ThreadToIdle
  <2>3. UNCHANGED <<wanted, explicit, demand, idle, run, tun, loop>>
    BY <1>6 DEF ThreadToIdle
  <2>4. state' = "connected" => state = "connected"
    BY <1>6 DEF ThreadToIdle, Show
  <2>5. Withdrawers' /\ PagesFollow'
    BY <2>1, <2>2, <2>3, <2>4, WithdrawersStay, PagesFollowStays, LoopGoesOnIfKept DEF WishInv
  <2>6. ASSUME ~wanted' PROVE NoneAsks' /\ NothingStarts'
    <3>1. NoneAsks /\ NothingStarts
      BY <2>3, <2>6 DEF WishInv
    <3>2. OnIdlePath(t)
      BY <1>6 DEF ThreadToIdle, OnIdlePath, IdlePath
    <3>3. Resting
      BY <3>1, <3>2 DEF NothingStarts, Ends
    <3> QED BY <2>2, <2>3, <3>1, <3>3 DEF NoneAsks, PagesFall, NothingStarts, Resting
  <2> QED BY <2>5, <2>6 DEF WishInv
<1> QED BY <1>1, <1>2, <1>3, <1>4, <1>5, <1>6 DEF DisconnectSteps

\* "connect now": it is wanted.
LEMMA ConnectKeepsWish ==
  ASSUME TypeInv, WishInv, ConnectLocked, PathStays, UNCHANGED <<run, tun>>
  PROVE  WishInv'
<1> USE DEF TypeInv
<1>1. PagesFall
  BY PagesShown DEF ConnectLocked
<1>2. state' = "connected" => state = "connected"
  BY DEF ConnectLocked, Show
<1>3. PagesFollow'
  BY <1>1, <1>2, PagesFollowStays, LoopGoesOnIfConnects DEF WishInv
<1>4. Withdrawers' /\ wanted'
  BY WithdrawersStay DEF ConnectLocked, NoteActivity, WishInv
<1> QED BY <1>3, <1>4 DEF WishInv

LEMMA SecretsStepsKeepWish ==
  ASSUME TypeInv, WishInv, NEW t \in Threads, RequestConnect \/ SecretsSteps(t)
  PROVE  WishInv'
<1> USE DEF TypeInv, wishVars, lifeVars
<1>1. CASE RequestConnect
  BY <1>1, ConnectKeepsWish, PathKept DEF RequestConnect
<1>2. CASE SecretsChanged(t)
  <2>1. UNCHANGED <<run, tun>>
    BY <1>2 DEF SecretsChanged
  <2>2. CASE th' = [th EXCEPT ![t] = Calls(t, "stop", tun, "reconnect")] /\
             UNCHANGED <<state, page, wishVars, totpRetried, loop, verdict>>
    <3>1. PathStays
      BY <2>2, PathIfCalls DEF TypeOK, RetPcs
    <3>2. PagesFall
      BY <2>2, PagesKept
    <3> QED BY <2>1, <2>2, <3>1, <3>2, WishInvStays DEF ShownStays, WishStays
  <2>3. CASE th' = [th EXCEPT ![t] = IdleThread] /\ ConnectLocked
    BY <2>1, <2>3, PathIfRests, ConnectKeepsWish
  <2> QED BY <1>2, <2>2, <2>3 DEF SecretsChanged
<1>3. CASE Reconnects(t)
  <2>1. UNCHANGED <<run, tun>> /\ PathStays
    BY <1>3, PathIfRests DEF Reconnects
  <2>2. CASE ConnectLocked
    BY <2>1, <2>2, ConnectKeepsWish
  <2>3. CASE UNCHANGED <<state, page, wishVars, totpRetried, loop, verdict>>
    BY <2>1, <2>3, PagesKept, WishInvStays DEF ShownStays, WishStays
  <2> QED BY <1>3, <2>2, <2>3 DEF Reconnects
<1> QED BY <1>1, <1>2, <1>3 DEF SecretsSteps

\* RequestDisconnect: no other thread is on such a path.  With a tunnel the page shows
\* "disconnecting", without one the loop is cancelled.
LEMMA RequestDisconnectKeepsWish ==
  ASSUME TypeInv, StopInv, WishInv, OneWithdraws, NEW t \in {"user", "setup"}, NEW ret \in RetPcs,
         th[t].pc \in {"idle", "teardown"}, RequestDisconnect(t, ret),
         t = "user" => "disconnect" \in Events, t = "setup" => "setup" \in Events
  PROVE  WishInv'
<1> USE DEF TypeInv, lifeVars
<1>1. /\ UNCHANGED <<idle, run, tun>> /\ ~explicit' /\ ~demand'
      /\ wanted' = (WaitingPages # {})
  BY DEF RequestDisconnect
<1>2. PagesFall
  <2>1. Show("disconnecting") \/ UNCHANGED <<state, page>>
    BY DEF RequestDisconnect
  <2> QED BY <2>1, PagesShown
<1>3. state' \in {state, "disconnecting"} /\ LoopGoesOn
  BY DEF RequestDisconnect, Show, LoopGoesOn, TypeOK, LoopType
<1>4. PagesFollow'
  BY <1>1, <1>2, <1>3, PagesFollowStays DEF WishInv
<1>5. PICK pc \in {"closeAll", "waitDone", "closeIdle"}, i \in Ids \cup {0} :
        /\ th' = Raced([th EXCEPT ![t] = Calls(t, pc, i, ret)])
        /\ tun # 0 => pc = "closeAll"
  BY DEF RequestDisconnect, TypeOK
<1>6. t \in Threads /\ pc \in ThreadPcs
  BY DEF Threads, ThreadPcs
<1>7. \A x \in Threads : th'[x].pc = IF x = t THEN pc ELSE th[x].pc
  <2> DEFINE r == Calls(t, pc, i, ret)
             f == [th EXCEPT ![t] = r]
  <2>1. r \in ThreadType /\ r.pc = pc
    BY <1>6, CallsType
  <2> HIDE DEF r
  <2>2. f \in [Threads -> ThreadType] /\ \A x \in Threads : f[x].pc = IF x = t THEN pc ELSE th[x].pc
    BY <1>6, <2>1 DEF TypeOK
  <2> HIDE DEF f
  <2>3. th' = Raced(f)
    BY <1>5 DEF f, r
  <2> QED BY <2>2, <2>3, RacedType
<1>8. Withdrawers'
  BY <1>1, <1>5, <1>6, <1>7 DEF WishInv, Withdrawers, OnIdlePath, IdlePath, Threads
<1>9. \A x \in Threads : ~OnIdlePath(x)
  <2> SUFFICES ASSUME NEW x \in Threads, OnIdlePath(x) PROVE FALSE
    OBVIOUS
  <2>1. x # t /\ x \in {"user", "setup"}
    BY DEF WishInv, Withdrawers, OnIdlePath, IdlePath
  <2>2. {"disconnect", "setup"} \subseteq Events
    BY <2>1 DEF WishInv, Withdrawers
  <2> QED BY <2>2 DEF OneWithdraws
<1>10. ASSUME ~wanted' PROVE NoneAsks' /\ NothingStarts'
  <2>1. NoneAsks'
    BY <1>1, <1>2, <1>10 DEF WaitingPages, NoneAsks, PagesFall
  <2>2. ASSUME tun = 0 PROVE Resting'
    BY <2>2 DEF RequestDisconnect, Resting, TypeOK, LoopType
  <2>3. ASSUME tun # 0, loop.pc # "off" PROVE Ends'
    <3>1. state' = "disconnecting" /\ loop' = loop
      BY <2>3 DEF RequestDisconnect, Show
    <3>2. loop.pc \in TunnelPcs
      BY <2>3 DEF StopInv, LoopHasNone
    <3>3. \A x \in Threads : ~OnIdlePath(x)'
      BY <1>5, <1>7, <1>9, <2>3 DEF OnIdlePath, IdlePath
    <3> QED BY <1>1, <3>1, <3>2, <3>3 DEF Ends, TunnelPcs
  <2>4. ASSUME tun # 0, loop.pc = "off" PROVE Resting'
    BY <2>4 DEF RequestDisconnect, Resting
  <2> QED BY <2>1, <2>2, <2>3, <2>4 DEF NothingStarts
<1> QED BY <1>4, <1>8, <1>10 DEF WishInv

LEMMA SetupStepsKeepWish ==
  ASSUME TypeInv, StopInv, WishInv, OneWithdraws, NEW a \in Accounts, SetupBegins(a) \/ SetupSteps
  PROVE  WishInv'
<1> USE DEF TypeInv, wishVars, lifeVars
<1>1. CASE SetupBegins(a)
  <2>1. /\ UNCHANGED <<wanted, explicit, demand, idle, run, tun, loop, state, page>>
        /\ th["setup"].pc = "idle" /\ "setup" \in Events
    BY <1>1 DEF SetupBegins, pageVars
  <2>2. \A t \in Threads : OnIdlePath(t)' => OnIdlePath(t)
    BY <1>1 DEF SetupBegins, OnIdlePath, IdlePath, TypeOK, ThreadType
  <2>3. Withdrawers'
    BY <2>1, <2>2 DEF WishInv, Withdrawers, OnIdlePath, Threads
  <2>4. PagesFollow' /\ (NoneAsks => NoneAsks')
    BY <2>1, PagesKept, LoopGoesOnIfKept, PagesFollowStays DEF WishInv, NoneAsks
  <2>5. NothingStarts => NothingStarts'
    BY <2>1, <2>2 DEF NothingStarts, Resting, Ends
  <2> QED BY <2>1, <2>3, <2>4, <2>5 DEF WishInv
<1>2. CASE SetupTearsDown
  <2>1. "setup" \in Events
    BY <1>2 DEF SetupTearsDown, WishInv, Withdrawers
  <2> QED BY <1>2, <2>1, RequestDisconnectKeepsWish DEF SetupTearsDown, RetPcs
<1>3. CASE SetupSwitches \/ SetupStores
  <2>1. PathStays
    BY <1>3, PathIfGoesTo DEF SetupSwitches, SetupStores, Threads, ThreadPcs, IdlePath
  <2>2. PagesFall
    BY <1>3, PagesKept DEF SetupSwitches, SetupStores, pageVars
  <2> QED
    BY <1>3, <2>1, <2>2, WishInvStays DEF SetupSwitches, SetupStores, ShownStays, WishStays
<1>4. CASE SetupFails
  <2>1. PathStays
    BY <1>4, PathIfRests DEF SetupFails, Threads
  <2>2. PagesFall
    BY <1>4, PagesKept DEF SetupFails, pageVars
  <2> QED
    BY <1>4, <2>1, <2>2, WishInvStays DEF SetupFails, ShownStays, WishStays
<1>5. ASSUME NEW typed \in {FALSE, "code" \in Events}, SetupApplies(typed) PROVE WishInv'
  <2>1. PathStays
    BY <1>5 DEF SetupApplies, PathStays, OnIdlePath, IdlePath, Threads, IdleThread, JobStart,
                TypeOK, ThreadType
  <2>2. PagesFall
    BY <1>5, PagesShown DEF SetupApplies
  <2>3. ShownStays
    BY <1>5 DEF SetupApplies, ShownStays, Show, Final
  <2> QED
    BY <1>5, <2>1, <2>2, <2>3, WishInvStays DEF SetupApplies, WishStays
<1> QED BY <1>1, <1>2, <1>3, <1>4, <1>5 DEF SetupSteps

\* The thread "edit" and the job of a typed code.
LEMMA EditStepsKeepWish ==
  ASSUME TypeInv, WishInv,
         SetPassword \/ SetTOTP \/ NoteCodeShown \/ TypeCode \/ CancelCode \/ JobWaits \/ JobEnds
  PROVE  WishInv'
<1> USE DEF TypeInv, wishVars, lifeVars, pageVars
<1>1. UNCHANGED <<wanted, explicit, demand, idle, run, tun, loop>>
  BY DEF SetPassword, SetTOTP, EditStores, NoteCodeShown, TypeCode, CancelCode, JobWaits, JobEnds,
         JobUnchanged
<1>2. PagesFall
  <2>1. (\E st : Show(st)) \/ UNCHANGED <<state, page>>
    BY DEF SetPassword, SetTOTP, EditStores, NoteCodeShown, TypeCode, CancelCode, JobWaits, JobEnds,
           JobUnchanged
  <2> QED BY <2>1, PagesShown
<1>3. ShownStays
  BY DEF SetPassword, SetTOTP, EditStores, NoteCodeShown, TypeCode, CancelCode, JobWaits, JobEnds,
         JobUnchanged, ShownStays, Show, Final
<1>4. PathStays
  <2>1. CASE SetPassword \/ SetTOTP \/ NoteCodeShown \/ JobWaits
    BY <2>1, PathIfGoesTo
    DEF SetPassword, SetTOTP, EditStores, NoteCodeShown, JobWaits, Threads, ThreadPcs, IdlePath
  <2>2. CASE TypeCode
    BY <2>2 DEF TypeCode, PathStays, OnIdlePath, IdlePath, Threads, JobStart, TypeOK, ThreadType
  <2>3. CASE CancelCode \/ JobEnds
    BY <2>3, PathIfRests DEF CancelCode, JobEnds, Threads
  <2> QED BY <2>1, <2>2, <2>3
<1> QED BY <1>1, <1>2, <1>3, <1>4, WishInvStays DEF WishStays

\* The ticker.  An idle tunnel it ends is the one the loop looks after, and no thread sets out to
\* disconnect without a tunnel.
LEMMA TickStopsIdleKeepsWish ==
  ASSUME TypeInv, WishInv, OneWithdraws, TickStopsIdle
  PROVE  WishInv'
<1> USE DEF TypeInv, lifeVars
<1>1. /\ UNCHANGED <<idle, run, tun, loop>> /\ ~explicit' /\ ~demand'
      /\ wanted' = (WaitingPages # {}) /\ state' = "disconnecting"
  BY DEF TickStopsIdle, Show
<1>2. PagesFall
  BY PagesShown DEF TickStopsIdle
<1>3. PathStays
  BY PathIfCalls DEF TickStopsIdle, TypeOK, Threads, RetPcs
<1>4. Withdrawers' /\ PagesFollow'
  BY <1>1, <1>2, <1>3, WithdrawersStay, PagesFollowStays, LoopGoesOnIfKept DEF WishInv
<1>5. ASSUME ~wanted' PROVE NoneAsks' /\ NothingStarts'
  <2>1. NoneAsks'
    BY <1>1, <1>2, <1>5 DEF WaitingPages, NoneAsks, PagesFall
  <2>2. loop.pc = "up" \/ Resting
    BY DEF TickStopsIdle, IdleTooLong, WishInv, PagesFollow, Over
  <2>3. Resting => Resting'
    BY <1>1 DEF Resting
  <2>4. \A t \in Threads : ~OnIdlePath(t)
    <3>1. "idle" \in Events
      BY DEF TickStopsIdle, IdleTooLong, WishInv, Withdrawers
    <3> QED BY <3>1 DEF WishInv, Withdrawers, OneWithdraws
  <2>5. \A t \in Threads : ~OnIdlePath(t)'
    BY <1>3, <2>4 DEF PathStays
  <2>6. loop.pc = "up" => Ends'
    BY <1>1, <2>5 DEF Ends, TunnelPcs
  <2> QED BY <2>1, <2>2, <2>3, <2>6 DEF NothingStarts
<1> QED BY <1>4, <1>5 DEF WishInv

LEMMA TickerStepsKeepWish ==
  ASSUME TypeInv, WishInv, OneWithdraws,
         TickChecksCisco \/ TickResumes \/ TickStopsIdle \/ TickerSteps
  PROVE  WishInv'
<1> USE DEF TypeInv, wishVars, lifeVars
<1>1. CASE TickChecksCisco
  <2>1. PathStays
    BY <1>1, PathIfGoesTo DEF TickChecksCisco, Threads, ThreadPcs, IdlePath
  <2>2. PagesFall
    BY <1>1, PagesKept DEF TickChecksCisco, pageVars
  <2> QED
    BY <1>1, <2>1, <2>2, WishInvStays DEF TickChecksCisco, ShownStays, WishStays
<1>2. CASE TickResumes
  <2>1. PathStays
    BY <1>2, PathIfCalls, PathIfRests DEF TickResumes, TypeOK, Threads, RetPcs
  <2>2. PagesFall
    BY <1>2, PagesShown DEF TickResumes
  <2>3. ShownStays
    BY <1>2 DEF TickResumes, ShownStays, Show
  <2> QED
    BY <1>2, <2>1, <2>2, <2>3, WishInvStays DEF TickResumes, WishStays
<1>3. CASE TickStopsIdle
  BY <1>3, TickStopsIdleKeepsWish
<1>4. ASSUME NEW cisco \in CiscoAnswers, TickCisco(cisco) PROVE WishInv'
  <2>1. PathStays
    BY <1>4, PathIfCalls, PathIfGoesTo
    DEF TickCisco, TypeOK, Threads, RetPcs, ThreadPcs, IdlePath
  <2>2. PagesFall
    BY <1>4, PagesShown DEF TickCisco
  <2>3. ShownStays
    BY <1>4 DEF TickCisco, ShownStays, Show
  <2> QED
    BY <1>4, <2>1, <2>2, <2>3, WishInvStays DEF TickCisco, WishStays
<1>5. CASE TickEnds
  <2>1. PathStays
    BY <1>5, PathIfRests DEF TickEnds, Threads
  <2>2. PagesFall
    BY <1>5, PagesKept DEF TickEnds, pageVars
  <2> QED
    BY <1>5, <2>1, <2>2, WishInvStays DEF TickEnds, ShownStays, WishStays
<1> QED BY <1>1, <1>2, <1>3, <1>4, <1>5 DEF TickerSteps

\* A pass of acquire gives out the tunnel only while the loop looks after it.
LEMMA AcquireKeepsPages ==
  ASSUME TypeInv, WishInv, NEW p \in Pages, AcquirePass(p), run # "ended",
         UNCHANGED <<run, tun, state>>
  PROVE  PagesFollow'
<1> USE DEF TypeInv
<1>1. PagesFollow
  BY DEF WishInv
<1>2. LoopGoesOn
  BY LoopGoesOnIfKept, LoopGoesOnIfEnsured DEF AcquirePass
<1>3. \A q \in Pages : page'[q] = "tunnelled" =>
        page[q] = "tunnelled" \/ (state = "connected" /\ tun # 0)
  BY DEF AcquirePass, Refused, Waits, TypeOK
<1>4. \A q \in Pages : page'[q] = "tunnelled" => loop.pc \in {"up", "closing"} \/ Over
  BY <1>1, <1>3 DEF PagesFollow
<1>5. loop.pc \in {"up", "closing"} \/ Over => loop'.pc \in {"up", "closing"} \/ Over'
  BY <1>2 DEF LoopGoesOn, Over, Resting, TypeOK, LoopType
<1>6. state' = "connected" /\ tun' # 0 => loop'.pc = "up" \/ Over'
  BY <1>1, <1>2 DEF PagesFollow, LoopGoesOn, Over, Resting, TypeOK, LoopType
<1> QED BY <1>4, <1>5, <1>6 DEF PagesFollow

LEMMA PageStepsKeepWish ==
  ASSUME TypeInv, WishInv, NEW p \in Pages, PageSteps(p)
  PROVE  WishInv'
<1> USE DEF TypeInv, wishVars, lifeVars, pageVars, PageUnchanged
<1>1. CASE PageOpens(p)
  <2>1. PagesFollow'
    BY <1>1, AcquireKeepsPages DEF PageOpens
  <2>2. Withdrawers'
    BY <1>1, PathKept, WithdrawersStay DEF PageOpens, NoteActivity, WishInv
  <2> QED BY <1>1, <2>1, <2>2 DEF PageOpens, WishInv
<1>2. CASE PageLooksAgain(p)
  <2>1. run # "ended" /\ wanted
    BY <1>2 DEF PageLooksAgain, WishInv, PagesFollow, NoneAsks
  <2>2. PagesFollow'
    BY <1>2, <2>1, AcquireKeepsPages DEF PageLooksAgain
  <2>3. Withdrawers'
    BY <1>2, PathKept, WithdrawersStay DEF PageLooksAgain, WishInv
  <2> QED BY <1>2, <2>1, <2>2, <2>3 DEF PageLooksAgain, WishInv
<1>3. CASE PageEnds(p)
  <2>1. PagesFall
    BY <1>3 DEF PageEnds, Refused, PagesFall, TypeOK
  <2> QED
    BY <1>3, <2>1, PathKept, WishInvStays DEF PageEnds, ShownStays, WishStays
<1>4. CASE Traffic(p)
  <2>1. UNCHANGED <<wanted, explicit, state, page, run, tun, loop, th>> /\ ~idle'
    BY <1>4 DEF Traffic
  <2>2. Withdrawers' /\ PagesFollow'
    BY <2>1, PathKept, PagesKept, LoopGoesOnIfKept, WithdrawersStay, PagesFollowStays DEF WishInv
  <2>3. ASSUME ~wanted' PROVE NoneAsks' /\ NothingStarts'
    <3>1. NoneAsks /\ NothingStarts
      BY <2>1, <2>3 DEF WishInv
    <3>2. NoneAsks'
      BY <2>1, <3>1 DEF NoneAsks
    <3>3. ASSUME Ends, ~Resting PROVE Ends'
      <4>1. loop.pc \in {"up", "closing"}
        BY <1>4, <3>3 DEF Traffic, WishInv, PagesFollow, Over
      <4>2. state = "disconnecting"
        BY <3>3, <4>1 DEF Ends, TunnelPcs
      <4>3. ~demand'
        BY <1>4, <3>3, <4>2 DEF Traffic, CountsAsUse, Ends
      <4> QED BY <2>1, <3>3, <4>3 DEF Ends, OnIdlePath
    <3>4. Resting => Resting'
      BY <2>1 DEF Resting
    <3> QED BY <3>1, <3>2, <3>3, <3>4 DEF NothingStarts
  <2> QED BY <2>2, <2>3 DEF WishInv
<1> QED BY <1>1, <1>2, <1>3, <1>4 DEF PageSteps

\* Time that passes.
LEMMA TimeKeepsWish ==
  ASSUME TypeInv, WishInv, DemandEnds \/ IdleElapses \/ WindowEnds
  PROVE  WishInv'
<1> USE DEF TypeInv, wishVars, lifeVars, pageVars, PageUnchanged
<1>1. CASE DemandEnds
  BY <1>1, PathKept, PagesKept, WishInvStays DEF DemandEnds, ShownStays, WishStays
<1>2. CASE IdleElapses
  <2>1. UNCHANGED <<wanted, explicit, demand, state, page, run, tun, loop, th>>
    BY <1>2 DEF IdleElapses
  <2>2. Withdrawers'
    BY <1>2, <2>1 DEF IdleElapses, WishInv, Withdrawers, OnIdlePath
  <2>3. PagesFollow'
    BY <2>1, PagesKept, LoopGoesOnIfKept, PagesFollowStays DEF WishInv
  <2>4. (NoneAsks => NoneAsks') /\ (NothingStarts => NothingStarts')
    BY <2>1 DEF NoneAsks, NothingStarts, Resting, Ends, OnIdlePath
  <2> QED BY <2>1, <2>2, <2>3, <2>4 DEF WishInv
<1>3. CASE WindowEnds
  BY <1>3, PathKept, PagesKept, WishInvStays DEF WindowEnds, ShownStays, WishStays
<1> QED BY <1>1, <1>2, <1>3

\* A process.
LEMMA TunnelKeepsWish ==
  ASSUME TypeInv, WishInv, NEW i \in Ids,
         TunnelSpawns \/ TunnelSendsCode(i) \/ TunnelOpensPort(i) \/ TunnelExits(i)
  PROVE  WishInv'
<1> USE DEF TypeInv, wishVars, lifeVars, pageVars, TunnelUnchanged
<1>1. UNCHANGED <<state, page, wanted, explicit, demand, idle, run, tun, loop, th>>
  BY DEF TunnelSpawns, TunnelSendsCode, TunnelOpensPort, TunnelExits
<1> QED BY <1>1, PathKept, PagesKept, WishInvStays DEF ShownStays, WishStays

\* The end of the program.
LEMMA RunStepsKeepWish ==
  ASSUME TypeInv, WishInv, Stop \/ RunCancels \/ RunEnds \/ Restart
  PROVE  WishInv'
<1> USE DEF TypeInv, wishVars, lifeVars, pageVars
<1>1. CASE Stop
  <2>1. UNCHANGED <<wanted, explicit, demand, idle, state, page, tun, loop, th>>
    BY <1>1 DEF Stop
  <2>2. Withdrawers'
    BY <2>1, PathKept, WithdrawersStay DEF WishInv
  <2>3. PagesFollow'
    BY <1>1, <2>1 DEF Stop, WishInv, PagesFollow, Over, Resting
  <2>4. (NoneAsks => NoneAsks') /\ (NothingStarts => NothingStarts')
    BY <2>1 DEF NoneAsks, NothingStarts, Resting, Ends, OnIdlePath
  <2> QED BY <2>1, <2>2, <2>3, <2>4 DEF WishInv
<1>2. CASE RunCancels
  <2>1. UNCHANGED <<wanted, explicit, demand, idle, state, page, tun, run>> /\ run = "stopping"
    BY <1>2 DEF RunCancels
  <2>2. PathStays
    BY <1>2, PathIfCalls DEF RunCancels, TypeOK, Threads, RetPcs
  <2>3. Withdrawers'
    BY <2>1, <2>2, WithdrawersStay DEF WishInv
  <2>4. Resting'
    BY <1>2 DEF RunCancels, Resting, TypeOK, LoopType
  <2>5. PagesFollow'
    BY <2>1, <2>4 DEF PagesFollow, Over
  <2>6. NoneAsks => NoneAsks'
    BY <2>1 DEF NoneAsks
  <2> QED BY <2>1, <2>3, <2>4, <2>5, <2>6 DEF WishInv, NothingStarts
<1>3. CASE RunEnds
  <2>1. /\ UNCHANGED <<wanted, explicit, demand, idle, state, tun, loop>>
        /\ run' = "ended" /\ loop.pc = "off"
    BY <1>3 DEF RunEnds
  <2>2. PathStays
    BY <1>3, PathIfRests DEF RunEnds, Threads
  <2>3. Withdrawers'
    BY <2>1, <2>2, WithdrawersStay DEF WishInv
  <2>4. \A p \in Pages : page'[p] = "none"
    BY <1>3, PagesClosed DEF RunEnds
  <2>5. Resting' /\ PagesFollow'
    BY <2>1, <2>4 DEF Resting, PagesFollow, Over
  <2>6. NoneAsks => NoneAsks'
    BY <2>1, <2>4 DEF NoneAsks
  <2> QED BY <2>1, <2>3, <2>5, <2>6 DEF WishInv, NothingStarts
<1>4. CASE Restart
  <2>1. /\ UNCHANGED <<page, loop, th>> /\ ~explicit' /\ ~demand' /\ ~idle' /\ tun' = 0
        /\ run = "ended" /\ run' = "up"
    BY <1>4 DEF Restart
  <2>2. loop.pc = "off" /\ \A p \in Pages : page[p] = "none"
    BY <2>1 DEF EndedIsOff, WishInv, PagesFollow
  <2>3. Withdrawers'
    BY <2>1, PathKept, WithdrawersStay DEF WishInv
  <2>4. PagesFollow' /\ Resting' /\ NoneAsks'
    BY <2>1, <2>2 DEF PagesFollow, Resting, NoneAsks
  <2> QED BY <2>3, <2>4 DEF WishInv, NothingStarts
<1> QED BY <1>1, <1>2, <1>3, <1>4

\* The connect loop.

\* A step of the loop, but for the one that finds the tunnel up: it asks for nothing itself, and
\* leaves the pages of a tunnel that ended to be closed.
LoopAsksNothing ==
    /\ UNCHANGED <<wanted, demand, idle, th, run>> /\ (explicit' => explicit)
    /\ loop.pc # "off" /\ (loop'.pc = "off" \/ loop'.cancelled = loop.cancelled)
    /\ PagesFall
    /\ state' = "connected" => state = "connected" /\ tun' \in {0, tun}
    /\ loop.pc = "up" => \/ loop'.pc = "closing" /\ tun' = 0
                         \/ loop'.pc = "off" /\ loop.cancelled
    /\ loop.pc = "closing" => \A p \in Pages : page'[p] = "none"

\* With nothing wanted the attempt goes on to its end, and no other one follows.
LoopStartsNothing ==
    \/ loop'.pc \in {"off", "closed", "sleep"}
    \/ /\ {loop.pc, loop'.pc} \subseteq TunnelPcs \cup {"closing"}
       /\ state' = state
NothingAsked == ~wanted /\ NoneAsks /\ Ends /\ ~loop.cancelled

LEMMA LoopKeepsWish ==
  ASSUME TypeInv, StopInv, WishInv, LoopAsksNothing, NothingAsked => LoopStartsNothing
  PROVE  WishInv'
<1> USE DEF TypeInv, LoopAsksNothing
<1>1. Withdrawers'
  BY PathKept, WithdrawersStay DEF WishInv
<1>2. Resting => Resting'
  BY DEF Resting
<1>3. loop.pc = "up" => (loop'.pc = "closing" /\ tun' = 0) \/ Over'
  BY DEF StopInv, OffHasNone, LoopHasTunnel, TunnelPcs, Over, Resting, Ids
<1>4. run # "ended"
  BY DEF EndedIsOff
<1>5. ASSUME NEW p \in Pages, page'[p] = "tunnelled"
      PROVE  loop'.pc \in {"up", "closing"} \/ Over'
  <2>1. loop.pc \in {"up", "closing"} \/ Over
    BY <1>5 DEF PagesFall, WishInv, PagesFollow
  <2> QED BY <1>2, <1>3, <1>5, <2>1 DEF Over
<1>6. state' = "connected" /\ tun' # 0 => Over'
  <2>1. state' = "connected" /\ tun' # 0 => loop.pc = "up" \/ Over
    BY DEF WishInv, PagesFollow
  <2> QED BY <1>2, <1>3, <2>1 DEF Over
<1>7. PagesFollow'
  BY <1>4, <1>5, <1>6 DEF PagesFollow
<1>8. ASSUME ~wanted' PROVE NoneAsks' /\ NothingStarts'
  <2>1. NoneAsks /\ NothingStarts
    BY <1>8 DEF WishInv
  <2>2. NoneAsks'
    BY <2>1 DEF NoneAsks, PagesFall
  <2>3. ASSUME Ends, ~loop.cancelled PROVE Resting' \/ Ends'
    <3>1. LoopStartsNothing
      BY <1>8, <2>1, <2>3 DEF NothingAsked
    <3>2. loop'.pc \in {"off", "closed", "sleep"} => Resting' \/ Ends'
      BY <2>3 DEF Ends, Resting, OnIdlePath, TunnelPcs
    <3>3. {loop.pc, loop'.pc} \subseteq TunnelPcs \cup {"closing"} /\ state' = state => Ends'
      BY <2>3 DEF Ends, OnIdlePath
    <3> QED BY <3>1, <3>2, <3>3 DEF LoopStartsNothing
  <2>4. Resting' \/ Ends'
    BY <1>2, <2>1, <2>3 DEF NothingStarts, Resting
  <2> QED BY <2>2, <2>4 DEF NothingStarts
<1> QED BY <1>1, <1>7, <1>8 DEF WishInv

\* The head of the loop: it ends when nothing wants a tunnel.
LEMMA HeadAsksNothing ==
  ASSUME TypeOK, NEW st, NEW pg \in {page, Notified(page)}, LoopHead(st, pg)
  PROVE  /\ explicit' => explicit
         /\ PagesFall
         /\ state' = "connected" => st = "connected"
<1>1. page' \in {page, Notified(page)}
  <2>1. Notified(Notified(page)) = Notified(page)
    BY DEF Notified
  <2>2. page' \in {pg, Notified(pg)}
    BY DEF LoopHead
  <2> QED BY <2>1, <2>2
<1>2. PagesFall
  BY <1>1, PagesKept, PagesNotified
<1>3. explicit' => explicit
  BY DEF LoopHead
<1>4. state' = "connected" => st = "connected"
  BY DEF LoopHead, Rested
<1> QED BY <1>2, <1>3, <1>4

LEMMA HeadStartsNothing ==
  ASSUME TypeInv, WishInv, NothingAsked, loop.pc \notin {"up", "closing"}, loop.pc # "off",
         NEW st, NEW pg \in {page, Notified(page)}, LoopHead(st, pg)
  PROVE  loop'.pc = "off"
<1>1. \A p \in Pages : page[p] = "none"
  BY DEF NothingAsked, NoneAsks, WishInv, PagesFollow, Over, Resting, TypeInv, TypeOK, PageStates
<1>2. \A p \in Pages : pg[p] = "none"
  BY <1>1 DEF Notified
<1>3. ~HasDemand(pg)
  BY <1>2 DEF HasDemand, NothingAsked, NoneAsks, Ends
<1> QED BY <1>3, LoopOffType DEF LoopHead

LEMMA ShowAsksNothing == ASSUME TypeOK, NEW st, Show(st) PROVE PagesFall /\ state' = st
  BY PagesShown DEF Show

LEMMA LoopStepsKeepWish ==
  ASSUME TypeInv, StopInv, WishInv, LoopSteps
  PROVE  WishInv'
<1> USE DEF TypeInv, pageVars, LoopUnchanged
<1>1. CASE LoopBegins
  <2>1. LoopAsksNothing
    BY <1>1, HeadAsksNothing, LoopHeadGoes
    DEF LoopBegins, LoopAsksNothing, TypeOK, LoopType
  <2>2. ~NothingAsked
    BY <1>1 DEF LoopBegins, NothingAsked, Ends, TunnelPcs
  <2> QED BY <2>1, <2>2, LoopKeepsWish
<1>2. CASE LoopWakes
  <2>1. LoopAsksNothing
    BY <1>2, HeadAsksNothing, LoopHeadGoes DEF LoopWakes, LoopAsksNothing
  <2>2. NothingAsked => LoopStartsNothing
    BY <1>2, HeadStartsNothing DEF LoopWakes, LoopStartsNothing
  <2> QED BY <2>1, <2>2, LoopKeepsWish
<1>3. ASSUME NEW cisco \in CiscoAnswers, LoopCisco(cisco) PROVE WishInv'
  <2>1. LoopAsksNothing
    BY <1>3, ShowAsksNothing, PagesKept
    DEF LoopCisco, LoopAsksNothing, Goes, TypeOK, LoopType
  <2>2. ~NothingAsked
    BY <1>3 DEF LoopCisco, NothingAsked, Ends, TunnelPcs
  <2> QED BY <2>1, <2>2, LoopKeepsWish
<1>4. ASSUME NEW online \in BOOLEAN, LoopProbe(online) PROVE WishInv'
  <2>1. Show("offline") \/ Show("connecting") \/ UNCHANGED <<state, page>>
    BY <1>4 DEF LoopProbe
  <2>2. PagesFall /\ (state' = "connected" => state = "connected")
    BY <2>1, ShowAsksNothing, PagesKept
  <2>3. LoopAsksNothing
    BY <1>4, <2>2 DEF LoopProbe, LoopAsksNothing, Goes, TypeOK, LoopType
  <2>4. ~NothingAsked
    BY <1>4 DEF LoopProbe, NothingAsked, Ends, TunnelPcs
  <2> QED BY <2>3, <2>4, LoopKeepsWish
<1>5. ASSUME NEW result \in Reads, PasswordIsRead(result) PROVE WishInv'
  <2>1. LoopAsksNothing
    BY <1>5, PagesKept
    DEF PasswordIsRead, LoopAsksNothing, TypeOK, LoopType
  <2>2. ~NothingAsked
    BY <1>5 DEF PasswordIsRead, NothingAsked, Ends, TunnelPcs
  <2> QED BY <2>1, <2>2, LoopKeepsWish
<1>6. ASSUME NEW result \in Reads, TOTPIsRead(result) PROVE WishInv'
  <2>1. LoopAsksNothing
    BY <1>6, PagesKept
    DEF TOTPIsRead, LoopAsksNothing, TypeOK, LoopType
  <2>2. ~NothingAsked
    BY <1>6 DEF TOTPIsRead, NothingAsked, Ends, TunnelPcs
  <2> QED BY <2>1, <2>2, LoopKeepsWish
<1>7. CASE ReadWhileChanging
  <2>1. LoopAsksNothing
    BY <1>7, HeadAsksNothing, LoopHeadGoes, PagesKept
    DEF ReadWhileChanging, LoopAsksNothing, Goes, TypeOK, LoopType
  <2>2. ~NothingAsked
    BY <1>7 DEF ReadWhileChanging, NothingAsked, Ends, TunnelPcs
  <2> QED BY <2>1, <2>2, LoopKeepsWish
<1>8. CASE ReadFailed
  <2>1. LoopAsksNothing
    BY <1>8, ShowAsksNothing, EndsWithGoes
    DEF ReadFailed, LoopAsksNothing, EndsWith, Final, TypeOK, LoopType
  <2>2. ~NothingAsked
    BY <1>8 DEF ReadFailed, NothingAsked, Ends, TunnelPcs
  <2> QED BY <2>1, <2>2, LoopKeepsWish
<1>9. CASE PasswordThere
  <2>1. \/ Show("connecting") /\ explicit' = explicit
        \/ UNCHANGED <<state, page, explicit, tun>>
    BY <1>9 DEF PasswordThere, StartsTunnel
  <2>2. /\ PagesFall /\ (explicit' => explicit)
        /\ state' = "connected" => state = "connected" /\ tun' = tun
    BY <2>1, ShowAsksNothing, PagesKept
  <2>3. loop'.cancelled = loop.cancelled
    BY <1>9 DEF PasswordThere, StartsTunnel, Goes, TypeOK, LoopType
  <2>4. LoopAsksNothing
    BY <1>9, <2>2, <2>3 DEF PasswordThere, LoopAsksNothing
  <2>5. ~NothingAsked
    BY <1>9 DEF PasswordThere, NothingAsked, Ends, TunnelPcs
  <2> QED BY <2>4, <2>5, LoopKeepsWish
<1>10. CASE TOTPThere
  <2>1. LoopAsksNothing
    BY <1>10, ShowAsksNothing, PagesKept
    DEF TOTPThere, LoopAsksNothing, StartsTunnel, TypeOK, LoopType
  <2>2. ~NothingAsked
    BY <1>10 DEF TOTPThere, NothingAsked, Ends, TunnelPcs
  <2> QED BY <2>1, <2>2, LoopKeepsWish
<1>11. ASSUME NEW st \in StartErrors, StartFails(st) PROVE WishInv'
  <2>1. LoopAsksNothing
    BY <1>11, ShowAsksNothing, EndsWithGoes, DaemonAssumption
    DEF StartFails, LoopAsksNothing, EndsWith, TypeOK, LoopType
  <2>2. NothingAsked => LoopStartsNothing
    BY <1>11, EndsWithGoes
    DEF StartFails, LoopStartsNothing, TunnelPcs, TypeOK, LoopType
  <2> QED BY <2>1, <2>2, LoopKeepsWish
<1>12. CASE StartReturns
  <2>1. LoopAsksNothing
    BY <1>12, PagesKept
    DEF StartReturns, LoopAsksNothing, TypeOK, LoopType
  <2>2. NothingAsked => LoopStartsNothing
    BY <1>12
    DEF StartReturns, LoopStartsNothing, TunnelPcs, TypeOK, LoopType
  <2> QED BY <2>1, <2>2, LoopKeepsWish
<1>13. ASSUME NEW ready \in BOOLEAN, WaitReadyEnds(ready) PROVE WishInv'
  <2>1. LoopAsksNothing
    BY <1>13, PagesKept
    DEF WaitReadyEnds, LoopAsksNothing, TypeOK, LoopType
  <2>2. NothingAsked => LoopStartsNothing
    BY <1>13
    DEF WaitReadyEnds, LoopStartsNothing, TunnelPcs, TypeOK, LoopType
  <2> QED BY <2>1, <2>2, LoopKeepsWish
<1>14. CASE JudgeGoingAway
  <2>1. LoopAsksNothing
    BY <1>14, PagesKept
    DEF JudgeGoingAway, LoopAsksNothing, Goes, TypeOK, LoopType
  <2>2. NothingAsked => LoopStartsNothing
    BY <1>14
    DEF JudgeGoingAway, LoopStartsNothing, Goes, TunnelPcs, TypeOK, LoopType
  <2> QED BY <2>1, <2>2, LoopKeepsWish
<1>15. CASE JudgeConnected
  <2>1. loop'.pc = "up" /\ run # "ended" /\ UNCHANGED <<run, th, wanted>> /\ ~idle'
    BY <1>15 DEF JudgeConnected, Goes, NoteActivity, EndedIsOff, TypeOK, LoopType
  <2>2. PagesFollow'
    BY <2>1 DEF PagesFollow
  <2>3. Withdrawers'
    BY <2>1, PathKept, WithdrawersStay DEF WishInv
  <2>4. wanted
    BY <1>15
    DEF JudgeConnected, GoingAway, WishInv, NothingStarts, Resting, Ends, TunnelPcs
  <2> QED BY <2>1, <2>2, <2>3, <2>4 DEF WishInv
<1>16. CASE JudgeStale
  <2>1. LoopAsksNothing
    BY <1>16, PagesKept
    DEF JudgeStale, LoopAsksNothing, NotReady, Goes, TypeOK, LoopType
  <2>2. NothingAsked => LoopStartsNothing
    BY <1>16
    DEF JudgeStale, LoopStartsNothing, NotReady, Goes, TunnelPcs, TypeOK, LoopType
  <2> QED BY <2>1, <2>2, LoopKeepsWish
<1>17. CASE DropStale
  <2>1. PICK st \in {state, AfterStop}, pg \in {page, Notified(page)} : LoopHead(st, pg)
    BY <1>17 DEF DropStale
  <2>2. loop.pc \in TunnelPcs \ {"up"} /\ loop.pc # "closing"
    BY <1>17 DEF DropStale, NotReady, TunnelPcs
  <2>3. LoopAsksNothing
    BY <1>17, <2>1, <2>2, HeadAsksNothing, LoopHeadGoes
    DEF DropStale, LoopAsksNothing, AfterStop, TunnelPcs
  <2>4. NothingAsked => LoopStartsNothing
    BY <2>1, <2>2, HeadStartsNothing DEF LoopStartsNothing, TunnelPcs
  <2> QED BY <2>3, <2>4, LoopKeepsWish
<1>18. CASE LoopStops
  <2>1. LoopAsksNothing
    BY <1>18, PagesKept
    DEF LoopStops, LoopAsksNothing, Goes, TypeOK, LoopType
  <2>2. NothingAsked => LoopStartsNothing
    BY <1>18
    DEF LoopStops, LoopStartsNothing, Goes, TunnelPcs, TypeOK, LoopType
  <2> QED BY <2>1, <2>2, LoopKeepsWish
<1>19. CASE JudgeStopped
  <2>1. LoopHead(AfterStop, Notified(page))
    BY <1>19 DEF JudgeStopped
  <2>2. loop.pc \in {"judge", "awaitExit"}
    BY <1>19 DEF JudgeStopped, NotReady
  <2>3. LoopAsksNothing
    BY <1>19, <2>1, <2>2, HeadAsksNothing, LoopHeadGoes
    DEF JudgeStopped, LoopAsksNothing, AfterStop
  <2>4. NothingAsked => LoopStartsNothing
    BY <2>1, <2>2, HeadStartsNothing DEF LoopStartsNothing
  <2> QED BY <2>3, <2>4, LoopKeepsWish
<1>20. CASE JudgeSlow
  <2>1. LoopAsksNothing
    BY <1>20, PagesKept
    DEF JudgeSlow, LoopAsksNothing, NotReady, Goes, TypeOK, LoopType
  <2>2. NothingAsked => LoopStartsNothing
    BY <1>20
    DEF JudgeSlow, LoopStartsNothing, NotReady, Goes, TunnelPcs, TypeOK, LoopType
  <2> QED BY <2>1, <2>2, LoopKeepsWish
<1>21. CASE JudgeError
  <2>1. LoopAsksNothing
    BY <1>21, ShowAsksNothing, LoopOffType
    DEF JudgeError, LoopAsksNothing, NotReady, Goes, TypeOK, LoopType
  <2>2. NothingAsked => LoopStartsNothing
    BY <1>21, LoopOffType
    DEF JudgeError, LoopStartsNothing, Goes, TunnelPcs, TypeOK, LoopType
  <2> QED BY <2>1, <2>2, LoopKeepsWish
<1>22. ASSUME NEW message \in Rejections, JudgeRejected(message) PROVE WishInv'
  <2>1. loop.pc \in {"judge", "awaitExit"}
    BY <1>22 DEF JudgeRejected, NotReady
  <2>2. /\ LoopHead(state, page) \/ EndsWith("auth_failed", "gateway")
        /\ UNCHANGED <<wanted, demand, idle, th, run>> /\ tun' = 0
    BY <1>22 DEF JudgeRejected
  <2>3. CASE LoopHead(state, page)
    <3>1. LoopAsksNothing
      BY <2>1, <2>2, <2>3, HeadAsksNothing, LoopHeadGoes DEF LoopAsksNothing
    <3>2. NothingAsked => LoopStartsNothing
      BY <2>1, <2>3, HeadStartsNothing DEF LoopStartsNothing
    <3> QED BY <3>1, <3>2, LoopKeepsWish
  <2>4. CASE EndsWith("auth_failed", "gateway")
    <3>1. PagesFall /\ state' = "auth_failed" /\ ~explicit'
      BY <2>4, ShowAsksNothing DEF EndsWith
    <3>2. loop'.pc = "off"
      BY <2>4, EndsWithGoes
    <3>3. LoopAsksNothing /\ LoopStartsNothing
      BY <2>1, <2>2, <3>1, <3>2 DEF LoopAsksNothing, LoopStartsNothing
    <3> QED BY <3>3, LoopKeepsWish
  <2> QED BY <2>2, <2>3, <2>4
<1>23. CASE TunnelWasUp
  <2>1. LoopAsksNothing
    BY <1>23, PagesKept
    DEF TunnelWasUp, LoopAsksNothing, TypeOK, LoopType
  <2>2. NothingAsked => LoopStartsNothing
    BY <1>23
    DEF TunnelWasUp, LoopStartsNothing, TunnelPcs, TypeOK, LoopType
  <2> QED BY <2>1, <2>2, LoopKeepsWish
<1>24. CASE LoopClosesAll
  <2>1. LoopAsksNothing
    BY <1>24, PagesClosed
    DEF LoopClosesAll, LoopAsksNothing, Goes, TypeOK, LoopType
  <2>2. NothingAsked => LoopStartsNothing
    BY <1>24
    DEF LoopClosesAll, LoopStartsNothing, Goes, TunnelPcs, TypeOK, LoopType
  <2> QED BY <2>1, <2>2, LoopKeepsWish
<1>25. CASE AfterUp
  <2>1. /\ loop.pc = "closed" /\ UNCHANGED <<wanted, demand, idle, th, run, tun>>
        /\ \/ LoopHead(AfterStop, Notified(page))
           \/ /\ IF HasDemand(page) THEN Show("error") /\ Goes("sleep")
                                    ELSE Show("idle") /\ loop' = LoopOff
              /\ explicit' = explicit
    BY <1>25 DEF AfterUp
  <2>2. CASE LoopHead(AfterStop, Notified(page))
    <3>1. LoopAsksNothing
      BY <2>1, <2>2, HeadAsksNothing, LoopHeadGoes DEF LoopAsksNothing, AfterStop
    <3>2. NothingAsked => LoopStartsNothing
      BY <2>1, <2>2, HeadStartsNothing DEF LoopStartsNothing
    <3> QED BY <3>1, <3>2, LoopKeepsWish
  <2>3. ASSUME Show("error") \/ Show("idle"), Goes("sleep") \/ loop' = LoopOff,
               explicit' = explicit
        PROVE  WishInv'
    <3>1. LoopAsksNothing /\ LoopStartsNothing
      BY <2>1, <2>3, ShowAsksNothing, LoopOffType
      DEF LoopAsksNothing, LoopStartsNothing, Goes, TypeOK, LoopType
    <3> QED BY <3>1, LoopKeepsWish
  <2> QED BY <2>1, <2>2, <2>3
<1>26. CASE LoopCancelled
  <2>1. LoopAsksNothing
    BY <1>26, PagesKept, LoopOffType DEF LoopCancelled, LoopAsksNothing, BackFromCall
  <2>2. ~NothingAsked
    BY <1>26 DEF LoopCancelled, NothingAsked
  <2> QED BY <2>1, <2>2, LoopKeepsWish
<1> QED BY <1>1, <1>2, <1>3, <1>4, <1>5, <1>6, <1>7, <1>8, <1>9, <1>10, <1>11, <1>12, <1>13,
      <1>14, <1>15, <1>16, <1>17, <1>18, <1>19, <1>20, <1>21, <1>22, <1>23, <1>24, <1>25,
      <1>26 DEF LoopSteps

LEMMA WishInit == Init => WishInv
  BY
  DEF Init, WishInv, Withdrawers, PagesFollow, NoneAsks, NothingStarts, Resting, OnIdlePath,
      IdlePath, LoopOff, IdleThread, Threads

LEMMA WishStep ==
  ASSUME OneWithdraws
  PROVE  TypeInv /\ StopInv /\ WishInv /\ [Next]_vars => WishInv'
<1> SUFFICES ASSUME TypeInv, StopInv, WishInv, [Next]_vars PROVE WishInv'
  OBVIOUS
<1>1. CASE UNCHANGED vars
  BY <1>1, PathKept, PagesKept, WishInvStays
  DEF vars, lifeVars, wishVars, pageVars, TypeInv, ShownStays, WishStays
<1>2. CASE Next
  <2>1. CASE RequestConnect
    BY <2>1, SecretsStepsKeepWish DEF Threads
  <2>2. CASE Disconnect
    BY <2>2, RequestDisconnectKeepsWish DEF Disconnect, RetPcs
  <2>3. ASSUME NEW t \in Threads, DisconnectSteps(t) \/ SecretsSteps(t) PROVE WishInv'
    BY <2>3, DisconnectStepsKeepWish, SecretsStepsKeepWish
  <2>4. ASSUME NEW a \in Accounts, SetupBegins(a) \/ SetupSteps PROVE WishInv'
    BY <2>4, SetupStepsKeepWish
  <2>5. Accounts # {}
    BY DEF TypeInv, TypeOK
  <2>6. CASE SetPassword \/ SetTOTP \/ NoteCodeShown \/ TypeCode \/ CancelCode \/ JobWaits \/
        JobEnds
    BY <2>6, EditStepsKeepWish
  <2>7. CASE TickChecksCisco \/ TickResumes \/ TickStopsIdle \/ TickerSteps
    BY <2>7, TickerStepsKeepWish
  <2>8. ASSUME NEW p \in Pages, PageSteps(p) PROVE WishInv'
    BY <2>8, PageStepsKeepWish
  <2>9. CASE DemandEnds \/ IdleElapses \/ WindowEnds
    BY <2>9, TimeKeepsWish
  <2>10. CASE LoopSteps
    BY <2>10, LoopStepsKeepWish
  <2>11. CASE TunnelSpawns
    <3>1. 1 \in Ids
      BY DaemonAssumption DEF Ids
    <3> QED BY <2>11, <3>1, TunnelKeepsWish
  <2>12. ASSUME NEW i \in Ids, TunnelSendsCode(i) \/ TunnelOpensPort(i) \/ TunnelExits(i)
         PROVE  WishInv'
    BY <2>12, TunnelKeepsWish
  <2>13. CASE Stop \/ RunCancels \/ RunEnds \/ Restart
    BY <2>13, RunStepsKeepWish
  <2> QED
    BY <1>2, <2>1, <2>2, <2>3, <2>4, <2>5, <2>6, <2>7, <2>8, <2>9, <2>10, <2>11, <2>12, <2>13
    DEF Next
<1> QED BY <1>1, <1>2

\* Only the loop with the secrets in its hands starts a tunnel.
LEMMA StartsInLoop ==
  ASSUME TypeInv, Next, Starts
  PROVE  loop.pc \in {"passwordRead", "totpRead"} /\ ~loop.cancelled
<1> USE DEF Starts, PageUnchanged, TunnelUnchanged, JobUnchanged
<1>1. ~RequestConnect /\ ~Disconnect
  BY DEF RequestConnect, Disconnect, RequestDisconnect
<1>2. ASSUME NEW t \in Threads, DisconnectSteps(t) \/ SecretsSteps(t) PROVE FALSE
  BY <1>2
  DEF DisconnectSteps, ThreadClosesAll, ThreadStops, ThreadStopped, LoopIsDone, ThreadClosesIdle,
      ThreadToIdle, SecretsSteps, SecretsChanged, Reconnects
<1>3. ASSUME NEW a \in Accounts, SetupBegins(a) PROVE FALSE
  BY <1>3 DEF SetupBegins
<1>4. ~SetupSteps
  BY DEF SetupSteps, SetupTearsDown, RequestDisconnect, SetupSwitches, SetupStores, SetupFails,
         SetupApplies
<1>5. ~(SetPassword \/ SetTOTP \/ NoteCodeShown \/ TypeCode \/ CancelCode \/ JobWaits \/ JobEnds)
  BY DEF SetPassword, SetTOTP, EditStores, NoteCodeShown, TypeCode, CancelCode, JobWaits, JobEnds
<1>6. ~(TickChecksCisco \/ TickResumes \/ TickStopsIdle \/ TickerSteps)
  BY DEF TickChecksCisco, TickResumes, TickStopsIdle, TickerSteps, TickCisco, TickEnds
<1>7. ASSUME NEW p \in Pages, PageSteps(p) PROVE FALSE
  BY <1>7 DEF PageSteps, PageOpens, PageLooksAgain, PageEnds, Traffic
<1>8. ~(DemandEnds \/ IdleElapses \/ WindowEnds)
  BY DEF DemandEnds, IdleElapses, WindowEnds
<1>9. ~TunnelSpawns /\ \A i \in Ids : ~(TunnelSendsCode(i) \/ TunnelOpensPort(i) \/ TunnelExits(i))
  BY DEF TunnelSpawns, TunnelSendsCode, TunnelOpensPort, TunnelExits
<1>10. ~(Stop \/ RunCancels \/ RunEnds \/ Restart)
  BY DEF Stop, RunCancels, RunEnds, Restart
<1>11. LoopSteps
  BY <1>1, <1>2, <1>3, <1>4, <1>5, <1>6, <1>7, <1>8, <1>9, <1>10 DEF Next
<1>12. ~(LoopBegins \/ LoopWakes \/ ReadWhileChanging \/ ReadFailed)
  BY DEF LoopBegins, LoopWakes, ReadWhileChanging, ReadFailed
<1>13. /\ \A cisco \in CiscoAnswers : ~LoopCisco(cisco)
       /\ \A online \in BOOLEAN : ~LoopProbe(online)
       /\ \A result \in Reads : ~PasswordIsRead(result) /\ ~TOTPIsRead(result)
  BY DEF LoopCisco, LoopProbe, PasswordIsRead, TOTPIsRead
<1>14. /\ \A st \in StartErrors : ~StartFails(st)
       /\ \A ready \in BOOLEAN : ~WaitReadyEnds(ready)
       /\ \A message \in Rejections : ~JudgeRejected(message)
       /\ ~StartReturns
  BY DEF StartFails, WaitReadyEnds, JudgeRejected, StartReturns
<1>15. ~(JudgeGoingAway \/ JudgeConnected \/ JudgeStale \/ DropStale \/ LoopStops \/ JudgeStopped
         \/ JudgeSlow \/ JudgeError)
  BY DEF JudgeGoingAway, JudgeConnected, JudgeStale, DropStale, LoopStops, JudgeStopped, JudgeSlow,
         JudgeError
<1>16. ~(TunnelWasUp \/ LoopClosesAll \/ AfterUp \/ LoopCancelled)
  BY DEF TunnelWasUp, LoopClosesAll, AfterUp, LoopCancelled
<1>17. PasswordThere \/ TOTPThere
  BY <1>11, <1>12, <1>13, <1>14, <1>15, <1>16 DEF LoopSteps
<1> QED BY <1>17 DEF PasswordThere, TOTPThere

\* While nobody asks, what is under way comes to its end and no tunnel follows it, as long as only
\* one kind of withdrawal can happen.
THEOREM WishInvariant == OneWithdraws => (Spec => []WishInv)
<1>1. ASSUME OneWithdraws PROVE Spec => []WishInv
  <2>1. TypeInv /\ StopInv /\ WishInv /\ [Next]_vars => WishInv'
    BY <1>1, WishStep
  <2> QED BY <2>1, TypesInvariant, StopInvariant, WishInit, PTL DEF Spec
<1> QED BY <1>1

\* A Disconnect, the teardown of a setup or the end of an idle tunnel holds: no tunnel starts until
\* someone asks again, wherever the loop, the pages and the tunnel that goes were at that moment.
THEOREM DisconnectHonouredAlways == OneWithdraws => (Spec => DisconnectHonoured)
<1>1. ASSUME TypeInv, WishInv, [Next]_vars PROVE [Starts => wanted]_vars
  <2>1. ASSUME Next, Starts PROVE wanted
    BY <1>1, <2>1, StartsInLoop DEF WishInv, NothingStarts, Resting, Ends, TunnelPcs
  <2> QED BY <1>1, <2>1
<1> QED BY <1>1, TypesInvariant, WishInvariant, PTL DEF Spec, DisconnectHonoured

-----------------------------------------------------------------------------
\* A code goes once.

\* Codes are used by the sign-ins of this core only: none is shown by the page or typed, the
\* gateway answers within the time of WaitReady, and the core is not stopped.  Each of the four
\* can make a marked window be forgotten or a code go past its attempt.
PlainSignIns == Events \cap {"slow", "totp", "code", "stop"} = {}

\* One attempt is under way at a time, and it is over before the loop drops it.
SlowPcs == {"stopChanged", "changedStopped", "stopSlow", "slowStopped"}
AttemptInv ==
    /\ run = "up" /\ ~onceCode
    /\ th["edit"].pc # "noteCode"
    /\ loop.pc \notin SlowPcs
    /\ \A i \in Ids : i # tun => Exited(i)
    /\ loop.pc \in {"judge", "awaitExit", "up"} => tunnels[tun].phase \notin {"new", "up"}
    /\ loop.pc = "judge" /\ ~loop.ready => Exited(tun)

\* The windows that were used are marked, but for the one of the attempt that signs in: then
\* the attempt's own code is the latest.  Until it has sent one, this window is still unused.
Signing == {"start", "waitReady", "judge", "awaitExit"}
UsedUpTo(w) == \A u \in used : u <= w
Sent == tunnels[tun].code
CodesDated ==
    \A i \in Ids : /\ tunnels[i].code <= now
                   /\ tunnels[i].phase = "new" => tunnels[i].code = 0
SentIsLatest ==
    loop.pc \in Signing =>
        /\ Sent # 0 => UsedUpTo(Sent)
        /\ Sent = 0 => UsedUpTo(lastStep) /\ now \notin used
        /\ Sent = 0 /\ loop.pc = "start" => lastStep # now
WindowInv ==
    /\ lastStep <= now /\ UsedUpTo(now) /\ CodesDated
    /\ loop.pc \in ReadPcs => lastStep # now
    /\ loop.pc \notin Signing => UsedUpTo(lastStep)
    /\ SentIsLatest

CodeTimesInv == AttemptInv /\ WindowInv

\* Steps next to the loop: the attempt and the marks stay.
TunnelsGoOn ==
    \A i \in Ids : tunnels'[i].phase = tunnels[i].phase /\ tunnels'[i].code = tunnels[i].code
LoopWaits ==
    \/ loop'.pc = loop.pc /\ loop'.ready = loop.ready
    \/ loop'.pc = "begin" /\ loop.pc = "off"
MarksStay ==
    /\ UNCHANGED <<run, tun, now, used, lastStep>> /\ (onceCode' => onceCode)
    /\ th'["edit"].pc # "noteCode"

LEMMA CodeTimesStay ==
  ASSUME TypeInv, CodeTimesInv, TunnelsGoOn, LoopWaits, MarksStay
  PROVE  CodeTimesInv'
<1> USE DEF TypeInv, CodeTimesInv, TunnelsGoOn, LoopWaits, MarksStay
<1>1. AttemptInv'
  BY DEF AttemptInv, SlowPcs, Exited, LoopHasTunnel, TunnelPcs
<1>2. WindowInv'
  BY DEF WindowInv, CodesDated, SentIsLatest, Sent, UsedUpTo, ReadPcs, Signing, LoopHasTunnel,
         TunnelPcs
<1> QED BY <1>1, <1>2

LEMMA LoopWaitsIfKept == loop' = loop => LoopWaits
  BY DEF LoopWaits
LEMMA LoopWaitsIfEnsured == TypeOK /\ loop' = Ensured => LoopWaits
  BY LoopOffType DEF LoopWaits, Ensured, TypeOK, LoopType
LEMMA LoopWaitsIfConnects == TypeOK /\ ConnectLocked => LoopWaits
  BY LoopWaitsIfEnsured DEF ConnectLocked
LEMMA LoopWaitsIfCancels ==
  TypeOK /\ loop' = [loop EXCEPT !.cancelled = TRUE] => LoopWaits
  BY DEF LoopWaits, TypeOK, LoopType

LEMMA TunnelsKeptGoOn == tunnels' = tunnels => TunnelsGoOn
  BY DEF TunnelsGoOn
LEMMA MarkingGoesOn ==
  ASSUME TypeOK, NEW i \in Ids \cup {0}, tunnels' = MarkStopping(i)
  PROVE  TunnelsGoOn
  BY DEF TypeOK, MarkStopping, TunnelsGoOn, TunnelType

\* The thread "edit" notes no code.
LEMMA EditIfBecomes ==
  ASSUME TypeOK, AttemptInv, NEW t \in Threads, NEW r, r.pc # "noteCode",
         th' = [th EXCEPT ![t] = r]
  PROVE  th'["edit"].pc # "noteCode"
  BY DEF TypeOK, AttemptInv, Threads

LEMMA EditIfGoesTo ==
  ASSUME TypeOK, AttemptInv, NEW t \in Threads, NEW pc \in ThreadPcs \ {"noteCode"},
         th' = [th EXCEPT ![t].pc = pc]
  PROVE  th'["edit"].pc # "noteCode"
<1> DEFINE r == [th[t] EXCEPT !.pc = pc]
<1>1. r.pc = pc /\ th' = [th EXCEPT ![t] = r]
  BY DEF TypeOK, ThreadType
<1> HIDE DEF r
<1> QED BY <1>1, EditIfBecomes

LEMMA EditIfRests ==
  ASSUME TypeOK, AttemptInv, NEW t \in Threads, th' = [th EXCEPT ![t] = IdleThread]
  PROVE  th'["edit"].pc # "noteCode"
  BY IdleType, EditIfBecomes

LEMMA EditIfReturns ==
  ASSUME TypeOK, AttemptInv, NEW t \in Threads, th' = [th EXCEPT ![t] = Returned(t)]
  PROVE  th'["edit"].pc # "noteCode"
<1>1. Returned(t).pc \in RetPcs
  BY ReturnedType DEF TypeOK, ThreadType
<1> HIDE DEF Returned
<1> QED BY <1>1, EditIfBecomes DEF RetPcs

LEMMA EditIfCalls ==
  ASSUME TypeOK, AttemptInv, NEW t \in Threads, NEW pc \in {"closeAll", "stop", "runWait"},
         NEW i \in Ids \cup {0}, NEW ret \in RetPcs, th' = [th EXCEPT ![t] = Calls(t, pc, i, ret)]
  PROVE  th'["edit"].pc # "noteCode"
<1>1. Calls(t, pc, i, ret).pc = pc
  BY CallsType DEF ThreadPcs
<1> HIDE DEF Calls
<1> QED BY <1>1, EditIfBecomes

LEMMA DisconnectStepsKeepTimes ==
  ASSUME TypeInv, CodeTimesInv, NEW t \in Threads, DisconnectSteps(t)
  PROVE  CodeTimesInv'
<1> USE DEF TypeInv, flagVars, codeVars, lifeVars
<1>1. AttemptInv
  BY DEF CodeTimesInv
<1>2. loop' = loop /\ UNCHANGED <<run, tun, now, used, lastStep, onceCode>>
  BY DEF DisconnectSteps, ThreadClosesAll, ThreadStops, ThreadStopped, LoopIsDone,
         ThreadClosesIdle, ThreadToIdle
<1>3. TunnelsGoOn
  <2>1. th[t].tgt \in Ids \cup {0}
    BY DEF TypeOK, ThreadType
  <2>2. tunnels' = tunnels \/ tunnels' = MarkStopping(th[t].tgt)
    BY DEF DisconnectSteps, ThreadClosesAll, ThreadStops, ThreadStopped, LoopIsDone,
           ThreadClosesIdle, ThreadToIdle
  <2> QED BY <2>1, <2>2, MarkingGoesOn, TunnelsKeptGoOn
<1>4. th'["edit"].pc # "noteCode"
  <2>1. CASE ThreadStops(t) \/ ThreadStopped(t) \/ ThreadToIdle(t)
    <3>1. \/ th' = [th EXCEPT ![t].pc = "stopping"]
          \/ th' = [th EXCEPT ![t] = Returned(t)]
      BY <2>1 DEF ThreadStops, ThreadStopped, ThreadToIdle
    <3> QED BY <1>1, <3>1, EditIfGoesTo, EditIfReturns DEF ThreadPcs
  <2>2. CASE ThreadClosesAll(t) \/ LoopIsDone(t) \/ ThreadClosesIdle(t)
    BY <1>1, <2>2, EditIfGoesTo DEF ThreadClosesAll, LoopIsDone, ThreadClosesIdle, ThreadPcs
  <2> QED BY <2>1, <2>2 DEF DisconnectSteps
<1> QED BY <1>2, <1>3, <1>4, LoopWaitsIfKept, CodeTimesStay DEF MarksStay

LEMMA SecretsStepsKeepTimes ==
  ASSUME TypeInv, CodeTimesInv, NEW t \in Threads, RequestConnect \/ SecretsSteps(t)
  PROVE  CodeTimesInv'
<1> USE DEF TypeInv, flagVars, codeVars, lifeVars
<1>1. AttemptInv
  BY DEF CodeTimesInv
<1>2. LoopWaits
  BY LoopWaitsIfKept, LoopWaitsIfConnects
  DEF RequestConnect, SecretsSteps, SecretsChanged, Reconnects
<1>3. UNCHANGED <<run, tun, now, used, lastStep, onceCode>> /\ tunnels' = tunnels
  BY DEF RequestConnect, SecretsSteps, SecretsChanged, Reconnects
<1>4. th'["edit"].pc # "noteCode"
  <2>1. \/ th' = th
        \/ th' = [th EXCEPT ![t] = IdleThread]
        \/ th' = [th EXCEPT ![t] = Calls(t, "stop", tun, "reconnect")]
    BY DEF RequestConnect, SecretsSteps, SecretsChanged, Reconnects
  <2>2. th' = th => th'["edit"].pc # "noteCode"
    BY <1>1 DEF AttemptInv
  <2> QED BY <1>1, <2>1, <2>2, EditIfRests, EditIfCalls DEF TypeOK, RetPcs
<1> QED BY <1>2, <1>3, <1>4, TunnelsKeptGoOn, CodeTimesStay DEF MarksStay

LEMMA RequestDisconnectKeepsTimes ==
  ASSUME TypeInv, CodeTimesInv, NEW t \in Threads, NEW ret \in RetPcs, RequestDisconnect(t, ret)
  PROVE  CodeTimesInv'
<1> USE DEF TypeInv, flagVars, codeVars, lifeVars
<1>1. LoopWaits
  BY LoopWaitsIfKept, LoopWaitsIfCancels DEF RequestDisconnect
<1>2. UNCHANGED <<run, tun, now, used, lastStep, tunnels>> /\ ~onceCode'
  BY DEF RequestDisconnect
<1>3. th'["edit"].pc # "noteCode"
  <2>1. PICK pc \in {"closeAll", "waitDone", "closeIdle"} :
          \E i \in Ids \cup {0} : th' = Raced([th EXCEPT ![t] = Calls(t, pc, i, ret)])
    BY DEF RequestDisconnect, TypeOK
  <2>2. PICK i \in Ids \cup {0} : th' = Raced([th EXCEPT ![t] = Calls(t, pc, i, ret)])
    BY <2>1
  <2> DEFINE r == Calls(t, pc, i, ret)
             f == [th EXCEPT ![t] = r]
  <2>3. r \in ThreadType /\ r.pc = pc
    BY CallsType DEF ThreadPcs
  <2> HIDE DEF r
  <2>4. f \in [Threads -> ThreadType] /\ f["edit"].pc # "noteCode"
    BY <2>3 DEF TypeOK, CodeTimesInv, AttemptInv, Threads
  <2> HIDE DEF f
  <2>5. th' = Raced(f)
    BY <2>2 DEF f, r
  <2> QED BY <2>4, <2>5, RacedType DEF Threads
<1> QED BY <1>1, <1>2, <1>3, TunnelsKeptGoOn, CodeTimesStay DEF MarksStay

LEMMA SetupStepsKeepTimes ==
  ASSUME TypeInv, CodeTimesInv, PlainSignIns, NEW a \in Accounts, SetupBegins(a) \/ SetupSteps
  PROVE  CodeTimesInv'
<1> USE DEF TypeInv, flagVars, codeVars, lifeVars
<1>1. CASE SetupTearsDown
  BY <1>1, RequestDisconnectKeepsTimes DEF SetupTearsDown, Threads, RetPcs
<1>2. CASE SetupBegins(a) \/ SetupSwitches \/ SetupStores \/ SetupFails
  <2>1. loop' = loop /\ UNCHANGED <<run, tun, now, used, lastStep, tunnels, onceCode>>
    BY <1>2 DEF SetupBegins, SetupSwitches, SetupStores, SetupFails
  <2>2. th'["edit"].pc # "noteCode"
    BY <1>2
    DEF SetupBegins, SetupSwitches, SetupStores, SetupFails, CodeTimesInv, AttemptInv, TypeOK,
        Threads
  <2> QED BY <2>1, <2>2, LoopWaitsIfKept, TunnelsKeptGoOn, CodeTimesStay DEF MarksStay
<1>3. ASSUME NEW typed \in {FALSE, "code" \in Events}, SetupApplies(typed) PROVE CodeTimesInv'
  <2>1. ~typed
    BY <1>3 DEF PlainSignIns
  <2>2. loop' = loop /\ UNCHANGED <<run, tun, now, used, lastStep, tunnels, onceCode>>
    BY <1>3, <2>1 DEF SetupApplies
  <2>3. th'["edit"].pc # "noteCode"
    BY <1>3 DEF SetupApplies, CodeTimesInv, AttemptInv, TypeOK, Threads
  <2> QED BY <2>2, <2>3, LoopWaitsIfKept, TunnelsKeptGoOn, CodeTimesStay DEF MarksStay
<1> QED BY <1>1, <1>2, <1>3 DEF SetupSteps

LEMMA EditStepsKeepTimes ==
  ASSUME TypeInv, CodeTimesInv, PlainSignIns,
         SetPassword \/ SetTOTP \/ NoteCodeShown \/ TypeCode \/ CancelCode \/ JobWaits \/ JobEnds
  PROVE  CodeTimesInv'
<1> USE DEF TypeInv, flagVars, codeVars, lifeVars
<1>1. SetPassword \/ CancelCode \/ JobWaits \/ JobEnds
  BY DEF SetTOTP, NoteCodeShown, TypeCode, PlainSignIns, CodeTimesInv, AttemptInv
<1>2. /\ loop' = loop /\ UNCHANGED <<run, tun, now, used, lastStep, tunnels>>
      /\ onceCode' => onceCode
  BY <1>1 DEF SetPassword, EditStores, CancelCode, JobWaits, JobEnds, JobUnchanged
<1>3. th'["edit"].pc # "noteCode"
  BY <1>1
  DEF SetPassword, EditStores, CancelCode, JobWaits, JobEnds, CodeTimesInv, AttemptInv, TypeOK,
      Threads, ThreadType
<1> QED BY <1>2, <1>3, LoopWaitsIfKept, TunnelsKeptGoOn, CodeTimesStay DEF MarksStay

LEMMA TickerStepsKeepTimes ==
  ASSUME TypeInv, CodeTimesInv, TickChecksCisco \/ TickResumes \/ TickStopsIdle \/ TickerSteps
  PROVE  CodeTimesInv'
<1> USE DEF TypeInv, flagVars, codeVars, lifeVars
<1>1. loop' = loop /\ UNCHANGED <<run, tun, now, used, lastStep, tunnels, onceCode>>
  BY DEF TickChecksCisco, TickResumes, TickStopsIdle, TickerSteps, TickCisco, TickEnds
<1>2. th'["edit"] = th["edit"]
  BY DEF TickChecksCisco, TickResumes, TickStopsIdle, TickerSteps, TickCisco, TickEnds, TypeOK,
         Threads
<1> QED
  BY <1>1, <1>2, LoopWaitsIfKept, TunnelsKeptGoOn, CodeTimesStay
  DEF MarksStay, CodeTimesInv, AttemptInv

LEMMA PageStepsKeepTimes ==
  ASSUME TypeInv, CodeTimesInv, NEW p \in Pages, PageSteps(p)
  PROVE  CodeTimesInv'
<1> USE DEF TypeInv, flagVars, codeVars, lifeVars, PageUnchanged
<1>1. UNCHANGED <<run, tun, now, used, lastStep, tunnels, onceCode, th>>
  BY DEF PageSteps, PageOpens, PageLooksAgain, PageEnds, Traffic
<1>2. loop' = loop \/ loop' = Ensured
  BY DEF PageSteps, PageOpens, PageLooksAgain, PageEnds, Traffic, AcquirePass
<1> QED
  BY <1>1, <1>2, LoopWaitsIfKept, LoopWaitsIfEnsured, TunnelsKeptGoOn, CodeTimesStay
  DEF MarksStay, CodeTimesInv, AttemptInv

\* Time passes: a new window is unused.
LEMMA TimeKeepsTimes ==
  ASSUME TypeInv, CodeTimesInv, DemandEnds \/ IdleElapses \/ WindowEnds
  PROVE  CodeTimesInv'
<1> USE DEF TypeInv, flagVars, codeVars, lifeVars, PageUnchanged
<1>1. CASE DemandEnds \/ IdleElapses
  <2>1. UNCHANGED <<run, tun, now, used, lastStep, tunnels, onceCode, th, loop>>
    BY <1>1 DEF DemandEnds, IdleElapses
  <2> QED
    BY <2>1, LoopWaitsIfKept, TunnelsKeptGoOn, CodeTimesStay
    DEF MarksStay, CodeTimesInv, AttemptInv
<1>2. CASE WindowEnds
  <2>1. UNCHANGED <<run, tun, used, lastStep, tunnels, onceCode, th, loop>> /\ now' = now + 1
    BY <1>2 DEF WindowEnds
  <2>2. /\ now \in Nat /\ lastStep \in Nat /\ used \subseteq Nat
        /\ \A i \in Ids : tunnels[i].code \in Nat
    BY DaemonAssumption DEF TypeOK, TunnelType
  <2>3. AttemptInv'
    BY <2>1 DEF CodeTimesInv, AttemptInv, Exited
  <2>4. UsedUpTo(now)' /\ now' \notin used' /\ lastStep' < now' /\ CodesDated'
    BY <2>1, <2>2 DEF CodeTimesInv, WindowInv, UsedUpTo, CodesDated
  <2>5. WindowInv'
    BY <2>1, <2>2, <2>4 DEF CodeTimesInv, WindowInv, UsedUpTo, SentIsLatest, Sent
  <2> QED BY <2>3, <2>5 DEF CodeTimesInv
<1> QED BY <1>1, <1>2

\* A process.  The one that may still send a code is the attempt that signs in.
LEMMA SenderSigns ==
  ASSUME TypeInv, StopInv, CodeTimesInv, NEW i \in Ids, tunnels[i].phase \in {"new", "up"}
  PROVE  i = tun /\ loop.pc \in {"start", "waitReady"}
<1> USE DEF TypeInv
<1>1. i = tun
  BY DEF CodeTimesInv, AttemptInv, Exited
<1>2. loop.pc \in TunnelPcs
  BY <1>1 DEF StopInv, LoopHasNone, OffHasNone, CodeTimesInv, AttemptInv, Ids
<1> QED BY <1>1, <1>2 DEF CodeTimesInv, AttemptInv, SlowPcs, TunnelPcs

LEMMA SendKeepsTimes ==
  ASSUME TypeInv, StopInv, CodeTimesInv, NEW i \in Ids, TunnelSendsCode(i)
  PROVE  CodeTimesInv' /\ now \notin used
<1> USE DEF TypeInv, flagVars, codeVars, lifeVars, TunnelUnchanged
<1>1. i = tun /\ loop.pc \in {"start", "waitReady"} /\ Sent = 0
  BY SenderSigns DEF TunnelSendsCode, Sent
<1>2. now \notin used
  BY <1>1 DEF CodeTimesInv, WindowInv, SentIsLatest, Signing
<1>3. /\ UNCHANGED <<run, tun, now, lastStep, onceCode, th, loop>> /\ used' = used \cup {now}
      /\ tunnels' = [tunnels EXCEPT ![i].code = now]
  BY DEF TunnelSendsCode
<1>4. /\ \A j \in Ids : tunnels'[j].phase = tunnels[j].phase
      /\ \A j \in Ids : tunnels'[j].code = IF j = i THEN now ELSE tunnels[j].code
  BY <1>3 DEF TypeOK, TunnelType
<1>5. AttemptInv'
  BY <1>1, <1>3, <1>4 DEF CodeTimesInv, AttemptInv, Exited
<1>6. now \in Nat \ {0} /\ lastStep \in Nat
  BY DaemonAssumption DEF TypeOK
<1>7. UsedUpTo(now)' /\ Sent' = now
  BY <1>1, <1>3, <1>4, <1>6 DEF CodeTimesInv, WindowInv, UsedUpTo, Sent
<1>8. CodesDated'
  BY <1>3, <1>4, <1>6 DEF CodeTimesInv, WindowInv, CodesDated, TunnelSendsCode
<1>9. WindowInv'
  BY <1>1, <1>3, <1>6, <1>7, <1>8
  DEF CodeTimesInv, WindowInv, UsedUpTo, SentIsLatest, Signing, ReadPcs
<1> QED BY <1>2, <1>5, <1>9 DEF CodeTimesInv

LEMMA TunnelKeepsTimes ==
  ASSUME TypeInv, StopInv, CodeTimesInv, NEW i \in Ids,
         TunnelSpawns \/ TunnelSendsCode(i) \/ TunnelOpensPort(i) \/ TunnelExits(i)
  PROVE  CodeTimesInv'
<1> USE DEF TypeInv, flagVars, codeVars, lifeVars, TunnelUnchanged
<1>1. CASE TunnelSendsCode(i)
  BY <1>1, SendKeepsTimes
<1>2. CASE TunnelSpawns \/ TunnelOpensPort(i) \/ TunnelExits(i)
  <2>1. UNCHANGED <<run, tun, now, used, lastStep, onceCode, th, loop>>
    BY <1>2 DEF TunnelSpawns, TunnelOpensPort, TunnelExits
  <2>2. \A j \in Ids : /\ tunnels'[j].code = tunnels[j].code
                       /\ tunnels'[j].phase = "new" => tunnels[j].phase = "new"
                       /\ Exited(j) => tunnels'[j].phase = "exited"
                       /\ tunnels'[j].phase = "up" => tunnels[j].phase \in {"new", "up"}
    <3>1. CASE TunnelSpawns
      <4>1. tun \in Ids
        BY <3>1 DEF TunnelSpawns, LoopHasTunnel, TunnelPcs
      <4> QED BY <3>1, <4>1 DEF TunnelSpawns, TypeOK, TunnelType, Exited
    <3>2. CASE TunnelOpensPort(i)
      BY <3>2 DEF TunnelOpensPort, TypeOK, TunnelType, Exited
    <3>3. CASE TunnelExits(i)
      <4>1. i = tun
        BY <3>3 DEF TunnelExits, CodeTimesInv, AttemptInv, Exited
      <4> QED BY <3>3, <4>1 DEF TunnelExits, TypeOK, TunnelType, Exited
    <3> QED BY <1>2, <3>1, <3>2, <3>3
  <2>3. loop.pc \in TunnelPcs => tun \in Ids
    BY DEF LoopHasTunnel
  <2>4. AttemptInv'
    BY <2>1, <2>2, <2>3 DEF CodeTimesInv, AttemptInv, Exited, TunnelPcs
  <2>5. WindowInv'
    BY <2>1, <2>2, <2>3
    DEF CodeTimesInv, WindowInv, UsedUpTo, CodesDated, SentIsLatest, Sent, Signing, TunnelPcs
  <2> QED BY <2>4, <2>5 DEF CodeTimesInv
<1> QED BY <1>1, <1>2

\* The end of the program is far.
LEMMA RunStepsKeepTimes ==
  ASSUME TypeInv, StopInv, CodeTimesInv, PlainSignIns, Stop \/ RunCancels \/ RunEnds \/ Restart
  PROVE  FALSE
<1>1. ~Stop
  BY DEF Stop, PlainSignIns
<1>2. run = "up"
  BY DEF CodeTimesInv, AttemptInv
<1> QED
  BY <1>1, <1>2 DEF RunCancels, RunEnds, Restart, StopInv, RunThread

\* The connect loop.

\* Without an attempt, before and after.
LEMMA RestingLoopKeepsTimes ==
  ASSUME TypeInv, CodeTimesInv, {loop.pc, loop'.pc} \cap TunnelPcs = {},
         loop'.pc \in ReadPcs => lastStep # now, onceCode' => onceCode,
         UNCHANGED <<run, tun, tunnels, now, used, lastStep, th>>
  PROVE  CodeTimesInv'
<1> USE DEF TypeInv
<1>1. AttemptInv'
  BY DEF CodeTimesInv, AttemptInv, SlowPcs, TunnelPcs, Exited
<1>2. WindowInv'
  BY DEF CodeTimesInv, WindowInv, UsedUpTo, CodesDated, SentIsLatest, Signing, TunnelPcs
<1> QED BY <1>1, <1>2 DEF CodeTimesInv

\* The window the loop notes after an attempt is not before any that was used.
LEMMA CodeWindowIsLatest ==
  ASSUME TypeInv, CodeTimesInv, loop.pc \in Signing
  PROVE  UsedUpTo(CodeWindow) /\ CodeWindow <= now
<1>1. tun \in Ids
  BY DEF TypeInv, LoopHasTunnel, Signing, TunnelPcs
<1> QED
  BY <1>1 DEF CodeTimesInv, WindowInv, UsedUpTo, CodesDated, SentIsLatest, Sent, CodeWindow

\* The loop drops an attempt that is over.
LEMMA DropKeepsTimes ==
  ASSUME TypeInv, CodeTimesInv, tun \in Ids, tun' = 0,
         \A i \in Ids : /\ i = tun \/ tunnels[i].phase = "exited" => tunnels'[i].phase = "exited"
                        /\ tunnels'[i].code \in {0, tunnels[i].code},
         UNCHANGED <<run, now, used, th>>, onceCode' => onceCode,
         loop'.pc \notin TunnelPcs \cup ReadPcs, lastStep' <= now, UsedUpTo(lastStep')
  PROVE  CodeTimesInv'
<1> USE DEF TypeInv
<1>1. \A i \in Ids : tunnels'[i].phase = "exited"
  BY DEF CodeTimesInv, AttemptInv, Exited
<1>2. AttemptInv'
  BY <1>1 DEF CodeTimesInv, AttemptInv, SlowPcs, TunnelPcs, Exited
<1>3. CodesDated'
  <2>1. now \in Nat
    BY DEF TypeOK
  <2> QED BY <1>1, <2>1 DEF CodeTimesInv, WindowInv, CodesDated
<1>4. WindowInv'
  BY <1>3 DEF CodeTimesInv, WindowInv, UsedUpTo, SentIsLatest, Signing, TunnelPcs
<1> QED BY <1>2, <1>4 DEF CodeTimesInv

LEMMA DroppedIsOver ==
  ASSUME TypeInv, tun \in Ids, Exited(tun), tunnels' = Dropped
  PROVE  \A i \in Ids : /\ i = tun \/ tunnels[i].phase = "exited" => tunnels'[i].phase = "exited"
                        /\ tunnels'[i].code \in {0, tunnels[i].code}
  BY DeadType DEF TypeInv, TypeOK, Dropped, Exited, Dead

\* NotReady, with a gateway that answers in time: openconnect has exited.
LEMMA NotReadyIsOver ==
  ASSUME TypeInv, CodeTimesInv, NotReady
  PROVE  tun \in Ids /\ Exited(tun) /\ loop.pc \in Signing /\ loop.pc \in TunnelPcs
  BY DEF TypeInv, CodeTimesInv, AttemptInv, NotReady, LoopHasTunnel, Signing, TunnelPcs

LEMMA JudgedKeepsTimes ==
  ASSUME TypeInv, CodeTimesInv, NotReady, tun' = 0, tunnels' = Dropped, lastStep' = CodeWindow,
         UNCHANGED <<run, now, used, th>>, onceCode' => onceCode,
         loop'.pc \in {"off", "cisco", "sleep"}
  PROVE  CodeTimesInv'
<1> USE DEF TypeInv
<1>1. tun \in Ids /\ Exited(tun) /\ loop.pc \in Signing
  BY NotReadyIsOver
<1>2. UsedUpTo(lastStep') /\ lastStep' <= now
  BY <1>1, CodeWindowIsLatest
<1>3. loop'.pc \notin TunnelPcs \cup ReadPcs
  BY DEF TunnelPcs, ReadPcs
<1> QED BY <1>1, <1>2, <1>3, DroppedIsOver, DropKeepsTimes

\* A new attempt: this window is unused.
LEMMA StartKeepsTimes ==
  ASSUME TypeInv, StopInv, CodeTimesInv, loop.pc \in {"passwordRead", "totpRead"},
         NEW typed \in BOOLEAN, StartsTunnel(typed), onceCode' => onceCode,
         UNCHANGED <<run, now, used, th, lastStep>>
  PROVE  CodeTimesInv'
<1> USE DEF TypeInv
<1>1. tun = 0
  BY DEF StopInv, LoopHasNone, TunnelPcs
<1>2. PICK i \in Ids :
        /\ tun' = i
        /\ tunnels' = [tunnels EXCEPT ![i] = [Dead EXCEPT !.phase = "new", !.user = cfgUser,
                           !.host = cfgHost, !.owner = loop.owner, !.ver = loop.ver,
                           !.once = typed]]
        /\ loop'.pc = "start"
  BY DEF StartsTunnel, FreeIds, TypeOK, LoopType
<1>3. tunnels'[i].phase = "new" /\ tunnels'[i].code = 0
  BY <1>2 DEF TypeOK, Dead
<1>4. \A j \in Ids : j # i => tunnels'[j] = tunnels[j]
  BY <1>2 DEF TypeOK
<1>5. AttemptInv'
  BY <1>1, <1>2, <1>4 DEF CodeTimesInv, AttemptInv, SlowPcs, Exited, Ids
<1>6. now \in Nat \ {0} /\ lastStep \in Nat /\ used \subseteq Nat
  BY DaemonAssumption DEF TypeOK
<1>7. CodesDated'
  BY <1>3, <1>4, <1>6 DEF CodeTimesInv, WindowInv, CodesDated
<1>8. UsedUpTo(lastStep) /\ lastStep # now /\ lastStep <= now /\ UsedUpTo(now)
  BY DEF CodeTimesInv, WindowInv, Signing, ReadPcs
<1>9. now \notin used
  BY <1>6, <1>8 DEF UsedUpTo
<1>10. WindowInv'
  BY <1>2, <1>3, <1>7, <1>8, <1>9
  DEF WindowInv, UsedUpTo, SentIsLatest, Sent, Signing, ReadPcs
<1> QED BY <1>5, <1>10 DEF CodeTimesInv

\* Cancelled without a stop of the core, the loop has no attempt.
LEMMA CancelledHasNone ==
  ASSUME TypeInv, StopInv, CodeTimesInv, loop.cancelled
  PROVE  loop.pc \notin TunnelPcs
  BY DEF TypeInv, StopInv, OffHasNone, CodeTimesInv, AttemptInv, LoopHasTunnel, Ids

LEMMA HeadDropsCode ==
  ASSUME NEW st, NEW pg, LoopHead(st, pg) PROVE onceCode' => onceCode
  BY DEF LoopHead

LEMMA LoopStepsKeepTimes ==
  ASSUME TypeInv, StopInv, CodeTimesInv, PlainSignIns, NeedsTOTP, LoopSteps
  PROVE  CodeTimesInv'
<1> USE DEF TypeInv, LoopUnchanged, flagVars, codeVars
<1>1. CASE LoopBegins
  <2>1. {loop.pc, loop'.pc} \cap (TunnelPcs \cup ReadPcs) = {} /\ (onceCode' => onceCode)
    BY <1>1, LoopHeadGoes, HeadDropsCode DEF LoopBegins, TunnelPcs, ReadPcs, TypeOK, LoopType
  <2> QED BY <1>1, <2>1, RestingLoopKeepsTimes DEF LoopBegins
<1>2. CASE LoopWakes
  <2>1. {loop.pc, loop'.pc} \cap (TunnelPcs \cup ReadPcs) = {} /\ (onceCode' => onceCode)
    BY <1>2, LoopHeadGoes, HeadDropsCode DEF LoopWakes, TunnelPcs, ReadPcs, TypeOK, LoopType
  <2> QED BY <1>2, <2>1, RestingLoopKeepsTimes DEF LoopWakes
<1>3. ASSUME NEW cisco \in CiscoAnswers, LoopCisco(cisco) PROVE CodeTimesInv'
  <2>1. {loop.pc, loop'.pc} \cap (TunnelPcs \cup ReadPcs) = {} /\ (onceCode' => onceCode)
    BY <1>3 DEF LoopCisco, Goes, TunnelPcs, ReadPcs, TypeOK, LoopType
  <2> QED BY <1>3, <2>1, RestingLoopKeepsTimes DEF LoopCisco
<1>4. ASSUME NEW online \in BOOLEAN, LoopProbe(online) PROVE CodeTimesInv'
  <2>1. {loop.pc, loop'.pc} \cap TunnelPcs = {} /\ loop'.pc \in {"sleep", "password"}
    BY <1>4 DEF LoopProbe, Goes, TunnelPcs, TypeOK, LoopType
  <2>2. loop'.pc = "password" => lastStep # now
    <3>1. ~onceCode
      BY DEF CodeTimesInv, AttemptInv
    <3>2. ASSUME Goes("sleep") PROVE loop'.pc = "sleep"
      BY <3>2 DEF Goes, TypeOK, LoopType
    <3>3. Goes("sleep") \/ ~CodeIsUsed
      BY <1>4, <3>1 DEF LoopProbe
    <3> QED BY <3>2, <3>3 DEF CodeIsUsed
  <2>3. UNCHANGED <<run, tun, tunnels, now, used, lastStep, th, onceCode>>
    BY <1>4 DEF LoopProbe
  <2> QED BY <2>1, <2>2, <2>3, RestingLoopKeepsTimes DEF ReadPcs
<1>5. ASSUME NEW result \in Reads, PasswordIsRead(result) PROVE CodeTimesInv'
  <2>1. /\ {loop.pc, loop'.pc} \cap TunnelPcs = {} /\ loop.pc \in ReadPcs
        /\ onceCode' => onceCode
    BY <1>5 DEF PasswordIsRead, TunnelPcs, ReadPcs, TypeOK, LoopType
  <2>2. lastStep # now
    BY <2>1 DEF CodeTimesInv, WindowInv
  <2> QED BY <1>5, <2>1, <2>2, RestingLoopKeepsTimes DEF PasswordIsRead
<1>6. ASSUME NEW result \in Reads, TOTPIsRead(result) PROVE CodeTimesInv'
  <2>1. /\ {loop.pc, loop'.pc} \cap TunnelPcs = {} /\ loop.pc \in ReadPcs
        /\ onceCode' => onceCode
    BY <1>6 DEF TOTPIsRead, TunnelPcs, ReadPcs, TypeOK, LoopType
  <2>2. lastStep # now
    BY <2>1 DEF CodeTimesInv, WindowInv
  <2> QED BY <1>6, <2>1, <2>2, RestingLoopKeepsTimes DEF TOTPIsRead
<1>7. CASE ReadWhileChanging
  <2>1. /\ {loop.pc, loop'.pc} \cap TunnelPcs = {} /\ loop.pc \in ReadPcs
        /\ onceCode' => onceCode
    BY <1>7, LoopHeadGoes, HeadDropsCode
    DEF ReadWhileChanging, Goes, TunnelPcs, ReadPcs, TypeOK, LoopType
  <2>2. lastStep # now
    BY <2>1 DEF CodeTimesInv, WindowInv
  <2> QED BY <1>7, <2>1, <2>2, RestingLoopKeepsTimes DEF ReadWhileChanging
<1>8. CASE ReadFailed
  <2>1. /\ {loop.pc, loop'.pc} \cap TunnelPcs = {} /\ loop.pc \in ReadPcs
        /\ onceCode' => onceCode
    BY <1>8, EndsWithGoes DEF ReadFailed, TunnelPcs, ReadPcs, TypeOK, LoopType
  <2>2. lastStep # now
    BY <2>1 DEF CodeTimesInv, WindowInv
  <2> QED BY <1>8, <2>1, <2>2, RestingLoopKeepsTimes DEF ReadFailed
<1>9. CASE PasswordThere
  <2>1. CASE Goes("totp")
    <3>1. loop'.pc = "totp" /\ loop.pc = "passwordRead"
      BY <1>9, <2>1 DEF PasswordThere, Goes, TypeOK, LoopType
    <3>2. lastStep # now
      BY <3>1 DEF CodeTimesInv, WindowInv, ReadPcs
    <3>3. NeedsTOTP /\ ~onceCode
      BY DEF CodeTimesInv, AttemptInv
    <3>4. UNCHANGED <<run, tun, tunnels, now, used, lastStep, th, onceCode>>
      BY <1>9, <3>3 DEF PasswordThere
    <3> QED BY <3>1, <3>2, <3>4, RestingLoopKeepsTimes DEF TunnelPcs
  <2>2. NeedsTOTP /\ ~onceCode
    BY DEF CodeTimesInv, AttemptInv
  <2> QED BY <1>9, <2>1, <2>2 DEF PasswordThere
<1>10. CASE TOTPThere
  BY <1>10, StartKeepsTimes DEF TOTPThere
<1>11. ASSUME NEW st \in StartErrors, StartFails(st) PROVE CodeTimesInv'
  <2>1. tun \in Ids /\ loop.pc \in Signing
    BY <1>11 DEF StartFails, LoopHasTunnel, TunnelPcs, Signing
  <2>2. \A i \in Ids : /\ i = tun \/ tunnels[i].phase = "exited" => tunnels'[i].phase = "exited"
                       /\ tunnels'[i].code \in {0, tunnels[i].code}
    BY <1>11, <2>1, DeadType DEF StartFails, TypeOK, Dead
  <2>3. UsedUpTo(lastStep) /\ lastStep <= now
    BY <1>11, <2>1 DEF StartFails, CodeTimesInv, WindowInv, CodesDated, SentIsLatest, Sent
  <2>4. loop'.pc = "off"
    BY <1>11, EndsWithGoes DEF StartFails
  <2> QED
    BY <1>11, <2>1, <2>2, <2>3, <2>4, DropKeepsTimes DEF StartFails, TunnelPcs, ReadPcs
<1>12. CASE StartReturns
  <2>1. tun \in Ids
    BY <1>12 DEF StartReturns, LoopHasTunnel, TunnelPcs
  <2>2. \A i \in Ids : /\ tunnels'[i].code = tunnels[i].code
                       /\ tunnels'[i].phase \in {tunnels[i].phase, "killed"}
                       /\ Exited(i) => tunnels'[i].phase = "exited"
    BY <1>12, <2>1 DEF StartReturns, KilledIfStopped, TypeOK, TunnelType, Exited
  <2>3. /\ loop.pc = "start" /\ loop'.pc = "waitReady" /\ lastStep' = now
        /\ UNCHANGED <<run, tun, now, used, th, onceCode>>
    BY <1>12 DEF StartReturns, TypeOK, LoopType
  <2>4. AttemptInv'
    <3>1. \A i \in Ids : i # tun' => Exited(i)'
      BY <2>2, <2>3 DEF CodeTimesInv, AttemptInv, Exited
    <3>2. run' = "up" /\ ~onceCode' /\ th'["edit"].pc # "noteCode"
      BY <2>3 DEF CodeTimesInv, AttemptInv
    <3> QED BY <2>3, <3>1, <3>2 DEF AttemptInv, SlowPcs
  <2>5. now \in Nat /\ Sent \in Nat
    BY <2>1 DEF TypeOK, TunnelType, Sent
  <2>6. UsedUpTo(now)' /\ CodesDated' /\ Sent' = Sent
    <3>1. Sent' = Sent
      BY <2>1, <2>2, <2>3 DEF Sent
    <3>2. UsedUpTo(now)'
      BY <2>3 DEF CodeTimesInv, WindowInv, UsedUpTo
    <3>3. CodesDated'
      <4> SUFFICES ASSUME NEW i \in Ids
                   PROVE  /\ tunnels'[i].code <= now'
                          /\ tunnels'[i].phase = "new" => tunnels'[i].code = 0
        BY DEF CodesDated
      <4>1. tunnels[i].code <= now /\ (tunnels[i].phase = "new" => tunnels[i].code = 0)
        BY DEF CodeTimesInv, WindowInv, CodesDated
      <4>2. /\ tunnels'[i].code = tunnels[i].code
            /\ tunnels'[i].phase = "new" => tunnels[i].phase = "new"
        BY <2>2
      <4> QED BY <2>3, <4>1, <4>2
    <3> QED BY <3>1, <3>2, <3>3
  <2>7. SentIsLatest'
    <3>1. (Sent # 0 => UsedUpTo(Sent)) /\ (Sent = 0 => now \notin used)
      BY <2>3 DEF CodeTimesInv, WindowInv, SentIsLatest, Signing
    <3>2. Sent' # 0 => UsedUpTo(Sent)'
      BY <2>3, <2>6, <3>1 DEF UsedUpTo
    <3>3. Sent' = 0 => UsedUpTo(lastStep)' /\ now' \notin used'
      BY <2>3, <2>6, <3>1 DEF UsedUpTo
    <3> QED BY <2>3, <3>2, <3>3 DEF SentIsLatest
  <2>8. WindowInv'
    BY <2>3, <2>5, <2>6, <2>7 DEF WindowInv, Signing, ReadPcs
  <2> QED BY <2>4, <2>8 DEF CodeTimesInv
<1>13. ASSUME NEW ready \in BOOLEAN, WaitReadyEnds(ready) PROVE CodeTimesInv'
  <2>1. tun \in Ids
    BY <1>13 DEF WaitReadyEnds, LoopHasTunnel, TunnelPcs
  <2>2. /\ loop.pc = "waitReady" /\ loop'.pc = "judge" /\ loop'.ready = ready
        /\ UNCHANGED <<run, tun, tunnels, now, used, th, onceCode, lastStep>>
    BY <1>13 DEF WaitReadyEnds, TypeOK, LoopType
  <2>3. IF ready THEN tunnels[tun].phase = "ready" ELSE Exited(tun)
    BY <1>13 DEF WaitReadyEnds, PlainSignIns
  <2>4. AttemptInv'
    BY <2>2, <2>3 DEF CodeTimesInv, AttemptInv, SlowPcs, Exited
  <2>5. WindowInv'
    BY <2>2
    DEF CodeTimesInv, WindowInv, UsedUpTo, CodesDated, SentIsLatest, Sent, Signing, ReadPcs
  <2> QED BY <2>4, <2>5 DEF CodeTimesInv
<1>14. CASE JudgeGoingAway
  <2>1. /\ loop.pc = "judge" /\ loop'.pc = "awaitExit" /\ lastStep' = CodeWindow
        /\ UNCHANGED <<run, tun, tunnels, now, used, th, onceCode>>
    BY <1>14 DEF JudgeGoingAway, Goes, TypeOK, LoopType
  <2>2. UsedUpTo(CodeWindow) /\ CodeWindow <= now
    BY <2>1, CodeWindowIsLatest DEF Signing
  <2>3. AttemptInv'
    BY <2>1 DEF CodeTimesInv, AttemptInv, SlowPcs, Exited
  <2>4. WindowInv'
    BY <2>1, <2>2
    DEF CodeTimesInv, WindowInv, UsedUpTo, CodesDated, SentIsLatest, Sent, Signing, ReadPcs
  <2> QED BY <2>3, <2>4 DEF CodeTimesInv
<1>15. CASE JudgeConnected
  <2>1. /\ loop.pc = "judge" /\ loop'.pc = "up" /\ lastStep' = CodeWindow
        /\ UNCHANGED <<run, tun, tunnels, now, used, th, onceCode>>
    BY <1>15 DEF JudgeConnected, Goes, TypeOK, LoopType
  <2>2. UsedUpTo(CodeWindow) /\ CodeWindow <= now
    BY <2>1, CodeWindowIsLatest DEF Signing
  <2>3. AttemptInv'
    BY <2>1 DEF CodeTimesInv, AttemptInv, SlowPcs, Exited
  <2>4. WindowInv'
    BY <2>1, <2>2
    DEF CodeTimesInv, WindowInv, UsedUpTo, CodesDated, SentIsLatest, Sent, Signing, ReadPcs
  <2> QED BY <2>3, <2>4 DEF CodeTimesInv
<1>16. CASE JudgeStale \/ JudgeSlow
  <2> QED BY <1>16, NotReadyIsOver DEF JudgeStale, JudgeSlow
<1>17. CASE LoopStops
  <2> QED BY <1>17 DEF LoopStops, CodeTimesInv, AttemptInv, SlowPcs
<1>18. CASE DropStale
  <2>1. NotReady
    BY <1>18 DEF DropStale, CodeTimesInv, AttemptInv, SlowPcs
  <2>2. loop'.pc \in {"off", "cisco"} /\ (onceCode' => onceCode)
    BY <1>18, LoopHeadGoes, HeadDropsCode DEF DropStale
  <2> QED BY <1>18, <2>1, <2>2, JudgedKeepsTimes DEF DropStale
<1>19. CASE JudgeStopped
  <2>1. loop'.pc \in {"off", "cisco"} /\ (onceCode' => onceCode)
    BY <1>19, LoopHeadGoes, HeadDropsCode DEF JudgeStopped
  <2> QED BY <1>19, <2>1, JudgedKeepsTimes DEF JudgeStopped
<1>20. CASE JudgeError
  <2>1. NotReady
    BY <1>20 DEF JudgeError, CodeTimesInv, AttemptInv, SlowPcs
  <2>2. loop'.pc \in {"off", "sleep"}
    BY <1>20, LoopOffType DEF JudgeError, Goes, TypeOK, LoopType
  <2> QED BY <1>20, <2>1, <2>2, JudgedKeepsTimes DEF JudgeError
<1>21. ASSUME NEW message \in Rejections, JudgeRejected(message) PROVE CodeTimesInv'
  <2>1. loop'.pc \in {"off", "cisco"} /\ (onceCode' => onceCode)
    BY <1>21, LoopHeadGoes, HeadDropsCode, EndsWithGoes DEF JudgeRejected
  <2> QED BY <1>21, <2>1, JudgedKeepsTimes DEF JudgeRejected
<1>22. CASE TunnelWasUp
  <2>1. tun \in Ids /\ Exited(tun) /\ loop.pc = "up" /\ loop'.pc = "closing"
    BY <1>22 DEF TunnelWasUp, LoopHasTunnel, TunnelPcs, TypeOK, LoopType
  <2>2. UsedUpTo(lastStep) /\ lastStep <= now
    BY <2>1 DEF CodeTimesInv, WindowInv, Signing
  <2> QED
    BY <1>22, <2>1, <2>2, DroppedIsOver, DropKeepsTimes DEF TunnelWasUp, TunnelPcs, ReadPcs
<1>23. CASE LoopClosesAll
  <2>1. {loop.pc, loop'.pc} \cap (TunnelPcs \cup ReadPcs) = {} /\ (onceCode' => onceCode)
    BY <1>23 DEF LoopClosesAll, Goes, TunnelPcs, ReadPcs, TypeOK, LoopType
  <2> QED BY <1>23, <2>1, RestingLoopKeepsTimes DEF LoopClosesAll
<1>24. CASE AfterUp
  <2>1. {loop.pc, loop'.pc} \cap (TunnelPcs \cup ReadPcs) = {} /\ (onceCode' => onceCode)
    BY <1>24, LoopHeadGoes, HeadDropsCode, LoopOffType
    DEF AfterUp, Goes, TunnelPcs, ReadPcs, TypeOK, LoopType
  <2> QED BY <1>24, <2>1, RestingLoopKeepsTimes DEF AfterUp
<1>25. CASE LoopCancelled
  <2>1. loop.pc \notin TunnelPcs /\ loop'.pc = "off"
    BY <1>25, CancelledHasNone, LoopOffType DEF LoopCancelled
  <2> QED BY <1>25, <2>1, RestingLoopKeepsTimes DEF LoopCancelled, TunnelPcs, ReadPcs
<1> QED BY <1>1, <1>2, <1>3, <1>4, <1>5, <1>6, <1>7, <1>8, <1>9, <1>10, <1>11, <1>12, <1>13,
      <1>14, <1>15, <1>16, <1>17, <1>18, <1>19, <1>20, <1>21, <1>22, <1>23, <1>24, <1>25
   DEF LoopSteps

LEMMA CodeTimesInit == Init => CodeTimesInv
  BY DaemonAssumption
  DEF Init, CodeTimesInv, AttemptInv, WindowInv, UsedUpTo, CodesDated, SentIsLatest, Signing,
      SlowPcs, ReadPcs, Exited, Dead, LoopOff, IdleThread, Threads

LEMMA CodeTimesStep ==
  ASSUME PlainSignIns, NeedsTOTP
  PROVE  TypeInv /\ StopInv /\ CodeTimesInv /\ [Next]_vars => CodeTimesInv'
<1> SUFFICES ASSUME TypeInv, StopInv, CodeTimesInv, [Next]_vars PROVE CodeTimesInv'
  OBVIOUS
<1>1. CASE UNCHANGED vars
  <2>1. UNCHANGED <<run, tun, now, used, lastStep, tunnels, onceCode, th, loop>>
    BY <1>1 DEF vars, flagVars, codeVars, lifeVars
  <2> QED
    BY <2>1, LoopWaitsIfKept, TunnelsKeptGoOn, CodeTimesStay
    DEF MarksStay, CodeTimesInv, AttemptInv
<1>2. CASE Next
  <2>1. CASE RequestConnect
    BY <2>1, SecretsStepsKeepTimes DEF Threads
  <2>2. CASE Disconnect
    BY <2>2, RequestDisconnectKeepsTimes DEF Disconnect, RetPcs, Threads
  <2>3. ASSUME NEW t \in Threads, DisconnectSteps(t) \/ SecretsSteps(t) PROVE CodeTimesInv'
    BY <2>3, DisconnectStepsKeepTimes, SecretsStepsKeepTimes
  <2>4. ASSUME NEW a \in Accounts, SetupBegins(a) \/ SetupSteps PROVE CodeTimesInv'
    BY <2>4, SetupStepsKeepTimes
  <2>5. Accounts # {}
    BY DEF TypeInv, TypeOK
  <2>6. CASE SetPassword \/ SetTOTP \/ NoteCodeShown \/ TypeCode \/ CancelCode \/ JobWaits \/
        JobEnds
    BY <2>6, EditStepsKeepTimes
  <2>7. CASE TickChecksCisco \/ TickResumes \/ TickStopsIdle \/ TickerSteps
    BY <2>7, TickerStepsKeepTimes
  <2>8. ASSUME NEW p \in Pages, PageSteps(p) PROVE CodeTimesInv'
    BY <2>8, PageStepsKeepTimes
  <2>9. CASE DemandEnds \/ IdleElapses \/ WindowEnds
    BY <2>9, TimeKeepsTimes
  <2>10. CASE LoopSteps
    BY <2>10, LoopStepsKeepTimes
  <2>11. CASE TunnelSpawns
    <3>1. 1 \in Ids
      BY DaemonAssumption DEF Ids
    <3> QED BY <2>11, <3>1, TunnelKeepsTimes
  <2>12. ASSUME NEW i \in Ids, TunnelSendsCode(i) \/ TunnelOpensPort(i) \/ TunnelExits(i)
         PROVE  CodeTimesInv'
    BY <2>12, TunnelKeepsTimes
  <2>13. CASE Stop \/ RunCancels \/ RunEnds \/ Restart
    BY <2>13, RunStepsKeepTimes
  <2> QED
    BY <1>2, <2>1, <2>2, <2>3, <2>4, <2>5, <2>6, <2>7, <2>8, <2>9, <2>10, <2>11, <2>12, <2>13
    DEF Next
<1> QED BY <1>1, <1>2

\* Nothing but openconnect sends a code: what the daemon does to a tunnel keeps or clears it.
NoCodeAppears == \A i \in Ids : tunnels[i].code = 0 => tunnels'[i].code = 0

LEMMA KeptHasNoCode == tunnels' = tunnels => NoCodeAppears
  BY DEF NoCodeAppears

LEMMA MarkedHasNoCode ==
  ASSUME TypeOK, NEW i \in Ids \cup {0}, tunnels' = MarkStopping(i) PROVE NoCodeAppears
  BY MarkingGoesOn DEF TunnelsGoOn, NoCodeAppears

LEMMA DroppedHasNoCode == TypeOK /\ tunnels' = Dropped => NoCodeAppears
  BY DEF TypeOK, Dropped, Dead, NoCodeAppears

LEMMA KilledHasNoCode == TypeOK /\ tunnels' = KilledIfStopped => NoCodeAppears
  BY DEF TypeOK, TunnelType, KilledIfStopped, NoCodeAppears

LEMMA StartedHasNoCode ==
  ASSUME TypeOK, NEW typed, StartsTunnel(typed) PROVE NoCodeAppears
  BY DEF TypeOK, StartsTunnel, FreeIds, Dead, NoCodeAppears

LEMMA LoopSendsNoCode ==
  ASSUME TypeInv, LoopSteps PROVE NoCodeAppears
<1> USE DEF TypeInv
<1>1. CASE LoopBegins \/ LoopWakes \/ ReadWhileChanging \/ ReadFailed
  BY <1>1, KeptHasNoCode DEF LoopBegins, LoopWakes, ReadWhileChanging, ReadFailed
<1>2. ASSUME NEW cisco, LoopCisco(cisco) PROVE NoCodeAppears
  BY <1>2, KeptHasNoCode DEF LoopCisco
<1>3. ASSUME NEW online, LoopProbe(online) PROVE NoCodeAppears
  BY <1>3, KeptHasNoCode DEF LoopProbe
<1>4. ASSUME NEW result, PasswordIsRead(result) \/ TOTPIsRead(result) PROVE NoCodeAppears
  BY <1>4, KeptHasNoCode DEF PasswordIsRead, TOTPIsRead
<1>5. CASE PasswordThere \/ TOTPThere
  BY <1>5, KeptHasNoCode, StartedHasNoCode DEF PasswordThere, TOTPThere
<1>6. ASSUME NEW st, StartFails(st) PROVE NoCodeAppears
  BY <1>6 DEF StartFails, NoCodeAppears, TypeOK, Dead
<1>7. CASE StartReturns
  BY <1>7, KilledHasNoCode DEF StartReturns
<1>8. ASSUME NEW ready, WaitReadyEnds(ready) PROVE NoCodeAppears
  BY <1>8, KeptHasNoCode DEF WaitReadyEnds
<1>9. CASE JudgeGoingAway \/ JudgeConnected \/ JudgeStale \/ JudgeSlow
  BY <1>9, KeptHasNoCode DEF JudgeGoingAway, JudgeConnected, JudgeStale, JudgeSlow
<1>10. CASE DropStale \/ JudgeStopped \/ JudgeError \/ TunnelWasUp
  BY <1>10, DroppedHasNoCode DEF DropStale, JudgeStopped, JudgeError, TunnelWasUp
<1>11. CASE LoopStops
  <2>1. tun \in Ids
    BY <1>11 DEF LoopStops, LoopHasTunnel, TunnelPcs
  <2> QED BY <1>11, <2>1, MarkedHasNoCode DEF LoopStops
<1>12. ASSUME NEW message, JudgeRejected(message) PROVE NoCodeAppears
  BY <1>12, DroppedHasNoCode DEF JudgeRejected
<1>13. CASE LoopClosesAll \/ AfterUp
  BY <1>13, KeptHasNoCode DEF LoopClosesAll, AfterUp
<1>14. CASE LoopCancelled
  BY <1>14, KeptHasNoCode, KilledHasNoCode DEF LoopCancelled
<1> QED
  BY <1>1, <1>2, <1>3, <1>4, <1>5, <1>6, <1>7, <1>8, <1>9, <1>10, <1>11, <1>12, <1>13, <1>14
  DEF LoopSteps

LEMMA CodeGoesWhenSent ==
  ASSUME TypeInv, Next, NEW i \in Ids, tunnels[i].code = 0, tunnels'[i].code # 0
  PROVE  TunnelSendsCode(i) /\ tunnels'[i].code = now
<1> USE DEF TypeInv, PageUnchanged, TunnelUnchanged, JobUnchanged
<1>1. ~NoCodeAppears /\ tunnels' # tunnels
  BY DEF NoCodeAppears
<1>2. ~RequestConnect /\ ~Disconnect
  BY <1>1 DEF RequestConnect, Disconnect, RequestDisconnect
<1>3. ASSUME NEW t \in Threads, DisconnectSteps(t) \/ SecretsSteps(t) PROVE FALSE
  <2>1. th[t].tgt \in Ids \cup {0}
    BY DEF TypeOK, ThreadType
  <2>2. tunnels' = MarkStopping(th[t].tgt)
    BY <1>1, <1>3
    DEF DisconnectSteps, ThreadClosesAll, ThreadStops, ThreadStopped, LoopIsDone,
        ThreadClosesIdle, ThreadToIdle, SecretsSteps, SecretsChanged, Reconnects
  <2> QED BY <1>1, <2>1, <2>2, MarkedHasNoCode
<1>4. ASSUME NEW a \in Accounts, SetupBegins(a) PROVE FALSE
  BY <1>1, <1>4 DEF SetupBegins
<1>5. ~SetupSteps
  BY <1>1 DEF SetupSteps, SetupTearsDown, RequestDisconnect, SetupSwitches, SetupStores,
              SetupFails, SetupApplies
<1>6. ~(SetPassword \/ SetTOTP \/ NoteCodeShown \/ TypeCode \/ CancelCode \/ JobWaits \/ JobEnds)
  BY <1>1 DEF SetPassword, SetTOTP, EditStores, NoteCodeShown, TypeCode, CancelCode, JobWaits,
              JobEnds
<1>7. ~(TickChecksCisco \/ TickResumes \/ TickStopsIdle \/ TickerSteps)
  BY <1>1 DEF TickChecksCisco, TickResumes, TickStopsIdle, TickerSteps, TickCisco, TickEnds
<1>8. ASSUME NEW p \in Pages, PageSteps(p) PROVE FALSE
  BY <1>1, <1>8 DEF PageSteps, PageOpens, PageLooksAgain, PageEnds, Traffic
<1>9. ~(DemandEnds \/ IdleElapses \/ WindowEnds \/ Stop \/ RunCancels \/ RunEnds \/ Restart)
  BY <1>1 DEF DemandEnds, IdleElapses, WindowEnds, Stop, RunCancels, RunEnds, Restart
<1>10. ~LoopSteps
  BY <1>1, LoopSendsNoCode
<1>11. ~TunnelSpawns /\ \A j \in Ids : ~(TunnelOpensPort(j) \/ TunnelExits(j))
  BY DEF TunnelSpawns, TunnelOpensPort, TunnelExits, TypeOK, TunnelType, Dead
<1>12. PICK j \in Ids : TunnelSendsCode(j)
  BY <1>2, <1>3, <1>4, <1>5, <1>6, <1>7, <1>8, <1>9, <1>10, <1>11 DEF Next
<1>13. i = j /\ tunnels'[i].code = now
  BY <1>12 DEF TunnelSendsCode, TypeOK, TunnelType
<1> QED BY <1>12, <1>13

\* The windows that were used stay marked, whatever the loop, the reads, the pages, a disconnect
\* and a change of the password do, as long as sign-ins are the core's own and end in time.
THEOREM CodeTimesInvariant == PlainSignIns /\ NeedsTOTP => (Spec => []CodeTimesInv)
<1>1. ASSUME PlainSignIns, NeedsTOTP PROVE Spec => []CodeTimesInv
  <2>1. TypeInv /\ StopInv /\ CodeTimesInv /\ [Next]_vars => CodeTimesInv'
    BY <1>1, CodeTimesStep
  <2> QED BY <2>1, TypesInvariant, StopInvariant, CodeTimesInit, PTL DEF Spec
<1> QED BY <1>1

\* No window's one-time code goes to the gateway twice: not on a retry, not after a disconnect and
\* a new connect, not over a change of the account's secrets.
THEOREM NoCodeTwiceAlways == PlainSignIns => (Spec => NoCodeTwice)
<1> DEFINE Once(i) == tunnels[i].code = 0 /\ tunnels'[i].code # 0 => tunnels'[i].code \notin used
<1>1. CASE PlainSignIns /\ NeedsTOTP
  <2>1. ASSUME TypeInv, StopInv, CodeTimesInv, [Next]_vars PROVE [\A i \in Ids : Once(i)]_vars
    <3>1. ASSUME Next PROVE \A i \in Ids : Once(i)
      BY <2>1, <3>1, CodeGoesWhenSent, SendKeepsTimes
    <3> QED BY <2>1, <3>1
  <2> QED
    BY <1>1, <2>1, TypesInvariant, StopInvariant, CodeTimesInvariant, PTL DEF Spec, NoCodeTwice
<1>2. CASE ~NeedsTOTP
  <2>1. ASSUME TypeInv, [Next]_vars PROVE [\A i \in Ids : Once(i)]_vars
    <3>1. ASSUME Next PROVE \A i \in Ids : Once(i)
      BY <1>2, <2>1, <3>1, CodeGoesWhenSent DEF TunnelSendsCode
    <3> QED BY <2>1, <3>1
  <2> QED BY <2>1, TypesInvariant, PTL DEF Spec, NoCodeTwice
<1> QED BY <1>1, <1>2

=============================================================================
