---------------------------- MODULE DaemonState ----------------------------
(***************************************************************************)
(* The state of internal/daemon/daemon.go that the connection life cycle   *)
(* reads and writes, and what several of its operations do.                *)
(*                                                                         *)
(* One mutex (mu) guards the daemon, so the code between two releases of   *)
(* mu is one action.  A call made through `unlocked`, and the wait in      *)
(* `sleep`, is where another thread may step in: the loop and every other  *)
(* thread have a program counter that names the call they are in.          *)
(***************************************************************************)
EXTENDS Naturals, FiniteSets

CONSTANTS
    Accounts,      \* accounts, each with its gateway
    NoAccount,
    Pages,         \* browser connections
    MaxTunnels,    \* openconnect runs told apart at the same time
    Mfa,           \* the profile's second factor
    MaxWindow,     \* one-time code windows of 30 s: 1..MaxWindow
    MaxEdits,      \* changes of the account or the secrets
    MaxRestarts,   \* cores started after the first one
    Events,        \* what may happen around the loop, see EventNames
    CiscoAnswers,  \* what the check for Cisco Secure Client may answer
    Preconditions, \* what the head of the loop may find
    Reads,         \* how a read of the keyring may end
    StartErrors    \* final states a failed start of openconnect may lead to

EventNames == {"connect", "disconnect", "setup", "password", "totp", "code", "cancel", "cisco",
               "resume", "idle", "offline", "traffic", "slow", "stop"}

ASSUME DaemonAssumption ==
    /\ Events \subseteq EventNames
    /\ NoAccount \notin Accounts
    /\ MaxTunnels \in Nat \ {0}
    /\ MaxWindow \in Nat \ {0}
    /\ MaxEdits \in Nat
    /\ MaxRestarts \in Nat
    /\ Mfa \in {"none", "totp_field", "totp_append"}
    /\ CiscoAnswers \subseteq BOOLEAN
    /\ Preconditions \subseteq {"ok", "not_elevated", "saml"}
    /\ Reads \subseteq {"ok", "keyring", "auth_failed"}
    /\ StartErrors \subseteq {"keyring", "auth_failed", "error"}

VARIABLES
    state, page, woke,                       \* State, the forwarder's connections
    explicit, demand, idle,                  \* demandUntil > now, lastActivity too old
    onceCode, totpRetried, pausedByCisco, offlineRun, lastStep, signedIn,
    tun, tunnels, loop, th,
    cfgUser, cfgHost, switching, accountGen, setup,
    secretsGen, stored, edits,
    run, restarts, signedFile,
    now, used,                               \* the clock; windows whose code was sent or shown
    wanted, ciscoSeen, verdict               \* history, for the properties only

acctVars == <<cfgUser, cfgHost, switching, accountGen, setup>>
secrVars == <<secretsGen, stored, edits>>
codeVars == <<now, used>>
lifeVars == <<run, restarts, signedFile>>
flagVars == <<onceCode, totpRetried, pausedByCisco, offlineRun, lastStep, signedIn>>
wishVars == <<explicit, demand, idle, wanted>>
pageVars == <<page, woke>>
vars == <<state, pageVars, wishVars, flagVars, tun, tunnels, loop, th, acctVars,
          secrVars, lifeVars, codeVars, ciscoSeen, verdict>>

-----------------------------------------------------------------------------
Ids == 1..MaxTunnels
States == {"idle", "offline", "blocked", "connecting", "connected",
           "disconnecting", "auth_failed", "keyring", "error"}
Final == {"auth_failed", "keyring"}
Retry == {"offline", "blocked", "error"}
Threads == {"user", "setup", "edit", "job", "ticker", "run"}
NeedsTOTP == Mfa # "none"
AwayAfter == 2

\* A loop that does not run.  `owner` and `ver` say whose secrets were read last and
\* which version of them, `result` how the read ended.
LoopOff == [pc |-> "off", cancelled |-> FALSE, gen |-> 0, acc |-> 0,
            owner |-> NoAccount, ver |-> 0, result |-> "ok", once |-> FALSE,
            fresh |-> FALSE, ready |-> FALSE, stopped |-> FALSE]
LoopPcs == {"off", "begin", "cisco", "probe", "sleep", "password", "passwordRead",
            "totp", "totpRead", "start", "waitReady", "judge", "awaitExit",
            "stopChanged", "changedStopped", "stopSlow", "slowStopped",
            "up", "closing", "closed"}

\* A tunnel nobody runs: never started, or exited and dropped by the loop.
Dead == [phase |-> "exited", byUs |-> FALSE, user |-> NoAccount, host |-> NoAccount,
         owner |-> NoAccount, ver |-> 0, once |-> FALSE, code |-> 0]
Phases == {"new", "up", "ready", "killed", "exited"}

IdleThread == [pc |-> "idle", tgt |-> 0, ret |-> "idle", raced |-> FALSE]
ThreadPcs == {"idle", "closeAll", "stop", "stopping", "waitDone", "closeIdle", "toIdle",
              "teardown", "switch", "storing", "writing", "noteCode", "changed",
              "reconnect", "waitConnected", "takeCode", "failed", "ciscoCheck", "tickRest",
              "tickIdle", "runWait"}

\* Where a thread goes on after its call of Stop or RequestDisconnect.
RetPcs == {"idle", "switch", "reconnect", "tickRest", "tickIdle", "runWait"}

NoSetup == [to |-> NoAccount, prev |-> NoAccount, ver |-> 0]
NoVerdict == [by |-> "none", ver |-> 0]
NoSignIn == [user |-> NoAccount, host |-> NoAccount, ver |-> 0]

PageStates == {"none", "waiting", "notified", "tunnelled"}
AnyAccount == Accounts \cup {NoAccount}
TunnelType == [phase : Phases, byUs : BOOLEAN, user : AnyAccount, host : AnyAccount,
               owner : AnyAccount, ver : Nat, once : BOOLEAN, code : 0..MaxWindow]
LoopType == [pc : LoopPcs, cancelled : BOOLEAN, gen : Nat, acc : Nat, owner : AnyAccount,
             ver : Nat, result : {"ok", "keyring", "auth_failed"}, once : BOOLEAN,
             fresh : BOOLEAN, ready : BOOLEAN, stopped : BOOLEAN]
ThreadType == [pc : ThreadPcs, tgt : Ids \cup {0}, ret : RetPcs, raced : BOOLEAN]
SetupType == [to : AnyAccount, prev : AnyAccount, ver : Nat]
SignInType == [user : AnyAccount, host : AnyAccount, ver : Nat]
VerdictType == [by : {"none", "read", "gateway"}, ver : Nat]

TypeOK ==
    /\ state \in States
    /\ page \in [Pages -> PageStates]
    /\ woke \in SUBSET Pages
    /\ explicit \in BOOLEAN /\ demand \in BOOLEAN /\ idle \in BOOLEAN
    /\ onceCode \in BOOLEAN /\ totpRetried \in BOOLEAN /\ pausedByCisco \in BOOLEAN
    /\ offlineRun \in 0..AwayAfter
    /\ lastStep \in 0..MaxWindow
    /\ signedIn \in Nat \X Nat
    /\ tun \in Ids \cup {0}
    /\ tunnels \in [Ids -> TunnelType]
    /\ loop \in LoopType
    /\ th \in [Threads -> ThreadType]
    /\ cfgUser \in Accounts /\ cfgHost \in Accounts
    /\ switching \in BOOLEAN
    /\ accountGen \in Nat
    /\ setup \in SetupType
    /\ secretsGen \in Nat /\ stored \in [Accounts -> Nat] /\ edits \in Nat
    /\ run \in {"up", "stopping", "ended"}
    /\ restarts \in Nat
    /\ signedFile \in SignInType
    /\ now \in 1..MaxWindow
    /\ used \in SUBSET (1..MaxWindow)
    /\ wanted \in BOOLEAN /\ ciscoSeen \in BOOLEAN
    /\ verdict \in VerdictType

Init ==
    /\ state = "idle"
    /\ page = [p \in Pages |-> "none"]
    /\ woke = {}
    /\ explicit = FALSE /\ demand = FALSE /\ idle = FALSE
    /\ onceCode = FALSE /\ totpRetried = FALSE /\ pausedByCisco = FALSE
    /\ offlineRun = 0
    /\ lastStep = 0
    /\ signedIn = <<0, 0>>
    /\ tun = 0
    /\ tunnels = [i \in Ids |-> Dead]
    /\ loop = LoopOff
    /\ th = [t \in Threads |-> IdleThread]
    /\ cfgUser \in Accounts /\ cfgHost = cfgUser
    /\ switching = FALSE
    /\ accountGen = 0
    /\ setup = NoSetup
    /\ secretsGen = 0 /\ stored = [a \in Accounts |-> 0] /\ edits = 0
    /\ run = "up"
    /\ restarts = 0
    /\ signedFile = NoSignIn
    /\ now = 1
    /\ used = {}
    /\ wanted = FALSE /\ ciscoSeen = FALSE
    /\ verdict = NoVerdict

-----------------------------------------------------------------------------
\* What several operations do.

\* `set` closes `changed`: every page that waits in acquire looks again.
Notified(pg) == [p \in Pages |-> IF pg[p] = "waiting" THEN "notified" ELSE pg[p]]
Show(st) == state' = st /\ page' = Notified(page)

NoPages == [p \in Pages |-> "none"]
CloseAll == page' = NoPages /\ woke' = {}

HasDemand(pg) == explicit \/ demand \/ \E p \in Pages : pg[p] # "none"

\* ensureLoop: nothing connects once the service stops.
Ensured == IF loop.pc = "off" /\ run = "up" THEN [LoopOff EXCEPT !.pc = "begin"] ELSE loop

\* noteActivityLocked.
NoteActivity == demand' = TRUE /\ idle' = FALSE

\* requestConnectLocked: "connect now".
ConnectLocked ==
    /\ explicit' = TRUE /\ wanted' = TRUE
    /\ totpRetried' = FALSE
    /\ verdict' = NoVerdict
    /\ IF state \in Final \cup Retry THEN Show("idle") ELSE UNCHANGED <<state, page>>
    /\ NoteActivity
    /\ loop' = Ensured

\* A thread's call of Stop on tunnel i (0: none), after which it goes on at ret.
Calls(t, pc, i, ret) == [th[t] EXCEPT !.pc = pc, !.tgt = i, !.ret = ret]
Returned(t) == [th[t] EXCEPT !.pc = th[t].ret, !.tgt = 0, !.ret = "idle"]

Exited(i) == tunnels[i].phase = "exited"

\* MarkStopping: an attempt still starting does not count, a process that runs has to be
\* ended, one that exited on its own does not count as stopped by us.
MarkStopping(i) ==
    IF Exited(i) THEN tunnels ELSE [tunnels EXCEPT ![i].byUs = TRUE]
MustEnd(i) == tunnels[i].phase \in {"up", "ready", "killed"}
=============================================================================
