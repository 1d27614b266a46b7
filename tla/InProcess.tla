----------------------------- MODULE InProcess ------------------------------
(***************************************************************************)
(* internal/libtunnel and internal/octunnel: the tunnel with openconnect   *)
(* as a library in the core's own process.  One goroutine signs in         *)
(* (Connect), brings up the network stack and the SOCKS server and passes  *)
(* packets (Run) until it is cancelled or the gateway ends it; Stop, the   *)
(* goroutine that watches the login and the verdict on a web sign-in       *)
(* cancel it through the library's command pipe, from other goroutines,    *)
(* while the session may be gone.  The library, the gateway and the        *)
(* profile's second factor are those of module Tunnel: what the library    *)
(* asks and prints is what shim.c answers and the comments say of it.      *)
(***************************************************************************)
EXTENDS Tunnel

CONSTANTS
    MaxMoves    \* reconnects that get another address

VARIABLES
    begun, run,                 \* Start; the goroutine of the session
    session, marked, cancel,    \* t.session is set, t.stoppedByUs; t.cancel is closed
    ready, told, code, exited,  \* t.ready is closed, classification, returnCode, t.exited is closed
    open,                       \* what run has to close: the socket, the stack, the SOCKS server
    lib, handle, freed, pipe,   \* the library's session, the handle its output goes through,
                                \* s.freed, s.cmdFD is set
    cancelled,                  \* a cancel was written to the command pipe
    stock, at, page, refusals,  \* u->password and u->queued; the login; history
    moves, moved,               \* new addresses after reconnects; s.changed
    watcher,                    \* the goroutine of Connect that waits for t.cancel
    waiting, ender              \* WaitReady and the threads in Stop

tunVars == <<begun, session, marked, cancel, ready, told, code, exited>>
libSessionVars == <<lib, handle, freed, pipe>>
loginVars == <<stock, at, page, refusals>>
moveVars == <<moves, moved>>
callVars == <<waiting, ender>>
libVars == <<tunVars, run, open, libSessionVars, cancelled, loginVars, moveVars, watcher, callVars>>

LibInit ==
    /\ begun = "no" /\ run = "off" /\ session = FALSE /\ marked = FALSE /\ cancel = FALSE
    /\ ready = FALSE /\ told = "none" /\ code = "none" /\ exited = FALSE /\ open = {}
    /\ lib = "none" /\ handle = FALSE /\ freed = FALSE /\ pipe = FALSE /\ cancelled = FALSE
    /\ stock = <<>> /\ at = "form" /\ page = 1 /\ refusals = 0
    /\ moves = 0 /\ moved = FALSE /\ watcher = "off"
    /\ waiting = "no" /\ ender = [t \in Stoppers |-> "no"]

-----------------------------------------------------------------------------
\* handleLine: the first verdict sticks; a web sign-in before the tunnel is up ends the login.
Said(v) ==
    /\ told' = IF told = "none" THEN v ELSE told
    /\ cancel' = (cancel \/ (told = "none" /\ v = "saml" /\ ~ready))

\* Start: the lines of stdin or a port could not be had, or the session begins.
LibStart ==
    /\ begun = "no"
    /\ \/ begun' = "failed" /\ UNCHANGED run
       \/ begun' = "yes" /\ run' = "setup"
    /\ UNCHANGED <<session, marked, cancel, ready, told, code, exited, open, libSessionVars,
                   cancelled, loginVars, moveVars, watcher, callVars>>

\* options: what Start feeds the program on stdin is what the forms are answered with.
Stock == IF Held = "" THEN <<"password">> ELSE <<"password", Held>>

\* Connect up to the command pipe: the library's start, memory, the secret of the token.
ConnectBegins ==
    /\ run = "setup"
    /\ \/ run' = "fail" /\ code' = "1" /\ UNCHANGED <<told, cancel, libSessionVars, watcher, stock>>
       \/ /\ handle' = TRUE /\ stock' = Stock /\ UNCHANGED freed
          /\ \/ /\ lib' \in {"none", "open"} /\ run' = "fail" /\ code' = "1"
                /\ \/ lib' = "open" /\ mfa = "totp_field" /\ Said("unusable")
                   \/ UNCHANGED <<told, cancel>>
                /\ UNCHANGED <<pipe, watcher>>
             \/ /\ lib' = "open" /\ pipe' = TRUE /\ watcher' = "waiting" /\ run' = "login"
                /\ UNCHANGED <<told, cancel, code>>
    /\ UNCHANGED <<begun, session, marked, ready, exited, open, cancelled, at, page, refusals,
                   moveVars, callVars>>

\* The fields of the page the gateway shows that the user's lines answer; the library itself
\* fills in a generated code, and asks for one after it was refused.
Fields ==
    LET factor == IF mfa = "totp_field" /\ at # "again" THEN <<>> ELSE <<"factor">>
    IN CASE gate.asks = "one" /\ Asked -> <<"password">> \o factor
         [] gate.asks = "two" /\ page = 2 -> factor
         [] OTHER -> <<"password">>

\* Mutant: a refused form leaves the second factor where the next prompt finds it.
LeftInStock(refusedForm) == stock

\* auth_form_cb: a form with an error drops what is queued behind the password.
StockFor(refusedForm) == IF refusedForm THEN SelectSeq(stock, LAMBDA l : l = "password") ELSE stock

\* obtain_cookie failed: its last line, and Connect's.
LoginFails(v) ==
    /\ Said(v)
    /\ run' = "fail" /\ code' = "1"

loginRest == <<begun, session, marked, ready, exited, open, libSessionVars, cancelled, moveVars,
               watcher, callVars>>

\* The gateway shows a page: none at all, a web sign-in, or a form that auth_form_cb answers.
LoginForm ==
    /\ run = "login" /\ at \in {"form", "again"}
    /\ LET left == StockFor(at = "again")
           n == Len(Fields)
       IN IF gate.asks = "nothing"
          THEN LoginFails("network") /\ UNCHANGED <<stock, at>>
          ELSE IF gate.asks = "web"
          THEN Said("saml") /\ at' = "web" /\ UNCHANGED <<stock, run, code>>
          ELSE IF Len(left) < n
          THEN LoginFails("rejected") /\ stock' = left /\ UNCHANGED at
          ELSE /\ at' = IF \A i \in 1..n : (Fields[i] = "password") = (left[i] = "password")
                        THEN "posted" ELSE "mixed"
               /\ stock' = SubSeq(left, n + 1, Len(left))
               /\ UNCHANGED <<told, cancel, run, code>>
    /\ UNCHANGED <<loginRest, page, refusals>>

\* The gateway takes the form, shows the next one, or the same with an error.
LoginPosted ==
    /\ run = "login" /\ at \in {"posted", "mixed"}
    /\ LET pw == page = 1 => gate.pw
           factor == \/ page = 2 \/ (gate.asks = "one" /\ Asked)
                     \/ mfa \in {"totp_append", "typed_append"}
       IN IF at = "mixed" \/ ~pw \/ (factor /\ ~gate.code)
          THEN /\ refusals' = refusals + 1 /\ at' = "again" /\ Said("refused")
               /\ UNCHANGED <<page, run>>
          ELSE /\ IF page = 1 /\ gate.asks = "two"
                  THEN page' = 2 /\ at' = "form" /\ UNCHANGED run
                  ELSE run' = "cstp" /\ UNCHANGED <<page, at>>
               /\ UNCHANGED <<refusals, told, cancel>>
    /\ UNCHANGED <<loginRest, stock, code>>

\* Cancelled, or the gateway or the network ends it.
LoginEnds ==
    /\ run = "login"
    /\ \/ cancelled /\ LoginFails("rejected")
       \/ LoginFails("network")
    /\ UNCHANGED <<loginRest, loginVars>>

\* make_cstp_connection; exitCode says how the program would have ended.
Cstp ==
    /\ run = "cstp"
    /\ \/ run' = "publish" /\ UNCHANGED <<told, cancel, code>>
       \/ Said("network") /\ run' = "fail" /\ code' \in {"1", "2"} \cup (IF cancelled THEN {"0"} ELSE {})
    /\ UNCHANGED <<loginRest, loginVars>>

Login == ConnectBegins \/ LoginForm \/ LoginPosted \/ Cstp

-----------------------------------------------------------------------------
\* command: the pipe is the library's; it is gone with the session.
Command == cancelled' = (cancelled \/ (~freed /\ pipe))

commandRest == <<begun, session, marked, told, code, exited, ready, open, libSessionVars, loginVars,
                 moveVars>>

\* The goroutine of Connect: t.cancel is closed, or Connect has returned; both may be true.
ConnectOver == session \/ run \in {"publish", "code", "exit", "done"}

Watcher ==
    /\ \/ watcher = "waiting" /\ cancel /\ watcher' = "cancels" /\ UNCHANGED cancelled
       \/ watcher = "waiting" /\ ConnectOver /\ watcher' = "gone" /\ UNCHANGED cancelled
       \/ watcher = "cancels" /\ watcher' = "gone" /\ Command
    /\ UNCHANGED <<commandRest, run, cancel, callVars>>

\* run: Stop finds the session from here on, or run finds that Stop came before.
Publish ==
    /\ run = "publish"
    /\ session' = TRUE /\ run' = IF marked THEN "cancels" ELSE "socket"
    /\ UNCHANGED <<begun, marked, cancel, told, code, exited, ready, open, libSessionVars, cancelled,
                   loginVars, moveVars, watcher, callVars>>

PublishCancels ==
    /\ run = "cancels" /\ run' = "socket" /\ Command
    /\ UNCHANGED <<commandRest, cancel, watcher, callVars>>

\* A step of run that failed on this device.
FailsHere == run' = "unwind" /\ code' = "local" /\ UNCHANGED open

upRest == <<begun, session, marked, cancel, told, exited, libSessionVars, cancelled, loginVars,
            moveVars, watcher, callVars>>

\* An IPv4 address and a socket pair, openconnect's end of which is run's to close.
SocketUp ==
    /\ run = "socket"
    /\ \/ FailsHere
       \/ open' = {"socket"} /\ run' = "stack" /\ UNCHANGED code
    /\ UNCHANGED <<upRest, ready>>

\* netstack.New owns the other end, also when it fails.
StackUp ==
    /\ run = "stack"
    /\ \/ FailsHere
       \/ open' = open \cup {"stack"} /\ run' = "server" /\ UNCHANGED code
    /\ UNCHANGED <<upRest, ready>>

\* The SOCKS server on the port of Start, which another program may have by now.
ServerUp ==
    /\ run = "server"
    /\ \/ FailsHere /\ UNCHANGED ready
       \/ open' = open \cup {"server"} /\ run' = "loop" /\ ready' = TRUE /\ UNCHANGED code
    /\ UNCHANGED upRest

\* Run: packets until the main loop ends.  After a cancel for a new address it is no stop.
LoopEnds ==
    /\ run = "loop" /\ cancelled
    /\ run' = "unwind" /\ code' = IF moved THEN "1" ELSE "0"
    /\ UNCHANGED <<upRest, ready, open>>

\* The tun device, the gateway or the network ends it.
LoopDrops ==
    /\ run = "loop"
    /\ run' = "unwind" /\ code' \in (IF moved THEN {"1"} ELSE {"1", "2"})
    /\ \E v \in {"none", "network"} : Said(v)
    /\ UNCHANGED <<begun, session, marked, ready, exited, open, libSessionVars, cancelled, loginVars,
                   moveVars, watcher, callVars>>

\* goReconnected: the stack keeps its address, so another one ends the session.
Reconnected ==
    /\ run = "loop" /\ moves < MaxMoves
    /\ moves' = moves + 1 /\ moved' = TRUE /\ Command
    /\ UNCHANGED <<tunVars, run, open, libSessionVars, loginVars, watcher, callVars>>

-----------------------------------------------------------------------------
\* What run deferred, last first: the server stops, the stack closes, then the socket.
Unwind ==
    /\ run = "unwind"
    /\ \/ "server" \in open /\ open' = open \ {"server"} /\ UNCHANGED run
       \/ "server" \notin open /\ "stack" \in open /\ open' = open \ {"stack"} /\ UNCHANGED run
       \/ open \subseteq {"socket"} /\ open' = {} /\ run' = "fail"
    /\ UNCHANGED <<tunVars, libSessionVars, cancelled, loginVars, moveVars, watcher, callVars>>

freeRest == <<tunVars, open, cancelled, loginVars, moveVars, watcher, callVars>>

\* Free: nobody reaches the library from here on.
FreeMarks ==
    /\ run = "fail"
    /\ freed' = TRUE /\ pipe' = FALSE /\ run' = "free"
    /\ UNCHANGED <<freeRest, lib, handle>>

\* Mutant: the handle goes first.
FreeHandleFirst ==
    /\ \/ run = "free" /\ handle' = FALSE /\ run' = "handle" /\ UNCHANGED lib
       \/ run = "handle" /\ lib' = "freed" /\ run' = "code" /\ UNCHANGED handle
    /\ UNCHANGED <<freeRest, freed, pipe>>

\* The library may print while it is freed, so the handle goes after it; then what is left of a line.
Frees ==
    /\ \/ run = "free" /\ lib' = "freed" /\ run' = "handle" /\ UNCHANGED handle
       \/ run = "handle" /\ handle' = FALSE /\ run' = "code" /\ UNCHANGED lib
    /\ UNCHANGED <<freeRest, freed, pipe>>

\* The end of Start's goroutine: the code is set, then t.exited is closed.
Ends ==
    /\ \/ run = "code" /\ run' = "exit" /\ UNCHANGED exited
       \/ run = "exit" /\ run' = "done" /\ exited' = TRUE
    /\ UNCHANGED <<begun, session, marked, cancel, ready, told, code, open, libSessionVars, cancelled,
                   loginVars, moveVars, watcher, callVars>>

Run == Publish \/ PublishCancels \/ SocketUp \/ StackUp \/ ServerUp \/ LoopEnds \/ Unwind
          \/ FreeMarks \/ Frees \/ Ends

-----------------------------------------------------------------------------
\* WaitReady: the server listens, the session ended, or the time is over.
LibWait ==
    /\ \/ waiting = "no" /\ begun = "yes" /\ waiting' = "poll"
       \/ waiting = "poll" /\ ready /\ waiting' = IF exited THEN "over" ELSE "ready"
       \/ waiting = "poll" /\ exited /\ waiting' = "over"
       \/ waiting = "poll" /\ waiting' = "late"
    /\ UNCHANGED <<tunVars, run, open, libSessionVars, cancelled, loginVars, moveVars, watcher, ender>>

\* Stop: a session that ended by itself is left alone; else what there is to cancel is read here.
StopMarks(t) ==
    /\ ender[t] = "no"
    /\ IF exited THEN ender' = [ender EXCEPT ![t] = "returned"] /\ UNCHANGED marked
       ELSE /\ marked' = TRUE
            /\ ender' = [ender EXCEPT ![t] = IF session THEN "both"
                                             ELSE IF begun = "yes" THEN "channel" ELSE "early"]
    /\ UNCHANGED <<begun, session, cancel, ready, told, code, exited, run, open, libSessionVars,
                   cancelled, loginVars, moveVars, watcher, waiting>>

\* t.cancel is closed once.
StopCloses(t) ==
    /\ ender[t] \in {"both", "channel", "early"}
    /\ cancel' = TRUE
    /\ ender' = [ender EXCEPT ![t] = CASE ender[t] = "both" -> "session"
                                       [] ender[t] = "channel" -> "grace"
                                       [] ender[t] = "early" -> "returned"]
    /\ UNCHANGED <<commandRest, run, cancelled, watcher, waiting>>

\* The session read before is cancelled, however it ended meanwhile.
StopCancels(t) ==
    /\ ender[t] = "session" /\ Command
    /\ ender' = [ender EXCEPT ![t] = "grace"]
    /\ UNCHANGED <<commandRest, run, cancel, watcher, waiting>>

\* It ended, or it does not respond.
StopGives(t) ==
    /\ ender[t] = "grace"
    /\ ender' = [ender EXCEPT ![t] = "returned"]
    /\ UNCHANGED <<tunVars, run, open, libSessionVars, cancelled, loginVars, moveVars, watcher, waiting>>

LibStop(t) == StopCloses(t) \/ StopCancels(t) \/ StopGives(t)

LibNext ==
    \/ LibStart \/ Login \/ LoginEnds \/ Watcher \/ Run \/ LoopDrops \/ Reconnected \/ LibWait
    \/ \E t \in Stoppers : StopMarks(t) \/ LibStop(t)

\* Goroutines run and the library looks at its command pipe; nothing makes a gateway answer a web
\* sign-in, drop a tunnel or give it another address, or the user stop.
LibFairness ==
    /\ WF_libVars(Login) /\ WF_libVars(cancelled /\ LoginEnds) /\ WF_libVars(Watcher)
    /\ WF_libVars(Run) /\ \A t \in Stoppers : WF_libVars(LibStop(t))

-----------------------------------------------------------------------------
\* Nobody reaches a library session that is gone: while it lives the handle its output goes through
\* does, and no command is written to a pipe that may be another file by then; a run that ended has
\* closed what it opened (Free, command, goOutput, the deferred calls of run).
LibraryAlive ==
    /\ [](lib = "open" => handle)
    /\ [](exited => open = {} /\ lib # "open" /\ ~handle)
    /\ [][cancelled' # cancelled => lib = "open"]_libVars

\* The gateway refuses one login at most once: what is queued for the second factor never answers
\* the question for the password after a refused form (auth_form_cb, prompt).
SignsInOnce == refusals <= 1
=============================================================================
