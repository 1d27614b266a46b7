------------------------------- MODULE Tunnel -------------------------------
(***************************************************************************)
(* internal/tunnel: one openconnect run.  Start writes the secret file and *)
(* starts the process, a goroutine reads its output line by line           *)
(* (classify.go), timers and prompts release the line held back for the    *)
(* second factor, WaitReady polls the proxy port, Stop and abort end the   *)
(* process.  openconnect, ocproxy and the gateway are external: what they  *)
(* print, ask for and answer to signals is what the comments of tunnel.go  *)
(* and classify.go and internal/tunnel/fakeoc say of them.                 *)
(*                                                                         *)
(* Lines of output are classes: "xml" (XML POST enabled), "post" (POST     *)
(* ...), "generated" (Generating OATH TOTP token code), "otpform" (the OTP *)
(* form's text), "failed" (Login failed), "noinput" (User input required), *)
(* "incomplete" (Failed to complete authentication), "network", "saml",    *)
(* "unusable" (Soft token string is invalid), "prompt" (a line without its *)
(* end), "glued" (POST behind a prompt, which has no line end).            *)
(***************************************************************************)
EXTENDS Naturals, Sequences

CONSTANTS
    Factors,    \* the profile's second factor, "typed" for a code typed once
    Asks,       \* what the gateway asks for: password and code in "one" form or "two", a "web"
                \* sign-in, or "nothing" because it cannot be reached
    Stoppers,   \* threads that may call Stop
    Outlives    \* whether ocproxy may stay after openconnect ended

Factor == {"none", "totp_field", "totp_append", "duo_push", "typed", "typed_append"}

\* known: its OTP form has a text classify.go knows; pw, code: whether what the user entered is
\* right; stubborn: openconnect does not answer SIGTERM.
Gateway == [asks: Asks, known: BOOLEAN, pw: BOOLEAN, code: BOOLEAN, stubborn: BOOLEAN]

\* Those that differ for the factor f.
Gateways(f) ==
    {g \in Gateway : /\ g.asks \in {"web", "nothing"} => g.known /\ g.pw /\ g.code
                     /\ f # "typed" => g.known
                     /\ f = "none" => g.code}

ASSUME TunnelAssumption ==
    /\ Factors \subseteq Factor /\ Asks \subseteq {"one", "two", "web", "nothing"}
    /\ Outlives \subseteq BOOLEAN

Lines == {"xml", "post", "generated", "otpform", "failed", "noinput", "incomplete", "network",
          "saml", "unusable", "prompt", "glued"}
Verdicts == {"none", "password", "totp", "either", "rejected", "network", "saml", "unusable"}

VARIABLES
    mfa, gate, outlives,                    \* this run
    core,                                   \* the core: up, down (crashed), restarted
    start, tokenFile, disk,                 \* Start; t.tokenFile is set; the file exists
    cmd, byUs, readyAt,                     \* t.cmd, t.stoppedByUs and t.readyAt are set
    held, sentBy,                           \* t.stdin with t.heldCode; history: what released it
    codeTimer, promptTimer,
    reader, classifier, verdict, abort,
    wait, stop,                             \* WaitReady and the threads in Stop
    oc, form, stdin, eof, out, sig, proxy,  \* openconnect, its pipes, ocproxy
    refused                                 \* history: sign-ins the gateway refused

runVars == <<mfa, gate, outlives>>
coreVars == <<runVars, core>>
fileVars == <<tokenFile, disk>>
lifeVars == <<cmd, byUs, readyAt>>
heldVars == <<held, sentBy, eof>>
timerVars == <<codeTimer, promptTimer>>
readVars == <<reader, classifier, verdict, abort>>
ocVars == <<oc, form, stdin, out, proxy, refused>>
procVars == <<ocVars, sig>>
vars == <<coreVars, start, fileVars, lifeVars, heldVars, timerVars, readVars, wait, stop, procVars>>

NewClassifier == [shown |-> FALSE, sent |-> FALSE, generated |-> FALSE, inForm |-> FALSE]

Init ==
    /\ mfa \in Factors /\ gate \in Gateways(mfa) /\ outlives \in Outlives
    /\ core = "up" /\ start = "begin" /\ tokenFile = FALSE /\ disk = FALSE
    /\ cmd = FALSE /\ byUs = FALSE /\ readyAt = FALSE
    /\ held = "" /\ sentBy = "" /\ codeTimer = "off" /\ promptTimer = "off"
    /\ reader = "off" /\ verdict = "none" /\ abort = "off"
    /\ classifier = NewClassifier
    /\ wait = "no" /\ stop = [t \in Stoppers |-> "no"]
    /\ oc = "none" /\ form = 1 /\ stdin = <<>> /\ eof = FALSE /\ out = <<>> /\ sig = "none"
    /\ proxy = "no" /\ refused = 0

Exited == reader = "done"
Typed == mfa \in {"typed", "typed_append"}

\* AuthArgs: --non-inter unless a line is to be read at a prompt.
NonInter == mfa # "duo_push" /\ ~Typed

\* The line of StdinBytes that Start holds back, "" for none.
Held == CASE mfa = "typed" -> "code" [] mfa = "duo_push" -> "push" [] OTHER -> ""

-----------------------------------------------------------------------------
\* RemoveTokenFile.
RemoveTokenFile == tokenFile' = FALSE /\ disk' = (disk /\ ~tokenFile)

\* StdinBytes (a TOTP secret that cannot be used), FreePort and the fields set before the file.
StartBegin ==
    /\ core = "up" /\ start = "begin"
    /\ start' \in {"failed", IF mfa = "totp_field" THEN "create" ELSE "exec"}
    /\ UNCHANGED <<coreVars, fileVars, lifeVars, heldVars, timerVars, readVars, wait, stop,
                   procVars>>

\* writeTokenFile: a file that cannot be created leaves nothing behind.
StartCreate ==
    /\ core = "up" /\ start = "create"
    /\ \/ start' = "failed" /\ UNCHANGED disk
       \/ start' = "named" /\ disk' = TRUE
    /\ UNCHANGED <<coreVars, tokenFile, lifeVars, heldVars, timerVars, readVars, wait, stop,
                   procVars>>

\* The file's name is known from here on; a disk that is full: no part of the secret stays.
StartNamed ==
    /\ core = "up" /\ start = "named"
    /\ start' \in {"exec", "full"}
    /\ tokenFile' = TRUE
    /\ UNCHANGED <<coreVars, disk, lifeVars, heldVars, timerVars, readVars, wait, stop, procVars>>

\* Mutant: the file of a start that failed stays.
StartFailsKeepingFile ==
    /\ core = "up" /\ start \in {"full", "exec"}
    /\ start' = "failed"
    /\ UNCHANGED <<coreVars, fileVars, lifeVars, heldVars, timerVars, readVars, wait, stop,
                   procVars>>

\* Writing the secret, the pipes or cmd.Start failed.
StartFails ==
    /\ core = "up" /\ start \in {"full", "exec"}
    /\ start' = "failed" /\ RemoveTokenFile
    /\ UNCHANGED <<coreVars, lifeVars, heldVars, timerVars, readVars, wait, stop, procVars>>

\* cmd.Start succeeded; t.cmd is set under the lock later.
StartExec ==
    /\ core = "up" /\ start = "exec"
    /\ start' = "publish" /\ oc' = "read"
    /\ UNCHANGED <<coreVars, fileVars, lifeVars, heldVars, timerVars, readVars, wait, stop, form,
                   stdin, out, proxy, refused, sig>>

\* The held line, its timer, the reader.
StartPublish ==
    /\ core = "up" /\ start = "publish"
    /\ start' = "feed" /\ cmd' = TRUE /\ held' = Held
    /\ codeTimer' = IF Held = "code" THEN "armed" ELSE "off"
    /\ reader' = "lines"
    /\ UNCHANGED <<coreVars, fileVars, byUs, readyAt, sentBy, eof, promptTimer, classifier, verdict,
                   abort, wait, stop, procVars>>

\* The password goes to openconnect; without a held line its stdin ends there.
StartFeed ==
    /\ core = "up" /\ start = "feed"
    /\ start' = "check"
    /\ stdin' = Append(stdin, "password")
    /\ eof' = (eof \/ Held = "")
    /\ UNCHANGED <<coreVars, fileVars, lifeVars, held, sentBy, timerVars, readVars, wait, stop, oc,
                   form, out, proxy, refused, sig>>

\* Stop came while the process was being started.
StartCheck ==
    /\ core = "up" /\ start = "check"
    /\ IF byUs
       THEN start' = "killed" /\ sig' = "kill" /\ RemoveTokenFile
       ELSE start' = "done" /\ UNCHANGED <<sig, fileVars>>
    /\ wait' = "poll"
    /\ UNCHANGED <<coreVars, lifeVars, heldVars, timerVars, readVars, stop, ocVars>>

Start == StartBegin \/ StartCreate \/ StartNamed \/ StartFails \/ StartExec \/ StartPublish
            \/ StartFeed \/ StartCheck

-----------------------------------------------------------------------------
\* dropHeldLocked: stdin is closed without the held line.
DropHeld == held' = "" /\ eof' = (eof \/ held # "")

\* Mutant: the held line is written after a verdict, too.
ReleaseAlways(by, v) ==
    /\ DropHeld
    /\ stdin' = IF held = "" THEN stdin ELSE Append(stdin, held)
    /\ sentBy' = IF held = "" THEN sentBy ELSE by

\* releaseCodeLocked under the verdict v: written once, and never after a verdict.
ReleaseCode(by, v) ==
    /\ DropHeld
    /\ LET written == held # "" /\ v = "none"
       IN /\ stdin' = IF written THEN Append(stdin, held) ELSE stdin
          /\ sentBy' = IF written THEN by ELSE sentBy

\* otpFormWait is over; the password was written long before.
CodeTimerFires ==
    /\ core = "up" /\ codeTimer = "armed" /\ start # "feed"
    /\ codeTimer' = "off"
    /\ ReleaseCode("timer", verdict)
    /\ UNCHANGED <<coreVars, start, fileVars, lifeVars, promptTimer, readVars, wait, stop, oc, form,
                   out, proxy, refused, sig>>

\* Nothing came for promptWait after an unfinished line: atPrompt runs on its own goroutine.
PromptTimerFires ==
    /\ core = "up" /\ promptTimer = "armed"
    /\ promptTimer' = "fired"
    /\ UNCHANGED <<coreVars, start, fileVars, lifeVars, heldVars, codeTimer, readVars, wait, stop,
                   procVars>>

\* Mutant: a held line waits for the OTP form only.
NeverForPrompt(h) == FALSE
ForPrompt(h) == h = "push"

AtPrompt ==
    /\ core = "up" /\ promptTimer = "fired"
    /\ promptTimer' = "off"
    /\ IF ForPrompt(held) THEN ReleaseCode("prompt", verdict) ELSE UNCHANGED <<heldVars, stdin>>
    /\ UNCHANGED <<coreVars, start, fileVars, lifeVars, codeTimer, readVars, wait, stop, oc, form,
                   out, proxy, refused, sig>>

\* Mutant: a code generated in the password's form is not told from one in a form of its own.
NeverInForm(line) ==
    IF line = "xml" THEN [classifier EXCEPT !.shown = TRUE, !.sent = FALSE]
    ELSE IF line \in {"generated", "otpform"} THEN [classifier EXCEPT !.generated = TRUE]
    ELSE classifier

\* Classifier.Feed before it looks for a verdict: forms shown and sent, the OTP form.
Fed(line) ==
    IF line = "xml" THEN [classifier EXCEPT !.shown = TRUE, !.sent = FALSE]
    ELSE IF line = "post" /\ classifier.shown THEN [classifier EXCEPT !.sent = TRUE]
    ELSE IF line \in {"generated", "otpform"}
         THEN [classifier EXCEPT !.generated = TRUE,
                                 !.inForm = IF classifier.generated THEN classifier.inForm
                                            ELSE classifier.shown /\ ~classifier.sent]
    ELSE classifier

\* "Login failed" by the second factor (LoginRejected), the other markers by themselves.
Rejected(c) ==
    CASE c.generated /\ c.inForm -> "either"
      [] c.generated /\ ~c.inForm -> "totp"
      [] ~c.generated /\ mfa \in {"totp_append", "typed_append", "duo_push"} -> "either"
      [] OTHER -> "password"

VerdictOf(line, c) ==
    CASE line = "failed" -> Rejected(c)
      [] line \in {"noinput", "incomplete"} -> "rejected"
      [] line \in {"network", "saml", "unusable"} -> line
      [] OTHER -> "none"

\* handleLine: the first verdict sticks; a web sign-in before the tunnel is up is aborted; the OTP
\* form or a verdict releases the held line.
HandleLine(line) ==
    LET c == IF verdict = "none" THEN Fed(line) ELSE classifier
        v == IF verdict = "none" THEN VerdictOf(line, c) ELSE verdict
    IN /\ classifier' = c /\ verdict' = v
       /\ abort' = IF verdict = "none" /\ v = "saml" /\ ~readyAt THEN "term" ELSE abort
       /\ IF c.generated \/ v # "none" THEN ReleaseCode("line", v) ELSE UNCHANGED <<heldVars,
                                                                                    stdin>>

\* readOutput: a whole line.  Output after an unfinished line stops the prompt's timer.
ReadLine ==
    /\ core = "up" /\ reader \in {"lines", "partial"} /\ out # <<>> /\ Head(out) # "prompt"
    /\ out' = Tail(out) /\ reader' = "lines"
    /\ promptTimer' = IF promptTimer = "armed" THEN "off" ELSE promptTimer
    /\ HandleLine(Head(out))
    /\ UNCHANGED <<coreVars, start, fileVars, lifeVars, codeTimer, wait, stop, oc, form, proxy,
                   refused, sig>>

\* promptReader.Read after an unfinished line.
ReadPrompt ==
    /\ core = "up" /\ reader \in {"lines", "partial"} /\ out # <<>> /\ Head(out) = "prompt"
    /\ out' = Tail(out) /\ reader' = "partial"
    /\ promptTimer' = IF promptTimer = "off" THEN "armed" ELSE promptTimer
    /\ UNCHANGED <<coreVars, start, fileVars, lifeVars, heldVars, codeTimer, classifier, verdict,
                   abort, wait, stop, oc, form, stdin, proxy, refused, sig>>

\* The output ends once neither openconnect nor ocproxy, which inherits it, has it open.
ReadEnd ==
    /\ core = "up" /\ reader \in {"lines", "partial"} /\ out = <<>>
    /\ oc = "dead" /\ proxy # "listening"
    /\ reader' = "file" /\ DropHeld
    /\ promptTimer' = IF promptTimer = "armed" THEN "off" ELSE promptTimer
    /\ UNCHANGED <<coreVars, start, fileVars, lifeVars, sentBy, codeTimer, classifier, verdict,
                   abort, wait, stop, procVars>>

ReadFile ==
    /\ core = "up" /\ reader = "file"
    /\ reader' = "close" /\ RemoveTokenFile
    /\ UNCHANGED <<coreVars, start, lifeVars, heldVars, timerVars, classifier, verdict, abort, wait,
                   stop, procVars>>

\* t.exited is closed.
ReadClose ==
    /\ core = "up" /\ reader = "close"
    /\ reader' = "done"
    /\ UNCHANGED <<coreVars, start, fileVars, lifeVars, heldVars, timerVars, classifier, verdict,
                   abort, wait, stop, procVars>>

Reader == ReadLine \/ ReadPrompt \/ ReadEnd \/ ReadFile \/ ReadClose

-----------------------------------------------------------------------------
\* A signal reaches the process; SIGTERM after SIGKILL changes nothing.
Signal(s) == sig' = IF sig = "kill" THEN sig ELSE s

\* abort: SIGTERM, and SIGKILL when openconnect has not exited after abortGrace.
Abort ==
    /\ core = "up"
    /\ \/ abort = "term" /\ abort' = "grace" /\ Signal("term")
       \/ abort = "grace" /\ abort' = "off" /\ IF Exited THEN UNCHANGED sig ELSE Signal("kill")
    /\ UNCHANGED <<coreVars, start, fileVars, lifeVars, heldVars, timerVars, reader, classifier,
                   verdict, wait, stop, ocVars>>

\* WaitReady: the process exited, the port accepts connections, or the deadline passed.
PortOpen == proxy \in {"listening", "closing"}

WaitExited ==
    /\ core = "up" /\ wait = "poll" /\ Exited
    /\ wait' = "over"
    /\ UNCHANGED <<coreVars, start, fileVars, lifeVars, heldVars, timerVars, readVars, stop,
                   procVars>>

WaitGivesUp ==
    /\ core = "up" /\ wait = "poll"
    /\ wait' = "late"
    /\ UNCHANGED <<coreVars, start, fileVars, lifeVars, heldVars, timerVars, readVars, stop,
                   procVars>>

WaitOpen ==
    /\ core = "up" /\ wait = "poll" /\ PortOpen
    /\ wait' = "mark"
    /\ UNCHANGED <<coreVars, start, fileVars, lifeVars, heldVars, timerVars, readVars, stop,
                   procVars>>

\* MarkReady: signed in without asking, the held line is dropped; then the file is removed.
MarkReady ==
    /\ core = "up" /\ wait = "mark"
    /\ wait' = "file" /\ readyAt' = TRUE /\ DropHeld
    /\ UNCHANGED <<coreVars, start, fileVars, cmd, byUs, sentBy, timerVars, readVars, stop,
                   procVars>>

MarkReadyFile ==
    /\ core = "up" /\ wait = "file"
    /\ wait' = "ready" /\ RemoveTokenFile
    /\ UNCHANGED <<coreVars, start, lifeVars, heldVars, timerVars, readVars, stop, procVars>>

WaitReady == WaitExited \/ WaitGivesUp \/ WaitOpen \/ MarkReady \/ MarkReadyFile

-----------------------------------------------------------------------------
\* Stop begins: the loop gave up waiting, or a request ends the attempt at any time.
StopBegin(t) ==
    /\ core = "up" /\ stop[t] = "no"
    /\ stop' = [stop EXCEPT ![t] = "mark"] /\ RemoveTokenFile
    /\ UNCHANGED <<coreVars, start, lifeVars, heldVars, timerVars, readVars, wait, procVars>>

\* Mutant: a process that exited by itself counts as stopped by us.
MarksExited(t) ==
    /\ core = "up" /\ stop[t] = "mark"
    /\ byUs' = TRUE
    /\ stop' = [stop EXCEPT ![t] = IF cmd /\ ~Exited THEN "term" ELSE "returned"]
    /\ UNCHANGED <<coreVars, start, fileVars, cmd, readyAt, heldVars, timerVars, readVars, wait,
                   procVars>>

\* MarkStopping: without a process the attempt does not count, an exited one is left alone.
MarkStopping(t) ==
    /\ core = "up" /\ stop[t] = "mark"
    /\ byUs' = (byUs \/ ~cmd \/ ~Exited)
    /\ stop' = [stop EXCEPT ![t] = IF cmd /\ ~Exited THEN "term" ELSE "returned"]
    /\ UNCHANGED <<coreVars, start, fileVars, cmd, readyAt, heldVars, timerVars, readVars, wait,
                   procVars>>

StopTerm(t) ==
    /\ core = "up" /\ stop[t] = "term"
    /\ stop' = [stop EXCEPT ![t] = "grace"] /\ Signal("term")
    /\ UNCHANGED <<coreVars, start, fileVars, lifeVars, heldVars, timerVars, readVars, wait,
                   ocVars>>

\* Mutant: Stop waits for openconnect to go by itself.
StopNeverKills(t) ==
    /\ core = "up" /\ stop[t] = "grace" /\ Exited
    /\ stop' = [stop EXCEPT ![t] = "port"]
    /\ UNCHANGED <<coreVars, start, fileVars, lifeVars, heldVars, timerVars, readVars, wait,
                   procVars>>

\* It exited, or the grace is over and SIGKILL follows.
StopGrace(t) ==
    /\ core = "up" /\ stop[t] = "grace"
    /\ IF Exited THEN stop' = [stop EXCEPT ![t] = "port"] /\ UNCHANGED sig
       ELSE stop' = [stop EXCEPT ![t] = "kill"] /\ Signal("kill")
    /\ UNCHANGED <<coreVars, start, fileVars, lifeVars, heldVars, timerVars, readVars, wait,
                   ocVars>>

StopKilled(t) ==
    /\ core = "up" /\ stop[t] = "kill" /\ Exited
    /\ stop' = [stop EXCEPT ![t] = "port"]
    /\ UNCHANGED <<coreVars, start, fileVars, lifeVars, heldVars, timerVars, readVars, wait,
                   procVars>>

\* The port is free, or after 5 s killWrapper ends what still holds it.
StopPort(t) ==
    /\ core = "up" /\ stop[t] = "port"
    /\ stop' = [stop EXCEPT ![t] = "ended"]
    /\ proxy' = IF PortOpen THEN "gone" ELSE proxy
    /\ UNCHANGED <<coreVars, start, fileVars, lifeVars, heldVars, timerVars, readVars, wait, oc,
                   form, stdin, out, refused, sig>>

Stop(t) == MarkStopping(t) \/ StopTerm(t) \/ StopGrace(t) \/ StopKilled(t) \/ StopPort(t)

-----------------------------------------------------------------------------
\* openconnect prints lines and goes on at pc.
Prints(lines, pc) == out' = out \o lines /\ oc' = pc

ocRest == <<coreVars, start, fileVars, lifeVars, heldVars, timerVars, readVars, wait, stop, sig>>

\* A field nobody filled in: --non-inter refuses to ask.
Ask(lines, pc) ==
    IF NonInter THEN Prints(lines \o <<"noinput", "incomplete">>, "dying")
    ELSE Prints(lines \o <<"prompt">>, pc)

\* It reads a line of stdin and goes on at pc, or finds its end.
Reads(pc, lines) ==
    \/ stdin # <<>> /\ stdin' = Tail(stdin) /\ Prints(lines, pc)
    \/ stdin = <<>> /\ eof /\ UNCHANGED stdin /\ Prints(<<"incomplete">>, "dying")

\* --passwd-on-stdin reads the first line.
OcPassword ==
    /\ oc = "read" /\ Reads("form", <<>>)
    /\ UNCHANGED <<ocRest, form, proxy, refused>>

\* The second factor is in the password's form only where the profile has one.
Asked == mfa \in {"totp_field", "duo_push", "typed"}

OcForm ==
    /\ oc = "form"
    /\ CASE gate.asks = "one" -> Prints(<<"xml">>, IF Asked THEN "factor" ELSE "post")
         [] gate.asks = "two" -> Prints(<<"xml">>, "post")
         [] gate.asks = "web" -> Prints(<<"saml">>, "web")
         [] gate.asks = "nothing" -> Prints(<<"network", "incomplete">>, "dying")
    /\ UNCHANGED <<ocRest, form, stdin, proxy, refused>>

\* The code's field: from the secret file, from the prompt, or nobody has one.
OcFactor ==
    /\ oc = "factor"
    /\ IF mfa = "totp_field"
       THEN IF disk THEN Prints(<<"generated">>, "post") ELSE Prints(<<"unusable">>, "dying")
       ELSE Ask(IF gate.known /\ Typed THEN <<"otpform">> ELSE <<>>, "answer")
    /\ UNCHANGED <<ocRest, form, stdin, proxy, refused>>

OcAnswer ==
    /\ oc = "answer" /\ Reads("posted", <<"glued">>)
    /\ UNCHANGED <<ocRest, form, proxy, refused>>

OcPost ==
    /\ oc = "post" /\ Prints(<<"post">>, "posted")
    /\ UNCHANGED <<ocRest, form, stdin, proxy, refused>>

\* The gateway's answer to the form just sent.
Accepted ==
    /\ form = 1 => gate.pw
    /\ \/ form = 2
       \/ gate.asks = "one" /\ Asked
       \/ mfa \in {"totp_append", "typed_append"}
       => gate.code

\* A refused sign-in shows the form again, for which there is no password left.
OcPosted ==
    /\ oc = "posted"
    /\ IF ~Accepted THEN refused' = refused + 1 /\ Ask(<<"failed">>, "again") /\ UNCHANGED form
       ELSE /\ IF form = 1 /\ gate.asks = "two" THEN form' = 2 /\ oc' = "factor"
               ELSE UNCHANGED form /\ oc' = "in"
            /\ UNCHANGED <<out, refused>>
    /\ UNCHANGED <<ocRest, stdin, proxy>>

\* Whatever comes on stdin is taken for the password and refused, too.
OcAgain ==
    /\ oc = "again"
    /\ Reads("again", <<"failed", "prompt">>)
    /\ refused' = IF stdin = <<>> THEN refused ELSE refused + 1
    /\ UNCHANGED <<ocRest, form, proxy>>

\* Signed in: ocproxy listens.  openconnect may end a tunnel, or a web sign-in, by itself.
OcUp ==
    /\ oc = "in"
    /\ oc' = "running" /\ proxy' = "listening"
    /\ UNCHANGED <<ocRest, form, stdin, out, refused>>

OcDrops ==
    /\ oc \in {"running", "web"}
    /\ Prints(IF oc = "web" THEN <<"incomplete">> ELSE <<"network">>, "dying")
    /\ UNCHANGED <<ocRest, form, stdin, proxy, refused>>

Alive == oc \notin {"none", "dead"}

OcExits ==
    /\ Alive /\ (oc = "dying" \/ sig = "kill" \/ (sig = "term" /\ ~gate.stubborn))
    /\ oc' = "dead"
    /\ UNCHANGED <<ocRest, form, stdin, out, proxy, refused>>

\* ocproxy goes with openconnect: its output closes before its port.
ProxyEnds ==
    /\ oc = "dead" /\ ~outlives /\ proxy \in {"listening", "closing"}
    /\ proxy' = IF proxy = "listening" THEN "closing" ELSE "gone"
    /\ UNCHANGED <<ocRest, oc, form, stdin, out, refused>>

Openconnect ==
    /\ core = "up"
    /\ \/ OcPassword \/ OcForm \/ OcFactor \/ OcAnswer \/ OcPost \/ OcPosted \/ OcAgain \/ OcUp
       \/ OcExits \/ ProxyEnds

-----------------------------------------------------------------------------
\* The core is killed; of the run the secret file is left.
Crash ==
    /\ core = "up" /\ core' = "down"
    /\ tokenFile' = FALSE /\ cmd' = FALSE /\ readyAt' = FALSE
    /\ held' = "" /\ sentBy' = "" /\ codeTimer' = "off" /\ promptTimer' = "off"
    /\ reader' = "off" /\ verdict' = "none" /\ abort' = "off" /\ classifier' = NewClassifier
    /\ wait' = "no" /\ stop' = [t \in Stoppers |-> "no"]
    /\ oc' = "none" /\ form' = 1 /\ stdin' = <<>> /\ eof' = FALSE /\ out' = <<>> /\ sig' = "none"
    /\ proxy' = "no" /\ refused' = 0
    /\ UNCHANGED <<runVars, start, byUs, disk>>

\* Run calls RemoveStaleTokenFiles first.
Restart ==
    /\ core = "down" /\ core' = "restarted"
    /\ disk' = FALSE
    /\ UNCHANGED <<runVars, start, tokenFile, lifeVars, heldVars, timerVars, readVars, wait, stop,
                   procVars>>

Next ==
    \/ Start \/ CodeTimerFires \/ PromptTimerFires \/ AtPrompt \/ Reader \/ Abort \/ WaitReady
    \/ \E t \in Stoppers : StopBegin(t) \/ Stop(t)
    \/ Openconnect \/ (core = "up" /\ OcDrops) \/ Crash \/ Restart

\* Goroutines and timers run, processes and the gateway go on; nothing makes WaitReady reach its
\* deadline, the user stop, a tunnel end by itself or the core crash.
Fairness ==
    /\ WF_vars(Start) /\ WF_vars(CodeTimerFires) /\ WF_vars(PromptTimerFires) /\ WF_vars(AtPrompt)
    /\ WF_vars(Reader) /\ WF_vars(Abort) /\ WF_vars(WaitExited \/ WaitOpen \/ MarkReady \/ MarkReadyFile)
    /\ \A t \in Stoppers : WF_vars(Stop(t))
    /\ WF_vars(wait = "late" /\ \E t \in Stoppers : StopBegin(t)) /\ WF_vars(Openconnect)

Spec == Init /\ [][Next]_vars /\ Fairness
=============================================================================
