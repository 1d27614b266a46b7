-------------------------- MODULE TunnelProperties --------------------------
(* What one openconnect run promises (tunnel.go, classify.go). *)
EXTENDS Tunnel

Returned(t) == stop[t] \in {"returned", "ended"}

TypeOK ==
    /\ mfa \in Factors /\ gate \in Gateway /\ outlives \in Outlives
    /\ core \in {"up", "down", "restarted"}
    /\ start \in {"begin", "create", "named", "full", "exec", "publish", "feed", "check", "killed",
                  "done", "failed"}
    /\ {tokenFile, disk, cmd, byUs, readyAt, eof} \subseteq BOOLEAN
    /\ held \in {"", "code", "push"} /\ sentBy \in {"", "line", "timer", "prompt"}
    /\ codeTimer \in {"off", "armed"} /\ promptTimer \in {"off", "armed", "fired"}
    /\ reader \in {"off", "lines", "partial", "file", "close", "done"}
    /\ classifier \in [shown: BOOLEAN, sent: BOOLEAN, generated: BOOLEAN, inForm: BOOLEAN]
    /\ verdict \in Verdicts /\ abort \in {"off", "term", "grace"}
    /\ wait \in {"no", "poll", "late", "mark", "file", "ready", "over"}
    /\ stop \in [Stoppers -> {"no", "mark", "term", "grace", "kill", "port", "returned", "ended"}]
    /\ oc \in {"none", "read", "form", "factor", "answer", "post", "posted", "again", "in", "running",
               "web", "dying", "dead"}
    /\ form \in 1..2 /\ refused \in Nat /\ sig \in {"none", "term", "kill"}
    /\ proxy \in {"no", "listening", "closing", "gone"}
    /\ out \in Seq(Lines) /\ stdin \in Seq({"password", "code", "push"})

\* The secret file is there only while the sign-in needs it: once Start failed, the tunnel is
\* ready, openconnect exited, a Stop and Start have returned or the core has started again after a
\* crash, it is gone (TokenArgs, RemoveTokenFile, RemoveStaleTokenFiles).
SecretGone ==
    disk => /\ core # "restarted" /\ start # "failed" /\ ~Exited /\ wait # "ready"
            /\ start \in {"done", "killed"} => \A t \in Stoppers : ~Returned(t)

\* The gateway refuses one run at most once: what was held back for the second factor never
\* answers a repeated question for the password.  Only a code released by the 15 s timer, for a
\* form classify.go does not know, may (Start, atPrompt, releaseCodeLocked).
RefusedOnce == sentBy # "timer" => refused <= 1

\* A verdict names the factor that was wrong.  A typed code in a form of unknown text is not told
\* from the password (Classifier.Feed, handleLine).
VerdictNamesFactor ==
    /\ verdict = "password" /\ (mfa = "typed" => gate.known) => ~gate.pw
    /\ verdict = "totp" => gate.pw /\ ~gate.code
    /\ verdict = "either" => ~gate.pw \/ ~gate.code

\* A sign-in with the right password and code comes up unless somebody ends it: every held line
\* is released when openconnect needs it (handleLine, atPrompt, otpFormWait).
Ended == sig # "none" \/ wait = "late" \/ core # "up" \/ \E t \in Stoppers : stop[t] # "no"
Right == gate.asks \in {"one", "two"} /\ gate.pw /\ gate.code /\ (gate.asks = "two" => Asked)
RightSignInComesUp == (oc = "form" /\ Right) ~> (proxy # "no" \/ Ended)

\* Stop returned, and when it had a process to end this is gone and its port is free (Stop: SIGTERM,
\* SIGKILL after the grace, then the port).
Released(t) == Returned(t) /\ (stop[t] = "ended" => oc = "dead" /\ ~PortOpen)

\* This run is one of the loop's tunnels.
Life == INSTANCE TunnelLife WITH
    phase <- IF core # "up" \/ Exited \/ start = "failed" THEN "exited"
             ELSE IF ~cmd THEN "new"
             ELSE IF start = "killed" THEN "killed"
             ELSE IF proxy # "no" THEN "ready" ELSE "up",
    byUs <- byUs /\ start # "failed"
=============================================================================
