---------------------------- MODULE TunnelProofs -----------------------------
(***************************************************************************)
(* Safety of Tunnel, for every second factor and gateway, any number of    *)
(* threads that call Stop, and an ocproxy that may outlive openconnect:    *)
(* the secret file is gone in time, one run is refused at most once, a     *)
(* verdict names the factor that was wrong, and each run is one of the     *)
(* connection loop's tunnels.                                              *)
(***************************************************************************)
EXTENDS TunnelProperties, SequenceTheorems, TLAPS

-----------------------------------------------------------------------------
\* Types.

Starts == {"begin", "create", "named", "full", "exec", "publish", "feed", "check", "killed", "done",
           "failed"}
Stdin == {"password", "code", "push"}
Stopping == {"no", "mark", "term", "grace", "kill", "port", "returned", "ended"}

\* The types in four groups, by what changes together.
StartType == core \in {"up", "down", "restarted"} /\ start \in Starts
RunType == mfa \in Factors /\ gate \in Gateway /\ outlives \in Outlives
FileType == tokenFile \in BOOLEAN /\ disk \in BOOLEAN
LifeType == cmd \in BOOLEAN /\ byUs \in BOOLEAN /\ readyAt \in BOOLEAN
HeldType ==
    /\ eof \in BOOLEAN /\ held \in {"", "code", "push"} /\ sentBy \in {"", "line", "timer", "prompt"}
    /\ codeTimer \in {"off", "armed"} /\ promptTimer \in {"off", "armed", "fired"}
    /\ stdin \in Seq(Stdin)
ClassifierType == [shown: BOOLEAN, sent: BOOLEAN, generated: BOOLEAN, inForm: BOOLEAN]
ReadType ==
    /\ reader \in {"off", "lines", "partial", "file", "close", "done"}
    /\ classifier \in ClassifierType /\ verdict \in Verdicts /\ abort \in {"off", "term", "grace"}
WaitType ==
    /\ wait \in {"no", "poll", "late", "mark", "file", "ready", "over"}
    /\ stop \in [Stoppers -> Stopping]
OcType ==
    /\ oc \in {"none", "read", "form", "factor", "answer", "post", "posted", "again", "in", "running",
               "web", "dying", "dead"}
    /\ form \in 1..2 /\ refused \in Nat /\ sig \in {"none", "term", "kill"}
    /\ proxy \in {"no", "listening", "closing", "gone"} /\ out \in Seq(Lines)
Types == /\ StartType /\ RunType /\ FileType /\ LifeType /\ HeldType /\ ReadType /\ WaitType /\ OcType

LEMMA TypesAreTypeOK == Types <=> TypeOK
  BY DEF Types, TypeOK, StartType, RunType, FileType, LifeType, HeldType, ClassifierType, ReadType,
         WaitType, OcType, Starts, Stdin, Stopping

LEMMA InitTypes == Init => Types
<1> SUFFICES ASSUME Init PROVE Types
  OBVIOUS
<1>1. FileType /\ LifeType /\ StartType
  BY DEF Init, FileType, LifeType, StartType, Starts
<1>2. RunType
  BY DEF Init, Gateways, RunType
<1>3. HeldType
  <2>1. eof \in BOOLEAN /\ stdin \in Seq(Stdin)
    BY EmptySeq DEF Init
  <2> QED BY <2>1 DEF Init, HeldType
<1>4. ReadType /\ WaitType
  BY DEF Init, NewClassifier, ClassifierType, ReadType, WaitType, Verdicts, Stopping
<1>5. OcType
  <2>1. out \in Seq(Lines)
    BY EmptySeq DEF Init
  <2>2. form = 1 /\ refused = 0
    BY DEF Init
  <2>3. sig \in {"none", "term", "kill"}
    BY DEF Init
  <2>4. proxy \in {"no", "listening", "closing", "gone"}
    BY DEF Init
  <2>5. form \in 1..2 /\ refused \in Nat
    BY <2>2
  <2>6. oc = "none"
    BY DEF Init
  <2> QED BY <2>1, <2>3, <2>4, <2>5, <2>6 DEF OcType
<1> QED BY <1>1, <1>2, <1>3, <1>4, <1>5 DEF Types

LEMMA ReleaseType ==
  ASSUME HeldType, NEW by \in {"line", "timer", "prompt"}, NEW v, ReleaseCode(by, v)
  PROVE  /\ eof' \in BOOLEAN /\ held' = "" /\ sentBy' \in {"", "line", "timer", "prompt"}
         /\ stdin' \in Seq(Stdin)
<1>1. eof' \in BOOLEAN
  BY DEF ReleaseCode, DropHeld, HeldType
<1>2. held # "" => Append(stdin, held) \in Seq(Stdin)
  BY AppendProperties DEF HeldType, Stdin
<1> QED BY <1>1, <1>2 DEF ReleaseCode, DropHeld, HeldType

\* Start.
LEMMA StartTypes == ASSUME Types, Start PROVE Types'
<1> USE DEF Types, Start, StartBegin, StartCreate, StartNamed, StartFails, StartExec, StartPublish,
        StartFeed, StartCheck, RemoveTokenFile, coreVars, runVars, fileVars, lifeVars, heldVars,
        timerVars, readVars, ocVars, procVars
<1>1. StartType'
  BY DEF StartType, Starts
<1>2. RunType'
  BY DEF RunType
<1>3. FileType'
  BY DEF FileType
<1>4. LifeType'
  BY DEF LifeType
<1>5. HeldType'
  <2>1. eof' \in BOOLEAN
    BY DEF HeldType
  <2>2. stdin' \in Seq(Stdin)
    BY AppendProperties DEF HeldType, Stdin
  <2> QED BY <2>1, <2>2 DEF HeldType, Held
<1>6. ReadType'
  BY DEF ReadType
<1>7. WaitType'
  BY DEF WaitType
<1>8. OcType'
  BY DEF OcType
<1> QED BY <1>1, <1>2, <1>3, <1>4, <1>5, <1>6, <1>7, <1>8

LEMMA FedType == ASSUME ReadType, NEW line PROVE Fed(line) \in ClassifierType
  BY DEF ReadType, Fed, ClassifierType

LEMMA VerdictType == ASSUME NEW line \in Lines, NEW c PROVE VerdictOf(line, c) \in Verdicts
  BY DEF VerdictOf, Rejected, Verdicts, Lines

LEMMA ReadLineTypes ==
  ASSUME Types, ReadLine
  PROVE  /\ out' \in Seq(Lines) /\ classifier' \in ClassifierType /\ verdict' \in Verdicts
         /\ abort' \in {"off", "term", "grace"} /\ held' \in {"", "code", "push"}
         /\ eof' \in BOOLEAN /\ sentBy' \in {"", "line", "timer", "prompt"} /\ stdin' \in Seq(Stdin)
<1>1. Head(out) \in Lines /\ Tail(out) \in Seq(Lines)
  BY HeadTailProperties DEF ReadLine, Types, OcType
<1>2. ReadType /\ HeldType
  BY DEF Types
<1>3. /\ classifier' \in ClassifierType /\ verdict' \in Verdicts
      /\ abort' \in {"off", "term", "grace"}
  BY <1>1, <1>2, FedType, VerdictType DEF ReadLine, HandleLine, ReadType
<1>4. CASE \E v : ReleaseCode("line", v)
  BY <1>1, <1>2, <1>3, <1>4, ReleaseType DEF ReadLine
<1>5. CASE UNCHANGED <<heldVars, stdin>>
  BY <1>1, <1>2, <1>3, <1>5 DEF ReadLine, HeldType, heldVars
<1> QED BY <1>4, <1>5 DEF ReadLine, HandleLine

LEMMA ReaderTypes ==
  ASSUME Types, Reader \/ CodeTimerFires \/ PromptTimerFires \/ AtPrompt PROVE Types'
<1> USE DEF Types, Reader, ReadLine, ReadPrompt, ReadEnd, ReadFile, ReadClose, CodeTimerFires,
        PromptTimerFires, AtPrompt, RemoveTokenFile, coreVars, runVars, fileVars, lifeVars, heldVars,
        timerVars, readVars, ocVars, procVars
<1>1. StartType' /\ RunType'
  BY DEF StartType, RunType
<1>2. FileType'
  BY DEF FileType
<1>3. LifeType'
  BY DEF LifeType
<1>4. HeldType'
  <2>1. CASE ReadLine
    BY <2>1, ReadLineTypes DEF HeldType
  <2>2. CASE ReadPrompt \/ ReadFile \/ ReadClose \/ PromptTimerFires
    BY <2>2 DEF HeldType
  <2>3. CASE ReadEnd
    <3>1. eof' \in BOOLEAN
      BY <2>3 DEF HeldType, DropHeld
    <3> QED BY <2>3, <3>1 DEF HeldType, DropHeld
  <2>4. CASE CodeTimerFires \/ AtPrompt
    BY <2>4, ReleaseType DEF HeldType
  <2> QED BY <2>1, <2>2, <2>3, <2>4
<1>5. ReadType'
  <2>1. CASE ReadLine
    BY <2>1, ReadLineTypes DEF ReadType
  <2>2. CASE ~ReadLine
    BY <2>2 DEF ReadType
  <2> QED BY <2>1, <2>2
<1>6. WaitType'
  BY DEF WaitType
<1>7. OcType'
  BY HeadTailProperties DEF OcType
<1> QED BY <1>1, <1>2, <1>3, <1>4, <1>5, <1>6, <1>7

\* Its end: WaitReady, Stop, abort, the core.
LEMMA EndTypes ==
  ASSUME Types, Abort \/ WaitReady \/ (\E t \in Stoppers : StopBegin(t) \/ Stop(t)) \/ Crash \/ Restart
  PROVE  Types'
<1> USE DEF Types, Abort, WaitReady, WaitExited, WaitGivesUp, WaitOpen, MarkReady, MarkReadyFile,
        StopBegin, Stop, MarkStopping, StopTerm, StopGrace, StopKilled, StopPort, Crash, Restart,
        RemoveTokenFile, Signal, coreVars, runVars, fileVars, lifeVars, heldVars, timerVars, readVars,
        ocVars, procVars
<1>1. StartType' /\ RunType'
  BY DEF StartType, RunType
<1>2. FileType'
  BY DEF FileType
<1>3. LifeType'
  BY DEF LifeType
<1>4. HeldType'
  <2>1. eof' \in BOOLEAN
    BY DEF HeldType, DropHeld
  <2> QED BY <2>1, EmptySeq DEF HeldType, DropHeld
<1>5. ReadType'
  <2>1. NewClassifier \in ClassifierType /\ "none" \in Verdicts
    BY DEF NewClassifier, ClassifierType, Verdicts
  <2> QED BY <2>1 DEF ReadType
<1>6. WaitType'
  BY DEF WaitType, Stopping
<1>7. OcType'
  <2>1. out' \in Seq(Lines)
    BY EmptySeq DEF OcType
  <2>2. UNCHANGED <<form, refused>> \/ (form' = 1 /\ refused' = 0)
    OBVIOUS
  <2>3. form' \in 1..2 /\ refused' \in Nat
    <3> HIDE DEF Abort, WaitReady, StopBegin, Stop, Crash, Restart
    <3> QED BY <2>2 DEF OcType
  <2>4. oc' \in {oc, "none"} /\ sig' \in {"none", "term", "kill"}
    BY DEF OcType
  <2>5. proxy' \in {"no", "listening", "closing", "gone"}
    BY DEF OcType
  <2> QED BY <2>1, <2>3, <2>4, <2>5 DEF OcType
<1> QED BY <1>1, <1>2, <1>3, <1>4, <1>5, <1>6, <1>7

\* What openconnect prints.
LEMMA PrintsType ==
  ASSUME OcType, NEW lines \in Seq(Lines), NEW pc, Prints(lines, pc)
  PROVE  out' \in Seq(Lines) /\ oc' = pc
  BY ConcatProperties DEF OcType, Prints

LEMMA AskType ==
  ASSUME OcType, NEW lines \in Seq(Lines), NEW pc, Ask(lines, pc)
  PROVE  out' \in Seq(Lines) /\ oc' \in {pc, "dying"}
<1>1. <<"noinput", "incomplete">> \in Seq(Lines) /\ <<"prompt">> \in Seq(Lines)
  BY DEF Lines
<1>2. /\ lines \o <<"noinput", "incomplete">> \in Seq(Lines)
      /\ lines \o <<"prompt">> \in Seq(Lines)
  BY <1>1, ConcatProperties
<1> QED BY <1>2, PrintsType DEF Ask

LEMMA ReadsType ==
  ASSUME OcType, HeldType, NEW lines \in Seq(Lines), NEW pc, Reads(pc, lines)
  PROVE  out' \in Seq(Lines) /\ oc' \in {pc, "dying"} /\ stdin' \in Seq(Stdin)
<1>1. <<"incomplete">> \in Seq(Lines)
  BY DEF Lines
<1>2. stdin # <<>> => Tail(stdin) \in Seq(Stdin)
  BY HeadTailProperties DEF HeldType
<1> QED BY <1>1, <1>2, PrintsType DEF Reads, HeldType

LEMMA OpenconnectTypes == ASSUME Types, Openconnect \/ OcDrops PROVE Types'
<1>1. /\ <<>> \in Seq(Lines) /\ \A l \in Lines : <<l>> \in Seq(Lines)
      /\ <<"network", "incomplete">> \in Seq(Lines) /\ <<"failed", "prompt">> \in Seq(Lines)
  BY DEF Lines
<1>2. {"xml", "post", "generated", "otpform", "failed", "incomplete", "network", "saml", "unusable",
       "glued"} \subseteq Lines
  BY DEF Lines
<1>3. ASSUME UNCHANGED ocRest, stdin' \in Seq(Stdin), out' \in Seq(Lines), OcType' PROVE Types'
  <2> USE <1>3 DEF Types, ocRest, coreVars, runVars, fileVars, lifeVars, heldVars, timerVars, readVars
  <2>1. StartType' /\ RunType' /\ WaitType'
    BY DEF StartType, RunType, WaitType
  <2>2. FileType' /\ LifeType'
    BY DEF FileType, LifeType
  <2>3. HeldType' /\ ReadType'
    BY DEF HeldType, ReadType
  <2> QED BY <2>1, <2>2, <2>3
<1> USE DEF OcType
<1>4. CASE OcPassword
  BY <1>1, <1>3, <1>4, ReadsType DEF OcPassword, Types, ocRest
<1>5. CASE OcForm
  <2>1. stdin' \in Seq(Stdin) /\ UNCHANGED <<ocRest, form, proxy, refused>>
    BY <1>5 DEF OcForm, Types, HeldType
  <2>2. gate.asks \in {"one", "two", "web", "nothing"}
    BY TunnelAssumption DEF Types, RunType, Gateway
  <2>3. out' \in Seq(Lines) /\ oc' \in {"factor", "post", "web", "dying"}
    BY <1>1, <1>2, <1>5, <2>2, PrintsType DEF OcForm, Types
  <2> QED BY <1>3, <2>1, <2>3 DEF Types, ocRest
<1>6. CASE OcFactor
  <2>1. stdin' \in Seq(Stdin) /\ UNCHANGED <<ocRest, form, proxy, refused>>
    BY <1>6 DEF OcFactor, Types, HeldType
  <2>2. out' \in Seq(Lines) /\ oc' \in {"post", "dying", "answer"}
    BY <1>1, <1>2, <1>6, PrintsType, AskType DEF OcFactor, Types
  <2> QED BY <1>3, <2>1, <2>2 DEF Types, ocRest
<1>7. CASE OcAnswer
  BY <1>1, <1>2, <1>3, <1>7, ReadsType DEF OcAnswer, Types, ocRest
<1>8. CASE OcPost
  BY <1>1, <1>2, <1>3, <1>8, PrintsType DEF OcPost, Types, ocRest, HeldType
<1>9. CASE OcPosted
  <2>1. stdin' \in Seq(Stdin) /\ UNCHANGED <<ocRest, proxy>>
    BY <1>9 DEF OcPosted, Types, HeldType
  <2>2. CASE ~Accepted
    <3>1. refused' = refused + 1 /\ Ask(<<"failed">>, "again") /\ form' = form
      BY <1>9, <2>2 DEF OcPosted
    <3>2. out' \in Seq(Lines) /\ oc' \in {"again", "dying"}
      BY <1>1, <1>2, <3>1, AskType DEF Types
    <3> QED BY <1>3, <2>1, <3>1, <3>2 DEF Types, ocRest
  <2>3. CASE Accepted
    <3>1. form' \in 1..2 /\ oc' \in {"factor", "in"} /\ out' = out /\ refused' = refused
      BY <1>9, <2>3 DEF OcPosted, Types
    <3> QED BY <1>3, <2>1, <3>1 DEF Types, ocRest
  <2> QED BY <2>2, <2>3
<1>10. CASE OcAgain
  <2>1. out' \in Seq(Lines) /\ oc' \in {"again", "dying"} /\ stdin' \in Seq(Stdin)
    BY <1>1, <1>10, ReadsType DEF OcAgain, Types
  <2>2. refused' \in Nat /\ UNCHANGED <<ocRest, form, proxy>>
    BY <1>10 DEF OcAgain, Types
  <2> QED BY <1>3, <2>1, <2>2 DEF Types, ocRest
<1>11. CASE OcUp
  BY <1>3, <1>11 DEF OcUp, Types, ocRest, HeldType
<1>12. CASE OcDrops
  BY <1>1, <1>2, <1>3, <1>12, PrintsType DEF OcDrops, Types, ocRest, HeldType
<1>13. CASE OcExits
  BY <1>3, <1>13 DEF OcExits, Types, ocRest, HeldType
<1>14. CASE ProxyEnds
  BY <1>3, <1>14 DEF ProxyEnds, Types, ocRest, HeldType
<1> QED
  BY <1>4, <1>5, <1>6, <1>7, <1>8, <1>9, <1>10, <1>11, <1>12, <1>13, <1>14 DEF Openconnect

LEMMA NextTypes == Types /\ [Next]_vars => Types'
<1> SUFFICES ASSUME Types, [Next]_vars PROVE Types'
  OBVIOUS
<1>1. CASE Next
  BY <1>1, StartTypes, ReaderTypes, EndTypes, OpenconnectTypes DEF Next
<1>2. CASE UNCHANGED vars
  <2> USE <1>2 DEF Types, vars, coreVars, runVars, fileVars, lifeVars, heldVars, timerVars, readVars,
          ocVars, procVars
  <2>1. StartType' /\ RunType' /\ WaitType' /\ OcType'
    BY DEF StartType, RunType, WaitType, OcType
  <2>2. FileType' /\ LifeType'
    BY DEF FileType, LifeType
  <2>3. HeldType' /\ ReadType'
    BY DEF HeldType, ReadType
  <2> QED BY <2>1, <2>2, <2>3
<1> QED BY <1>1, <1>2

LEMMA TypesAlways == Spec => []Types
  BY InitTypes, NextTypes, PTL DEF Spec

\* Every variable keeps its type.
THEOREM TypeCorrect == Spec => []TypeOK
  BY TypesAlways, TypesAreTypeOK, PTL

-----------------------------------------------------------------------------
\* The parts of a run start and end in this order.

Published == {"feed", "check", "killed", "done"}

LifeInv ==
    /\ core = "up" => (cmd <=> start \in Published)
    /\ core # "up" => /\ ~cmd /\ reader = "off" /\ wait = "no" /\ proxy = "no"
                      /\ \A t \in Stoppers : stop[t] = "no"
    /\ ~cmd => reader = "off" /\ proxy = "no" /\ stdin = <<>> /\ ~eof /\ held = ""
    /\ wait # "no" => start \in {"killed", "done"}
    /\ oc \notin {"none", "read", "dead"} => cmd
    /\ \A t \in Stoppers : stop[t] \in {"port", "ended"} => Exited

LEMMA LifeStep == Types /\ LifeInv /\ [Next]_vars => LifeInv'
<1> SUFFICES ASSUME Types, LifeInv, [Next]_vars PROVE LifeInv'
  OBVIOUS
<1> USE DEF LifeInv, Published, Exited, RemoveTokenFile, coreVars, runVars, fileVars, lifeVars,
        heldVars, timerVars, readVars, ocVars, procVars
<1>1. CASE Start
  <2> USE DEF Types, StartType, LifeType, Starts
  <2>1. CASE StartBegin
    BY <2>1 DEF StartBegin
  <2>2. CASE StartCreate
    BY <2>2 DEF StartCreate
  <2>3. CASE StartNamed
    BY <2>3 DEF StartNamed
  <2>4. CASE StartFails
    BY <2>4 DEF StartFails
  <2>5. CASE StartExec
    BY <2>5 DEF StartExec
  <2>6. CASE StartPublish
    BY <2>6 DEF StartPublish
  <2>7. CASE StartFeed
    BY <2>7 DEF StartFeed
  <2>8. CASE StartCheck
    BY <2>8 DEF StartCheck
  <2> QED BY <1>1, <2>1, <2>2, <2>3, <2>4, <2>5, <2>6, <2>7, <2>8 DEF Start
<1>2. CASE Reader \/ CodeTimerFires \/ PromptTimerFires \/ AtPrompt
  <2>1. CASE cmd
    BY <1>2, <2>1
    DEF Reader, ReadLine, ReadPrompt, ReadEnd, ReadFile, ReadClose, CodeTimerFires, PromptTimerFires,
        AtPrompt
  <2>2. CASE ~cmd
    <3>1. ~Reader
      BY <2>2 DEF Reader, ReadLine, ReadPrompt, ReadEnd, ReadFile, ReadClose
    <3>2. ASSUME NEW by, NEW v, ReleaseCode(by, v) PROVE stdin' = <<>> /\ ~eof' /\ held' = ""
      BY <2>2, <3>2 DEF ReleaseCode, DropHeld
    <3>3. stdin' = <<>> /\ ~eof' /\ held' = ""
      BY <1>2, <2>2, <3>1, <3>2 DEF CodeTimerFires, PromptTimerFires, AtPrompt
    <3>4. UNCHANGED <<core, start, cmd, reader, wait, stop, oc, proxy>>
      BY <1>2, <3>1 DEF CodeTimerFires, PromptTimerFires, AtPrompt
    <3> QED BY <3>3, <3>4
  <2> QED BY <2>1, <2>2
<1>3. CASE Abort \/ WaitReady
  <2>1. CASE Abort
    BY <2>1 DEF Abort
  <2>2. CASE WaitReady
    <3>1. cmd /\ UNCHANGED <<core, start, cmd, reader, proxy, oc, stop>> /\ wait # "no"
      BY <2>2 DEF WaitReady, WaitExited, WaitGivesUp, WaitOpen, MarkReady, MarkReadyFile
    <3> QED BY <3>1
  <2> QED BY <1>3, <2>1, <2>2
<1>4. ASSUME NEW t \in Stoppers, StopBegin(t) \/ Stop(t) PROVE LifeInv'
  <2>1. stop \in [Stoppers -> Stopping]
    BY DEF Types, WaitType
  <2>2. CASE StopBegin(t)
    BY <2>1, <2>2 DEF StopBegin
  <2>3. CASE MarkStopping(t)
    BY <2>1, <2>3 DEF MarkStopping
  <2>4. CASE StopTerm(t)
    BY <2>1, <2>4 DEF StopTerm
  <2>5. CASE StopGrace(t)
    BY <2>1, <2>5 DEF StopGrace
  <2>6. CASE StopKilled(t)
    BY <2>1, <2>6 DEF StopKilled
  <2>7. CASE StopPort(t)
    BY <2>1, <2>7 DEF StopPort, PortOpen
  <2> QED BY <1>4, <2>2, <2>3, <2>4, <2>5, <2>6, <2>7 DEF Stop
<1>5. CASE core = "up" /\ (Openconnect \/ OcDrops)
  <2> USE <1>5 DEF ocRest
  <2>1. CASE OcPassword
    BY <2>1 DEF OcPassword, Reads, Prints
  <2>2. CASE OcExits
    BY <2>2 DEF OcExits
  <2>3. CASE ProxyEnds
    BY <2>3 DEF ProxyEnds
  <2>4. ASSUME UNCHANGED ocRest, cmd PROVE LifeInv'
    BY <2>4
  <2>5. CASE \/ OcForm \/ OcFactor \/ OcAnswer \/ OcPost \/ OcPosted \/ OcAgain \/ OcUp \/ OcDrops
    BY <2>4, <2>5
    DEF OcForm, OcFactor, OcAnswer, OcPost, OcPosted, OcAgain, OcUp, OcDrops
  <2> QED BY <2>1, <2>2, <2>3, <2>5 DEF Openconnect
<1>6. CASE Crash
  BY <1>6 DEF Crash
<1>7. CASE Restart
  BY <1>7 DEF Restart
<1>8. CASE UNCHANGED vars
  BY <1>8 DEF vars
<1> QED BY <1>1, <1>2, <1>3, <1>4, <1>5, <1>6, <1>7, <1>8 DEF Next, Openconnect

-----------------------------------------------------------------------------
\* The secret file.

\* Where it is, Start knows its name or is about to, and nothing that removes it is over.
FileInv ==
    /\ core = "restarted" => ~disk
    /\ disk => start \notin {"begin", "create", "failed", "killed"}
    /\ core = "up" /\ disk /\ start # "named" => tokenFile
    /\ reader \in {"close", "done"} \/ wait = "ready" => ~disk
    /\ \A t \in Stoppers : /\ stop[t] = "returned" /\ ~cmd => byUs
                           /\ stop[t] = "returned" /\ disk => byUs /\ start # "done"

LEMMA FileStep == Types /\ LifeInv /\ FileInv /\ [Next]_vars => FileInv'
<1> SUFFICES ASSUME Types, LifeInv, FileInv, [Next]_vars PROVE FileInv'
  OBVIOUS
<1> USE DEF FileInv, RemoveTokenFile, coreVars, runVars, fileVars, lifeVars, heldVars, timerVars,
        readVars, ocVars, procVars
<1>1. CASE Start
  <2> USE DEF Types, StartType, LifeType, FileType, Starts, LifeInv, Published
  <2>1. CASE StartBegin
    BY <2>1 DEF StartBegin
  <2>2. CASE StartCreate
    <3>1. /\ core = "up" /\ start = "create" /\ ~disk /\ ~cmd /\ reader = "off" /\ wait = "no"
          /\ UNCHANGED <<core, tokenFile, cmd, byUs, reader, wait, stop>>
      BY <2>2 DEF StartCreate
    <3>2. CASE start' = "failed" /\ UNCHANGED disk
      BY <3>1, <3>2
    <3>3. CASE start' = "named" /\ disk' = TRUE
      BY <3>1, <3>3
    <3> QED BY <2>2, <3>2, <3>3 DEF StartCreate
  <2>3. CASE StartNamed
    BY <2>3 DEF StartNamed
  <2>4. CASE StartFails
    BY <2>4 DEF StartFails
  <2>5. CASE StartExec
    BY <2>5 DEF StartExec
  <2>6. CASE StartPublish
    BY <2>6 DEF StartPublish
  <2>7. CASE StartFeed
    BY <2>7 DEF StartFeed
  <2>8. CASE StartCheck
    BY <2>8 DEF StartCheck
  <2> QED BY <1>1, <2>1, <2>2, <2>3, <2>4, <2>5, <2>6, <2>7, <2>8 DEF Start
<1>2. CASE Reader \/ CodeTimerFires \/ PromptTimerFires \/ AtPrompt
  <2>1. CASE ReadFile
    BY <2>1 DEF ReadFile, LifeInv, Published
  <2>2. CASE ReadClose
    BY <2>2 DEF ReadClose
  <2>3. \/ /\ UNCHANGED <<core, start, tokenFile, disk, cmd, wait, stop, byUs>>
           /\ reader' \notin {"close", "done"}
        \/ ReadFile \/ ReadClose
        \/ UNCHANGED <<core, start, tokenFile, disk, cmd, wait, stop, byUs, reader>>
    BY <1>2
    DEF Reader, ReadLine, ReadPrompt, ReadEnd, CodeTimerFires, PromptTimerFires, AtPrompt
  <2> QED BY <2>1, <2>2, <2>3
<1>3. CASE Abort \/ WaitReady
  <2>1. CASE MarkReadyFile
    BY <2>1 DEF MarkReadyFile, LifeInv
  <2>2. \/ UNCHANGED <<core, start, tokenFile, disk, cmd, stop, byUs, reader>> /\ wait' # "ready"
        \/ UNCHANGED <<core, start, tokenFile, disk, cmd, stop, byUs, reader, wait>>
        \/ MarkReadyFile
    BY <1>3 DEF Abort, WaitReady, WaitExited, WaitGivesUp, WaitOpen, MarkReady
  <2> QED BY <2>1, <2>2
<1>4. ASSUME NEW t \in Stoppers, StopBegin(t) \/ Stop(t) PROVE FileInv'
  <2>1. stop \in [Stoppers -> Stopping] /\ byUs \in BOOLEAN /\ disk \in BOOLEAN
    BY DEF Types, WaitType, LifeType, FileType
  <2>2. CASE StopBegin(t)
    BY <2>1, <2>2 DEF StopBegin
  <2>3. CASE MarkStopping(t)
    BY <2>1, <2>3 DEF MarkStopping, Exited, LifeInv, Published
  <2>4. ASSUME NEW to \in Stopping, to # "returned", stop' = [stop EXCEPT ![t] = to],
               UNCHANGED <<core, start, tokenFile, disk, cmd, wait, byUs, reader>>
        PROVE  FileInv'
    BY <2>1, <2>4
  <2>5. CASE StopTerm(t) \/ StopGrace(t) \/ StopKilled(t) \/ StopPort(t)
    BY <2>4, <2>5 DEF StopTerm, StopGrace, StopKilled, StopPort, Stopping
  <2> QED BY <1>4, <2>2, <2>3, <2>5 DEF Stop
<1>5. CASE Openconnect \/ OcDrops
  <2>1. UNCHANGED ocRest
    BY <1>5
    DEF Openconnect, OcPassword, OcForm, OcFactor, OcAnswer, OcPost, OcPosted, OcAgain, OcUp, OcDrops,
        OcExits, ProxyEnds
  <2> QED BY <2>1 DEF ocRest
<1>6. CASE Crash
  BY <1>6 DEF Crash
<1>7. CASE Restart
  BY <1>7 DEF Restart, LifeInv
<1>8. CASE UNCHANGED vars
  BY <1>8 DEF vars
<1> QED BY <1>1, <1>2, <1>3, <1>4, <1>5, <1>6, <1>7, <1>8 DEF Next

LEMMA FileAlways == Spec => [](Types /\ LifeInv /\ FileInv)
<1>1. Init => LifeInv /\ FileInv
  BY DEF Init, LifeInv, FileInv, Published, Exited
<1> QED BY <1>1, InitTypes, NextTypes, LifeStep, FileStep, PTL DEF Spec

\* The secret file is gone once Start failed, the tunnel is ready, openconnect has exited, Start and
\* a Stop have returned, or the core has started again after a crash (tunnel.go, TokenArgs,
\* RemoveTokenFile and RemoveStaleTokenFiles).
THEOREM SecretGoneAlways == Spec => []SecretGone
<1>1. Types /\ LifeInv /\ FileInv => SecretGone
  BY DEF LifeInv, FileInv, SecretGone, Returned, Exited
<1> QED BY <1>1, FileAlways, PTL

-----------------------------------------------------------------------------
\* The loop's tunnel.

LEMMA LifeInit == Init => Life!Init
  BY DEF Init, Life!Init, Exited

\* A step of the run is a step of TunnelLife, or changes nothing it sees.
LEMMA StepIsLifes ==
  Types /\ LifeInv /\ [Next]_vars => [Life!Next]_(Life!vars)
<1> SUFFICES ASSUME Types, LifeInv, [Next]_vars PROVE [Life!Next]_(Life!vars)
  OBVIOUS
<1> DEFINE seen == <<core, start, cmd, byUs, reader, proxy>>
<1>1. UNCHANGED seen => UNCHANGED Life!vars
  BY DEF Life!vars, Exited
<1> USE DEF Life!Next, Life!vars, LifeInv, Exited, Published, coreVars, runVars, fileVars, lifeVars,
        heldVars, timerVars, readVars, ocVars, procVars
<1>2. CASE Start
  <2> USE <1>2 DEF Types, StartType, LifeType, Starts
  <2>1. CASE start' = "failed"
    BY <2>1
    DEF Start, StartBegin, StartCreate, StartNamed, StartFails, StartExec, StartPublish, StartFeed,
        StartCheck, Life!Fails
  <2>2. CASE StartPublish
    BY <2>2 DEF StartPublish, Life!Spawns
  <2>3. CASE StartCheck
    BY <2>3 DEF StartCheck, Life!Killed
  <2>4. CASE ~StartPublish /\ ~StartCheck /\ start' # "failed"
    <3>1. UNCHANGED <<core, cmd, byUs, reader, proxy>> /\ {start, start'} \cap {"failed", "killed"} = {}
      BY <2>4 DEF Start, StartBegin, StartCreate, StartNamed, StartFails, StartExec, StartFeed
    <3> QED BY <3>1
  <2> QED BY <2>1, <2>2, <2>3, <2>4
<1>3. CASE Reader \/ CodeTimerFires \/ PromptTimerFires \/ AtPrompt
  <2>1. CASE ReadClose
    BY <2>1 DEF ReadClose, Life!Exits
  <2>2. CASE ~ReadClose
    <3>1. \/ UNCHANGED <<core, start, cmd, byUs, proxy>> /\ reader # "done" /\ reader' # "done"
          \/ UNCHANGED seen
      BY <1>3, <2>2
      DEF Reader, ReadLine, ReadPrompt, ReadEnd, ReadFile, CodeTimerFires, PromptTimerFires, AtPrompt
    <3>2. CASE reader # "done" /\ reader' # "done" /\ UNCHANGED <<core, start, cmd, byUs, proxy>>
      BY <3>2
    <3> QED BY <1>1, <3>1, <3>2
  <2> QED BY <2>1, <2>2
<1>4. CASE Abort \/ WaitReady
  BY <1>1, <1>4 DEF Abort, WaitReady, WaitExited, WaitGivesUp, WaitOpen, MarkReady, MarkReadyFile
<1>5. ASSUME NEW t \in Stoppers, StopBegin(t) \/ Stop(t) PROVE [Life!Next]_(Life!vars)
  <2>1. CASE MarkStopping(t)
    BY <2>1 DEF MarkStopping, Life!MarkStopping, Types, LifeType
  <2>2. CASE StopPort(t)
    BY <2>2 DEF StopPort, PortOpen
  <2>3. CASE StopBegin(t) \/ StopTerm(t) \/ StopGrace(t) \/ StopKilled(t)
    BY <1>1, <2>3 DEF StopBegin, StopTerm, StopGrace, StopKilled
  <2> QED BY <1>5, <2>1, <2>2, <2>3 DEF Stop
<1>6. CASE core = "up" /\ (Openconnect \/ OcDrops)
  <2>1. CASE OcUp
    BY <1>6, <2>1 DEF OcUp, ocRest, Life!OpensPort
  <2>2. CASE ProxyEnds
    BY <2>2 DEF ProxyEnds, ocRest
  <2>3. CASE ~OcUp /\ ~ProxyEnds
    BY <1>1, <1>6, <2>3
    DEF Openconnect, OcPassword, OcForm, OcFactor, OcAnswer, OcPost, OcPosted, OcAgain, OcDrops,
        OcExits, ocRest
  <2> QED BY <2>1, <2>2, <2>3
<1>7. CASE Crash
  BY <1>7 DEF Crash, Life!Lost, Life!Exits
<1>8. CASE Restart
  BY <1>8 DEF Restart
<1>9. CASE UNCHANGED vars
  BY <1>1, <1>9 DEF vars
<1> QED BY <1>2, <1>3, <1>4, <1>5, <1>6, <1>7, <1>8, <1>9 DEF Next, Openconnect

\* Each run is one of the tunnels the connection loop relies on (tunnel.go, Start, MarkStopping and
\* the reader's end): it starts and exits once, and one that exited by itself is not marked as
\* stopped by us.
THEOREM RunIsLoopsTunnel == Spec => Life!Safety
  BY FileAlways, LifeInit, StepIsLifes, PTL DEF Spec, Life!Safety

-----------------------------------------------------------------------------
\* The held line and the gateway's refusals.

FormLines == {"xml", "post"}
OnlyForms(s) == \A i \in 1..Len(s) : s[i] \in FormLines
FailsFirst(s) == \E i \in 1..Len(s) : s[i] = "failed" /\ \A k \in 1..(i - 1) : s[k] \in FormLines

\* Nothing has been read that releases the held line.
Unreleased == promptTimer = "off" /\ ~classifier.generated /\ verdict = "none"

\* openconnect has not asked for the second factor yet; then nothing that releases the held line is
\* in its output either.
PasswordOnly == form = 1 /\ gate.asks = "two"
Unasked == oc \in {"none", "read", "form", "factor", "post"} \/ (oc = "posted" /\ PasswordOnly)
Early == Unreleased /\ OnlyForms(out)

\* It refused the sign-in before it asked: reading on, the held line is dropped.
Pending == Unreleased /\ FailsFirst(out)

\* One line is held, and released once.
HeldOnce ==
    /\ held # "" => held = Held /\ sentBy = "" /\ verdict = "none"
    /\ ~cmd => Early /\ sentBy = "" /\ refused = 0 /\ form = 1
    /\ core = "up" /\ start \in {"publish", "feed"} =>
          oc \in {"read", "dying", "dead"} /\ (oc = "read" => stdin = <<>>)
    /\ oc \in {"none", "read", "form"} => form = 1
    /\ oc = "post" /\ Held # "" => PasswordOnly
    /\ oc \in {"factor", "answer"} => ~PasswordOnly

\* Unless the timer sent it: it answers what asks for it, and is gone when a refused sign-in asks
\* again.
AnswersOnce ==
    /\ Unasked /\ Held # "" => Early
    /\ oc \in {"read", "answer"} => stdin = <<>> \/ Len(stdin) = 1
    /\ oc \in {"none", "form", "factor", "post", "posted", "again"} => stdin = <<>>
    /\ oc = "answer" /\ stdin # <<>> => held = ""
    /\ oc = "posted" /\ ~PasswordOnly => held = ""
    /\ oc = "again" => held = "" \/ Pending
    /\ refused = 0 \/ (refused = 1 /\ oc \in {"again", "dying", "dead"})

OnceInv == HeldOnce /\ (sentBy # "timer" => AnswersOnce)

LEMMA OneAppended == ASSUME NEW x PROVE Len(Append(<<>>, x)) = 1
<1>1. <<>> \in Seq({x}) /\ Len(<<>>) = 0
  BY EmptySeq
<1>2. Len(Append(<<>>, x)) = Len(<<>>) + 1
  BY <1>1, AppendProperties
<1> QED BY <1>1, <1>2

LEMMA OnlyNothing == OnlyForms(<<>>)
<1>1. Len(<<>>) = 0
  BY EmptySeq
<1> QED BY <1>1 DEF OnlyForms

LEMMA OnlyTail ==
  ASSUME NEW s \in Seq(Lines), s # <<>>, OnlyForms(s)
  PROVE  Head(s) \in FormLines /\ OnlyForms(Tail(s))
  BY HeadTailProperties DEF OnlyForms

LEMMA OnlyAppends ==
  ASSUME NEW s \in Seq(Lines), NEW l \in FormLines, OnlyForms(s)
  PROVE  OnlyForms(s \o <<l>>)
<1>1. <<l>> \in Seq(Lines) /\ Len(<<l>>) = 1 /\ <<l>>[1] = l
  BY DEF FormLines, Lines
<1> QED BY <1>1, ConcatProperties DEF OnlyForms

LEMMA FailsTail ==
  ASSUME NEW s \in Seq(Lines), s # <<>>, FailsFirst(s)
  PROVE  Head(s) = "failed" \/ (Head(s) \in FormLines /\ FailsFirst(Tail(s)))
<1>1. PICK i \in 1..Len(s) : s[i] = "failed" /\ \A k \in 1..(i - 1) : s[k] \in FormLines
  BY DEF FailsFirst
<1>2. Len(s) \in Nat /\ Head(s) = s[1] /\ Len(Tail(s)) = Len(s) - 1
      /\ \A k \in 1..(Len(s) - 1) : Tail(s)[k] = s[k + 1]
  BY HeadTailProperties, LenProperties
<1>3. CASE i = 1
  BY <1>1, <1>2, <1>3
<1>4. CASE i # 1
  <2>1. i - 1 \in 1..Len(Tail(s)) /\ Tail(s)[i - 1] = "failed"
    BY <1>1, <1>2, <1>4
  <2>2. \A k \in 1..(i - 1 - 1) : Tail(s)[k] \in FormLines
    BY <1>1, <1>2, <1>4
  <2> QED BY <1>1, <1>2, <1>4, <2>1, <2>2 DEF FailsFirst
<1> QED BY <1>3, <1>4

LEMMA FailsAppends ==
  ASSUME NEW s \in Seq(Lines), NEW t \in Seq(Lines), FailsFirst(s)
  PROVE  FailsFirst(s \o t)
  BY ConcatProperties, LenProperties DEF FailsFirst

LEMMA OnlyFails ==
  ASSUME NEW s \in Seq(Lines), NEW t \in Seq(Lines), OnlyForms(s), t # <<>>, t[1] = "failed"
  PROVE  FailsFirst(s \o t)
<1>1. Len(s) \in Nat /\ Len(t) \in Nat \ {0} /\ Len(s \o t) = Len(s) + Len(t)
  BY ConcatProperties, LenProperties, EmptySeq
<1>2. (s \o t)[Len(s) + 1] = "failed" /\ \A k \in 1..Len(s) : (s \o t)[k] \in FormLines
  BY <1>1, ConcatProperties DEF OnlyForms
<1>3. Len(s) + 1 \in 1..Len(s \o t) /\ (Len(s) + 1) - 1 = Len(s)
  BY <1>1
<1> QED BY <1>2, <1>3 DEF FailsFirst

\* What the classifier makes of a line: the forms release nothing, "failed" is a verdict.
LEMMA FormLine ==
  ASSUME ReadType, NEW line \in FormLines
  PROVE  /\ Fed(line).generated = classifier.generated
         /\ \A c : VerdictOf(line, c) = "none"
  BY DEF ReadType, ClassifierType, Fed, FormLines, VerdictOf

LEMMA FailedLine == ASSUME NEW c PROVE VerdictOf("failed", c) # "none"
  BY DEF VerdictOf, Rejected

\* Steps that release nothing.
LEMMA OnceSame ==
  ASSUME OnceInv,
         UNCHANGED <<runVars, cmd, sentBy, verdict, classifier, out, oc, form, stdin, refused>>,
         held' \in {held, ""}, promptTimer = "off" => promptTimer' = "off",
         core' = "up" /\ start' \in {"publish", "feed"} => core = "up" /\ start = start'
  PROVE  OnceInv'
<1>1. Held' = Held /\ PasswordOnly' = PasswordOnly /\ Unasked' = Unasked
  BY DEF Held, PasswordOnly, Unasked, runVars
<1>2. Unreleased => Unreleased'
  BY DEF Unreleased
<1>3. HeldOnce'
  BY <1>1, <1>2 DEF OnceInv, HeldOnce, Early, OnlyForms
<1>4. AnswersOnce => AnswersOnce'
  BY <1>1, <1>2 DEF AnswersOnce, Early, Pending
<1> QED BY <1>3, <1>4 DEF OnceInv

LEMMA OnceStart == ASSUME Types, LifeInv, OnceInv, Start PROVE OnceInv'
<1> USE DEF coreVars, runVars, fileVars, lifeVars, heldVars, timerVars, readVars, ocVars, procVars
<1>1. Held' = Held /\ PasswordOnly' = PasswordOnly
  BY
  DEF Held, PasswordOnly, Start, StartBegin, StartCreate, StartNamed, StartFails, StartExec,
      StartPublish, StartFeed, StartCheck
<1>2. CASE StartBegin \/ StartCreate \/ StartNamed \/ StartFails \/ StartCheck
  BY <1>2, OnceSame DEF StartBegin, StartCreate, StartNamed, StartFails, StartCheck
<1>3. CASE StartExec
  <2>1. ~cmd /\ stdin = <<>> /\ core = "up" /\ start = "exec"
    BY <1>3 DEF StartExec, LifeInv, Published
  <2>2. Unreleased' = Unreleased /\ out' = out
    BY <1>3 DEF StartExec, Unreleased
  <2>3. HeldOnce'
    BY <1>1, <1>3, <2>1, <2>2 DEF OnceInv, HeldOnce, Early, StartExec
  <2>4. Early' /\ refused' = 0 /\ oc' = "read" /\ stdin' = <<>>
    BY <1>3, <2>1, <2>2 DEF OnceInv, HeldOnce, Early, StartExec
  <2>5. AnswersOnce'
    BY <2>4 DEF AnswersOnce
  <2> QED BY <2>3, <2>5 DEF OnceInv
<1>4. CASE StartPublish
  <2>1. ~cmd /\ core = "up" /\ start = "publish"
    BY <1>4 DEF StartPublish, LifeInv, Published
  <2>2. Unreleased' = Unreleased /\ out' = out /\ Unasked' = Unasked
    BY <1>1, <1>4 DEF StartPublish, Unreleased, Unasked
  <2>3. HeldOnce'
    BY <1>1, <1>4, <2>1, <2>2 DEF OnceInv, HeldOnce, Early, Unreleased, StartPublish
  <2>4. AnswersOnce'
    BY <1>1, <1>4, <2>1, <2>2 DEF OnceInv, HeldOnce, AnswersOnce, Early, StartPublish
  <2> QED BY <2>3, <2>4 DEF OnceInv
<1>5. CASE StartFeed
  <2>1. cmd /\ core = "up" /\ start = "feed"
    BY <1>5 DEF StartFeed, LifeInv, Published
  <2>2. Unreleased' = Unreleased /\ out' = out /\ Unasked' = Unasked
    BY <1>1, <1>5 DEF StartFeed, Unreleased, Unasked
  <2>3. HeldOnce'
    BY <1>1, <1>5, <2>1, <2>2 DEF OnceInv, HeldOnce, Early, StartFeed
  <2>4. stdin = <<>> => Len(stdin') = 1
    <3>1. Len(Append(<<>>, "password")) = 1
      BY OneAppended
    <3> QED BY <1>5, <3>1 DEF StartFeed
  <2>5. AnswersOnce => AnswersOnce'
    BY <1>1, <1>5, <2>1, <2>2, <2>4 DEF OnceInv, HeldOnce, AnswersOnce, Early, StartFeed
  <2> QED BY <1>5, <2>3, <2>5 DEF OnceInv, StartFeed
<1> QED BY <1>2, <1>3, <1>4, <1>5 DEF Start

\* The held line is written: by the timer, or once something has been read that releases it.
LEMMA OnceReleased ==
  ASSUME HeldType, OnceInv, cmd, cmd', held # "", held' = "", stdin' = Append(stdin, held),
         UNCHANGED <<runVars, core, start, oc, form, refused>>,
         (sentBy' = "timer" /\ start \notin {"publish", "feed"}) \/ (~Early /\ ~Pending)
  PROVE  OnceInv'
<1>1. Held' = Held /\ PasswordOnly' = PasswordOnly /\ Unasked' = Unasked
  BY DEF Held, PasswordOnly, Unasked, runVars
<1>2. Held # "" /\ sentBy = ""
  BY DEF OnceInv, HeldOnce
<1>3. CASE sentBy' = "timer" /\ start \notin {"publish", "feed"}
  BY <1>1, <1>3 DEF OnceInv, HeldOnce
<1>4. CASE ~Early /\ ~Pending
  <2>1. AnswersOnce
    BY <1>2 DEF OnceInv
  <2>2. ~Unasked /\ oc \notin {"none", "read", "posted", "again"}
    BY <1>2, <1>4, <2>1 DEF AnswersOnce, Unasked
  <2>3. oc = "answer" => stdin = <<>>
    BY <2>1 DEF AnswersOnce
  <2>4. stdin = <<>> => Len(stdin') = 1
    <3>1. Len(Append(<<>>, held)) = 1
      BY OneAppended
    <3> QED BY <3>1
  <2>5. oc \notin {"form", "factor", "post"}
    BY <2>2 DEF Unasked
  <2>6. HeldOnce'
    BY <1>1, <2>2, <2>5 DEF OnceInv, HeldOnce
  <2>7. AnswersOnce'
    BY <1>1, <2>1, <2>2, <2>3, <2>4, <2>5 DEF AnswersOnce
  <2> QED BY <2>6, <2>7 DEF OnceInv
<1> QED BY <1>3, <1>4

LEMMA OnceTimers ==
  ASSUME Types, LifeInv, OnceInv, CodeTimerFires \/ PromptTimerFires \/ AtPrompt PROVE OnceInv'
<1> USE DEF coreVars, runVars, fileVars, lifeVars, heldVars, timerVars, readVars, ocVars, procVars
<1>1. CASE PromptTimerFires
  BY <1>1, OnceSame DEF PromptTimerFires
<1>2. CASE CodeTimerFires /\ held = ""
  BY <1>2, OnceSame DEF CodeTimerFires, ReleaseCode, DropHeld
<1>3. CASE AtPrompt /\ ~ForPrompt(held)
  BY <1>3, OnceSame DEF AtPrompt
<1>4. CASE CodeTimerFires /\ held # ""
  <2>1. cmd /\ start \notin {"publish", "feed"} /\ verdict = "none"
    BY <1>4 DEF CodeTimerFires, LifeInv, Published, OnceInv, HeldOnce
  <2> QED BY <1>4, <2>1, OnceReleased DEF Types, CodeTimerFires, ReleaseCode, DropHeld
<1>5. CASE AtPrompt /\ ForPrompt(held)
  <2>1. cmd /\ verdict = "none" /\ held # ""
    BY <1>5 DEF ForPrompt, LifeInv, OnceInv, HeldOnce
  <2>2. ~Early /\ ~Pending
    BY <1>5 DEF AtPrompt, Early, Pending, Unreleased
  <2> QED BY <1>5, <2>1, <2>2, OnceReleased DEF Types, AtPrompt, ReleaseCode, DropHeld
<1> QED BY <1>1, <1>2, <1>3, <1>4, <1>5

LEMMA OnceReadLine == ASSUME Types, LifeInv, OnceInv, ReadLine PROVE OnceInv'
<1> DEFINE line == Head(out)
           c == IF verdict = "none" THEN Fed(line) ELSE classifier
           v == IF verdict = "none" THEN VerdictOf(line, c) ELSE verdict
<1>1. /\ out # <<>> /\ out' = Tail(out) /\ classifier' = c /\ verdict' = v
      /\ promptTimer = "off" => promptTimer' = "off"
      /\ UNCHANGED <<runVars, core, start, cmd, oc, form, refused>>
  BY DEF ReadLine, HandleLine, coreVars, lifeVars
<1>2. IF c.generated \/ v # "none" THEN ReleaseCode("line", v) ELSE UNCHANGED <<heldVars, stdin>>
  BY DEF ReadLine, HandleLine
<1>3. Early => /\ Early' /\ ~c.generated /\ v = "none"
  <2>1. SUFFICES ASSUME Early PROVE Early' /\ ~c.generated /\ v = "none"
    OBVIOUS
  <2>2. line \in FormLines /\ OnlyForms(Tail(out)) /\ Unreleased
    BY <1>1, <2>1, OnlyTail DEF Early, Types, OcType
  <2>3. ~c.generated /\ v = "none"
    BY <2>2, FormLine DEF Unreleased, Types
  <2> HIDE DEF line, c, v
  <2> QED BY <1>1, <2>2, <2>3 DEF Early, Unreleased
<1>4. Pending => v # "none" \/ (Pending' /\ ~c.generated)
  <2>1. SUFFICES ASSUME Pending PROVE v # "none" \/ (Pending' /\ ~c.generated)
    OBVIOUS
  <2>2. CASE line = "failed"
    BY <2>1, <2>2, FailedLine DEF Pending, Unreleased
  <2>3. CASE line # "failed"
    <3>1. line \in FormLines /\ FailsFirst(Tail(out)) /\ Unreleased
      BY <1>1, <2>1, <2>3, FailsTail DEF Pending, Types, OcType
    <3>2. ~c.generated /\ v = "none"
      BY <3>1, FormLine DEF Unreleased, Types
    <3> HIDE DEF line, c, v
    <3> QED BY <1>1, <3>1, <3>2 DEF Pending, Unreleased
  <2> QED BY <2>2, <2>3
<1>5. Held' = Held /\ PasswordOnly' = PasswordOnly /\ Unasked' = Unasked
  BY <1>1 DEF Held, PasswordOnly, Unasked, runVars
<1> HIDE DEF line, c, v
<1>6. ASSUME stdin' = stdin, sentBy' = sentBy, (held' = held /\ v = "none" /\ ~c.generated) \/ held' = ""
      PROVE  OnceInv'
  <2>1. HeldOnce'
    BY <1>1, <1>3, <1>5, <1>6 DEF OnceInv, HeldOnce
  <2>2. AnswersOnce => AnswersOnce'
    BY <1>1, <1>3, <1>4, <1>5, <1>6 DEF AnswersOnce
  <2> QED BY <1>6, <2>1, <2>2 DEF OnceInv
<1>7. CASE ~(c.generated \/ v # "none")
  BY <1>2, <1>6, <1>7 DEF heldVars
<1>8. CASE (c.generated \/ v # "none") /\ (held = "" \/ v # "none")
  BY <1>2, <1>6, <1>8 DEF ReleaseCode, DropHeld
<1>9. CASE c.generated /\ v = "none" /\ held # ""
  <2>1. ~Early /\ ~Pending /\ cmd
    BY <1>3, <1>4, <1>9 DEF LifeInv
  <2> QED BY <1>1, <1>2, <1>9, <2>1, OnceReleased DEF Types, ReleaseCode, DropHeld
<1> QED BY <1>7, <1>8, <1>9

LEMMA OnceReads == ASSUME Types, LifeInv, OnceInv, Reader PROVE OnceInv'
<1> USE DEF coreVars, runVars, fileVars, lifeVars, heldVars, timerVars, readVars, ocVars, procVars
<1>1. CASE ReadEnd \/ ReadFile \/ ReadClose
  BY <1>1, OnceSame DEF ReadEnd, ReadFile, ReadClose, DropHeld
<1>2. CASE ReadPrompt
  <2>1. out # <<>> /\ Head(out) = "prompt"
    BY <1>2 DEF ReadPrompt
  <2>2. ~Early
    BY <2>1, OnlyTail DEF Early, FormLines, Types, OcType
  <2>3. ~Pending
    BY <2>1, FailsTail DEF Pending, FormLines, Types, OcType
  <2>4. UNCHANGED <<mfa, gate, core, start, cmd, held, sentBy, verdict, oc, form, stdin, refused>>
    BY <1>2 DEF ReadPrompt
  <2>5. Held' = Held /\ PasswordOnly' = PasswordOnly /\ Unasked' = Unasked
    BY <2>4 DEF Held, PasswordOnly, Unasked
  <2>6. HeldOnce'
    BY <2>2, <2>4, <2>5 DEF OnceInv, HeldOnce
  <2>7. AnswersOnce => AnswersOnce'
    BY <2>2, <2>3, <2>4, <2>5 DEF AnswersOnce
  <2> QED BY <2>4, <2>6, <2>7 DEF OnceInv
<1> QED BY <1>1, <1>2, OnceReadLine DEF Reader

LEMMA TailOfOne ==
  ASSUME NEW S, NEW s \in Seq(S), Len(s) = 1 PROVE Tail(s) = <<>>
<1>1. s # <<>>
  BY EmptySeq
<1>2. Tail(s) \in Seq(S) /\ Len(Tail(s)) = 0
  BY <1>1, HeadTailProperties
<1> QED BY <1>2, EmptySeq

\* One line of output more, and nothing that releases the held line.
LEMMA EarlyPrints ==
  ASSUME Types, Early, UNCHANGED <<promptTimer, classifier, verdict>>, NEW line \in FormLines,
         out' = out \o <<line>>
  PROVE  Early'
<1>1. out \in Seq(Lines) /\ OnlyForms(out) /\ Unreleased
  BY DEF Types, OcType, Early
<1>2. OnlyForms(out \o <<line>>)
  BY <1>1, OnlyAppends
<1> QED BY <1>1, <1>2 DEF Early, Unreleased

LEMMA OnceOpenconnect ==
  ASSUME Types, LifeInv, OnceInv, core = "up", Openconnect \/ OcDrops PROVE OnceInv'
<1>1. UNCHANGED ocRest
  BY
  DEF Openconnect, OcPassword, OcForm, OcFactor, OcAnswer, OcPost, OcPosted, OcAgain, OcUp, OcDrops,
      OcExits, ProxyEnds
<1>2. UNCHANGED <<mfa, gate, core, start, cmd, held, sentBy, eof, promptTimer, classifier, verdict>>
  BY <1>1
  DEF ocRest, coreVars, runVars, lifeVars, heldVars, timerVars, readVars
<1>3. Held' = Held /\ Unreleased' = Unreleased
  BY <1>2 DEF Held, Unreleased
<1>4. oc \notin {"none", "read", "dead"} => cmd
  BY DEF LifeInv
<1>5. Held # "" => Asked /\ mfa \notin {"totp_field", "totp_append", "typed_append"}
  BY DEF Held, Asked
<1>6. held # "" => Held # ""
  BY DEF OnceInv, HeldOnce
<1>7. out \in Seq(Lines) /\ refused \in Nat
  BY DEF Types, OcType
<1>8. CASE ProxyEnds
  BY <1>1, <1>8, OnceSame DEF ProxyEnds, ocRest, coreVars, lifeVars, heldVars, timerVars, readVars
<1>9. CASE OcExits
  <2>1. oc' = "dead" /\ UNCHANGED <<form, stdin, out, refused>> /\ oc # "dead"
    BY <1>9 DEF OcExits, Alive
  <2>2. HeldOnce'
    BY <1>2, <1>3, <2>1 DEF OnceInv, HeldOnce, Early
  <2>3. AnswersOnce => refused \in {0, 1}
    BY DEF AnswersOnce
  <2>4. refused' \in {0, 1} => AnswersOnce'
    BY <2>1 DEF AnswersOnce, Unasked
  <2> QED BY <1>2, <2>1, <2>2, <2>3, <2>4 DEF OnceInv
<1>10. ASSUME oc' \in {"dying", "web", "in", "running"}, cmd, oc' # "dying" => start # "feed",
              start # "publish", sentBy # "timer" => refused' = 0 \/ (refused' = 1 /\ oc' = "dying")
       PROVE  OnceInv'
  <2>1. HeldOnce'
    BY <1>2, <1>3, <1>10 DEF OnceInv, HeldOnce
  <2>2. sentBy # "timer" => AnswersOnce'
    BY <1>2, <1>10 DEF AnswersOnce, Unasked
  <2> QED BY <1>2, <2>1, <2>2 DEF OnceInv
<1>11. AnswersOnce /\ oc \notin {"again", "dying", "dead"} => refused = 0
  BY DEF AnswersOnce
<1>12. oc # "read" /\ oc # "dying" /\ oc # "dead" /\ cmd => start # "feed" /\ start # "publish"
  BY DEF OnceInv, HeldOnce
<1>13. CASE OcPassword
  <2>1. oc = "read" /\ UNCHANGED <<form, refused>> /\ cmd /\ start # "publish"
    BY <1>13 DEF OcPassword, Reads, LifeInv, Published
  <2>2. CASE stdin # <<>> /\ stdin' = Tail(stdin) /\ oc' = "form" /\ out' = out \o <<>>
    <3>1. start # "feed" /\ out' = out
      BY <1>7, <2>1, <2>2, ConcatEmptySeq DEF OnceInv, HeldOnce
    <3>2. AnswersOnce => stdin' = <<>>
      <4>1. stdin # <<>> /\ stdin \in Seq(Stdin)
        BY <2>2 DEF Types, HeldType, Stdin
      <4>2. Len(stdin) = 1 => Tail(stdin) = <<>>
        BY <4>1, TailOfOne
      <4> QED BY <2>1, <2>2, <4>2 DEF AnswersOnce
    <3>3. HeldOnce'
      BY <1>2, <1>3, <2>1, <2>2, <3>1 DEF OnceInv, HeldOnce
    <3>4. Early' = Early
      BY <1>3, <3>1 DEF Early
    <3>5. AnswersOnce => AnswersOnce'
      BY <1>2, <1>3, <1>11, <2>1, <2>2, <3>2, <3>4 DEF AnswersOnce, Unasked
    <3> QED BY <1>2, <3>3, <3>5 DEF OnceInv
  <2>3. CASE oc' = "dying"
    BY <1>2, <1>10, <1>11, <2>1, <2>3 DEF OnceInv
  <2> QED BY <1>13, <2>2, <2>3 DEF OcPassword, Reads, Prints
<1>14. CASE OcForm
  <2>1. oc = "form" /\ UNCHANGED <<form, stdin, refused>> /\ form = 1
    BY <1>14 DEF OcForm, OnceInv, HeldOnce
  <2>2. CASE gate.asks \in {"one", "two"}
    <3>1. /\ out' = out \o <<"xml">>
          /\ oc' = IF gate.asks = "one" /\ Asked THEN "factor" ELSE "post"
      BY <1>14, <2>2 DEF OcForm, Prints
    <3>2. Early => Early'
      BY <1>2, <3>1, EarlyPrints DEF FormLines
    <3>3. PasswordOnly' = PasswordOnly /\ (PasswordOnly <=> gate.asks = "two")
      BY <1>2, <2>1 DEF PasswordOnly
    <3>4. HeldOnce'
      BY <1>2, <1>3, <1>4, <1>5, <1>12, <2>1, <2>2, <3>1, <3>3 DEF OnceInv, HeldOnce
    <3>5. AnswersOnce => AnswersOnce'
      <4>1. ASSUME AnswersOnce PROVE AnswersOnce'
        <5>1. refused' = 0 /\ stdin' = <<>> /\ (Held # "" => Early')
          BY <1>11, <2>1, <3>2, <4>1 DEF AnswersOnce, Unasked
        <5> QED BY <1>3, <3>1, <5>1 DEF AnswersOnce
      <4> QED BY <4>1
    <3> QED BY <1>2, <3>4, <3>5 DEF OnceInv
  <2>3. CASE gate.asks \notin {"one", "two"}
    <3>1. oc' \in {"web", "dying"}
      <4>1. gate.asks \in {"web", "nothing"}
        BY <2>3, TunnelAssumption DEF Types, RunType, Gateway
      <4> QED BY <1>14, <4>1 DEF OcForm, Prints
    <3> QED BY <1>2, <1>4, <1>10, <1>11, <1>12, <2>1, <3>1 DEF OnceInv
  <2> QED BY <2>2, <2>3
<1>15. CASE OcFactor
  <2>1. oc = "factor" /\ UNCHANGED <<form, stdin, refused>> /\ cmd /\ oc' \in {"post", "answer", "dying"}
    BY <1>4, <1>15 DEF OcFactor, Ask, Prints
  <2>2. PasswordOnly' = PasswordOnly /\ ~PasswordOnly
    BY <1>2, <2>1 DEF PasswordOnly, OnceInv, HeldOnce
  <2>3. oc' = "post" => Held = ""
    BY <1>5, <1>15 DEF OcFactor, Ask, Prints
  <2>4. CASE oc' = "dying"
    BY <1>2, <1>10, <1>11, <1>12, <2>1, <2>4 DEF OnceInv
  <2>5. CASE oc' # "dying"
    <3>1. HeldOnce'
      BY <1>2, <1>3, <1>12, <2>1, <2>2, <2>3, <2>5 DEF OnceInv, HeldOnce
    <3>2. AnswersOnce => AnswersOnce'
      BY <1>2, <1>3, <1>11, <2>1, <2>2, <2>3, <2>5 DEF AnswersOnce, Unasked
    <3> QED BY <1>2, <3>1, <3>2 DEF OnceInv
  <2> QED BY <2>4, <2>5
<1>16. CASE OcAnswer
  <2>1. oc = "answer" /\ UNCHANGED <<form, refused>> /\ cmd
    BY <1>4, <1>16 DEF OcAnswer
  <2>2. CASE oc' = "dying"
    BY <1>2, <1>10, <1>11, <1>12, <2>1, <2>2 DEF OnceInv
  <2>3. CASE stdin # <<>> /\ stdin' = Tail(stdin) /\ oc' = "posted"
    <3>1. PasswordOnly' = PasswordOnly /\ ~PasswordOnly
      BY <1>2, <2>1 DEF PasswordOnly, OnceInv, HeldOnce
    <3>2. HeldOnce'
      BY <1>2, <1>3, <1>12, <2>1, <2>3 DEF OnceInv, HeldOnce
    <3>3. AnswersOnce => stdin' = <<>>
      <4>1. stdin # <<>> /\ stdin \in Seq(Stdin)
        BY <2>3 DEF Types, HeldType, Stdin
      <4>2. Len(stdin) = 1 => Tail(stdin) = <<>>
        BY <4>1, TailOfOne
      <4> QED BY <2>1, <2>3, <4>2 DEF AnswersOnce
    <3>4. AnswersOnce => AnswersOnce'
      BY <1>2, <1>3, <1>11, <2>1, <2>3, <3>1, <3>3 DEF AnswersOnce, Unasked
    <3> QED BY <1>2, <3>2, <3>4 DEF OnceInv
  <2> QED BY <1>16, <2>2, <2>3 DEF OcAnswer, Reads, Prints
<1>17. CASE OcPost
  <2>1. /\ oc = "post" /\ UNCHANGED <<form, stdin, refused>> /\ cmd
        /\ oc' = "posted" /\ out' = out \o <<"post">>
    BY <1>4, <1>17 DEF OcPost, Prints
  <2>2. PasswordOnly' = PasswordOnly /\ (Held # "" => PasswordOnly)
    BY <1>2, <2>1 DEF PasswordOnly, OnceInv, HeldOnce
  <2>3. Early => Early'
    BY <1>2, <2>1, EarlyPrints DEF FormLines
  <2>4. HeldOnce'
    BY <1>2, <1>3, <1>12, <2>1 DEF OnceInv, HeldOnce
  <2>5. AnswersOnce => AnswersOnce'
    BY <1>2, <1>3, <1>6, <1>11, <2>1, <2>2, <2>3 DEF AnswersOnce, Unasked
  <2> QED BY <1>2, <2>4, <2>5 DEF OnceInv
<1>18. CASE OcPosted
  <2>1. oc = "posted" /\ UNCHANGED stdin /\ cmd
    BY <1>4, <1>18 DEF OcPosted
  <2>2. CASE Accepted
    <3>1. UNCHANGED <<out, refused>>
      BY <1>18, <2>2 DEF OcPosted
    <3>2. CASE form = 1 /\ gate.asks = "two"
      <4>1. form' = 2 /\ oc' = "factor"
        BY <1>18, <2>2, <3>2 DEF OcPosted
      <4>2. PasswordOnly /\ ~PasswordOnly' /\ Early' = Early
        BY <1>3, <3>1, <3>2, <4>1 DEF PasswordOnly, Early
      <4>3. HeldOnce'
        BY <1>2, <1>3, <1>12, <2>1, <4>1, <4>2 DEF OnceInv, HeldOnce
      <4>4. AnswersOnce => AnswersOnce'
        BY <1>2, <1>3, <1>11, <2>1, <3>1, <4>1, <4>2 DEF AnswersOnce, Unasked
      <4> QED BY <1>2, <4>3, <4>4 DEF OnceInv
    <3>3. CASE ~(form = 1 /\ gate.asks = "two")
      <4>1. oc' = "in"
        BY <1>18, <2>2, <3>3 DEF OcPosted
      <4> QED BY <1>2, <1>10, <1>11, <1>12, <2>1, <3>1, <4>1 DEF OnceInv
    <3> QED BY <3>2, <3>3
  <2>3. CASE ~Accepted
    <3>1. refused' = refused + 1 /\ UNCHANGED form /\ oc' \in {"again", "dying"}
      BY <1>18, <2>3 DEF OcPosted, Ask, Prints
    <3>2. sentBy # "timer" => refused' = 1
      BY <1>11, <2>1, <3>1 DEF OnceInv
    <3>3. CASE oc' = "dying"
      BY <1>2, <1>10, <1>12, <2>1, <3>2, <3>3
    <3>4. CASE oc' = "again"
      <4>1. out' = out \o (<<"failed">> \o <<"prompt">>)
        BY <1>18, <2>3, <3>4 DEF OcPosted, Ask, Prints
      <4> DEFINE asks == <<"failed">> \o <<"prompt">>
      <4>2. <<"failed">> \in Seq(Lines) /\ <<"prompt">> \in Seq(Lines)
            /\ Len(<<"failed">>) = 1 /\ Len(<<"prompt">>) = 1 /\ <<"failed">>[1] = "failed"
        BY DEF Lines
      <4>3. asks \in Seq(Lines) /\ asks # <<>> /\ asks[1] = "failed"
        <5>1. asks \in Seq(Lines) /\ Len(asks) = 2 /\ asks[1] = "failed"
          BY <4>2, ConcatProperties
        <5> QED BY <5>1, EmptySeq
      <4> HIDE DEF asks
      <4>4. Early => Pending'
        <5>1. ASSUME OnlyForms(out) PROVE FailsFirst(out \o asks)
          BY <1>7, <4>3, <5>1, OnlyFails
        <5>2. out' = out \o asks
          BY <4>1 DEF asks
        <5> QED BY <1>3, <5>1, <5>2 DEF Early, Pending
      <4>5. PasswordOnly' = PasswordOnly
        BY <1>2, <3>1 DEF PasswordOnly
      <4>6. HeldOnce'
        BY <1>2, <1>3, <1>12, <2>1, <3>4 DEF OnceInv, HeldOnce
      <4>7. AnswersOnce /\ refused' = 1 => AnswersOnce'
        BY <1>2, <1>6, <2>1, <3>4, <4>4 DEF AnswersOnce, Unasked
      <4> QED BY <1>2, <3>2, <4>6, <4>7 DEF OnceInv
    <3> QED BY <3>1, <3>3, <3>4
  <2> QED BY <2>2, <2>3
<1>19. CASE OcAgain
  <2>1. oc = "again" /\ UNCHANGED form /\ cmd
    BY <1>4, <1>19 DEF OcAgain
  <2>2. CASE stdin = <<>> /\ oc' = "dying"
    <3>1. refused' = refused
      BY <1>19, <2>2 DEF OcAgain
    <3>2. AnswersOnce => refused = 0 \/ refused = 1
      BY DEF AnswersOnce
    <3> QED BY <1>2, <1>10, <1>12, <2>1, <2>2, <3>1, <3>2 DEF OnceInv
  <2>3. CASE stdin # <<>> /\ oc' = "again"
    <3>1. ~AnswersOnce
      BY <2>1, <2>3 DEF AnswersOnce
    <3>2. HeldOnce'
      BY <1>2, <1>3, <1>12, <2>1, <2>3 DEF OnceInv, HeldOnce
    <3> QED BY <1>2, <3>1, <3>2 DEF OnceInv
  <2> QED BY <1>19, <2>2, <2>3 DEF OcAgain, Reads, Prints
<1>20. CASE OcUp \/ OcDrops
  <2>1. oc \in {"in", "running", "web"} /\ refused' = refused /\ oc' \in {"running", "dying"} /\ cmd
    BY <1>4, <1>20 DEF OcUp, OcDrops, Prints
  <2> QED BY <1>2, <1>10, <1>11, <1>12, <2>1 DEF OnceInv
<1> QED BY <1>8, <1>9, <1>13, <1>14, <1>15, <1>16, <1>17, <1>18, <1>19, <1>20 DEF Openconnect

LEMMA OnceStep == Types /\ LifeInv /\ OnceInv /\ [Next]_vars => OnceInv'
<1> SUFFICES ASSUME Types, LifeInv, OnceInv, [Next]_vars PROVE OnceInv'
  OBVIOUS
<1> USE DEF coreVars, runVars, fileVars, lifeVars, heldVars, timerVars, readVars, ocVars, procVars
<1>1. CASE Abort \/ WaitReady
  BY <1>1, OnceSame
  DEF Abort, WaitReady, WaitExited, WaitGivesUp, WaitOpen, MarkReady, MarkReadyFile, DropHeld
<1>2. ASSUME NEW t \in Stoppers, StopBegin(t) \/ Stop(t) PROVE OnceInv'
  BY <1>2, OnceSame
  DEF StopBegin, Stop, MarkStopping, StopTerm, StopGrace, StopKilled, StopPort
<1>3. CASE Crash
  <2>1. /\ core' = "down" /\ ~cmd' /\ held' = "" /\ sentBy' = "" /\ oc' = "none" /\ form' = 1
        /\ stdin' = <<>> /\ refused' = 0 /\ promptTimer' = "off" /\ verdict' = "none"
        /\ ~classifier'.generated
    BY <1>3 DEF Crash, NewClassifier
  <2>2. Early'
    <3>1. out' = <<>>
      BY <1>3 DEF Crash
    <3> QED BY <2>1, <3>1, OnlyNothing DEF Early, Unreleased
  <2>3. HeldOnce' /\ AnswersOnce'
    BY <2>1, <2>2 DEF HeldOnce, AnswersOnce
  <2> QED BY <2>3 DEF OnceInv
<1>4. CASE Restart \/ UNCHANGED vars
  BY <1>4, OnceSame DEF Restart, vars
<1> QED
  BY <1>1, <1>2, <1>3, <1>4, OnceStart, OnceTimers, OnceReads, OnceOpenconnect
  DEF Next, Openconnect

\* The gateway refuses one run at most once, unless the 15 s timer sent the typed code to a form
\* of unknown text: what was held back for the second factor never answers a repeated question
\* for the password (tunnel.go, Start, atPrompt and releaseCodeLocked).
THEOREM RefusedOnceAlways == Spec => []RefusedOnce
<1>1. Init => OnceInv
  <2>1. ASSUME Init PROVE OnceInv
    <3>1. /\ core = "up" /\ start = "begin" /\ ~cmd /\ held = "" /\ sentBy = "" /\ oc = "none"
          /\ form = 1 /\ stdin = <<>> /\ refused = 0 /\ promptTimer = "off" /\ verdict = "none"
          /\ ~classifier.generated
      BY <2>1 DEF Init, NewClassifier
    <3>2. Early
      <4>1. out = <<>>
        BY <2>1 DEF Init
      <4> QED BY <3>1, <4>1, OnlyNothing DEF Early, Unreleased
    <3>3. HeldOnce /\ AnswersOnce
      BY <3>1, <3>2 DEF HeldOnce, AnswersOnce
    <3> QED BY <3>3 DEF OnceInv
  <2> QED BY <2>1
<1>2. OnceInv => RefusedOnce
  <2>1. AnswersOnce => refused = 0 \/ refused = 1
    BY DEF AnswersOnce
  <2> QED BY <2>1 DEF OnceInv, RefusedOnce
<1> QED BY <1>1, <1>2, FileAlways, OnceStep, PTL DEF Spec

-----------------------------------------------------------------------------
\* The verdict.

CodeLines == {"generated", "otpform"}
At(s, i, S) == i \in 1..Len(s) /\ s[i] \in S
Has(s, S) == \E i \in 1..Len(s) : s[i] \in S

\* The first form is, or will be, read as shown; a form was, or will be, read as sent.
Shows(s, c) == c.shown \/ At(s, 1, {"xml"})
Sends(s, c) == c.sent \/ Has(s, {"post"})
SentBefore(s, c, i) == c.sent \/ \E j \in 1..(i - 1) : s[j] = "post"
SeesCode(s, c) == c.generated \/ Has(s, CodeLines)

\* What the classifier c will make of the lines s it has not read: a code is asked for in the
\* password's form unless the gateway asks in two forms.
LinesInv(s, c, two) ==
    /\ \A i \in 1..Len(s) : s[i] = "xml" => i = 1 /\ c = NewClassifier
    /\ Has(s, {"post"} \cup CodeLines) => Shows(s, c)
    /\ \A i \in 1..Len(s) : s[i] \in CodeLines => (SentBefore(s, c, i) <=> two)
    /\ \A i, j \in 1..Len(s) : s[i] \in CodeLines /\ s[j] = "failed" => i < j
    /\ c.generated => (c.inForm <=> ~two)

\* openconnect has come where it tells the second factor from the password.
CodeDue == (gate.asks = "one" \/ form = 2) /\ (mfa = "totp_field" \/ (mfa = "typed" /\ gate.known))

\* What openconnect has printed where it is.
PhaseInv(s, c) ==
    /\ oc \in {"none", "read", "form"} => s = <<>> /\ c = NewClassifier
    /\ oc \in {"factor", "answer", "post", "posted"} => Shows(s, c)
    /\ oc = "factor" /\ gate.asks = "one" => ~Sends(s, c)
    /\ form = 2 \/ (oc = "posted" /\ gate.asks = "two") => Sends(s, c)
    /\ oc \in {"answer", "post", "posted", "again"} /\ CodeDue => SeesCode(s, c)
    /\ SeesCode(s, c) /\ gate.asks = "two" => form = 2
    /\ Has(s, {"failed"}) => /\ oc \in {"again", "dying", "dead"} /\ ~Accepted
                             /\ CodeDue => SeesCode(s, c)

\* The gateway: it comes to the second form with the right password.
GateInv ==
    /\ mfa = "none" => gate.code
    /\ form = 2 => gate.asks = "two" /\ gate.pw
    /\ oc \in {"none", "read", "form"} => form = 1
    /\ oc \in {"factor", "answer"} => gate.asks = "one" \/ form = 2
    /\ start \in {"begin", "create", "named", "full", "exec"} => oc = "none"
    /\ oc \in {"factor", "answer", "post", "posted", "again"} => gate.asks \in {"one", "two"}
    /\ oc = "again" => ~Accepted

FactorInv ==
    /\ GateInv /\ VerdictNamesFactor
    /\ verdict = "none" => /\ LinesInv(out, classifier, gate.asks = "two")
                           /\ PhaseInv(out, classifier)

\* A line read is the first of those not read, and one printed comes after them.
LEMMA Unread ==
  ASSUME NEW s \in Seq(Lines), s # <<>>
  PROVE  /\ Len(s) \in Nat \ {0} /\ Head(s) = s[1] /\ Len(Tail(s)) = Len(s) - 1
         /\ \A i \in 1..Len(Tail(s)) : Tail(s)[i] = s[i + 1]
  BY EmptySeq, HeadTailProperties, LenProperties

LEMMA Printed ==
  ASSUME NEW s \in Seq(Lines), NEW t \in Seq(Lines)
  PROVE  /\ Len(s) \in Nat /\ Len(t) \in Nat /\ Len(s \o t) = Len(s) + Len(t)
         /\ \A i \in 1..Len(s) : (s \o t)[i] = s[i]
         /\ \A i \in 1..Len(t) : (s \o t)[Len(s) + i] = t[i]
         /\ \A i \in 1..Len(s \o t) : i \in 1..Len(s) \/ \E j \in 1..Len(t) : i = Len(s) + j
<1>1. Len(s) \in Nat /\ Len(t) \in Nat /\ Len(s \o t) = Len(s) + Len(t)
  BY ConcatProperties, LenProperties
<1>2. \A i \in 1..Len(s) : (s \o t)[i] = s[i]
  BY <1>1, ConcatProperties
<1>3. \A i \in 1..Len(t) : (s \o t)[Len(s) + i] = t[i]
  BY <1>1, ConcatProperties
<1>4. ASSUME NEW i \in 1..Len(s \o t), i \notin 1..Len(s)
      PROVE  i - Len(s) \in 1..Len(t) /\ i = Len(s) + (i - Len(s))
  BY <1>1, <1>4
<1> QED BY <1>1, <1>2, <1>3, <1>4

LEMMA HasPrinted ==
  ASSUME NEW s \in Seq(Lines), NEW t \in Seq(Lines), NEW S
  PROVE  Has(s \o t, S) <=> Has(s, S) \/ Has(t, S)
<1>1. Has(s, S) => Has(s \o t, S)
  BY Printed DEF Has
<1>2. Has(t, S) => Has(s \o t, S)
  <2>1. ASSUME NEW i \in 1..Len(t), t[i] \in S PROVE Has(s \o t, S)
    <3>1. Len(s) + i \in 1..Len(s \o t) /\ (s \o t)[Len(s) + i] = t[i]
      BY Printed
    <3> QED BY <2>1, <3>1 DEF Has
  <2> QED BY <2>1 DEF Has
<1>3. Has(s \o t, S) => Has(s, S) \/ Has(t, S)
  <2>1. ASSUME NEW i \in 1..Len(s \o t), (s \o t)[i] \in S PROVE Has(s, S) \/ Has(t, S)
    BY <2>1, Printed DEF Has
  <2> QED BY <2>1 DEF Has
<1> QED BY <1>1, <1>2, <1>3

\* Reading a line when there is no verdict yet.
LEMMA LinesRead ==
  ASSUME ReadType, verdict = "none", NEW s \in Seq(Lines), s # <<>>, NEW two \in BOOLEAN,
         LinesInv(s, classifier, two)
  PROVE  LinesInv(Tail(s), Fed(Head(s)), two)
<1> DEFINE c == Fed(s[1])
           r == Tail(s)
<1>1. /\ Len(s) \in Nat \ {0} /\ Head(s) = s[1] /\ Len(r) = Len(s) - 1
      /\ \A i \in 1..Len(r) : r[i] = s[i + 1]
  BY Unread
<1>2. classifier \in ClassifierType
  BY DEF ReadType
<1>3. ~Has(r, {"xml"})
  BY <1>1 DEF LinesInv, Has
<1>4. s[1] = "xml" => classifier = NewClassifier
  BY <1>1 DEF LinesInv
<1>5. s[1] \in {"post"} \cup CodeLines => classifier.shown
  BY <1>1 DEF LinesInv, Has, Shows, At, CodeLines
<1>6. s[1] \in CodeLines => (classifier.sent <=> two)
  BY <1>1 DEF LinesInv, SentBefore
<1>7. c.sent <=> classifier.sent \/ s[1] = "post"
  BY <1>2, <1>4, <1>5 DEF Fed, ClassifierType, NewClassifier, CodeLines
<1>8. c.shown <=> classifier.shown \/ s[1] = "xml"
  BY <1>2 DEF Fed, ClassifierType, CodeLines
<1>9. c.generated => (c.inForm <=> ~two)
  BY <1>2, <1>5, <1>6 DEF Fed, ClassifierType, CodeLines, LinesInv
<1> HIDE DEF c, r
<1>10. Has(r, {"post"} \cup CodeLines) => Shows(r, c)
  <2>1. ASSUME NEW i \in 1..Len(r), r[i] \in {"post"} \cup CodeLines PROVE c.shown
    <3>1. i + 1 \in 1..Len(s) /\ s[i + 1] \in {"post"} \cup CodeLines
      BY <1>1, <2>1
    <3>2. Shows(s, classifier)
      BY <3>1 DEF LinesInv, Has
    <3> QED BY <1>8, <3>2 DEF Shows, At
  <2> QED BY <2>1 DEF Has, Shows
<1>11. ASSUME NEW i \in 1..Len(r), r[i] \in CodeLines
       PROVE  SentBefore(r, c, i) <=> two
  <2>1. i + 1 \in 1..Len(s) /\ s[i + 1] \in CodeLines
    BY <1>1, <1>11
  <2>2. SentBefore(s, classifier, i + 1) <=> two
    BY <2>1 DEF LinesInv
  <2>3. ASSUME NEW j \in 1..i, s[j] = "post" PROVE SentBefore(r, c, i)
    <3>1. j # 1 => j - 1 \in 1..(i - 1) /\ r[j - 1] = "post"
      <4>1. CASE j # 1
        <5>1. j - 1 \in 1..(i - 1) /\ j - 1 \in 1..Len(r) /\ (j - 1) + 1 = j
          BY <1>1, <1>11, <4>1
        <5> QED BY <1>1, <2>3, <5>1
      <4> QED BY <4>1
    <3> QED BY <1>7, <2>3, <3>1 DEF SentBefore
  <2>4. ASSUME NEW j \in 1..(i - 1), r[j] = "post" PROVE SentBefore(s, classifier, i + 1)
    <3>1. j + 1 \in 1..i /\ s[j + 1] = "post"
      BY <1>1, <1>11, <2>4
    <3> QED BY <3>1 DEF SentBefore
  <2>5. s[1] = "post" => SentBefore(s, classifier, i + 1)
    BY <1>11, <1>1 DEF SentBefore
  <2>6. SentBefore(r, c, i) <=> SentBefore(s, classifier, i + 1)
    BY <1>7, <2>3, <2>4, <2>5 DEF SentBefore
  <2> QED BY <2>2, <2>6
<1>12. \A i, j \in 1..Len(r) : r[i] \in CodeLines /\ r[j] = "failed" => i < j
  <2>1. ASSUME NEW i \in 1..Len(r), NEW j \in 1..Len(r), r[i] \in CodeLines, r[j] = "failed"
        PROVE  i < j
    <3>1. i + 1 \in 1..Len(s) /\ j + 1 \in 1..Len(s) /\ s[i + 1] \in CodeLines /\ s[j + 1] = "failed"
      BY <1>1, <2>1
    <3>2. i + 1 < j + 1
      BY <3>1 DEF LinesInv
    <3> QED BY <3>2
  <2> QED BY <2>1
<1>13. \A i \in 1..Len(r) : r[i] # "xml"
  BY <1>3 DEF Has
<1>14. LinesInv(r, c, two)
  BY <1>9, <1>10, <1>11, <1>12, <1>13 DEF LinesInv
<1> QED BY <1>1, <1>14 DEF c, r

\* What was said of the classifier and the lines not read stays so when one is read.
LEMMA HasRead ==
  ASSUME NEW s \in Seq(Lines), s # <<>>, NEW S
  PROVE  Has(s, S) <=> Head(s) \in S \/ Has(Tail(s), S)
<1> DEFINE r == Tail(s)
<1>1. /\ Len(s) \in Nat \ {0} /\ Head(s) = s[1] /\ Len(r) = Len(s) - 1
      /\ \A i \in 1..Len(r) : r[i] = s[i + 1]
  BY Unread
<1> HIDE DEF r
<1>2. Head(s) \in S => Has(s, S)
  BY <1>1 DEF Has
<1>3. Has(r, S) => Has(s, S)
  <2>1. ASSUME NEW i \in 1..Len(r), r[i] \in S PROVE i + 1 \in 1..Len(s) /\ s[i + 1] \in S
    BY <1>1, <2>1
  <2> QED BY <2>1 DEF Has
<1>4. Has(s, S) => Head(s) \in S \/ Has(r, S)
  <2>1. ASSUME NEW i \in 1..Len(s), s[i] \in S PROVE Head(s) \in S \/ Has(r, S)
    <3>1. i # 1 => i - 1 \in 1..Len(r) /\ r[i - 1] = s[(i - 1) + 1] /\ (i - 1) + 1 = i
      BY <1>1
    <3> QED BY <1>1, <2>1, <3>1 DEF Has
  <2> QED BY <2>1 DEF Has
<1> QED BY <1>2, <1>3, <1>4 DEF r

LEMMA SeenRead ==
  ASSUME ReadType, verdict = "none", NEW s \in Seq(Lines), s # <<>>, NEW two \in BOOLEAN,
         LinesInv(s, classifier, two)
  PROVE  /\ Shows(s, classifier) => Shows(Tail(s), Fed(Head(s)))
         /\ Sends(s, classifier) <=> Sends(Tail(s), Fed(Head(s)))
         /\ SeesCode(s, classifier) <=> SeesCode(Tail(s), Fed(Head(s)))
         /\ Has(Tail(s), {"failed"}) => Has(s, {"failed"})
<1> DEFINE c == Fed(Head(s))
<1>1. /\ Len(s) \in Nat \ {0} /\ Head(s) = s[1]
  BY Unread
<1>2. classifier \in ClassifierType
  BY DEF ReadType
<1>3. Head(s) = "xml" => classifier = NewClassifier
  BY <1>1 DEF LinesInv
<1>4. Head(s) = "post" => classifier.shown
  BY <1>1 DEF LinesInv, Has, Shows, At
<1>5. c.sent <=> classifier.sent \/ Head(s) = "post"
  BY <1>2, <1>3, <1>4 DEF Fed, ClassifierType, NewClassifier
<1>6. c.shown <=> classifier.shown \/ Head(s) = "xml"
  BY <1>2 DEF Fed, ClassifierType
<1>7. c.generated <=> classifier.generated \/ Head(s) \in CodeLines
  BY <1>2, <1>3 DEF Fed, ClassifierType, CodeLines, NewClassifier
<1> HIDE DEF c
<1>8. Shows(s, classifier) => Shows(Tail(s), c)
  BY <1>1, <1>6 DEF Shows, At
<1>9. Sends(s, classifier) <=> Sends(Tail(s), c)
  BY <1>5, HasRead DEF Sends
<1>10. SeesCode(s, classifier) <=> SeesCode(Tail(s), c)
  BY <1>7, HasRead DEF SeesCode
<1> QED BY <1>8, <1>9, <1>10, HasRead DEF c

\* What the lines printed contain.
LEMMA HasFew ==
  ASSUME NEW S
  PROVE  /\ ~Has(<<>>, S)
         /\ \A x : Has(<<x>>, S) <=> x \in S
         /\ \A x, y : Has(<<x, y>>, S) <=> x \in S \/ y \in S
<1>1. ~Has(<<>>, S)
  BY DEF Has
<1>2. ASSUME NEW x PROVE Has(<<x>>, S) <=> x \in S
  <2>1. Len(<<x>>) = 1 /\ <<x>>[1] = x
    OBVIOUS
  <2> QED BY <2>1 DEF Has
<1>3. ASSUME NEW x, NEW y PROVE Has(<<x, y>>, S) <=> x \in S \/ y \in S
  <2>1. Len(<<x, y>>) = 2 /\ <<x, y>>[1] = x /\ <<x, y>>[2] = y
    OBVIOUS
  <2>2. 1..2 = {1, 2}
    OBVIOUS
  <2> QED BY <2>1, <2>2 DEF Has
<1> QED BY <1>1, <1>2, <1>3

\* Printing lines other than the first form's.
LEMMA LinesPrinted ==
  ASSUME NEW s \in Seq(Lines), NEW t \in Seq(Lines), NEW c, NEW two \in BOOLEAN, LinesInv(s, c, two),
         ~Has(t, {"xml"}), Has(t, {"post"} \cup CodeLines) => Shows(s, c),
         Has(t, CodeLines) => /\ ~Has(t, {"post", "failed"}) /\ ~Has(s, {"failed"})
                              /\ Sends(s, c) <=> two
  PROVE  LinesInv(s \o t, c, two)
<1> DEFINE u == s \o t
<1>1. /\ Len(s) \in Nat /\ Len(t) \in Nat /\ Len(u) = Len(s) + Len(t)
      /\ \A i \in 1..Len(s) : u[i] = s[i]
      /\ \A i \in 1..Len(t) : u[Len(s) + i] = t[i]
      /\ \A i \in 1..Len(u) : i \in 1..Len(s) \/ \E j \in 1..Len(t) : i = Len(s) + j
  BY Printed
<1>2. \A S : Has(u, S) <=> Has(s, S) \/ Has(t, S)
  BY HasPrinted
<1> HIDE DEF u
<1>3. \A i \in 1..Len(u) : u[i] = "xml" => i = 1 /\ c = NewClassifier
  <2>1. ASSUME NEW i \in 1..Len(u), u[i] = "xml" PROVE i = 1 /\ c = NewClassifier
    <3>1. CASE i \in 1..Len(s)
      BY <1>1, <2>1, <3>1 DEF LinesInv
    <3>2. ASSUME NEW j \in 1..Len(t), i = Len(s) + j PROVE FALSE
      BY <1>1, <2>1, <3>2 DEF Has
    <3> QED BY <1>1, <3>1, <3>2
  <2> QED BY <2>1
<1>4. Has(u, {"post"} \cup CodeLines) => Shows(u, c)
  <2>1. Shows(s, c) => Shows(u, c)
    BY <1>1 DEF Shows, At
  <2> QED BY <1>2, <2>1 DEF LinesInv
<1>5. ASSUME NEW i \in 1..Len(s) PROVE SentBefore(u, c, i) <=> SentBefore(s, c, i)
  <2>1. \A j \in 1..(i - 1) : u[j] = s[j]
    BY <1>1
  <2> QED BY <2>1 DEF SentBefore
<1>6. ASSUME NEW k \in 1..Len(t), t[k] \in CodeLines
      PROVE  SentBefore(u, c, Len(s) + k) <=> two
  <2>1. Has(t, CodeLines)
    BY <1>6 DEF Has
  <2>2. \A j \in 1..Len(t) : t[j] # "post"
    BY <2>1 DEF Has
  <2>3. Sends(s, c) => SentBefore(u, c, Len(s) + k)
    <3>1. ASSUME NEW j \in 1..Len(s), s[j] = "post" PROVE SentBefore(u, c, Len(s) + k)
      <4>1. j \in 1..((Len(s) + k) - 1) /\ u[j] = "post"
        BY <1>1, <3>1
      <4> QED BY <4>1 DEF SentBefore
    <3> QED BY <3>1 DEF Sends, Has, SentBefore
  <2>4. ASSUME NEW j \in 1..((Len(s) + k) - 1), u[j] = "post" PROVE Sends(s, c)
    <3>1. j \in 1..Len(u)
      BY <1>1
    <3>2. j \in 1..Len(s)
      BY <1>1, <2>2, <2>4, <3>1
    <3> QED BY <1>1, <2>4, <3>2 DEF Sends, Has
  <2>5. Sends(s, c) <=> SentBefore(u, c, Len(s) + k)
    BY <2>3, <2>4 DEF SentBefore, Sends
  <2> QED BY <2>1, <2>5
<1>7. ASSUME NEW i \in 1..Len(u), u[i] \in CodeLines PROVE SentBefore(u, c, i) <=> two
  <2>1. CASE i \in 1..Len(s)
    BY <1>1, <1>5, <1>7, <2>1 DEF LinesInv
  <2>2. ASSUME NEW k \in 1..Len(t), i = Len(s) + k PROVE SentBefore(u, c, i) <=> two
    BY <1>1, <1>6, <1>7, <2>2
  <2> QED BY <1>1, <2>1, <2>2
<1>8. ASSUME NEW i \in 1..Len(u), NEW j \in 1..Len(u), u[i] \in CodeLines, u[j] = "failed"
      PROVE  i < j
  <2>1. CASE i \in 1..Len(s) /\ j \in 1..Len(s)
    BY <1>1, <1>8, <2>1 DEF LinesInv
  <2>2. CASE i \in 1..Len(s) /\ j \notin 1..Len(s)
    BY <1>1, <2>2
  <2>3. CASE i \notin 1..Len(s)
    <3>1. Has(t, CodeLines)
      BY <1>1, <1>8, <2>3 DEF Has
    <3>2. ~Has(u, {"failed"})
      <4>1. ~Has(t, {"failed"})
        BY <3>1 DEF Has
      <4> QED BY <1>2, <3>1, <4>1
    <3> QED BY <1>8, <3>2 DEF Has
  <2> QED BY <2>1, <2>2, <2>3
<1>9. c.generated => (c.inForm <=> ~two)
  BY DEF LinesInv
<1>10. LinesInv(u, c, two)
  BY <1>3, <1>4, <1>7, <1>8, <1>9 DEF LinesInv
<1> QED BY <1>10 DEF u

LEMMA SeenPrinted ==
  ASSUME NEW s \in Seq(Lines), NEW t \in Seq(Lines), NEW c
  PROVE  /\ Shows(s, c) => Shows(s \o t, c)
         /\ Sends(s \o t, c) <=> Sends(s, c) \/ Has(t, {"post"})
         /\ SeesCode(s \o t, c) <=> SeesCode(s, c) \/ Has(t, CodeLines)
         /\ Has(s \o t, {"failed"}) <=> Has(s, {"failed"}) \/ Has(t, {"failed"})
<1>1. Shows(s, c) => Shows(s \o t, c)
  BY Printed DEF Shows, At
<1> QED BY <1>1, HasPrinted DEF Sends, SeesCode

\* Nothing is printed yet.
LEMMA NothingPrinted ==
  /\ \A two \in BOOLEAN : LinesInv(<<>>, NewClassifier, two)
  /\ ~Sends(<<>>, NewClassifier) /\ ~SeesCode(<<>>, NewClassifier) /\ ~Has(<<>>, {"failed"})
<1>1. Len(<<>>) = 0 /\ 1..0 = {} /\ \A S : ~Has(<<>>, S)
  BY HasFew
<1>2. ASSUME NEW two \in BOOLEAN PROVE LinesInv(<<>>, NewClassifier, two)
  BY <1>1 DEF LinesInv, NewClassifier
<1>3. ~Sends(<<>>, NewClassifier) /\ ~SeesCode(<<>>, NewClassifier)
  BY <1>1 DEF Sends, SeesCode, NewClassifier
<1> QED BY <1>1, <1>2, <1>3

LEMMA FactorSame ==
  ASSUME FactorInv, UNCHANGED <<mfa, gate, oc, form, out, classifier, verdict>>,
         start' \in {"begin", "create", "named", "full", "exec"} =>
             start \in {"begin", "create", "named", "full", "exec"}
  PROVE  FactorInv'
<1>1. GateInv' /\ VerdictNamesFactor'
  BY DEF FactorInv, GateInv, VerdictNamesFactor, Accepted, Asked
<1>2. LinesInv(out, classifier, gate.asks = "two") => LinesInv(out, classifier, gate.asks = "two")'
  OBVIOUS
<1>3. PhaseInv(out, classifier) => PhaseInv(out, classifier)'
  BY DEF PhaseInv, CodeDue, Accepted, Asked
<1> QED BY <1>1, <1>2, <1>3 DEF FactorInv

\* The verdict on a refused sign-in.
LEMMA FactorRejected ==
  ASSUME Types, FactorInv, verdict = "none", out # <<>>, Head(out) = "failed"
  PROVE  LET v == Rejected(classifier)
         IN  /\ v = "password" /\ (mfa = "typed" => gate.known) => ~gate.pw
             /\ v = "totp" => gate.pw /\ ~gate.code
             /\ v = "either" => ~gate.pw \/ ~gate.code
<1>1. out \in Seq(Lines) /\ Len(out) \in Nat \ {0} /\ Head(out) = out[1]
  BY Unread DEF Types, OcType
<1>2. Has(out, {"failed"})
  BY <1>1 DEF Has
<1>3. ~Accepted /\ (CodeDue => SeesCode(out, classifier))
  BY <1>2 DEF FactorInv, PhaseInv
<1>4. SeesCode(out, classifier) => classifier.generated
  <2>1. ASSUME NEW i \in 1..Len(out), out[i] \in CodeLines PROVE FALSE
    <3>1. 1 \in 1..Len(out) /\ i < 1
      BY <1>1, <2>1 DEF FactorInv, LinesInv
    <3> QED BY <3>1
  <2> QED BY <2>1 DEF SeesCode, Has
<1>5. mfa \in Factor /\ gate.asks \in {"one", "two", "web", "nothing"} /\ form \in {1, 2}
      /\ classifier \in ClassifierType /\ gate \in Gateway
  <2>1. mfa \in Factor /\ gate.asks \in Asks /\ gate \in Gateway
    BY TunnelAssumption DEF Types, RunType, Gateway
  <2>2. form \in {1, 2} /\ classifier \in ClassifierType
    BY DEF Types, OcType, ReadType
  <2> QED BY <2>1, <2>2, TunnelAssumption
<1>6. gate.pw \in BOOLEAN /\ gate.code \in BOOLEAN /\ gate.known \in BOOLEAN
  BY <1>5 DEF Gateway
<1>7. ~gate.pw \/ ~gate.code
  BY <1>3 DEF Accepted
<1>8. CASE classifier.generated
  <2>1. CASE ~classifier.inForm
    <3>1. gate.asks = "two" /\ form = 2 /\ gate.pw
      BY <1>8, <2>1 DEF FactorInv, LinesInv, PhaseInv, GateInv, SeesCode
    <3> QED BY <1>7, <1>8, <2>1, <3>1 DEF Rejected
  <2>2. CASE classifier.inForm
    BY <1>7, <1>8, <2>2 DEF Rejected
  <2> QED BY <2>1, <2>2
<1>9. CASE ~classifier.generated
  <2>1. CASE mfa \in {"totp_append", "typed_append", "duo_push"}
    BY <1>7, <1>9, <2>1 DEF Rejected
  <2>2. CASE mfa \in {"none", "totp_field", "typed"}
    <3>1. ~CodeDue
      BY <1>3, <1>4, <1>9
    <3>2. (mfa = "typed" => gate.known) => ~gate.pw
      BY <1>3, <1>5, <1>6, <2>2, <3>1 DEF CodeDue, Accepted, FactorInv, GateInv
    <3>3. Rejected(classifier) = "password"
      BY <1>9, <2>2 DEF Rejected
    <3> QED BY <3>2, <3>3
  <2> QED BY <1>5, <2>1, <2>2 DEF Factor
<1> QED BY <1>8, <1>9

LEMMA FactorReads == ASSUME Types, FactorInv, ReadLine PROVE FactorInv'
<1> DEFINE line == Head(out)
           c == IF verdict = "none" THEN Fed(line) ELSE classifier
           v == IF verdict = "none" THEN VerdictOf(line, c) ELSE verdict
<1>1. out # <<>> /\ out' = Tail(out) /\ out \in Seq(Lines) /\ line \in Lines
  BY Unread, HeadTailProperties DEF ReadLine, Types, OcType
<1>2. UNCHANGED <<mfa, gate, start, oc, form>> /\ classifier' = c /\ verdict' = v
  BY DEF ReadLine, HandleLine, coreVars, runVars
<1>3. GateInv'
  BY <1>2 DEF FactorInv, GateInv, Accepted, Asked
<1>4. CASE verdict # "none"
  <2>1. v = verdict
    BY <1>4
  <2>2. VerdictNamesFactor'
    BY <1>2, <2>1 DEF FactorInv, VerdictNamesFactor
  <2> QED BY <1>2, <1>3, <1>4, <2>1, <2>2 DEF FactorInv
<1>5. CASE verdict = "none" /\ v = "none"
  <2>1. ReadType
    BY DEF Types
  <2>2. c = Fed(Head(out)) /\ LinesInv(out, classifier, gate.asks = "two") /\ PhaseInv(out, classifier)
    BY <1>5 DEF FactorInv
  <2>3. VerdictNamesFactor'
    BY <1>2, <1>5 DEF VerdictNamesFactor
  <2>4. LinesInv(Tail(out), c, gate.asks = "two")
    BY <1>1, <1>5, <2>1, <2>2, LinesRead
  <2> HIDE DEF c, v, line
  <2>5. LinesInv(out, classifier, gate.asks = "two")'
    BY <1>1, <1>2, <2>4
  <2>6. PhaseInv(out, classifier)'
    <3>1. /\ Shows(out, classifier) => Shows(out', classifier')
          /\ Sends(out, classifier) <=> Sends(out', classifier')
          /\ SeesCode(out, classifier) <=> SeesCode(out', classifier')
          /\ Has(out', {"failed"}) => Has(out, {"failed"})
      BY <1>1, <1>2, <1>5, <2>1, <2>2, SeenRead
    <3>2. oc \notin {"none", "read", "form"}
      BY <1>1, <2>2 DEF PhaseInv
    <3>3. CodeDue' = CodeDue /\ Accepted' = Accepted
      BY <1>2 DEF CodeDue, Accepted, Asked
    <3> QED BY <1>2, <2>2, <3>1, <3>2, <3>3 DEF PhaseInv
  <2> QED BY <1>3, <2>3, <2>5, <2>6 DEF FactorInv
<1>6. CASE verdict = "none" /\ v # "none"
  <2>1. CASE line = "failed"
    <3>1. c = classifier /\ v = Rejected(classifier)
      BY <1>6, <2>1 DEF Fed, VerdictOf
    <3>2. VerdictNamesFactor'
      BY <1>1, <1>2, <1>6, <2>1, <3>1, FactorRejected DEF VerdictNamesFactor
    <3> QED BY <1>2, <1>3, <1>6, <3>2 DEF FactorInv
  <2>2. CASE line # "failed"
    <3>1. v \in {"rejected", "network", "saml", "unusable"}
      BY <1>6, <2>2 DEF VerdictOf
    <3>2. VerdictNamesFactor'
      BY <1>2, <3>1 DEF VerdictNamesFactor
    <3> QED BY <1>2, <1>3, <1>6, <3>2 DEF FactorInv
  <2> QED BY <2>1, <2>2
<1> QED BY <1>4, <1>5, <1>6

\* openconnect prints t, which does not begin a form.
LEMMA FactorPrints ==
  ASSUME Types, FactorInv, UNCHANGED <<mfa, gate, classifier, verdict>>, NEW t \in Seq(Lines),
         out' = out \o t, ~Has(t, {"xml"}), Shows(out, classifier) \/ ~Has(t, {"post"} \cup CodeLines),
         Has(t, CodeLines) => ~Has(t, {"post", "failed"}),
         verdict = "none" /\ Has(t, CodeLines) =>
             ~Has(out, {"failed"}) /\ (Sends(out, classifier) <=> gate.asks = "two")
  PROVE  /\ VerdictNamesFactor'
         /\ verdict = "none" => LinesInv(out, classifier, gate.asks = "two")'
         /\ Shows(out, classifier) => Shows(out', classifier')
         /\ Sends(out', classifier') <=> Sends(out, classifier) \/ Has(t, {"post"})
         /\ SeesCode(out', classifier') <=> SeesCode(out, classifier) \/ Has(t, CodeLines)
         /\ Has(out', {"failed"}) <=> Has(out, {"failed"}) \/ Has(t, {"failed"})
<1>1. VerdictNamesFactor'
  BY DEF FactorInv, VerdictNamesFactor
<1>2. out \in Seq(Lines)
  BY DEF Types, OcType
<1>3. verdict = "none" => LinesInv(out, classifier, gate.asks = "two")
  BY DEF FactorInv
<1>4. verdict = "none" => LinesInv(out \o t, classifier, gate.asks = "two")
  BY <1>2, <1>3, LinesPrinted
<1> QED BY <1>1, <1>2, <1>4, SeenPrinted

\* openconnect and the gateway.
LEMMA FactorOpenconnect ==
  ASSUME Types, LifeInv, FactorInv, core = "up", Openconnect \/ OcDrops PROVE FactorInv'
<1>1. UNCHANGED ocRest
  BY
  DEF Openconnect, OcPassword, OcForm, OcFactor, OcAnswer, OcPost, OcPosted, OcAgain, OcUp, OcDrops,
      OcExits, ProxyEnds
<1>2. UNCHANGED <<mfa, gate, start, classifier, verdict>>
  BY <1>1 DEF ocRest, coreVars, runVars, readVars
<1>3. /\ out \in Seq(Lines) /\ form \in {1, 2} /\ mfa \in Factor /\ gate \in Gateway
      /\ gate.asks \in {"one", "two", "web", "nothing"}
  <2>1. mfa \in Factor /\ gate.asks \in Asks /\ gate \in Gateway
    BY TunnelAssumption DEF Types, RunType, Gateway
  <2>2. form \in {1, 2} /\ out \in Seq(Lines)
    BY DEF Types, OcType
  <2> QED BY <2>1, <2>2, TunnelAssumption
<1>4. \A x \in Lines : <<x>> \in Seq(Lines)
  OBVIOUS
<1>5. \A x \in Lines, y \in Lines : <<x, y>> \in Seq(Lines)
  OBVIOUS
<1>6. oc # "none" => start' \notin {"begin", "create", "named", "full", "exec"}
  BY <1>2 DEF FactorInv, GateInv
<1>7. verdict = "none" => PhaseInv(out, classifier)
  BY DEF FactorInv
\* Lines the classifier makes nothing of, at the end of the run or where nothing is asked.
<1>8. ASSUME NEW t \in Seq(Lines), out' = out \o t, ~Has(t, {"xml", "post", "failed"} \cup CodeLines),
             oc # "none", oc' \in {"dying", "web", "in", "running", "dead"}, form' = form,
             oc' \in {"web", "in", "running"} => ~Has(out, {"failed"}) \/ verdict # "none"
      PROVE  FactorInv'
  <2>1. ~Has(t, {"xml"}) /\ ~Has(t, {"post"}) /\ ~Has(t, {"failed"}) /\ ~Has(t, CodeLines)
        /\ ~Has(t, {"post"} \cup CodeLines)
    BY <1>8 DEF Has
  <2>2. /\ VerdictNamesFactor'
        /\ verdict = "none" => LinesInv(out, classifier, gate.asks = "two")'
        /\ Sends(out', classifier') <=> Sends(out, classifier)
        /\ SeesCode(out', classifier') <=> SeesCode(out, classifier)
        /\ Has(out', {"failed"}) <=> Has(out, {"failed"})
    BY <1>2, <1>8, <2>1, FactorPrints
  <2>3. GateInv'
    BY <1>2, <1>6, <1>8 DEF FactorInv, GateInv
  <2>4. CodeDue' = CodeDue /\ Accepted' = Accepted
    BY <1>2, <1>8 DEF CodeDue, Accepted, Asked
  <2>5. verdict = "none" => PhaseInv(out, classifier)'
    BY <1>2, <1>7, <1>8, <2>2, <2>4 DEF PhaseInv
  <2> QED BY <1>2, <2>2, <2>3, <2>5 DEF FactorInv
<1>9. CASE ProxyEnds
  BY <1>2, <1>9, FactorSame DEF ProxyEnds
<1>10. ASSUME oc # "none", oc' \in {"dying", "web", "in", "running", "dead"}, UNCHANGED <<form, out>>,
              oc' \in {"web", "in", "running"} => ~Has(out, {"failed"}) \/ verdict # "none"
       PROVE  FactorInv'
  <2>1. out' = out \o <<>> /\ <<>> \in Seq(Lines)
    BY <1>3, <1>10, ConcatEmptySeq, EmptySeq
  <2> QED BY <1>8, <1>10, <2>1, HasFew
<1>11. CASE OcExits
  BY <1>10, <1>11 DEF OcExits, Alive
<1>12. ASSUME out' = out \o <<"incomplete">>, oc' = "dying", oc # "none", UNCHANGED form PROVE FactorInv'
  <2>1. <<"incomplete">> \in Seq(Lines)
    BY <1>4 DEF Lines
  <2>2. ~Has(<<"incomplete">>, {"xml", "post", "failed"} \cup CodeLines)
    BY HasFew DEF CodeLines
  <2> QED BY <1>8, <1>12, <2>1, <2>2
<1>13. CASE OcDrops
  <2>1. ~Has(out, {"failed"}) \/ verdict # "none"
    BY <1>7, <1>13 DEF OcDrops, PhaseInv
  <2>2. <<"network">> \in Seq(Lines)
    BY <1>4 DEF Lines
  <2>3. ~Has(<<"network">>, {"xml", "post", "failed"} \cup CodeLines)
    BY HasFew DEF CodeLines
  <2> QED BY <1>8, <1>12, <1>13, <2>1, <2>2, <2>3 DEF OcDrops, Prints
<1>14. CASE OcUp
  BY <1>7, <1>10, <1>14 DEF OcUp, PhaseInv
<1>15. CASE OcPassword
  <2>1. oc = "read" /\ form' = form
    BY <1>15 DEF OcPassword
  <2>2. CASE out' = out \o <<>> /\ oc' = "form"
    <3>1. out' = out
      BY <1>3, <2>2, ConcatEmptySeq
    <3>2. GateInv'
      BY <1>2, <1>6, <2>1, <2>2 DEF FactorInv, GateInv
    <3>3. VerdictNamesFactor'
      BY <1>2 DEF FactorInv, VerdictNamesFactor
    <3>4. CodeDue' = CodeDue
      BY <1>2, <2>1 DEF CodeDue
    <3>5. verdict = "none" => PhaseInv(out, classifier)'
      BY <1>2, <1>7, <2>1, <2>2, <3>1, <3>4 DEF PhaseInv
    <3> QED BY <1>2, <3>1, <3>2, <3>3, <3>5 DEF FactorInv
  <2>3. CASE out' = out \o <<"incomplete">> /\ oc' = "dying"
    BY <1>12, <2>1, <2>3
  <2> QED BY <1>15, <2>2, <2>3 DEF OcPassword, Reads, Prints
<1>16. CASE OcForm
  <2>1. oc = "form" /\ form' = form /\ form = 1
    BY <1>16 DEF OcForm, FactorInv, GateInv
  <2>2. CASE gate.asks \in {"one", "two"}
    <3>1. out' = out \o <<"xml">> /\ oc' = IF gate.asks = "one" /\ Asked THEN "factor" ELSE "post"
      BY <1>16, <2>2 DEF OcForm, Prints
    <3>2. GateInv'
      BY <1>2, <1>6, <2>1, <2>2, <3>1 DEF FactorInv, GateInv
    <3>3. VerdictNamesFactor'
      BY <1>2 DEF FactorInv, VerdictNamesFactor
    <3>4. ASSUME verdict = "none"
          PROVE  LinesInv(out, classifier, gate.asks = "two")' /\ PhaseInv(out, classifier)'
      <4>1. out = <<>> /\ classifier = NewClassifier
        BY <1>7, <2>1, <3>4 DEF PhaseInv
      <4>2. out' = <<"xml">> /\ classifier' = NewClassifier
        BY <1>2, <3>1, <4>1, <1>4, ConcatEmptySeq DEF Lines
      <4>3. Len(out') = 1 /\ out'[1] = "xml"
        BY <4>2
      <4>4. \A S : Has(out', S) <=> "xml" \in S
        BY <4>2, HasFew
      <4>5. LinesInv(out, classifier, gate.asks = "two")'
        <5>1. \A i \in 1..1 : i = 1
          OBVIOUS
        <5>2. ~Has(out', {"post"} \cup CodeLines)
          BY <4>4 DEF CodeLines
        <5> QED BY <4>2, <4>3, <5>1, <5>2 DEF LinesInv, NewClassifier, CodeLines
      <4>6. Shows(out', classifier') /\ ~Sends(out', classifier') /\ ~SeesCode(out', classifier')
        BY <4>2, <4>3, <4>4 DEF Shows, Sends, SeesCode, At, NewClassifier, CodeLines
      <4>7. ~Has(out', {"failed"})
        BY <4>4
      <4>8. oc' \in {"answer", "post", "posted", "again"} => ~CodeDue'
        BY <1>2, <2>1, <3>1 DEF CodeDue, Asked
      <4>9. PhaseInv(out, classifier)'
        BY <2>1, <3>1, <4>6, <4>7, <4>8 DEF PhaseInv
      <4> QED BY <4>5, <4>9
    <3> QED BY <1>2, <3>2, <3>3, <3>4 DEF FactorInv
  <2>3. CASE gate.asks = "web"
    <3>1. out' = out \o <<"saml">> /\ oc' = "web"
      BY <1>16, <2>3 DEF OcForm, Prints
    <3>2. <<"saml">> \in Seq(Lines)
      BY <1>4 DEF Lines
    <3>3. ~Has(<<"saml">>, {"xml", "post", "failed"} \cup CodeLines)
      BY HasFew DEF CodeLines
    <3>4. ~Has(out, {"failed"}) \/ verdict # "none"
      BY <1>7, <2>1 DEF PhaseInv
    <3> QED BY <1>8, <2>1, <3>1, <3>2, <3>3, <3>4
  <2>4. CASE gate.asks = "nothing"
    <3>1. out' = out \o <<"network", "incomplete">> /\ oc' = "dying"
      BY <1>16, <2>4 DEF OcForm, Prints
    <3>2. <<"network", "incomplete">> \in Seq(Lines)
      BY <1>5 DEF Lines
    <3>3. ~Has(<<"network", "incomplete">>, {"xml", "post", "failed"} \cup CodeLines)
      <4> DEFINE S == {"xml", "post", "failed"} \cup CodeLines
      <4>1. "network" \notin S /\ "incomplete" \notin S
        BY DEF CodeLines
      <4> HIDE DEF S
      <4>2. ~Has(<<"network", "incomplete">>, S)
        BY <4>1, HasFew
      <4> QED BY <4>2 DEF S
    <3> QED BY <1>8, <2>1, <3>1, <3>2, <3>3
  <2> QED BY <1>3, <2>2, <2>3, <2>4
<1>17. CASE OcFactor
  <2>1. oc = "factor" /\ form' = form /\ gate.asks \in {"one", "two"} /\ (gate.asks = "one" \/ form = 2)
    BY <1>17 DEF OcFactor, FactorInv, GateInv
  <2>2. verdict = "none" => /\ Shows(out, classifier) /\ ~Has(out, {"failed"})
                            /\ Sends(out, classifier) <=> gate.asks = "two"
    BY <1>3, <1>7, <2>1 DEF PhaseInv, FactorInv, GateInv
  <2>3. CodeDue' = CodeDue /\ Accepted' = Accepted
    BY <1>2, <2>1 DEF CodeDue, Accepted, Asked
  \* The form with the code, as the classifier knows it or not.
  <2>4. ASSUME NEW t \in Seq(Lines), out' = out \o t, oc' \in {"answer", "post"},
               ~Has(t, {"xml"}), ~Has(t, {"post"}), ~Has(t, {"failed"}), CodeDue => Has(t, CodeLines)
        PROVE  FactorInv'
    <3>1. GateInv'
      BY <1>2, <1>6, <2>1, <2>4 DEF FactorInv, GateInv
    <3>2. VerdictNamesFactor'
      BY <1>2 DEF FactorInv, VerdictNamesFactor
    <3>3. ASSUME verdict = "none"
          PROVE  LinesInv(out, classifier, gate.asks = "two")' /\ PhaseInv(out, classifier)'
      <4>1. /\ LinesInv(out, classifier, gate.asks = "two")'
            /\ Shows(out, classifier) => Shows(out', classifier')
            /\ Sends(out', classifier') <=> Sends(out, classifier) \/ Has(t, {"post"})
            /\ SeesCode(out', classifier') <=> SeesCode(out, classifier) \/ Has(t, CodeLines)
            /\ Has(out', {"failed"}) <=> Has(out, {"failed"}) \/ Has(t, {"failed"})
        <5>1. ~Has(t, {"post", "failed"})
          BY <2>4 DEF Has
        <5> QED BY <1>2, <2>2, <2>4, <3>3, <5>1, FactorPrints
      <4>2. PhaseInv(out, classifier)'
        BY <1>2, <1>7, <2>1, <2>2, <2>3, <2>4, <3>3, <4>1 DEF PhaseInv, FactorInv, GateInv
      <4> QED BY <4>1, <4>2
    <3> QED BY <1>2, <3>1, <3>2, <3>3 DEF FactorInv
  <2>5. ASSUME NEW x \in Lines, x \in {"generated", "otpform"} PROVE <<x>> \in Seq(Lines)
    BY <1>4
  <2>6. CASE mfa = "totp_field"
    <3>1. CASE disk
      <4>1. out' = out \o <<"generated">> /\ oc' = "post"
        BY <1>17, <2>6, <3>1 DEF OcFactor, Prints
      <4>2. <<"generated">> \in Seq(Lines)
        BY <1>4 DEF Lines
      <4>3. \A S : Has(<<"generated">>, S) <=> "generated" \in S
        BY HasFew
      <4> QED BY <2>4, <4>1, <4>2, <4>3 DEF CodeLines
    <3>2. CASE ~disk
      <4>1. out' = out \o <<"unusable">> /\ oc' = "dying"
        BY <1>17, <2>6, <3>2 DEF OcFactor, Prints
      <4>2. <<"unusable">> \in Seq(Lines)
        BY <1>4 DEF Lines
      <4>3. ~Has(<<"unusable">>, {"xml", "post", "failed"} \cup CodeLines)
        BY HasFew DEF CodeLines
      <4> QED BY <1>8, <2>1, <4>1, <4>2, <4>3
    <3> QED BY <3>1, <3>2
  <2>7. CASE mfa # "totp_field"
    <3> DEFINE t == IF gate.known /\ Typed THEN <<"otpform">> ELSE <<>>
    <3>1. t \in Seq(Lines) /\ (Has(t, CodeLines) <=> gate.known /\ Typed)
          /\ ~Has(t, {"xml"}) /\ ~Has(t, {"post"}) /\ ~Has(t, {"failed"})
      <4>1. <<"otpform">> \in Seq(Lines) /\ <<>> \in Seq(Lines)
        BY <1>4, EmptySeq DEF Lines
      <4>2. /\ Has(<<"otpform">>, CodeLines) /\ ~Has(<<"otpform">>, {"xml"})
            /\ ~Has(<<"otpform">>, {"post"}) /\ ~Has(<<"otpform">>, {"failed"})
        <5>1. \A S : Has(<<"otpform">>, S) <=> "otpform" \in S
          BY HasFew
        <5>2. "otpform" \in CodeLines /\ \A l \in {"xml", "post", "failed"} : "otpform" \notin {l}
          BY DEF CodeLines
        <5> QED BY <5>1, <5>2
      <4>3. \A S : ~Has(<<>>, S)
        BY HasFew
      <4>4. CASE gate.known /\ Typed
        BY <4>1, <4>2, <4>4
      <4>5. CASE ~(gate.known /\ Typed)
        BY <4>1, <4>3, <4>5
      <4> QED BY <4>4, <4>5
    <3>2. Ask(t, "answer")
      BY <1>17, <2>7 DEF OcFactor
    <3> HIDE DEF t
    <3>3. CASE NonInter
      <4>1. out' = out \o (t \o <<"noinput", "incomplete">>) /\ oc' = "dying"
        BY <3>2, <3>3 DEF Ask, Prints
      <4>2. ~Typed
        BY <3>3 DEF NonInter
      <4>3. <<"noinput", "incomplete">> \in Seq(Lines)
        BY <1>5 DEF Lines
      <4>4. t \o <<"noinput", "incomplete">> \in Seq(Lines)
        BY <3>1, <4>3, ConcatProperties
      <4>5. ASSUME NEW S, ~Has(t, S), "noinput" \notin S, "incomplete" \notin S
            PROVE  ~Has(t \o <<"noinput", "incomplete">>, S)
        <5>1. ~Has(<<"noinput", "incomplete">>, S)
          BY <4>5, HasFew
        <5> QED BY <3>1, <4>3, <4>5, <5>1, HasPrinted
      <4>6. ~Has(t, {"xml", "post", "failed"} \cup CodeLines)
        BY <3>1, <4>2 DEF Has
      <4>7. ~Has(t \o <<"noinput", "incomplete">>, {"xml", "post", "failed"} \cup CodeLines)
        BY <4>5, <4>6 DEF CodeLines
      <4> QED BY <1>8, <2>1, <4>1, <4>4, <4>7
    <3>4. CASE ~NonInter
      <4>1. out' = out \o (t \o <<"prompt">>) /\ oc' = "answer"
        BY <3>2, <3>4 DEF Ask, Prints
      <4>2. <<"prompt">> \in Seq(Lines)
        BY <1>4 DEF Lines
      <4>3. t \o <<"prompt">> \in Seq(Lines)
        BY <3>1, <4>2, ConcatProperties
      <4>4. \A S : Has(t \o <<"prompt">>, S) <=> Has(t, S) \/ "prompt" \in S
        BY <3>1, <4>2, HasFew, HasPrinted
      <4>5. CodeDue => gate.known /\ Typed
        BY <2>7 DEF CodeDue, Typed
      <4>6. Has(t \o <<"prompt">>, CodeLines) <=> Has(t, CodeLines)
        BY <4>4 DEF CodeLines
      <4> QED BY <2>4, <3>1, <4>1, <4>3, <4>4, <4>5, <4>6
    <3> QED BY <3>3, <3>4
  <2> QED BY <2>6, <2>7
\* Nothing is refused yet, and the lines tell nothing of a code.
<1>18. ASSUME NEW t \in Seq(Lines), out' = out \o t, oc \in {"answer", "post"}, oc' = "posted",
              form' = form, ~Has(t, {"xml", "failed"} \cup CodeLines),
              oc = "answer" \/ Has(t, {"post"})
       PROVE  FactorInv'
  <2>1. ~Has(t, {"xml"}) /\ ~Has(t, {"failed"}) /\ ~Has(t, CodeLines)
    BY <1>18 DEF Has
  <2>2. GateInv'
    BY <1>2, <1>6, <1>18 DEF FactorInv, GateInv
  <2>3. VerdictNamesFactor'
    BY <1>2 DEF FactorInv, VerdictNamesFactor
  <2>4. CodeDue' = CodeDue /\ Accepted' = Accepted
    BY <1>2, <1>18 DEF CodeDue, Accepted, Asked
  <2>5. ASSUME verdict = "none"
        PROVE  LinesInv(out, classifier, gate.asks = "two")' /\ PhaseInv(out, classifier)'
    <3>1. Shows(out, classifier)
      BY <1>7, <1>18, <2>5 DEF PhaseInv
    <3>2. /\ LinesInv(out, classifier, gate.asks = "two")'
          /\ Shows(out, classifier) => Shows(out', classifier')
          /\ Sends(out', classifier') <=> Sends(out, classifier) \/ Has(t, {"post"})
          /\ SeesCode(out', classifier') <=> SeesCode(out, classifier) \/ Has(t, CodeLines)
          /\ Has(out', {"failed"}) <=> Has(out, {"failed"}) \/ Has(t, {"failed"})
      BY <1>2, <1>18, <2>1, <2>5, <3>1, FactorPrints
    <3>3. gate.asks = "two" => Sends(out', classifier')
      BY <1>7, <1>18, <2>5, <3>2 DEF PhaseInv, FactorInv, GateInv
    <3>4. PhaseInv(out, classifier)'
      BY <1>2, <1>7, <1>18, <2>1, <2>4, <2>5, <3>1, <3>2, <3>3 DEF PhaseInv
    <3> QED BY <3>2, <3>4
  <2> QED BY <1>2, <2>2, <2>3, <2>5 DEF FactorInv
<1>19. CASE OcAnswer
  <2>1. oc = "answer" /\ form' = form
    BY <1>19 DEF OcAnswer
  <2>2. CASE out' = out \o <<"glued">> /\ oc' = "posted"
    <3>1. <<"glued">> \in Seq(Lines)
      BY <1>4 DEF Lines
    <3>2. ~Has(<<"glued">>, {"xml", "failed"} \cup CodeLines)
      BY HasFew DEF CodeLines
    <3> QED BY <1>18, <2>1, <2>2, <3>1, <3>2
  <2>3. CASE out' = out \o <<"incomplete">> /\ oc' = "dying"
    BY <1>12, <2>1, <2>3
  <2> QED BY <1>19, <2>2, <2>3 DEF OcAnswer, Reads, Prints
<1>20. CASE OcPost
  <2>1. oc = "post" /\ form' = form /\ out' = out \o <<"post">> /\ oc' = "posted"
    BY <1>20 DEF OcPost, Prints
  <2>2. <<"post">> \in Seq(Lines)
    BY <1>4 DEF Lines
  <2>3. ~Has(<<"post">>, {"xml", "failed"} \cup CodeLines) /\ Has(<<"post">>, {"post"})
    BY HasFew DEF CodeLines
  <2> QED BY <1>18, <2>1, <2>2, <2>3
\* A sign-in that is refused.
<1>21. ASSUME NEW t \in Seq(Lines), out' = out \o t, oc \in {"posted", "again"}, form' = form,
              oc' \in {"again", "dying"}, ~Accepted, ~Has(t, {"xml", "post"} \cup CodeLines)
       PROVE  FactorInv'
  <2>1. ~Has(t, {"xml"}) /\ ~Has(t, {"post"}) /\ ~Has(t, CodeLines) /\ ~Has(t, {"post"} \cup CodeLines)
    BY <1>21 DEF Has
  <2>2. CodeDue' = CodeDue /\ Accepted' = Accepted
    BY <1>2, <1>21 DEF CodeDue, Accepted, Asked
  <2>3. GateInv'
    BY <1>2, <1>6, <1>21, <2>2 DEF FactorInv, GateInv
  <2>4. VerdictNamesFactor'
    BY <1>2 DEF FactorInv, VerdictNamesFactor
  <2>5. ASSUME verdict = "none"
        PROVE  LinesInv(out, classifier, gate.asks = "two")' /\ PhaseInv(out, classifier)'
    <3>1. /\ LinesInv(out, classifier, gate.asks = "two")'
          /\ Sends(out', classifier') <=> Sends(out, classifier)
          /\ SeesCode(out', classifier') <=> SeesCode(out, classifier)
      BY <1>2, <1>21, <2>1, <2>5, FactorPrints
    <3>2. CodeDue => SeesCode(out, classifier)
      BY <1>7, <1>21, <2>5 DEF PhaseInv
    <3>3. PhaseInv(out, classifier)'
      BY <1>2, <1>7, <1>21, <2>2, <2>5, <3>1, <3>2 DEF PhaseInv
    <3> QED BY <3>1, <3>3
  <2> QED BY <1>2, <2>3, <2>4, <2>5 DEF FactorInv
<1>22. CASE OcPosted
  <2>1. oc = "posted" /\ gate.asks \in {"one", "two"}
    BY <1>22 DEF OcPosted, FactorInv, GateInv
  <2>2. CASE ~Accepted
    <3>1. form' = form /\ Ask(<<"failed">>, "again")
      BY <1>22, <2>2 DEF OcPosted
    <3>2. <<"failed">> \in Seq(Lines) /\ <<"prompt">> \in Seq(Lines)
          /\ <<"noinput", "incomplete">> \in Seq(Lines)
      BY <1>4, <1>5 DEF Lines
    <3>3. ASSUME NEW t \in Seq(Lines), out' = out \o (<<"failed">> \o t), oc' \in {"again", "dying"},
                 ~Has(t, {"xml", "post"} \cup CodeLines)
          PROVE  FactorInv'
      <4>1. <<"failed">> \o t \in Seq(Lines)
        BY <3>2, ConcatProperties
      <4>2. ~Has(<<"failed">>, {"xml", "post"} \cup CodeLines)
        BY HasFew DEF CodeLines
      <4>3. ~Has(<<"failed">> \o t, {"xml", "post"} \cup CodeLines)
        BY <3>2, <3>3, <4>2, HasPrinted
      <4> QED BY <1>21, <2>1, <2>2, <3>1, <3>3, <4>1, <4>3
    <3>4. ~Has(<<"prompt">>, {"xml", "post"} \cup CodeLines)
      BY HasFew DEF CodeLines
    <3>5. ~Has(<<"noinput", "incomplete">>, {"xml", "post"} \cup CodeLines)
      <4> DEFINE S == {"xml", "post"} \cup CodeLines
      <4>1. "noinput" \notin S /\ "incomplete" \notin S
        BY DEF CodeLines
      <4> HIDE DEF S
      <4>2. ~Has(<<"noinput", "incomplete">>, S)
        BY <4>1, HasFew
      <4> QED BY <4>2 DEF S
    <3>6. CASE NonInter
      BY <3>1, <3>2, <3>3, <3>5, <3>6 DEF Ask, Prints
    <3>7. CASE ~NonInter
      BY <3>1, <3>2, <3>3, <3>4, <3>7 DEF Ask, Prints
    <3> QED BY <3>6, <3>7
  <2>3. CASE Accepted
    <3>1. out' = out /\ (verdict = "none" => ~Has(out, {"failed"}))
      BY <1>7, <1>22, <2>1, <2>3 DEF OcPosted, PhaseInv
    <3>2. CASE form = 1 /\ gate.asks = "two"
      <4>1. form' = 2 /\ oc' = "factor" /\ gate.pw
        BY <1>22, <2>3, <3>2 DEF OcPosted, Accepted
      <4>2. GateInv'
        BY <1>2, <1>6, <2>1, <3>2, <4>1 DEF FactorInv, GateInv
      <4>3. VerdictNamesFactor'
        BY <1>2 DEF FactorInv, VerdictNamesFactor
      <4>4. verdict = "none" => Shows(out, classifier) /\ Sends(out, classifier)
        BY <1>7, <2>1, <3>2 DEF PhaseInv
      <4>5. verdict = "none" => PhaseInv(out, classifier)'
        BY <1>2, <3>1, <3>2, <4>1, <4>4 DEF PhaseInv
      <4> QED BY <1>2, <3>1, <4>2, <4>3, <4>5 DEF FactorInv
    <3>3. CASE ~(form = 1 /\ gate.asks = "two")
      BY <1>10, <1>22, <2>1, <2>3, <3>1, <3>3 DEF OcPosted
    <3> QED BY <3>2, <3>3
  <2> QED BY <2>2, <2>3
<1>23. CASE OcAgain
  <2>1. oc = "again" /\ form' = form /\ ~Accepted
    BY <1>23 DEF OcAgain, FactorInv, GateInv
  <2>2. CASE out' = out \o <<"failed", "prompt">> /\ oc' = "again"
    <3>1. <<"failed", "prompt">> \in Seq(Lines)
      BY <1>5 DEF Lines
    <3>2. ~Has(<<"failed", "prompt">>, {"xml", "post"} \cup CodeLines)
      <4> DEFINE S == {"xml", "post"} \cup CodeLines
      <4>1. "failed" \notin S /\ "prompt" \notin S
        BY DEF CodeLines
      <4> HIDE DEF S
      <4>2. ~Has(<<"failed", "prompt">>, S)
        BY <4>1, HasFew
      <4> QED BY <4>2 DEF S
    <3> QED BY <1>21, <2>1, <2>2, <3>1, <3>2
  <2>3. CASE out' = out \o <<"incomplete">> /\ oc' = "dying"
    BY <1>12, <2>1, <2>3
  <2> QED BY <1>23, <2>2, <2>3 DEF OcAgain, Reads, Prints
<1> QED
  BY <1>9, <1>11, <1>13, <1>14, <1>15, <1>16, <1>17, <1>19, <1>20, <1>22, <1>23 DEF Openconnect

LEMMA FactorStep == Types /\ LifeInv /\ FactorInv /\ [Next]_vars => FactorInv'
<1> SUFFICES ASSUME Types, LifeInv, FactorInv, [Next]_vars PROVE FactorInv'
  OBVIOUS
<1> USE DEF coreVars, runVars, fileVars, lifeVars, heldVars, timerVars, readVars, ocVars, procVars
<1>1. CASE Start
  <2>1. CASE StartExec
    <3>1. oc = "none" /\ oc' = "read" /\ start' = "publish"
          /\ UNCHANGED <<mfa, gate, form, out, classifier, verdict>>
      BY <2>1 DEF StartExec, FactorInv, GateInv
    <3>2. GateInv' /\ VerdictNamesFactor'
      BY <3>1 DEF FactorInv, GateInv, VerdictNamesFactor
    <3>3. PhaseInv(out, classifier) => PhaseInv(out, classifier)'
      BY <3>1 DEF PhaseInv, CodeDue, Accepted, Asked
    <3> QED BY <3>1, <3>2, <3>3 DEF FactorInv
  <2>2. CASE Start /\ ~StartExec
    BY <2>2, FactorSame
    DEF Start, StartBegin, StartCreate, StartNamed, StartFails, StartPublish, StartFeed, StartCheck
  <2> QED BY <1>1, <2>1, <2>2
<1>2. CASE CodeTimerFires \/ PromptTimerFires \/ AtPrompt
  BY <1>2, FactorSame DEF CodeTimerFires, PromptTimerFires, AtPrompt
<1>3. CASE Reader
  <2>1. CASE ReadPrompt
    <3>1. out # <<>> /\ Head(out) = "prompt" /\ out' = Tail(out) /\ out \in Seq(Lines)
          /\ UNCHANGED <<mfa, gate, start, oc, form, classifier, verdict>>
      BY <2>1 DEF ReadPrompt, Types, OcType
    <3>2. Fed(Head(out)) = classifier
      BY <3>1 DEF Fed
    <3>3. GateInv' /\ VerdictNamesFactor'
      BY <3>1 DEF FactorInv, GateInv, VerdictNamesFactor, Accepted, Asked
    <3>4. ASSUME verdict = "none"
          PROVE  LinesInv(out, classifier, gate.asks = "two")' /\ PhaseInv(out, classifier)'
      <4>1. ReadType /\ LinesInv(out, classifier, gate.asks = "two") /\ PhaseInv(out, classifier)
        BY <3>4 DEF Types, FactorInv
      <4>2. LinesInv(out, classifier, gate.asks = "two")'
        BY <3>1, <3>2, <3>4, <4>1, LinesRead
      <4>3. /\ Shows(out, classifier) => Shows(out', classifier')
            /\ Sends(out, classifier) <=> Sends(out', classifier')
            /\ SeesCode(out, classifier) <=> SeesCode(out', classifier')
            /\ Has(out', {"failed"}) => Has(out, {"failed"})
        BY <3>1, <3>2, <3>4, <4>1, SeenRead
      <4>4. oc \notin {"none", "read", "form"}
        BY <3>1, <4>1 DEF PhaseInv
      <4>5. CodeDue' = CodeDue /\ Accepted' = Accepted
        BY <3>1 DEF CodeDue, Accepted, Asked
      <4>6. PhaseInv(out, classifier)'
        BY <3>1, <4>1, <4>3, <4>4, <4>5 DEF PhaseInv
      <4> QED BY <4>2, <4>6
    <3> QED BY <3>1, <3>3, <3>4 DEF FactorInv
  <2>2. CASE ReadEnd \/ ReadFile \/ ReadClose
    BY <2>2, FactorSame DEF ReadEnd, ReadFile, ReadClose
  <2> QED BY <1>3, <2>1, <2>2, FactorReads DEF Reader
<1>4. CASE Abort \/ WaitReady
  BY <1>4, FactorSame
  DEF Abort, WaitReady, WaitExited, WaitGivesUp, WaitOpen, MarkReady, MarkReadyFile
<1>5. ASSUME NEW t \in Stoppers, StopBegin(t) \/ Stop(t) PROVE FactorInv'
  BY <1>5, FactorSame DEF StopBegin, Stop, MarkStopping, StopTerm, StopGrace, StopKilled, StopPort
<1>6. CASE Crash
  <2>1. /\ oc' = "none" /\ form' = 1 /\ out' = <<>> /\ classifier' = NewClassifier /\ verdict' = "none"
        /\ UNCHANGED <<mfa, gate, start>>
    BY <1>6 DEF Crash
  <2>2. (mfa = "none" => gate.code)'
    BY <2>1 DEF FactorInv, GateInv
  <2>3. GateInv' /\ VerdictNamesFactor'
    BY <2>1, <2>2 DEF GateInv, VerdictNamesFactor
  <2>4. LinesInv(out, classifier, gate.asks = "two")'
    BY <2>1, NothingPrinted
  <2>5. PhaseInv(out, classifier)'
    BY <2>1, NothingPrinted DEF PhaseInv
  <2> QED BY <2>3, <2>4, <2>5 DEF FactorInv
<1>7. CASE Restart \/ UNCHANGED vars
  BY <1>7, FactorSame DEF Restart, vars
<1> QED
  BY <1>1, <1>2, <1>3, <1>4, <1>5, <1>6, <1>7, FactorOpenconnect DEF Next, Openconnect

\* A verdict names the factor that was wrong, unless the code was typed into a form of unknown text
\* (classify.go, Feed and LoginRejected).
THEOREM VerdictNamesFactorAlways == Spec => []VerdictNamesFactor
<1>1. Init => FactorInv
  <2>1. ASSUME Init PROVE FactorInv
    <3>1. /\ oc = "none" /\ form = 1 /\ out = <<>> /\ classifier = NewClassifier /\ verdict = "none"
          /\ start = "begin" /\ (mfa = "none" => gate.code)
      BY <2>1 DEF Init, Gateways
    <3>2. GateInv /\ VerdictNamesFactor
      BY <3>1 DEF GateInv, VerdictNamesFactor
    <3>3. LinesInv(out, classifier, gate.asks = "two")
      BY <3>1, NothingPrinted
    <3>4. PhaseInv(out, classifier)
      BY <3>1, NothingPrinted DEF PhaseInv
    <3> QED BY <3>2, <3>3, <3>4 DEF FactorInv
  <2> QED BY <2>1
<1>2. FactorInv => VerdictNamesFactor
  BY DEF FactorInv
<1> QED BY <1>1, <1>2, FileAlways, FactorStep, PTL DEF Spec
=============================================================================
