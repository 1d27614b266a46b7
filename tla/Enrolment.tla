----------------------------- MODULE Enrolment ------------------------------
(***************************************************************************)
(* The automatic setup of a second factor (internal/daemon/enroll.go with  *)
(* internal/linotp): a job signs in to the MFA portal with a typed code,   *)
(* adds a code generator there, tests it, stores its secret in the keyring *)
(* and removes the one this device added before.  A job that was cancelled *)
(* goes on to its end next to the one after it, calls to the portal are    *)
(* lost or come late, the core ends, and another device of the user has    *)
(* the same name.  What the typed code does at the VPN is module Daemon's. *)
(***************************************************************************)
EXTENDS Naturals, Sequences, FiniteSets

CONSTANTS
    MaxJobs,    \* setups that are started
    MaxTokens,  \* code generators that are added
    MaxMishaps  \* calls that fail, files that cannot be written, ends of the core

ASSUME EnrolmentAssumption == MaxJobs \in Nat /\ MaxTokens \in Nat /\ MaxMishaps \in Nat

VARIABLES
    portal,     \* the generators of the portal that have this device's name
    others,     \* those that another device of that name added and uses
    keyring,    \* the one whose secret is in the keyring, 0 for a secret the user typed
    noted,      \* the one named in mfa-token-serial, 0 for none
    jobs,       \* the jobs, see Job
    shown,      \* enrollJob, 0 for none
    stage,      \* its stage
    late,       \* requests to add a generator that are still on their way
    clutter,    \* generators whose removal failed, or that nobody could know of
    met,        \* a generator was added while another setup was at the portal
    count       \* how many [tokens, faults] there were

portalVars == <<portal, others, keyring, noted, jobs, shown, stage, late, clutter, met, count>>
elsewhere == <<portal, others, late, clutter, met>>
page == <<shown, stage>>

LastTry == 4

\* pc: where it is.  cancelled: its context is done.  code: a typed code waits in its channel.
\* earlier: the generators before its own, when listed.  serial: its own, 0 until it is known.
\* doomed: those it is about to remove.  ok: how it ends.
Job == [pc |-> "connecting", cancelled |-> FALSE, code |-> FALSE, tries |-> 0, listed |-> FALSE,
        earlier |-> {}, serial |-> 0, doomed |-> {}, ok |-> FALSE]

Ids == 1..Len(jobs)
On(j) == jobs[j].pc # "off"
AtPortal(j) == jobs[j].pc \in {"enroll", "listAgain", "verify", "store", "note", "remove"}
StageRuns == shown # 0 /\ stage \notin {"done", "failed"}
Mishap == count.faults < MaxMishaps /\ count' = [count EXCEPT !.faults = @ + 1]
NoMishap == UNCHANGED count
Used == others \cup {keyring, noted}

Becomes(j, to) == jobs' = [jobs EXCEPT ![j] = to]
GoesTo(j, pc) == Becomes(j, [jobs[j] EXCEPT !.pc = pc])
\* The stage of a job that was replaced or has ended is not shown.
EnrollStage(j, to) == stage' = IF shown = j /\ StageRuns THEN to ELSE stage
Off == [Job EXCEPT !.pc = "off"]
JobFails(j) == Becomes(j, Off) /\ EnrollStage(j, "failed")
\* Once signed in: what is doomed goes, then the session.
Removes(j, which, ok) ==
    Becomes(j, [jobs[j] EXCEPT !.pc = "remove", !.doomed = which, !.ok = ok,
                                !.earlier = {}, !.serial = 0])

-----------------------------------------------------------------------------
\* Enroll, or the assistant with a typed code: it cancels a job that runs.  Connected, the code is
\* for the portal.
StartEnroll ==
    /\ Len(jobs) < MaxJobs
    /\ \E connected \in BOOLEAN :
          /\ jobs' = Append([j \in Ids |->
                                [jobs[j] EXCEPT !.cancelled = @ \/ (j = shown /\ StageRuns)]],
                            [Job EXCEPT !.code = connected])
          /\ stage' = IF connected THEN "working" ELSE "connecting"
    /\ shown' = Len(jobs) + 1
    /\ UNCHANGED <<elsewhere, keyring, noted, count>>

\* Enroll with the next code: only a job that asks for one takes it.
GiveCode ==
    /\ StageRuns /\ stage = "code" /\ ~jobs[shown].code
    /\ Becomes(shown, [jobs[shown] EXCEPT !.code = TRUE]) /\ stage' = "working"
    /\ UNCHANGED <<elsewhere, keyring, noted, shown, count>>

CancelEnroll ==
    /\ shown # 0 /\ shown' = 0 /\ stage' = "failed"
    /\ jobs' = [jobs EXCEPT ![shown].cancelled = @ \/ StageRuns]
    /\ UNCHANGED <<elsewhere, keyring, noted, count>>

\* Ten minutes are over.
TimesOut(j) ==
    /\ On(j) /\ ~jobs[j].cancelled /\ Mishap /\ Becomes(j, [jobs[j] EXCEPT !.cancelled = TRUE])
    /\ UNCHANGED <<elsewhere, keyring, noted, page>>

-----------------------------------------------------------------------------
\* The VPN is connected, perhaps without the typed code, which is then for the portal; or it was
\* refused, was cancelled, or the password cannot be read.
WaitConnected(j) ==
    /\ jobs[j].pc = "connecting"
    /\ \/ \E code \in {jobs[j].code, jobs[j].code \/ shown = j} :
             Becomes(j, [jobs[j] EXCEPT !.pc = "login", !.code = code]) /\ UNCHANGED page
       \/ JobFails(j) /\ UNCHANGED shown
    /\ UNCHANGED <<elsewhere, keyring, noted, count>>

\* Password.  Where the portal knows a generator of the user's it asks for a code.
Login(j) ==
    /\ jobs[j].pc = "login"
    /\ \/ /\ ~jobs[j].cancelled /\ NoMishap /\ UNCHANGED page
          /\ \E pc \in {"code", "list"} : GoesTo(j, pc)
       \/ ((jobs[j].cancelled /\ NoMishap) \/ Mishap) /\ JobFails(j) /\ UNCHANGED shown
    /\ UNCHANGED <<elsewhere, keyring, noted>>

\* The code in the channel, or the user is asked for one.
AsksCode(j) ==
    /\ jobs[j].pc = "code"
    /\ \/ /\ jobs[j].code
          /\ Becomes(j, [jobs[j] EXCEPT !.pc = "send", !.code = FALSE]) /\ UNCHANGED stage
       \/ ~jobs[j].code /\ GoesTo(j, "await") /\ EnrollStage(j, "code")
    /\ UNCHANGED <<elsewhere, keyring, noted, shown, count>>
AwaitsCode(j) ==
    /\ jobs[j].pc = "await"
    /\ \/ /\ jobs[j].code
          /\ Becomes(j, [jobs[j] EXCEPT !.pc = "send", !.code = FALSE]) /\ UNCHANGED stage
       \/ jobs[j].cancelled /\ JobFails(j)
    /\ UNCHANGED <<elsewhere, keyring, noted, shown, count>>

\* A wrong code: sign in again, five times in all.
SendsCode(j) ==
    /\ jobs[j].pc = "send"
    /\ \/ /\ ~jobs[j].cancelled /\ NoMishap /\ UNCHANGED stage
          /\ Becomes(j, [jobs[j] EXCEPT !.pc = "list", !.tries = 0])
       \/ /\ ~jobs[j].cancelled /\ jobs[j].tries < LastTry
          /\ Becomes(j, [jobs[j] EXCEPT !.pc = "login", !.tries = @ + 1])
          /\ Mishap /\ UNCHANGED stage
       \/ ((jobs[j].cancelled /\ NoMishap) \/ Mishap) /\ JobFails(j)
    /\ UNCHANGED <<elsewhere, keyring, noted, shown>>

-----------------------------------------------------------------------------
\* Signed in.  The portal's list may be closed to this user.
Lists(j) ==
    /\ jobs[j].pc = "list" /\ EnrollStage(j, "working")
    /\ \/ /\ ~jobs[j].cancelled /\ NoMishap
          /\ Becomes(j, [jobs[j] EXCEPT !.pc = "enroll", !.listed = TRUE, !.earlier = portal])
       \/ ((jobs[j].cancelled /\ NoMishap) \/ Mishap) /\ GoesTo(j, "enroll")
    /\ UNCHANGED <<elsewhere, keyring, noted, shown>>

Adds(s) ==
    /\ count.tokens < MaxTokens /\ s = count.tokens + 1
    /\ portal' = portal \cup {s}

\* The generator is added and its answer arrives; or the answer is lost, or has no address; or
\* nothing is added, or only later.
Enroll(j) ==
    /\ jobs[j].pc = "enroll"
    /\ \/ \E s \in 1..MaxTokens :
             /\ Adds(s) /\ met' = (met \/ \E k \in Ids \ {j} : AtPortal(k))
             /\ \/ /\ ~jobs[j].cancelled
                   /\ Becomes(j, [jobs[j] EXCEPT !.pc = "verify", !.serial = s,
                                                  !.listed = FALSE, !.earlier = {}])
                   /\ count' = [count EXCEPT !.tokens = s]
                \/ /\ count.faults < MaxMishaps
                   /\ count' = [tokens |-> s, faults |-> count.faults + 1]
                   /\ \E known \in {0, s} :
                         /\ jobs[j].cancelled => known = 0
                         /\ Becomes(j, [jobs[j] EXCEPT !.pc = "listAgain", !.serial = known])
             /\ UNCHANGED late
       \/ /\ Mishap /\ late' \in {late, late + 1}
          /\ GoesTo(j, "listAgain") /\ UNCHANGED <<portal, met>>
       \/ /\ jobs[j].cancelled /\ NoMishap
          /\ GoesTo(j, "listAgain") /\ UNCHANGED <<portal, met, late>>
    /\ UNCHANGED <<others, clutter, keyring, noted, page>>

EnrollsLate ==
    /\ late > 0 /\ late' = late - 1
    /\ \E s \in 1..MaxTokens :
          /\ Adds(s) /\ clutter' = clutter \cup {s} /\ count' = [count EXCEPT !.tokens = s]
    /\ met' = (met \/ \E k \in Ids : AtPortal(k))
    /\ UNCHANGED <<others, keyring, noted, jobs, page>>

Own(j) == {jobs[j].serial} \ {0}

\* Mutant: every generator of this name is taken for a lost one.
LostAll(j, now) == Own(j) \cup now

\* "To find a token whose answer gets lost": what is new in the list.
Lost(j, now) == Own(j) \cup (now \ jobs[j].earlier)

\* A context of its own: also after a cancel.  Without a list nobody knows what was lost.
ListsAgain(j) ==
    /\ jobs[j].pc = "listAgain"
    /\ \/ /\ jobs[j].listed /\ Removes(j, Lost(j, portal), FALSE)
          /\ NoMishap /\ UNCHANGED clutter
       \/ /\ ((~jobs[j].listed /\ NoMishap) \/ Mishap)
          /\ Removes(j, Own(j), FALSE) /\ clutter' = clutter \cup (portal \ (Used \cup Own(j)))
    /\ UNCHANGED <<portal, others, late, met, keyring, noted, page>>

-----------------------------------------------------------------------------
\* keepToken: a code of the new generator is tested, where the portal offers the test.
Verify(j) ==
    /\ jobs[j].pc = "verify"
    /\ \/ ~jobs[j].cancelled /\ NoMishap /\ GoesTo(j, "store")
       \/ ((jobs[j].cancelled /\ NoMishap) \/ Mishap) /\ Removes(j, Own(j), FALSE)
    /\ UNCHANGED <<elsewhere, keyring, noted, page>>

\* Mutant: a generator that was not stored stays.
StoreSecretKeeping(j) ==
    \/ keyring' = jobs[j].serial /\ GoesTo(j, "note") /\ NoMishap
    \/ Mishap /\ Removes(j, {}, FALSE) /\ UNCHANGED keyring

\* Its secret is stored, also by a job that was cancelled meanwhile; or the keyring refuses it.
StoreSecret(j) ==
    \/ keyring' = jobs[j].serial /\ GoesTo(j, "note") /\ NoMishap
    \/ Mishap /\ Removes(j, Own(j), FALSE) /\ UNCHANGED keyring

\* The next setup removes only what is noted.
Replaced == clutter' = IF keyring' = keyring THEN clutter ELSE clutter \cup ({keyring} \ {0, noted})
KeepToken(j) ==
    /\ jobs[j].pc = "store" /\ StoreSecret(j) /\ Replaced
    /\ UNCHANGED <<portal, others, late, met, noted, page>>

\* The file is emptied before it is written.
ReplaceOwnToken(j) ==
    /\ jobs[j].pc = "note" /\ Removes(j, {noted} \ {0, jobs[j].serial}, TRUE)
    /\ \/ noted' = jobs[j].serial /\ NoMishap
       \/ Mishap /\ noted' \in {noted, 0}
    /\ clutter' = IF noted' = jobs[j].serial THEN clutter \ {noted'}
                  ELSE clutter \cup ({jobs[j].serial} \ {keyring})
    /\ UNCHANGED <<portal, others, late, met, keyring, page>>

\* One that stays only clutters the list.
RemoveTokens(j) ==
    /\ jobs[j].pc = "remove"
    /\ \E s \in jobs[j].doomed :
          /\ Becomes(j, [jobs[j] EXCEPT !.doomed = @ \ {s}])
          /\ \/ portal' = portal \ {s} /\ NoMishap /\ UNCHANGED clutter
             \/ Mishap /\ clutter' = clutter \cup {s} /\ UNCHANGED portal
    /\ UNCHANGED <<others, late, met, keyring, noted, page>>

\* After the logout the stage says how it went.
RunEnrollEnds(j) ==
    /\ jobs[j].pc = "remove" /\ jobs[j].doomed = {}
    /\ Becomes(j, Off) /\ EnrollStage(j, IF jobs[j].ok THEN "done" ELSE "failed")
    /\ UNCHANGED <<elsewhere, keyring, noted, shown, count>>

-----------------------------------------------------------------------------
\* The user types a secret in Settings.
TypesSecret ==
    /\ keyring # 0 /\ keyring' = 0
    /\ Replaced
    /\ UNCHANGED <<portal, others, late, met, noted, jobs, page, count>>

\* Another device of the user adds its generator.
TheyEnroll ==
    /\ \E s \in 1..MaxTokens :
          /\ Adds(s) /\ others' = others \cup {s} /\ count' = [count EXCEPT !.tokens = s]
    /\ met' = (met \/ \E k \in Ids : AtPortal(k))
    /\ UNCHANGED <<keyring, noted, jobs, page, late, clutter>>

CoreStops ==
    /\ \E j \in Ids : On(j)
    /\ Mishap /\ jobs' = [j \in Ids |-> Off]
    /\ shown' = 0 /\ stage' = "failed" /\ clutter' = clutter \cup (portal \ Used)
    /\ UNCHANGED <<portal, others, late, met, keyring, noted>>

EnrolInit ==
    /\ portal = {} /\ others = {} /\ keyring = 0 /\ noted = 0 /\ jobs = <<>>
    /\ shown = 0 /\ stage = "failed" /\ late = 0 /\ clutter = {} /\ met = FALSE
    /\ count = [tokens |-> 0, faults |-> 0]

JobSteps(j) ==
    \/ WaitConnected(j) \/ Login(j) \/ AsksCode(j) \/ AwaitsCode(j) \/ SendsCode(j)
    \/ Lists(j) \/ Enroll(j) \/ ListsAgain(j) \/ Verify(j) \/ KeepToken(j) \/ ReplaceOwnToken(j)
    \/ RemoveTokens(j) \/ RunEnrollEnds(j) \/ TimesOut(j)

EnrolNext ==
    \/ StartEnroll \/ GiveCode \/ CancelEnroll
    \/ \E j \in Ids : JobSteps(j)
    \/ EnrollsLate \/ TypesSecret \/ TheyEnroll \/ CoreStops

EnrolSpec == EnrolInit /\ [][EnrolNext]_portalVars

-----------------------------------------------------------------------------
\* "Deletes code generators nobody uses": whatever is lost, cancelled, refused or cut short, the
\* generator whose secret is in the keyring and those of another device with the same name stay
\* in the portal, if no other setup was at the portal when one was added.
UsedStays == ~met => ({keyring} \ {0}) \cup others \subseteq portal

\* Once no setup runs, the portal keeps no generator that nobody uses: it is in the keyring,
\* noted for the next setup to remove, or its removal failed or nobody could know of it.
NothingLeft == (\A j \in Ids : ~On(j)) => portal \subseteq Used \cup clutter
=============================================================================
