------------------------------ MODULE Pairing ------------------------------
(***************************************************************************)
(* internal/devsync/pairing.go and the relay's slots: this device shows a  *)
(* code (Offer or Request), others enter it (Enter).  A code has two slots *)
(* at the relay, a for the message of the device that shows it, b for the  *)
(* answer.  A slot is read once.  A code leaves the screen by a cancel, by *)
(* a new code, at the end of the core, or after ten minutes.               *)
(***************************************************************************)
EXTENDS Naturals

CONSTANTS
    Enterers,   \* the devices that enter codes
    MaxCode,    \* codes shown, one after the other
    MaxFaults,  \* requests that fail: not carried out, or the answer is lost
    Late,       \* whether a read that was aborted may reach the relay after the next request
    Together    \* whether two codes may be asked for at once

ASSUME PairingAssumption ==
    /\ MaxCode \in Nat \ {0} /\ MaxFaults \in Nat
    /\ Late \in BOOLEAN /\ Together \in BOOLEAN

Codes == 1..MaxCode
NoCode == 0

VARIABLES
    slot,      \* the relay: what is in slots a and b of a code
    show,      \* Offer or Request of each code: where it is, and the code it replaces
    await,     \* each code's await, and the answer it took
    dead,      \* the codes whose context was cancelled before it ran out
    late,      \* the codes that are older than ten minutes: their context ran out
    screen,    \* Engine.pairing
    closing,   \* closeSlotsOnce of each code
    unclosed,  \* history: the codes it could not close for lack of network
    run,       \* Run: on, stop (waits for the code it withdraws), over
    enter,     \* what each other device does
    faults

relay == <<slot, faults>>
codes == <<dead, late, screen, closing, unclosed, run>>
vars == <<relay, show, await, codes, enter>>

\* What is in a slot: an offer has the group's key, a request none; the answers are joined and the
\* key itself; closed is the filler that nobody can read.
Empty == "empty"
NoScreen == [code |-> NoCode, state |-> "none"]

Init ==
    /\ slot = [c \in Codes |-> [a |-> Empty, b |-> Empty]]
    /\ show = [c \in Codes |-> [pc |-> "no", mode |-> "offer", old |-> NoCode]]
    /\ await = [c \in Codes |-> [pc |-> "no", got |-> Empty]]
    /\ dead = {} /\ late = {} /\ screen = NoScreen
    /\ closing = [c \in Codes |-> "no"] /\ unclosed = {} /\ run = [pc |-> "on", code |-> NoCode]
    /\ enter = [e \in Enterers |-> [pc |-> "no", code |-> NoCode, got |-> Empty]]
    /\ faults = 0

-----------------------------------------------------------------------------
(* The relay. *)

Set(c, s, m) == slot' = [slot EXCEPT ![c][s] = m]
Holds(c, s) == slot[c][s]

\* A request is answered, or it or its answer is lost.
Answered == UNCHANGED faults
Fault == faults < MaxFaults /\ faults' = faults + 1

\* A slot is written once: Stored, or another message is there.
Stored(c, s, m) == Holds(c, s) = Empty /\ Set(c, s, m)
Conflict(c, s) == Holds(c, s) # Empty /\ UNCHANGED slot
Reads(c, s) == Set(c, s, Empty)

\* A request whose caller only learns that it failed.
LostPut(c, s, m) == Fault /\ (Stored(c, s, m) \/ UNCHANGED slot)
LostRead(c, s) == Fault /\ (Reads(c, s) \/ UNCHANGED slot)

\* Slots are forgotten after ten minutes, those of an answer once none is on its way.
Forget(c) ==
    /\ c \in late /\ slot[c] # [a |-> Empty, b |-> Empty]
    /\ \A e \in Enterers : enter[e].code # c
    /\ slot' = [slot EXCEPT ![c] = [a |-> Empty, b |-> Empty]]
    /\ UNCHANGED <<show, await, codes, enter, faults>>

-----------------------------------------------------------------------------
(* Offer, Request, show and the ways a code leaves the screen. *)

Alive == run.pc # "over"
Shows(c, pc) == show[c].pc = pc /\ Alive

\* The app asks for one code after the other, or for two at once.  (Offer needs a setup and a group.)
Ask(c, mode) ==
    /\ run.pc = "on" /\ Shows(c, "no")
    /\ c > 1 => IF Together THEN show[c - 1].pc # "no" ELSE show[c - 1].pc = "over"
    /\ \/ Stored(c, "a", mode) /\ Answered /\ show' = [show EXCEPT ![c].pc = "replace", ![c].mode = mode]
       \/ LostPut(c, "a", mode) /\ show' = [show EXCEPT ![c].pc = "over", ![c].mode = mode]
    /\ UNCHANGED <<await, codes, enter>>

\* cancelPairing: the code goes from the screen, its context ends, and if it was still waiting its
\* slots are closed, by whoever comes first (close, a sync.Once); the others wait for that.
Waiting == IF screen.state = "waiting" THEN screen.code ELSE NoCode
Close(c) == closing' = IF c # NoCode /\ closing[c] = "no" THEN [closing EXCEPT ![c] = "a"] ELSE closing
Closed(c) == c \in Codes => closing[c] = "done"
Withdraw ==
    /\ dead' = dead \cup ({screen.code} \ ({NoCode} \cup late))
    /\ screen' = NoScreen /\ Close(Waiting)

Replace(c) ==
    /\ Shows(c, "replace") /\ Withdraw
    /\ show' = [show EXCEPT ![c].pc = "set", ![c].old = Waiting]
    /\ UNCHANGED <<relay, await, late, unclosed, run, enter>>

Show(c) ==
    /\ Shows(c, "set") /\ Closed(show[c].old)
    /\ show' = [show EXCEPT ![c].pc = "over", ![c].old = NoCode]
    /\ screen' = [code |-> c, state |-> "waiting"] /\ await' = [await EXCEPT ![c].pc = "sleep"]
    /\ UNCHANGED <<relay, dead, late, closing, unclosed, run, enter>>

CancelPairing ==
    /\ Alive /\ screen # NoScreen /\ Withdraw
    /\ UNCHANGED <<relay, show, await, late, unclosed, run, enter>>

Stop ==
    /\ run.pc = "on" /\ Withdraw /\ run' = [pc |-> "stop", code |-> Waiting]
    /\ UNCHANGED <<relay, show, await, late, unclosed, enter>>

\* Run returns and the process ends.
Stopped ==
    /\ run.pc = "stop" /\ Closed(run.code) /\ run' = [run EXCEPT !.pc = "over"]
    /\ show' = [c \in Codes |-> [show[c] EXCEPT !.pc = IF @ = "no" THEN @ ELSE "over", !.old = NoCode]]
    /\ await' = [c \in Codes |-> [pc |-> IF await[c].pc = "no" THEN "no" ELSE "over", got |-> Empty]]
    /\ dead' = {} /\ screen' = NoScreen
    /\ UNCHANGED <<relay, late, closing, unclosed, enter>>

TenMinutes(c) ==
    /\ await[c].pc \in {"sleep", "take", "got"} /\ c \notin late /\ late' = late \cup {c}
    /\ UNCHANGED <<relay, show, await, dead, screen, closing, unclosed, run, enter>>

-----------------------------------------------------------------------------
(* closeSlotsOnce. *)

CloseTo(c, pc) == closing' = [closing EXCEPT ![c] = pc] /\ UNCHANGED unclosed
GivesUp(c, pc) == closing' = [closing EXCEPT ![c] = pc] /\ unclosed' = unclosed \cup {c}

\* A read of slot b that the end of the code's context aborted and that is still on its way.
Aborted(c) == await[c].pc = "take" /\ c \in dead \cup late

\* Mutant: the answer is read away, and the slot is open again.
CloseSlotsOpen(c) ==
    LET after == IF show[c].mode = "request" THEN "b" ELSE "done" IN
    /\ Alive /\ (~Late => ~Aborted(c))
    /\ \/ closing[c] = "a" /\ Reads(c, "a") /\ Answered /\ CloseTo(c, after)
       \/ closing[c] = "b" /\ Reads(c, "b") /\ Answered /\ CloseTo(c, "done")
    /\ UNCHANGED <<show, await, dead, late, screen, run, enter>>

\* Slot a is read away; slot b of a request is filled, or read away and filled.
CloseSlots(c) ==
    LET after == IF show[c].mode = "request" THEN "b" ELSE "done" IN
    /\ Alive /\ (~Late => ~Aborted(c))
    /\ \/ /\ closing[c] = "a"
          /\ \/ Reads(c, "a") /\ Answered /\ CloseTo(c, after)
             \/ LostRead(c, "a") /\ GivesUp(c, after)
       \/ /\ closing[c] = "b"
          /\ \/ Stored(c, "b", "closed") /\ Answered /\ CloseTo(c, "done")
             \/ Conflict(c, "b") /\ Answered /\ CloseTo(c, "again")
             \/ LostPut(c, "b", "closed") /\ GivesUp(c, "done")
       \/ /\ closing[c] = "again"
          /\ \/ Reads(c, "b") /\ Answered /\ CloseTo(c, "refill")
             \/ LostRead(c, "b") /\ GivesUp(c, "done")
       \/ /\ closing[c] = "refill"
          /\ \/ (Stored(c, "b", "closed") \/ Conflict(c, "b")) /\ Answered /\ CloseTo(c, "done")
             \/ LostPut(c, "b", "closed") /\ GivesUp(c, "done")
    /\ UNCHANGED <<show, await, dead, late, screen, run, enter>>

-----------------------------------------------------------------------------
(* await. *)

Awaits(c, pc) == await[c].pc = pc /\ Alive
AwaitTo(c, pc) == await' = [await EXCEPT ![c].pc = pc]
Over(c) == c \in dead \cup late
\* Mutant: the end of the context is never the code's ten minutes.
AfterCancel(c) == "over"
\* The context's end: nothing more to do, or the code has run out.
AfterEnd(c) == IF c \in dead THEN "over" ELSE "expire"
\* Mutant: whatever code is on the screen.
FinishAny(c, st) == screen' = IF screen # NoScreen THEN [screen EXCEPT !.state = st] ELSE screen
\* Only of this code, and only once (e.pairing == shown).
Finish(c, st) ==
    screen' = IF screen = [code |-> c, state |-> "waiting"] THEN [screen EXCEPT !.state = st] ELSE screen

Poll(c) ==
    /\ Awaits(c, "sleep") /\ AwaitTo(c, IF Over(c) THEN AfterEnd(c) ELSE "take")
    /\ UNCHANGED <<relay, show, codes, enter>>

\* What slot b holds, if anything; the answer may be lost.
TakeAnswer(c) ==
    /\ Awaits(c, "take") /\ ~Over(c)
    /\ \/ /\ Reads(c, "b") /\ Answered
          /\ await' = [await EXCEPT ![c].pc = IF Holds(c, "b") = Empty THEN "sleep" ELSE "got",
                                    ![c].got = Holds(c, "b")]
       \/ LostRead(c, "b") /\ AwaitTo(c, "sleep")
    /\ UNCHANGED <<show, codes, enter>>

\* The context ends while the request is under way: it was carried out or not.
TakeAborted(c) ==
    /\ Awaits(c, "take") /\ Over(c) /\ AwaitTo(c, AfterEnd(c))
    /\ Reads(c, "b") \/ UNCHANGED slot
    /\ UNCHANGED <<show, codes, enter, faults>>

\* A request that runs out is closed first.
Expire(c) ==
    /\ Awaits(c, "expire")
    /\ IF show[c].mode = "request" THEN Close(c) /\ AwaitTo(c, "closing") /\ UNCHANGED screen
       ELSE Finish(c, "expired") /\ AwaitTo(c, "over") /\ UNCHANGED closing
    /\ UNCHANGED <<relay, show, dead, late, unclosed, run, enter>>

Expired(c) ==
    /\ Awaits(c, "closing") /\ Closed(c) /\ Finish(c, "expired") /\ AwaitTo(c, "over")
    /\ UNCHANGED <<relay, show, dead, late, closing, unclosed, run, enter>>

\* The other device joined, or sent its group's key, with which this one joins.
AnswerCame(c) ==
    /\ Awaits(c, "got") /\ AwaitTo(c, IF c \in late \ dead THEN "expire" ELSE "over")
    /\ \/ Finish(c, "done") /\ Answered
       \/ show[c].mode = "request" /\ Finish(c, "failed") /\ Fault
    /\ UNCHANGED <<slot, show, dead, late, closing, unclosed, run, enter>>

-----------------------------------------------------------------------------
(* Enter, on another device. *)

Left == [pc |-> "no", code |-> NoCode, got |-> Empty]
EnterTo(e, r) == enter' = [enter EXCEPT ![e] = r]

\* The message of a code that is or was on the screen.  An unknown code ends here, and so does one
\* that this device cannot use: it fails to join, has no setup to send, or gets no group.
Enter(e, c) ==
    LET m == Holds(c, "a") IN
    /\ enter[e].pc = "no" /\ await[c].pc # "no"
    /\ \/ /\ Reads(c, "a") /\ Answered
          /\ \/ EnterTo(e, Left)
             \/ m # Empty /\ EnterTo(e, [pc |-> "answer", code |-> c, got |-> m])
       \/ LostRead(c, "a") /\ EnterTo(e, Left)
    /\ UNCHANGED <<show, await, codes>>

\* The answer; a code that left the other screen meanwhile refuses it.
PutAnswer(e) ==
    LET c == enter[e].code  m == IF enter[e].got = "offer" THEN "joined" ELSE "key" IN
    /\ enter[e].pc = "answer" /\ EnterTo(e, Left)
    /\ \/ (Stored(c, "b", m) \/ Conflict(c, "b")) /\ Answered
       \/ LostPut(c, "b", m)
    /\ UNCHANGED <<show, await, codes>>

-----------------------------------------------------------------------------
ThisDevice(c) ==
    \/ Replace(c) \/ Show(c) \/ CloseSlots(c)
    \/ Poll(c) \/ TakeAnswer(c) \/ TakeAborted(c) \/ Expire(c) \/ Expired(c) \/ AnswerCame(c)

Next ==
    \/ \E c \in Codes :
        \/ ThisDevice(c) \/ TenMinutes(c) \/ Forget(c)
        \/ Ask(c, "offer") \/ Ask(c, "request")
        \/ \E e \in Enterers : Enter(e, c)
    \/ \E e \in Enterers : PutAnswer(e)
    \/ CancelPairing \/ Stop \/ Stopped

Spec == Init /\ [][Next]_vars

\* This device goes on while its core runs, and time passes.
FairSpec ==
    /\ Spec /\ WF_vars(Stopped \/ \E c \in Codes : ThisDevice(c))
    /\ WF_vars(\E c \in Codes : TenMinutes(c))

=============================================================================
