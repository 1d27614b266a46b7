---------------------------- MODULE PairingProofs ----------------------------
(***************************************************************************)
(* Safety of Pairing, for any number of devices, codes and failed          *)
(* requests: a withdrawn code is dead at the relay, and the screen says    *)
(* what became of the code on it.                                          *)
(***************************************************************************)
EXTENDS PairingProperties, TLAPS

-----------------------------------------------------------------------------
\* The inductive invariant.

\* A device that has an answer to send has its code.
Holding == \A e \in Enterers : enter[e].pc = "answer" <=> enter[e].code # NoCode

\* A code is on the screen, or is being closed, only once its await has begun; a code that is
\* closed has been withdrawn or has run out.
Linked ==
    /\ screen.code = NoCode => screen.state = "none"
    /\ screen.code # NoCode => await[screen.code].pc # "no"
    /\ \A c \in Codes : await[c].pc # "no" => show[c].pc = "over"
    /\ \A c \in Codes : closing[c] # "no" => await[c].pc # "no" /\ (Alive => Over(c))
    /\ \A c \in Codes : await[c].pc \in {"expire", "closing"} => c \in late

\* Slot a is read once, so one device at most has a code's message, and slot b has its answer only
\* after it.
Answers ==
    /\ \A e \in Enterers : \A c \in Codes : enter[e].code = c =>
            Holds(c, "a") = Empty /\ Holds(c, "b") \in {Empty, "closed"} /\ await[c].pc # "no"
    /\ \A e, f \in Enterers : enter[e].code # NoCode /\ enter[e].code = enter[f].code => e = f
    /\ \A c \in Codes : Holds(c, "b") \notin {Empty, "closed"} =>
            Holds(c, "a") = Empty /\ await[c].pc # "no"
    /\ \A c \in Codes : closing[c] \in {"no", "a", "b"} => Holds(c, "b") # "closed"

\* Nobody has the code's message any more.
Spent(c) == \A e \in Enterers : enter[e].code # c

\* What closeSlotsOnce has reached for a code, from slot a on.
ClosedSoFar ==
    \A c \in Codes :
        /\ closing[c] \notin {"no", "a"} => await[c].pc # "take"
        /\ closing[c] \notin {"no", "a"} /\ c \notin unclosed => Holds(c, "a") = Empty
        /\ show[c].mode = "request" /\ c \notin unclosed =>
              /\ closing[c] \in {"again", "refill"} => Spent(c)
              /\ closing[c] = "refill" => Holds(c, "b") = Empty
              /\ closing[c] = "done" =>
                    Holds(c, "b") # "key" /\ (Holds(c, "b") = "closed" \/ Spent(c))

\* One code after the other is asked for; while one is about to be shown no other one can be
\* answered.
OneByOne ==
    /\ \A c, d \in Codes : show[c].pc # "no" /\ d < c => show[d].pc = "over"
    /\ \A c, d \in Codes :
          Alive /\ show[c].pc = "set" /\ await[d].pc \in {"sleep", "take"} => Over(d)

\* The screen says what became of its code; an answer that is shown as such is an answer, never the
\* filler of a closed code.
Shown ==
    /\ ScreenIsTrue
    /\ screen.state = "done" => await[screen.code].pc \in {"expire", "closing", "over"}
    /\ \A c \in Codes : await[c].pc = "got" => await[c].got \in {"joined", "key"}
    /\ \A c \in Codes : Holds(c, "b") \in {Empty, "closed", "joined", "key"}

-----------------------------------------------------------------------------
\* What the changes of one record do.

LEMMA CodeFacts == NoCode \notin Codes
BY DEF Codes, NoCode

LEMMA MessagesAre ==
  /\ Empty \in Messages /\ "closed" \in Messages /\ "offer" \in Messages /\ "request" \in Messages
  /\ "joined" \in Messages /\ "key" \in Messages
  /\ Empty \notin {"closed", "offer", "request", "joined", "key"}
BY DEF Messages, Empty

SlotType == [Codes -> [a: Messages, b: Messages]]
ShowType == [Codes -> [pc: {"no", "replace", "set", "over"}, mode: {"offer", "request"},
                       old: Codes \cup {NoCode}]]
AwaitPcs == {"no", "sleep", "take", "got", "expire", "closing", "over"}
AwaitType == [Codes -> [pc: AwaitPcs, got: Messages]]
ClosingType == [Codes -> {"no", "a", "b", "again", "refill", "done"}]
ScreenType == [code: Codes \cup {NoCode}, state: {"none", "waiting", "done", "expired", "failed"}]
EnterType == [Enterers -> [pc: {"no", "answer"}, code: Codes \cup {NoCode}, got: Messages]]
RunType == [pc: {"on", "stop", "over"}, code: Codes \cup {NoCode}]

LEMMA TypeIs ==
  TypeOK <=> /\ slot \in SlotType /\ show \in ShowType /\ await \in AwaitType
             /\ dead \subseteq Codes /\ late \subseteq Codes /\ unclosed \subseteq Codes
             /\ screen \in ScreenType /\ closing \in ClosingType /\ run \in RunType
             /\ enter \in EnterType /\ faults \in 0..MaxFaults
BY DEF TypeOK, SlotType, ShowType, AwaitType, AwaitPcs, ScreenType, ClosingType, RunType, EnterType

LEMMA SetA ==
  ASSUME slot \in SlotType, NEW c \in Codes, NEW m \in Messages, Set(c, "a", m)
  PROVE  /\ slot' \in SlotType /\ slot'[c].a = m /\ slot'[c].b = slot[c].b
         /\ \A d \in Codes : d # c => slot'[d] = slot[d]
BY DEF Set, SlotType

LEMMA SetB ==
  ASSUME slot \in SlotType, NEW c \in Codes, NEW m \in Messages, Set(c, "b", m)
  PROVE  /\ slot' \in SlotType /\ slot'[c].b = m /\ slot'[c].a = slot[c].a
         /\ \A d \in Codes : d # c => slot'[d] = slot[d]
BY DEF Set, SlotType

LEMMA AwaitGoes ==
  ASSUME await \in AwaitType, NEW c \in Codes, NEW pc \in AwaitPcs, AwaitTo(c, pc)
  PROVE  /\ await' \in AwaitType /\ await'[c].pc = pc /\ await'[c].got = await[c].got
         /\ \A d \in Codes : d # c => await'[d] = await[d]
BY DEF AwaitTo, AwaitType

LEMMA AwaitGets ==
  ASSUME await \in AwaitType, NEW c \in Codes, NEW pc \in AwaitPcs, NEW m \in Messages,
         await' = [await EXCEPT ![c].pc = pc, ![c].got = m]
  PROVE  /\ await' \in AwaitType /\ await'[c].pc = pc /\ await'[c].got = m
         /\ \A d \in Codes : d # c => await'[d] = await[d]
BY DEF AwaitType

LEMMA ShowGoes ==
  ASSUME show \in ShowType, NEW c \in Codes, NEW pc \in {"no", "replace", "set", "over"},
         show' = [show EXCEPT ![c].pc = pc]
  PROVE  /\ show' \in ShowType /\ show'[c].pc = pc /\ show'[c].mode = show[c].mode
         /\ show'[c].old = show[c].old /\ \A d \in Codes : d # c => show'[d] = show[d]
BY DEF ShowType

LEMMA ShowAsks ==
  ASSUME show \in ShowType, NEW c \in Codes, NEW pc \in {"no", "replace", "set", "over"},
         NEW mode \in {"offer", "request"}, show' = [show EXCEPT ![c].pc = pc, ![c].mode = mode]
  PROVE  /\ show' \in ShowType /\ show'[c].pc = pc /\ show'[c].mode = mode
         /\ \A d \in Codes : d # c => show'[d] = show[d]
BY DEF ShowType

LEMMA ShowReplaces ==
  ASSUME show \in ShowType, NEW c \in Codes, NEW pc \in {"no", "replace", "set", "over"},
         NEW old \in Codes \cup {NoCode}, show' = [show EXCEPT ![c].pc = pc, ![c].old = old]
  PROVE  /\ show' \in ShowType /\ show'[c].pc = pc /\ show'[c].mode = show[c].mode
         /\ \A d \in Codes : d # c => show'[d] = show[d]
BY DEF ShowType

LEMMA Enters ==
  ASSUME enter \in EnterType, NEW e \in Enterers,
         NEW r \in [pc: {"no", "answer"}, code: Codes \cup {NoCode}, got: Messages], EnterTo(e, r)
  PROVE  /\ enter' \in EnterType /\ enter'[e] = r
         /\ \A f \in Enterers : f # e => enter'[f] = enter[f]
BY DEF EnterTo, EnterType

LEMMA ScreenFinishes ==
  ASSUME screen \in ScreenType, NEW c \in Codes, NEW st \in {"done", "expired", "failed"},
         Finish(c, st)
  PROVE  /\ screen' \in ScreenType /\ screen'.code = screen.code
         /\ \/ screen' = screen
            \/ screen.code = c /\ screen.state = "waiting" /\ screen'.state = st
BY DEF Finish, ScreenType

LEMMA Closes ==
  ASSUME closing \in ClosingType, NEW c \in Codes \cup {NoCode}, Close(c)
  PROVE  /\ closing' \in ClosingType
         /\ \A d \in Codes : \/ closing'[d] = closing[d]
                             \/ d = c /\ closing[d] = "no" /\ closing'[d] = "a"
BY CodeFacts DEF Close, ClosingType

LEMMA ClosingGoes ==
  ASSUME closing \in ClosingType, unclosed \subseteq Codes, NEW c \in Codes,
         NEW pc \in {"no", "a", "b", "again", "refill", "done"}, CloseTo(c, pc) \/ GivesUp(c, pc)
  PROVE  /\ closing' \in ClosingType /\ closing'[c] = pc
         /\ \A d \in Codes : d # c => closing'[d] = closing[d]
         /\ CloseTo(c, pc) => unclosed' = unclosed
         /\ GivesUp(c, pc) => unclosed' = unclosed \cup {c}
         /\ unclosed' \subseteq Codes
BY DEF CloseTo, GivesUp, ClosingType

LEMMA Withdraws ==
  ASSUME screen \in ScreenType, closing \in ClosingType, dead \subseteq Codes, Withdraw
  PROVE  /\ screen' = NoScreen /\ screen' \in ScreenType /\ closing' \in ClosingType
         /\ dead' \subseteq Codes /\ dead \subseteq dead'
         /\ screen.code # NoCode => screen.code \in dead' \cup late
         /\ Waiting \in Codes \cup {NoCode}
         /\ \A d \in Codes : \/ closing'[d] = closing[d]
                             \/ d = screen.code /\ closing[d] = "no" /\ closing'[d] = "a"
<1>1. Waiting \in Codes \cup {NoCode} /\ (Waiting # NoCode => Waiting = screen.code)
  BY DEF Waiting, ScreenType
<1>2. Close(Waiting)
  BY DEF Withdraw
<1>3. /\ closing' \in ClosingType
      /\ \A d \in Codes : \/ closing'[d] = closing[d]
                          \/ d = Waiting /\ closing[d] = "no" /\ closing'[d] = "a"
  BY <1>1, <1>2, Closes
<1>4. NoScreen \in ScreenType
  BY DEF NoScreen, ScreenType
<1>5. /\ dead' = dead \cup ({screen.code} \ ({NoCode} \cup late)) /\ screen' = NoScreen
  BY DEF Withdraw
<1>6. screen.code \in Codes \cup {NoCode}
  BY DEF ScreenType
<1>7. \A d \in Codes : d = Waiting => d = screen.code
  BY <1>1, CodeFacts
<1> QED BY <1>1, <1>3, <1>4, <1>5, <1>6, <1>7

\* Run's end: what every code's await and show become.
LEMMA RunEnds ==
  ASSUME TypeOK, Stopped
  PROVE  /\ show' \in ShowType /\ await' \in AwaitType
         /\ \A c \in Codes : /\ show'[c].pc = (IF show[c].pc = "no" THEN "no" ELSE "over")
                             /\ show'[c].mode = show[c].mode
                             /\ await'[c].pc = (IF await[c].pc = "no" THEN "no" ELSE "over")
                             /\ await'[c].got = Empty
<1>1. show \in ShowType /\ await \in AwaitType
  BY TypeIs
<1>2. show' = [c \in Codes |->
                 [show[c] EXCEPT !.pc = IF show[c].pc = "no" THEN show[c].pc ELSE "over",
                                 !.old = NoCode]]
  BY DEF Stopped
<1>3. ASSUME NEW c \in Codes
      PROVE  /\ show'[c] \in [pc: {"no", "replace", "set", "over"}, mode: {"offer", "request"},
                              old: Codes \cup {NoCode}]
             /\ show'[c].pc = (IF show[c].pc = "no" THEN "no" ELSE "over")
             /\ show'[c].mode = show[c].mode
  BY <1>1, <1>2 DEF ShowType
<1>4. show' \in ShowType
  BY <1>2, <1>3 DEF ShowType
<1>5. await' = [c \in Codes |-> [pc |-> IF await[c].pc = "no" THEN "no" ELSE "over", got |-> Empty]]
  BY DEF Stopped
<1>6. await' \in AwaitType
  BY <1>5, MessagesAre DEF AwaitType, AwaitPcs
<1> QED BY <1>3, <1>4, <1>5, <1>6
-----------------------------------------------------------------------------
\* The inductive invariant: types.

LEMMA TypeInit == Init => TypeOK
BY PairingAssumption, CodeFacts DEF Init, TypeOK, Messages, Empty, NoScreen

LEMMA LeftIs == Left \in [pc: {"no", "answer"}, code: Codes \cup {NoCode}, got: Messages]
BY MessagesAre DEF Left

LEMMA TypeNext == TypeOK /\ Holding /\ [Next]_vars => TypeOK'
<1> SUFFICES ASSUME TypeOK, Holding, [Next]_vars PROVE TypeOK'
  OBVIOUS
<1> USE CodeFacts, MessagesAre
<1>0. /\ slot \in SlotType /\ show \in ShowType /\ await \in AwaitType
      /\ dead \subseteq Codes /\ late \subseteq Codes /\ unclosed \subseteq Codes
      /\ screen \in ScreenType /\ closing \in ClosingType /\ run \in RunType
      /\ enter \in EnterType /\ faults \in 0..MaxFaults
  BY TypeIs
<1> SUFFICES /\ slot' \in SlotType /\ show' \in ShowType /\ await' \in AwaitType
             /\ dead' \subseteq Codes /\ late' \subseteq Codes /\ unclosed' \subseteq Codes
             /\ screen' \in ScreenType /\ closing' \in ClosingType /\ run' \in RunType
             /\ enter' \in EnterType /\ faults' \in 0..MaxFaults
  BY
    DEF TypeOK, SlotType, ShowType, AwaitType, AwaitPcs, ScreenType, ClosingType, RunType, EnterType
<1>f. Answered \/ Fault => faults' \in 0..MaxFaults
  BY <1>0, PairingAssumption DEF Answered, Fault
<1>1. ASSUME NEW c \in Codes, Replace(c)
      PROVE  /\ slot' \in SlotType /\ show' \in ShowType /\ await' \in AwaitType
             /\ dead' \subseteq Codes /\ late' \subseteq Codes /\ unclosed' \subseteq Codes
             /\ screen' \in ScreenType /\ closing' \in ClosingType /\ run' \in RunType
             /\ enter' \in EnterType /\ faults' \in 0..MaxFaults
  <2>1. Waiting \in Codes \cup {NoCode} /\ Withdraw
    BY <1>0, <1>1, Withdraws DEF Replace
  <2>2. show' \in ShowType
    BY <1>0, <1>1, <2>1, ShowReplaces DEF Replace
  <2> QED BY <1>0, <1>1, <2>1, <2>2, Withdraws DEF Replace, relay
<1>2. ASSUME NEW c \in Codes, Show(c)
      PROVE  /\ slot' \in SlotType /\ show' \in ShowType /\ await' \in AwaitType
             /\ dead' \subseteq Codes /\ late' \subseteq Codes /\ unclosed' \subseteq Codes
             /\ screen' \in ScreenType /\ closing' \in ClosingType /\ run' \in RunType
             /\ enter' \in EnterType /\ faults' \in 0..MaxFaults
  <2>1. screen' \in ScreenType
    BY <1>2 DEF Show, ScreenType
  <2>2. show' \in ShowType
    BY <1>0, <1>2, ShowReplaces DEF Show
  <2>3. await' \in AwaitType
    BY <1>0, <1>2 DEF Show, AwaitType, AwaitPcs
  <2> QED BY <1>0, <1>2, <2>1, <2>2, <2>3 DEF Show, relay
<1>3. ASSUME NEW c \in Codes, CloseSlots(c)
      PROVE  /\ slot' \in SlotType /\ show' \in ShowType /\ await' \in AwaitType
             /\ dead' \subseteq Codes /\ late' \subseteq Codes /\ unclosed' \subseteq Codes
             /\ screen' \in ScreenType /\ closing' \in ClosingType /\ run' \in RunType
             /\ enter' \in EnterType /\ faults' \in 0..MaxFaults
  <2>1. slot' \in SlotType
    BY <1>0, <1>3, SetA, SetB DEF CloseSlots, Reads, Stored, Conflict, LostRead, LostPut
  <2>2. closing' \in ClosingType /\ unclosed' \subseteq Codes
    <3>1. \E pc \in {"b", "again", "refill", "done"} : CloseTo(c, pc) \/ GivesUp(c, pc)
      BY <1>3 DEF CloseSlots
    <3> QED BY <1>0, <3>1, ClosingGoes
  <2>3. faults' \in 0..MaxFaults
    BY <1>3, <1>f DEF CloseSlots, LostRead, LostPut
  <2> QED BY <1>0, <1>3, <2>1, <2>2, <2>3 DEF CloseSlots
<1>4. ASSUME NEW c \in Codes, Poll(c)
      PROVE  /\ slot' \in SlotType /\ show' \in ShowType /\ await' \in AwaitType
             /\ dead' \subseteq Codes /\ late' \subseteq Codes /\ unclosed' \subseteq Codes
             /\ screen' \in ScreenType /\ closing' \in ClosingType /\ run' \in RunType
             /\ enter' \in EnterType /\ faults' \in 0..MaxFaults
  <2>1. await' \in AwaitType
    BY <1>0, <1>4, AwaitGoes DEF Poll, AfterEnd, AwaitPcs
  <2> QED BY <1>0, <1>4, <2>1 DEF Poll, relay, codes
<1>5. ASSUME NEW c \in Codes, TakeAnswer(c)
      PROVE  /\ slot' \in SlotType /\ show' \in ShowType /\ await' \in AwaitType
             /\ dead' \subseteq Codes /\ late' \subseteq Codes /\ unclosed' \subseteq Codes
             /\ screen' \in ScreenType /\ closing' \in ClosingType /\ run' \in RunType
             /\ enter' \in EnterType /\ faults' \in 0..MaxFaults
  <2>1. slot' \in SlotType
    BY <1>0, <1>5, SetB DEF TakeAnswer, Reads, LostRead
  <2>2. Holds(c, "b") \in Messages
    BY <1>0 DEF Holds, SlotType
  <2>3. await' \in AwaitType
    BY <1>0, <1>5, <2>2, AwaitGoes, AwaitGets DEF TakeAnswer, AwaitPcs
  <2>4. faults' \in 0..MaxFaults
    BY <1>5, <1>f DEF TakeAnswer, LostRead
  <2> QED BY <1>0, <1>5, <2>1, <2>3, <2>4 DEF TakeAnswer, codes
<1>6. ASSUME NEW c \in Codes, TakeAborted(c)
      PROVE  /\ slot' \in SlotType /\ show' \in ShowType /\ await' \in AwaitType
             /\ dead' \subseteq Codes /\ late' \subseteq Codes /\ unclosed' \subseteq Codes
             /\ screen' \in ScreenType /\ closing' \in ClosingType /\ run' \in RunType
             /\ enter' \in EnterType /\ faults' \in 0..MaxFaults
  <2>1. slot' \in SlotType
    BY <1>0, <1>6, SetB DEF TakeAborted, Reads
  <2>2. await' \in AwaitType
    BY <1>0, <1>6, AwaitGoes DEF TakeAborted, AfterEnd, AwaitPcs
  <2> QED BY <1>0, <1>6, <2>1, <2>2 DEF TakeAborted, codes
<1>7. ASSUME NEW c \in Codes, Expire(c)
      PROVE  /\ slot' \in SlotType /\ show' \in ShowType /\ await' \in AwaitType
             /\ dead' \subseteq Codes /\ late' \subseteq Codes /\ unclosed' \subseteq Codes
             /\ screen' \in ScreenType /\ closing' \in ClosingType /\ run' \in RunType
             /\ enter' \in EnterType /\ faults' \in 0..MaxFaults
  <2>1. await' \in AwaitType
    BY <1>0, <1>7, AwaitGoes DEF Expire, AwaitPcs
  <2>2. closing' \in ClosingType /\ screen' \in ScreenType
    BY <1>0, <1>7, Closes, ScreenFinishes DEF Expire
  <2> QED BY <1>0, <1>7, <2>1, <2>2 DEF Expire, relay
<1>8. ASSUME NEW c \in Codes, Expired(c)
      PROVE  /\ slot' \in SlotType /\ show' \in ShowType /\ await' \in AwaitType
             /\ dead' \subseteq Codes /\ late' \subseteq Codes /\ unclosed' \subseteq Codes
             /\ screen' \in ScreenType /\ closing' \in ClosingType /\ run' \in RunType
             /\ enter' \in EnterType /\ faults' \in 0..MaxFaults
  <2>1. await' \in AwaitType
    BY <1>0, <1>8, AwaitGoes DEF Expired, AwaitPcs
  <2>2. screen' \in ScreenType
    BY <1>0, <1>8, ScreenFinishes DEF Expired
  <2> QED BY <1>0, <1>8, <2>1, <2>2 DEF Expired, relay
<1>9. ASSUME NEW c \in Codes, AnswerCame(c)
      PROVE  /\ slot' \in SlotType /\ show' \in ShowType /\ await' \in AwaitType
             /\ dead' \subseteq Codes /\ late' \subseteq Codes /\ unclosed' \subseteq Codes
             /\ screen' \in ScreenType /\ closing' \in ClosingType /\ run' \in RunType
             /\ enter' \in EnterType /\ faults' \in 0..MaxFaults
  <2>1. await' \in AwaitType
    BY <1>0, <1>9, AwaitGoes DEF AnswerCame, AwaitPcs
  <2>2. screen' \in ScreenType
    BY <1>0, <1>9, ScreenFinishes DEF AnswerCame
  <2>3. faults' \in 0..MaxFaults
    BY <1>9, <1>f DEF AnswerCame
  <2> QED BY <1>0, <1>9, <2>1, <2>2, <2>3 DEF AnswerCame
<1>10. ASSUME NEW c \in Codes, TenMinutes(c)
      PROVE  /\ slot' \in SlotType /\ show' \in ShowType /\ await' \in AwaitType
             /\ dead' \subseteq Codes /\ late' \subseteq Codes /\ unclosed' \subseteq Codes
             /\ screen' \in ScreenType /\ closing' \in ClosingType /\ run' \in RunType
             /\ enter' \in EnterType /\ faults' \in 0..MaxFaults
  BY <1>0, <1>10 DEF TenMinutes, relay
<1>11. ASSUME NEW c \in Codes, Forget(c)
      PROVE  /\ slot' \in SlotType /\ show' \in ShowType /\ await' \in AwaitType
             /\ dead' \subseteq Codes /\ late' \subseteq Codes /\ unclosed' \subseteq Codes
             /\ screen' \in ScreenType /\ closing' \in ClosingType /\ run' \in RunType
             /\ enter' \in EnterType /\ faults' \in 0..MaxFaults
  <2>1. slot' \in SlotType
    BY <1>0, <1>11 DEF Forget, SlotType
  <2> QED BY <1>0, <1>11, <2>1 DEF Forget, codes
<1>12. ASSUME NEW c \in Codes, Ask(c, "offer") \/ Ask(c, "request")
      PROVE  /\ slot' \in SlotType /\ show' \in ShowType /\ await' \in AwaitType
             /\ dead' \subseteq Codes /\ late' \subseteq Codes /\ unclosed' \subseteq Codes
             /\ screen' \in ScreenType /\ closing' \in ClosingType /\ run' \in RunType
             /\ enter' \in EnterType /\ faults' \in 0..MaxFaults
  <2>1. PICK mode \in {"offer", "request"} : Ask(c, mode)
    BY <1>12
  <2>2. slot' \in SlotType
    BY <1>0, <2>1, SetA DEF Ask, Stored, LostPut
  <2>3. show' \in ShowType
    BY <1>0, <2>1, ShowAsks DEF Ask
  <2>4. faults' \in 0..MaxFaults
    BY <1>f, <2>1 DEF Ask, LostPut
  <2> QED BY <1>0, <2>1, <2>2, <2>3, <2>4 DEF Ask, codes
<1>13. ASSUME NEW c \in Codes, NEW e \in Enterers, Enter(e, c)
      PROVE  /\ slot' \in SlotType /\ show' \in ShowType /\ await' \in AwaitType
             /\ dead' \subseteq Codes /\ late' \subseteq Codes /\ unclosed' \subseteq Codes
             /\ screen' \in ScreenType /\ closing' \in ClosingType /\ run' \in RunType
             /\ enter' \in EnterType /\ faults' \in 0..MaxFaults
  <2>1. slot' \in SlotType
    BY <1>0, <1>13, SetA DEF Enter, Reads, LostRead
  <2>2. Holds(c, "a") \in Messages
    BY <1>0 DEF Holds, SlotType
  <2>3. enter' \in EnterType
    BY <1>0, <1>13, <2>2, Enters, LeftIs DEF Enter
  <2>4. faults' \in 0..MaxFaults
    BY <1>13, <1>f DEF Enter, LostRead
  <2> QED BY <1>0, <1>13, <2>1, <2>3, <2>4 DEF Enter, codes
<1>14. ASSUME NEW e \in Enterers, PutAnswer(e)
      PROVE  /\ slot' \in SlotType /\ show' \in ShowType /\ await' \in AwaitType
             /\ dead' \subseteq Codes /\ late' \subseteq Codes /\ unclosed' \subseteq Codes
             /\ screen' \in ScreenType /\ closing' \in ClosingType /\ run' \in RunType
             /\ enter' \in EnterType /\ faults' \in 0..MaxFaults
  <2> DEFINE m == IF enter[e].got = "offer" THEN "joined" ELSE "key"
  <2>1. m \in Messages
    OBVIOUS
  <2>2. enter[e].code \in Codes
    BY <1>0, <1>14 DEF PutAnswer, Holding, EnterType
  <2> HIDE DEF m
  <2>3. slot' \in SlotType
    BY <1>0, <1>14, <2>1, <2>2, SetB DEF PutAnswer, Stored, Conflict, LostPut
  <2>4. enter' \in EnterType
    BY <1>0, <1>14, Enters, LeftIs DEF PutAnswer
  <2>5. faults' \in 0..MaxFaults
    BY <1>14, <1>f DEF PutAnswer, LostPut
  <2> QED BY <1>0, <1>14, <2>3, <2>4, <2>5 DEF PutAnswer, codes
<1>15. CASE CancelPairing
  BY <1>0, <1>15, Withdraws DEF CancelPairing, relay
<1>16. CASE Stop
  <2>1. run' \in RunType
    BY <1>0, <1>16, Withdraws DEF Stop, RunType
  <2> QED BY <1>0, <1>16, <2>1, Withdraws DEF Stop, relay
<1>17. CASE Stopped
  <2>1. run' \in RunType
    BY <1>0, <1>17 DEF Stopped, RunType
  <2>2. screen' \in ScreenType
    BY <1>17 DEF Stopped, NoScreen, ScreenType
  <2> QED BY <1>0, <1>17, <2>1, <2>2, RunEnds DEF Stopped, relay
<1>18. CASE UNCHANGED vars
  BY <1>0, <1>18 DEF vars, relay, codes
<1> QED BY <1>1, <1>2, <1>3, <1>4, <1>5, <1>6, <1>7, <1>8, <1>9, <1>10, <1>11, <1>12, <1>13,
    <1>14, <1>15, <1>16, <1>17, <1>18 DEF Next, ThisDevice

LEMMA HoldingNext == TypeOK /\ Holding /\ [Next]_vars => Holding'
<1> SUFFICES ASSUME TypeOK, Holding, [Next]_vars PROVE Holding'
  OBVIOUS
<1> USE CodeFacts, MessagesAre
<1>0. enter \in EnterType /\ slot \in SlotType
  BY TypeIs
<1>1. CASE UNCHANGED enter
  BY <1>1 DEF Holding
<1>2. ASSUME NEW c \in Codes, NEW e \in Enterers, Enter(e, c)
      PROVE  Holding'
  <2>1. PICK r \in [pc: {"no", "answer"}, code: Codes \cup {NoCode}, got: Messages] :
           EnterTo(e, r) /\ (r.pc = "answer" <=> r.code # NoCode)
    <3>1. Holds(c, "a") \in Messages
      BY <1>0 DEF Holds, SlotType
    <3>2. Left.pc = "no" /\ Left.code = NoCode
      BY DEF Left
    <3> QED BY <1>2, <3>1, <3>2, LeftIs DEF Enter
  <2> QED BY <1>0, <2>1, Enters DEF Holding
<1>3. ASSUME NEW e \in Enterers, PutAnswer(e)
      PROVE  Holding'
  <2>1. Left.pc = "no" /\ Left.code = NoCode
    BY DEF Left
  <2>2. enter'[e] = Left /\ \A f \in Enterers : f # e => enter'[f] = enter[f]
    BY <1>0, <1>3, LeftIs, Enters DEF PutAnswer
  <2> QED BY <2>1, <2>2 DEF Holding
<1> QED
  BY <1>1, <1>2, <1>3
  DEF Next, ThisDevice, Replace, Show, CloseSlots, Poll, TakeAnswer, TakeAborted, Expire, Expired,
      AnswerCame, TenMinutes, Forget, Ask, CancelPairing, Stop, Stopped, codes, vars
-----------------------------------------------------------------------------
\* What each action does to the codes, the slots and the screen.

Others(c) == \A d \in Codes : d # c => await'[d] = await[d]
SlotsKept(c) == \A d \in Codes : d # c => slot'[d] = slot[d]

\* A code left the screen.
Gone ==
    /\ screen' = NoScreen /\ dead \subseteq dead'
    /\ screen.code # NoCode => screen.code \in dead' \cup late
    /\ \A d \in Codes : \/ closing'[d] = closing[d]
                        \/ d = screen.code /\ closing[d] = "no" /\ closing'[d] = "a"

\* Only the slots, what the other devices do and the faults change.
ScreenSame == UNCHANGED <<show, await, dead, late, screen, closing, unclosed, run>>

LEMMA ReplaceDoes ==
  ASSUME TypeOK, NEW c \in Codes, Replace(c)
  PROVE  /\ Gone /\ Alive /\ show[c].pc = "replace"
         /\ show'[c].pc = "set" /\ show'[c].mode = show[c].mode
         /\ \A d \in Codes : d # c => show'[d] = show[d]
         /\ UNCHANGED slot /\ UNCHANGED await /\ UNCHANGED late /\ UNCHANGED unclosed
         /\ UNCHANGED run /\ UNCHANGED enter
<1>1. /\ screen \in ScreenType /\ closing \in ClosingType /\ dead \subseteq Codes
      /\ show \in ShowType
  BY TypeIs
<1>2. Waiting \in Codes \cup {NoCode} /\ Gone
  BY <1>1, Withdraws DEF Replace, Gone
<1>3. /\ show'[c].pc = "set" /\ show'[c].mode = show[c].mode
      /\ \A d \in Codes : d # c => show'[d] = show[d]
  BY <1>1, <1>2, ShowReplaces DEF Replace
<1> QED BY <1>2, <1>3 DEF Replace, Shows, relay

LEMMA ShowDoes ==
  ASSUME TypeOK, NEW c \in Codes, Show(c)
  PROVE  /\ Alive /\ show[c].pc = "set" /\ show'[c].pc = "over" /\ show'[c].mode = show[c].mode
         /\ \A d \in Codes : d # c => show'[d] = show[d]
         /\ screen' = [code |-> c, state |-> "waiting"]
         /\ await'[c].pc = "sleep" /\ Others(c) /\ UNCHANGED slot /\ UNCHANGED dead
         /\ UNCHANGED late
         /\ UNCHANGED closing /\ UNCHANGED unclosed /\ UNCHANGED run /\ UNCHANGED enter
<1>1. show \in ShowType /\ await \in AwaitType
  BY TypeIs
<1>2. /\ show'[c].pc = "over" /\ show'[c].mode = show[c].mode
      /\ \A d \in Codes : d # c => show'[d] = show[d]
  BY <1>1, ShowReplaces DEF Show
<1>3. await'[c].pc = "sleep" /\ Others(c)
  <2>1. AwaitTo(c, "sleep") /\ "sleep" \in AwaitPcs
    BY DEF Show, AwaitTo, AwaitPcs
  <2> QED BY <1>1, <2>1, AwaitGoes DEF Others
<1> QED BY <1>2, <1>3 DEF Show, Shows, relay

LEMMA CloseSlotsDoes ==
  ASSUME TypeOK, NEW c \in Codes, CloseSlots(c)
  PROVE  /\ Alive /\ (~Late => ~Aborted(c)) /\ SlotsKept(c)
         /\ closing[c] \in {"a", "b", "again", "refill"} /\ closing'[c] \notin {"no", "a"}
         /\ \A d \in Codes : d # c => closing'[d] = closing[d]
         /\ unclosed \subseteq unclosed' /\ unclosed' \subseteq unclosed \cup {c}
         /\ UNCHANGED show /\ UNCHANGED await /\ UNCHANGED dead /\ UNCHANGED late
         /\ UNCHANGED screen
         /\ UNCHANGED run /\ UNCHANGED enter
         /\ slot'[c].a \in {slot[c].a, Empty}
         /\ \/ slot'[c].b \in {slot[c].b, Empty}
            \/ slot'[c].b = "closed" /\ closing'[c] = "done"
         /\ closing'[c] = "b" => closing[c] = "a" /\ slot'[c].b = slot[c].b
         /\ \/ c \in unclosed'
            \/ closing[c] = "a" /\ slot'[c].a = Empty /\ slot'[c].b = slot[c].b
               /\ closing'[c] = (IF show[c].mode = "request" THEN "b" ELSE "done")
            \/ closing[c] = "b" /\ slot'[c].b = "closed" /\ slot'[c].a = slot[c].a
               /\ closing'[c] = "done"
            \/ closing[c] = "b" /\ slot[c].b # Empty /\ slot' = slot /\ closing'[c] = "again"
            \/ closing[c] = "again" /\ slot'[c].b = Empty /\ slot'[c].a = slot[c].a
               /\ closing'[c] = "refill"
            \/ closing[c] = "refill" /\ slot'[c].b = "closed" /\ slot'[c].a = slot[c].a
               /\ closing'[c] = "done"
            \/ closing[c] = "refill" /\ slot[c].b # Empty /\ slot' = slot /\ closing'[c] = "done"
<1> USE MessagesAre
<1>1. slot \in SlotType /\ closing \in ClosingType /\ unclosed \subseteq Codes
  BY TypeIs
<1>2. /\ Alive /\ (~Late => ~Aborted(c))
      /\ UNCHANGED show /\ UNCHANGED await /\ UNCHANGED dead /\ UNCHANGED late /\ UNCHANGED screen
      /\ UNCHANGED run /\ UNCHANGED enter
  BY DEF CloseSlots
<1> DEFINE a == Set(c, "a", Empty)
           b == Set(c, "b", Empty)
           filled == Set(c, "b", "closed")
           after == IF show[c].mode = "request" THEN "b" ELSE "done"
<1>3. \/ closing[c] = "a" /\ a /\ CloseTo(c, after)
      \/ closing[c] = "a" /\ (a \/ UNCHANGED slot) /\ GivesUp(c, after)
      \/ closing[c] = "b" /\ filled /\ CloseTo(c, "done")
      \/ closing[c] = "b" /\ slot[c].b # Empty /\ UNCHANGED slot /\ CloseTo(c, "again")
      \/ closing[c] \in {"b", "refill"} /\ (filled \/ UNCHANGED slot) /\ GivesUp(c, "done")
      \/ closing[c] = "again" /\ b /\ CloseTo(c, "refill")
      \/ closing[c] = "again" /\ (b \/ UNCHANGED slot) /\ GivesUp(c, "done")
      \/ closing[c] = "refill" /\ filled /\ CloseTo(c, "done")
      \/ closing[c] = "refill" /\ slot[c].b # Empty /\ UNCHANGED slot /\ CloseTo(c, "done")
  BY DEF CloseSlots, Reads, Stored, Conflict, LostRead, LostPut, Holds
<1>4. /\ a => slot'[c].a = Empty /\ slot'[c].b = slot[c].b /\ SlotsKept(c)
      /\ b => slot'[c].b = Empty /\ slot'[c].a = slot[c].a /\ SlotsKept(c)
      /\ filled => slot'[c].b = "closed" /\ slot'[c].a = slot[c].a /\ SlotsKept(c)
      /\ UNCHANGED slot => slot'[c].a = slot[c].a /\ slot'[c].b = slot[c].b /\ SlotsKept(c)
  BY <1>1, SetA, SetB DEF SlotsKept
<1>5. \A pc \in {"b", "again", "refill", "done"} :
         /\ CloseTo(c, pc) \/ GivesUp(c, pc) =>
               closing'[c] = pc /\ \A d \in Codes : d # c => closing'[d] = closing[d]
         /\ CloseTo(c, pc) => unclosed' = unclosed
         /\ GivesUp(c, pc) => unclosed' = unclosed \cup {c}
  BY <1>1, ClosingGoes
<1>6. after \in {"b", "done"}
  OBVIOUS
<1> HIDE DEF a, b, filled, after
<1> QED BY <1>2, <1>3, <1>4, <1>5, <1>6 DEF after

LEMMA PollDoes ==
  ASSUME TypeOK, NEW c \in Codes, Poll(c)
  PROVE  /\ Alive /\ await[c].pc = "sleep" /\ Others(c) /\ await'[c].got = await[c].got
         /\ await'[c].pc = (IF Over(c) THEN AfterEnd(c) ELSE "take")
         /\ UNCHANGED slot /\ UNCHANGED show /\ UNCHANGED codes /\ UNCHANGED enter
<1>1. await \in AwaitType
  BY TypeIs
<1>2. (IF Over(c) THEN AfterEnd(c) ELSE "take") \in AwaitPcs
  BY DEF AwaitPcs, AfterEnd
<1> QED BY <1>1, <1>2, AwaitGoes DEF Poll, Awaits, Others, relay

LEMMA TakeAnswerDoes ==
  ASSUME TypeOK, NEW c \in Codes, TakeAnswer(c)
  PROVE  /\ Alive /\ await[c].pc = "take" /\ ~Over(c) /\ Others(c) /\ SlotsKept(c)
         /\ slot'[c].a = slot[c].a /\ slot'[c].b \in {slot[c].b, Empty}
         /\ \/ await'[c].pc = "sleep"
            \/ await'[c].pc = "got" /\ await'[c].got = slot[c].b /\ slot[c].b # Empty
         /\ UNCHANGED show /\ UNCHANGED codes /\ UNCHANGED enter
<1> USE MessagesAre
<1>1. await \in AwaitType /\ slot \in SlotType /\ slot[c].b \in Messages
  BY TypeIs DEF SlotType
<1>2. /\ SlotsKept(c) /\ slot'[c].a = slot[c].a /\ slot'[c].b \in {slot[c].b, Empty}
  BY <1>1, SetB DEF TakeAnswer, Reads, LostRead, SlotsKept
<1>3. /\ Others(c)
      /\ \/ await'[c].pc = "sleep"
         \/ await'[c].pc = "got" /\ await'[c].got = slot[c].b /\ slot[c].b # Empty
  <2> DEFINE pc == IF Holds(c, "b") = Empty THEN "sleep" ELSE "got"
             m == Holds(c, "b")
  <2>1. \/ await' = [await EXCEPT ![c].pc = pc, ![c].got = m]
        \/ AwaitTo(c, "sleep")
    BY DEF TakeAnswer
  <2>2. /\ m = slot[c].b /\ m \in Messages /\ pc \in AwaitPcs /\ "sleep" \in AwaitPcs
        /\ pc = "sleep" \/ (pc = "got" /\ m # Empty)
    BY <1>1 DEF Holds, AwaitPcs
  <2> HIDE DEF pc, m
  <2> QED BY <1>1, <2>1, <2>2, AwaitGoes, AwaitGets DEF Others
<1> QED BY <1>2, <1>3 DEF TakeAnswer, Awaits

LEMMA TakeAbortedDoes ==
  ASSUME TypeOK, NEW c \in Codes, TakeAborted(c)
  PROVE  /\ Alive /\ await[c].pc = "take" /\ Over(c) /\ Others(c) /\ SlotsKept(c)
         /\ slot'[c].a = slot[c].a /\ slot'[c].b \in {slot[c].b, Empty}
         /\ await'[c].pc = AfterEnd(c)
         /\ UNCHANGED show /\ UNCHANGED codes /\ UNCHANGED enter
<1> USE MessagesAre
<1>1. await \in AwaitType /\ slot \in SlotType /\ AfterEnd(c) \in AwaitPcs
  BY TypeIs DEF AfterEnd, AwaitPcs
<1>2. /\ SlotsKept(c) /\ slot'[c].a = slot[c].a /\ slot'[c].b \in {slot[c].b, Empty}
  BY <1>1, SetB DEF TakeAborted, Reads, SlotsKept
<1>3. Others(c) /\ await'[c].pc = AfterEnd(c)
  BY <1>1, AwaitGoes DEF TakeAborted, Others
<1> QED BY <1>2, <1>3 DEF TakeAborted, Awaits

LEMMA ExpireDoes ==
  ASSUME TypeOK, NEW c \in Codes, Expire(c)
  PROVE  /\ Alive /\ await[c].pc = "expire" /\ Others(c) /\ await'[c].got = await[c].got
         /\ await'[c].pc \in {"closing", "over"} /\ screen'.code = screen.code
         /\ \/ screen' = screen
            \/ screen.code = c /\ screen.state = "waiting" /\ screen'.state = "expired"
         /\ \A d \in Codes : \/ closing'[d] = closing[d]
                             \/ d = c /\ closing[d] = "no" /\ closing'[d] = "a"
         /\ UNCHANGED slot /\ UNCHANGED show /\ UNCHANGED dead /\ UNCHANGED late
         /\ UNCHANGED unclosed
         /\ UNCHANGED run /\ UNCHANGED enter
<1>1. await \in AwaitType /\ screen \in ScreenType /\ closing \in ClosingType
  BY TypeIs
<1>2. Others(c) /\ await'[c].got = await[c].got /\ await'[c].pc \in {"closing", "over"}
  BY <1>1, AwaitGoes DEF Expire, Others, AwaitPcs
<1>3. /\ \A d \in Codes : \/ closing'[d] = closing[d]
                          \/ d = c /\ closing[d] = "no" /\ closing'[d] = "a"
      /\ screen'.code = screen.code
      /\ \/ screen' = screen
         \/ screen.code = c /\ screen.state = "waiting" /\ screen'.state = "expired"
  BY <1>1, Closes, ScreenFinishes DEF Expire
<1> QED BY <1>2, <1>3 DEF Expire, Awaits, relay

LEMMA ExpiredDoes ==
  ASSUME TypeOK, NEW c \in Codes, Expired(c)
  PROVE  /\ Alive /\ await[c].pc = "closing" /\ Others(c) /\ await'[c].got = await[c].got
         /\ await'[c].pc = "over" /\ screen'.code = screen.code
         /\ \/ screen' = screen
            \/ screen.code = c /\ screen.state = "waiting" /\ screen'.state = "expired"
         /\ UNCHANGED slot /\ UNCHANGED show /\ UNCHANGED dead /\ UNCHANGED late
         /\ UNCHANGED closing
         /\ UNCHANGED unclosed /\ UNCHANGED run /\ UNCHANGED enter
<1>1. await \in AwaitType /\ screen \in ScreenType
  BY TypeIs
<1>2. Others(c) /\ await'[c].got = await[c].got /\ await'[c].pc = "over"
  BY <1>1, AwaitGoes DEF Expired, Others, AwaitPcs
<1> QED BY <1>1, <1>2, ScreenFinishes DEF Expired, Awaits, relay

LEMMA AnswerCameDoes ==
  ASSUME TypeOK, NEW c \in Codes, AnswerCame(c)
  PROVE  /\ Alive /\ await[c].pc = "got" /\ Others(c) /\ await'[c].got = await[c].got
         /\ await'[c].pc \in {"expire", "over"} /\ (await'[c].pc = "expire" => c \in late)
         /\ screen'.code = screen.code
         /\ \/ screen' = screen
            \/ screen.code = c /\ screen.state = "waiting" /\ screen'.state \in {"done", "failed"}
         /\ UNCHANGED slot /\ UNCHANGED show /\ UNCHANGED dead /\ UNCHANGED late
         /\ UNCHANGED closing
         /\ UNCHANGED unclosed /\ UNCHANGED run /\ UNCHANGED enter
<1>1. await \in AwaitType /\ screen \in ScreenType
  BY TypeIs
<1>2. /\ Others(c) /\ await'[c].got = await[c].got
      /\ await'[c].pc \in {"expire", "over"} /\ (await'[c].pc = "expire" => c \in late)
  BY <1>1, AwaitGoes DEF AnswerCame, Others, AwaitPcs
<1> QED BY <1>1, <1>2, ScreenFinishes DEF AnswerCame, Awaits

LEMMA ForgetDoes ==
  ASSUME TypeOK, NEW c \in Codes, Forget(c)
  PROVE  /\ slot'[c].a = Empty /\ slot'[c].b = Empty /\ SlotsKept(c) /\ Spent(c) /\ ScreenSame
         /\ UNCHANGED enter
<1>1. slot \in SlotType
  BY TypeIs
<1> QED BY <1>1 DEF Forget, SlotType, SlotsKept, Spent, ScreenSame, codes

LEMMA AskDoes ==
  ASSUME TypeOK, NEW c \in Codes, NEW mode \in {"offer", "request"}, Ask(c, mode)
  PROVE  /\ Alive /\ show[c].pc = "no" /\ show'[c].pc \in {"replace", "over"}
         /\ ~Together /\ c > 1 => show[c - 1].pc = "over"
         /\ \A d \in Codes : d # c => show'[d] = show[d]
         /\ slot'[c].b = slot[c].b /\ SlotsKept(c)
         /\ UNCHANGED await /\ UNCHANGED codes /\ UNCHANGED enter
<1>1. slot \in SlotType /\ show \in ShowType /\ mode \in Messages
  BY TypeIs, MessagesAre
<1>2. slot'[c].b = slot[c].b /\ SlotsKept(c)
  BY <1>1, SetA DEF Ask, Stored, LostPut, SlotsKept
<1>3. show'[c].pc \in {"replace", "over"} /\ \A d \in Codes : d # c => show'[d] = show[d]
  BY <1>1, ShowAsks DEF Ask
<1>4. ~Together /\ c > 1 => show[c - 1].pc = "over"
  BY DEF Ask
<1> QED BY <1>2, <1>3, <1>4 DEF Ask, Shows

LEMMA EnterDoes ==
  ASSUME TypeOK, NEW c \in Codes, NEW e \in Enterers, Enter(e, c)
  PROVE  /\ await[c].pc # "no" /\ slot'[c].a \in {slot[c].a, Empty} /\ slot'[c].b = slot[c].b
         /\ SlotsKept(c) /\ ScreenSame /\ \A f \in Enterers : f # e => enter'[f] = enter[f]
         /\ \/ enter'[e].code = NoCode
            \/ enter'[e].code = c /\ slot[c].a # Empty /\ slot'[c].a = Empty
<1> USE MessagesAre
<1>1. /\ slot \in SlotType /\ enter \in EnterType /\ Holds(c, "a") \in Messages
      /\ Holds(c, "a") = slot[c].a
  BY TypeIs DEF SlotType, Holds
<1>2. /\ slot'[c].a \in {slot[c].a, Empty} /\ slot'[c].b = slot[c].b /\ SlotsKept(c)
      /\ Reads(c, "a") => slot'[c].a = Empty
  BY <1>1, SetA DEF Enter, Reads, LostRead, SlotsKept
<1>3. /\ \A f \in Enterers : f # e => enter'[f] = enter[f]
      /\ \/ enter'[e].code = NoCode
         \/ enter'[e].code = c /\ slot[c].a # Empty /\ Reads(c, "a")
  <2>1. PICK r \in [pc: {"no", "answer"}, code: Codes \cup {NoCode}, got: Messages] :
           /\ EnterTo(e, r)
           /\ r.code = NoCode \/ (r.code = c /\ slot[c].a # Empty /\ Reads(c, "a"))
    <3>1. Left.code = NoCode
      BY DEF Left
    <3> QED BY <1>1, <3>1, LeftIs DEF Enter
  <2> QED BY <1>1, <2>1, Enters
<1> QED BY <1>2, <1>3 DEF Enter, ScreenSame, codes

LEMMA PutAnswerDoes ==
  ASSUME TypeOK, Holding, NEW e \in Enterers, PutAnswer(e)
  PROVE  /\ enter[e].code \in Codes /\ SlotsKept(enter[e].code) /\ ScreenSame
         /\ slot'[enter[e].code].a = slot[enter[e].code].a
         /\ \/ slot'[enter[e].code].b = slot[enter[e].code].b
            \/ /\ slot[enter[e].code].b = Empty
               /\ slot'[enter[e].code].b \in {"joined", "key"}
         /\ enter'[e].code = NoCode /\ \A f \in Enterers : f # e => enter'[f] = enter[f]
<1> USE MessagesAre
<1> DEFINE c == enter[e].code
           m == IF enter[e].got = "offer" THEN "joined" ELSE "key"
<1>1. slot \in SlotType /\ enter \in EnterType
  BY TypeIs
<1>2. c \in Codes /\ m \in {"joined", "key"} /\ m \in Messages
  BY <1>1 DEF PutAnswer, Holding, EnterType
<1>3. Stored(c, "b", m) \/ UNCHANGED slot
  BY DEF PutAnswer, Conflict, LostPut
<1> HIDE DEF c, m
<1>4. /\ SlotsKept(c) /\ slot'[c].a = slot[c].a
      /\ slot'[c].b = slot[c].b \/ (slot[c].b = Empty /\ slot'[c].b \in {"joined", "key"})
  BY <1>1, <1>2, <1>3, SetB DEF Stored, SlotsKept, Holds
<1>5. enter'[e].code = NoCode /\ \A f \in Enterers : f # e => enter'[f] = enter[f]
  <2>1. Left.code = NoCode
    BY DEF Left
  <2> QED BY <1>1, <2>1, LeftIs, Enters DEF PutAnswer
<1>6. ScreenSame
  BY DEF PutAnswer, ScreenSame, codes
<1> QED BY <1>2, <1>4, <1>5, <1>6 DEF c

LEMMA CancelOrStopDoes ==
  ASSUME TypeOK, CancelPairing \/ Stop
  PROVE  /\ Gone /\ Alive /\ UNCHANGED slot /\ UNCHANGED show /\ UNCHANGED await /\ UNCHANGED late
         /\ UNCHANGED unclosed /\ UNCHANGED enter
<1>1. screen \in ScreenType /\ closing \in ClosingType /\ dead \subseteq Codes
  BY TypeIs
<1> QED BY <1>1, Withdraws DEF CancelPairing, Stop, Alive, Gone, relay
-----------------------------------------------------------------------------
\* The inductive invariant: codes, screen and answers.

LEMMA LinkedNext ==
  ASSUME TypeOK, Holding, Linked, [Next]_vars
  PROVE  Linked'
<1> USE CodeFacts
<1>0. screen.code \in Codes \cup {NoCode}
  BY TypeIs DEF ScreenType
<1>1. ASSUME NEW c \in Codes, Replace(c)
      PROVE  Linked'
  BY <1>0, <1>1, ReplaceDoes DEF Linked, Over, Gone, NoScreen
<1>2. ASSUME NEW c \in Codes, Show(c)
      PROVE  Linked'
  BY <1>0, <1>2, ShowDoes DEF Linked, Over, Others
<1>3. ASSUME NEW c \in Codes, CloseSlots(c)
      PROVE  Linked'
  BY <1>0, <1>3, CloseSlotsDoes DEF Linked, Over
<1>4. ASSUME NEW c \in Codes, Poll(c)
      PROVE  Linked'
  <2>1. \A d \in Codes : /\ await'[d].pc = "no" <=> await[d].pc = "no"
                         /\ await'[d].pc \in {"expire", "closing"} => d \in late
    BY <1>4, PollDoes DEF Linked, Others, Over, AfterEnd
  <2>2. /\ UNCHANGED show /\ UNCHANGED screen /\ UNCHANGED closing /\ UNCHANGED dead
        /\ UNCHANGED late /\ UNCHANGED run
    BY <1>4, PollDoes DEF codes
  <2> QED BY <1>0, <2>1, <2>2 DEF Linked, Alive, Over
<1>5. ASSUME NEW c \in Codes, TakeAnswer(c)
      PROVE  Linked'
  <2>1. \A d \in Codes : /\ await'[d].pc = "no" <=> await[d].pc = "no"
                         /\ await'[d].pc \in {"expire", "closing"} => d \in late
    BY <1>5, TakeAnswerDoes DEF Linked, Others, Over
  <2>2. /\ UNCHANGED show /\ UNCHANGED screen /\ UNCHANGED closing /\ UNCHANGED dead
        /\ UNCHANGED late /\ UNCHANGED run
    BY <1>5, TakeAnswerDoes DEF codes
  <2> QED BY <1>0, <2>1, <2>2 DEF Linked, Alive, Over
<1>6. ASSUME NEW c \in Codes, TakeAborted(c)
      PROVE  Linked'
  <2>1. \A d \in Codes : /\ await'[d].pc = "no" <=> await[d].pc = "no"
                         /\ await'[d].pc \in {"expire", "closing"} => d \in late
    BY <1>6, TakeAbortedDoes DEF Linked, Others, Over, AfterEnd
  <2>2. /\ UNCHANGED show /\ UNCHANGED screen /\ UNCHANGED closing /\ UNCHANGED dead
        /\ UNCHANGED late /\ UNCHANGED run
    BY <1>6, TakeAbortedDoes DEF codes
  <2> QED BY <1>0, <2>1, <2>2 DEF Linked, Alive, Over
<1>7. ASSUME NEW c \in Codes, Expire(c)
      PROVE  Linked'
  <2>1. \A d \in Codes : /\ await'[d].pc = "no" <=> await[d].pc = "no"
                         /\ await'[d].pc \in {"expire", "closing"} => d \in late
    BY <1>7, ExpireDoes DEF Linked, Others, Over
  <2>2. /\ UNCHANGED show /\ UNCHANGED dead /\ UNCHANGED late /\ UNCHANGED run
        /\ screen'.code = screen.code /\ (screen.code = NoCode => screen' = screen)
        /\ \A d \in Codes : closing'[d] = closing[d] \/ (d = c /\ await[c].pc = "expire")
    BY <1>7, ExpireDoes DEF codes
  <2> QED BY <1>0, <2>1, <2>2 DEF Linked, Alive, Over
<1>8. ASSUME NEW c \in Codes, Expired(c)
      PROVE  Linked'
  <2>1. \A d \in Codes : /\ await'[d].pc = "no" <=> await[d].pc = "no"
                         /\ await'[d].pc \in {"expire", "closing"} => d \in late
    BY <1>8, ExpiredDoes DEF Linked, Others, Over
  <2>2. /\ UNCHANGED show /\ UNCHANGED closing /\ UNCHANGED dead /\ UNCHANGED late /\ UNCHANGED run
        /\ screen'.code = screen.code /\ (screen.code = NoCode => screen' = screen)
    BY <1>8, ExpiredDoes DEF codes
  <2> QED BY <1>0, <2>1, <2>2 DEF Linked, Alive, Over
<1>9. ASSUME NEW c \in Codes, AnswerCame(c)
      PROVE  Linked'
  <2>1. \A d \in Codes : /\ await'[d].pc = "no" <=> await[d].pc = "no"
                         /\ await'[d].pc \in {"expire", "closing"} => d \in late
    BY <1>9, AnswerCameDoes DEF Linked, Others, Over
  <2>2. /\ UNCHANGED show /\ UNCHANGED closing /\ UNCHANGED dead /\ UNCHANGED late /\ UNCHANGED run
        /\ screen'.code = screen.code /\ (screen.code = NoCode => screen' = screen)
    BY <1>9, AnswerCameDoes DEF codes
  <2> QED BY <1>0, <2>1, <2>2 DEF Linked, Alive, Over
<1>10. ASSUME NEW c \in Codes, TenMinutes(c)
      PROVE  Linked'
  BY <1>0, <1>10 DEF Linked, Alive, Over, TenMinutes, relay
<1>11. ASSUME NEW c \in Codes, Forget(c)
      PROVE  Linked'
  BY <1>0, <1>11, ForgetDoes DEF Linked, Alive, Over, ScreenSame
<1>12. ASSUME NEW c \in Codes, NEW mode \in {"offer", "request"}, Ask(c, mode)
      PROVE  Linked'
  BY <1>0, <1>12, AskDoes DEF Linked, Over, codes
<1>13. ASSUME NEW c \in Codes, NEW e \in Enterers, Enter(e, c)
      PROVE  Linked'
  BY <1>0, <1>13, EnterDoes DEF Linked, Alive, Over, ScreenSame
<1>14. ASSUME NEW e \in Enterers, PutAnswer(e)
      PROVE  Linked'
  BY <1>0, <1>14, PutAnswerDoes DEF Linked, Alive, Over, ScreenSame
<1>15. CASE CancelPairing \/ Stop
  BY <1>0, <1>15, CancelOrStopDoes DEF Linked, Over, Gone, NoScreen
<1>16. CASE Stopped
  <2>1. \A d \in Codes : /\ await'[d].pc = (IF await[d].pc = "no" THEN "no" ELSE "over")
                         /\ show'[d].pc = (IF show[d].pc = "no" THEN "no" ELSE "over")
    BY <1>16, RunEnds
  <2>2. screen'.code = NoCode /\ screen'.state = "none" /\ ~Alive' /\ UNCHANGED closing
    BY <1>16, TypeIs DEF Stopped, NoScreen, Alive, RunType
  <2> QED BY <2>1, <2>2 DEF Linked
<1>17. CASE UNCHANGED vars
  BY <1>0, <1>17 DEF Linked, Alive, Over, vars, relay, codes
<1> QED BY <1>1, <1>2, <1>3, <1>4, <1>5, <1>6, <1>7, <1>8, <1>9, <1>10, <1>11, <1>12, <1>13,
    <1>14, <1>15, <1>16, <1>17 DEF Next, ThisDevice

LEMMA AnswersNext ==
  ASSUME TypeOK, Holding, Linked, Answers, [Next]_vars
  PROVE  Answers'
<1> USE CodeFacts, MessagesAre
<1>0. /\ await \in AwaitType /\ closing \in ClosingType /\ screen \in ScreenType
      /\ run \in RunType /\ slot \in SlotType /\ show \in ShowType /\ enter \in EnterType
      /\ dead \subseteq Codes /\ late \subseteq Codes
  BY TypeIs
<1>1. ASSUME NEW c \in Codes, Replace(c)
      PROVE  Answers'
  BY <1>0, <1>1, ReplaceDoes DEF Answers, Holds, Gone
<1>2. ASSUME NEW c \in Codes, Show(c)
      PROVE  Answers'
  BY <1>0, <1>2, ShowDoes DEF Answers, Holds, Others
<1>3. ASSUME NEW c \in Codes, CloseSlots(c)
      PROVE  Answers'
  <2>1. \A d \in Codes :
           /\ slot'[d].a \in {slot[d].a, Empty} /\ slot'[d].b \in {slot[d].b, Empty, "closed"}
           /\ closing'[d] \in {"no", "a", "b"} =>
                 closing[d] \in {"no", "a", "b"} /\ slot'[d].b = slot[d].b
    BY <1>3, CloseSlotsDoes DEF SlotsKept
  <2>2. UNCHANGED enter /\ UNCHANGED await
    BY <1>3, CloseSlotsDoes
  <2> QED BY <2>1, <2>2 DEF Answers, Holds
<1>4. ASSUME NEW c \in Codes, Poll(c)
      PROVE  Answers'
  BY <1>0, <1>4, PollDoes DEF Answers, Holds, Others, AfterEnd, codes
<1>5. ASSUME NEW c \in Codes, TakeAnswer(c)
      PROVE  Answers'
  BY <1>0, <1>5, TakeAnswerDoes DEF Answers, Holds, SlotsKept, Others, codes
<1>6. ASSUME NEW c \in Codes, TakeAborted(c)
      PROVE  Answers'
  BY <1>0, <1>6, TakeAbortedDoes DEF Answers, Holds, SlotsKept, Others, AfterEnd, codes
<1>7. ASSUME NEW c \in Codes, Expire(c)
      PROVE  Answers'
  BY <1>0, <1>7, ExpireDoes DEF Answers, Holds, Others
<1>8. ASSUME NEW c \in Codes, Expired(c)
      PROVE  Answers'
  BY <1>0, <1>8, ExpiredDoes DEF Answers, Holds, Others
<1>9. ASSUME NEW c \in Codes, AnswerCame(c)
      PROVE  Answers'
  BY <1>0, <1>9, AnswerCameDoes DEF Answers, Holds, Others
<1>10. ASSUME NEW c \in Codes, TenMinutes(c)
      PROVE  Answers'
  BY <1>0, <1>10 DEF Answers, Holds, TenMinutes, relay
<1>11. ASSUME NEW c \in Codes, Forget(c)
      PROVE  Answers'
  BY <1>0, <1>11, ForgetDoes DEF Answers, Holds, SlotsKept, ScreenSame
<1>12. ASSUME NEW c \in Codes, NEW mode \in {"offer", "request"}, Ask(c, mode)
      PROVE  Answers'
  <2>1. await[c].pc = "no" /\ slot'[c].b = slot[c].b /\ SlotsKept(c)
        /\ UNCHANGED await /\ UNCHANGED enter /\ UNCHANGED closing
    BY <1>12, AskDoes DEF Linked, codes
  <2> QED BY <2>1 DEF Answers, Holds, SlotsKept
<1>13. ASSUME NEW c \in Codes, NEW e \in Enterers, Enter(e, c)
      PROVE  Answers'
  BY <1>0, <1>13, EnterDoes DEF Answers, Holds, SlotsKept, ScreenSame
<1>14. ASSUME NEW e \in Enterers, PutAnswer(e)
      PROVE  Answers'
  BY <1>0, <1>14, PutAnswerDoes DEF Answers, Holds, SlotsKept, ScreenSame
<1>15. CASE CancelPairing \/ Stop
  BY <1>0, <1>15, CancelOrStopDoes DEF Answers, Holds, Gone
<1>16. CASE Stopped
  BY <1>0, <1>16, RunEnds DEF Answers, Holds, Stopped, relay
<1>17. CASE UNCHANGED vars
  BY <1>0, <1>17 DEF Answers, Holds, vars, relay, codes
<1> QED BY <1>1, <1>2, <1>3, <1>4, <1>5, <1>6, <1>7, <1>8, <1>9, <1>10, <1>11, <1>12, <1>13,
    <1>14, <1>15, <1>16, <1>17 DEF Next, ThisDevice

LEMMA ClosedNext ==
  ASSUME ~Late, TypeOK, Holding, Linked, Answers, ClosedSoFar, [Next]_vars
  PROVE  ClosedSoFar'
<1> USE CodeFacts, MessagesAre
<1>0. /\ await \in AwaitType /\ closing \in ClosingType /\ screen \in ScreenType
      /\ run \in RunType /\ slot \in SlotType /\ show \in ShowType /\ enter \in EnterType
      /\ dead \subseteq Codes /\ late \subseteq Codes
  BY TypeIs
<1>1. ASSUME NEW c \in Codes, Replace(c)
      PROVE  ClosedSoFar'
  BY <1>0, <1>1, ReplaceDoes DEF ClosedSoFar, Holds, Spent, Gone
<1>2. ASSUME NEW c \in Codes, Show(c)
      PROVE  ClosedSoFar'
  BY <1>0, <1>2, ShowDoes DEF ClosedSoFar, Holds, Spent, Others
<1>3. ASSUME NEW c \in Codes, CloseSlots(c)
      PROVE  ClosedSoFar'
  <2>a. Alive /\ ~Aborted(c) /\ closing[c] # "no" /\ c \in dead \cup late
    BY <1>3, CloseSlotsDoes DEF Linked, Over
  <2>1. await'[c].pc # "take"
    BY <1>3, <2>a, CloseSlotsDoes DEF Aborted
  <2>2. c \notin unclosed' => slot'[c].a = Empty
    BY <1>3, CloseSlotsDoes DEF ClosedSoFar, Holds
  <2>3. closing[c] = "b" /\ slot[c].b # Empty => Spent(c)
    BY DEF Answers, Spent, Holds
  <2>4. ASSUME show[c].mode = "request", c \notin unclosed'
        PROVE  /\ closing'[c] \in {"again", "refill"} => Spent(c)
               /\ closing'[c] = "refill" => slot'[c].b = Empty
               /\ closing'[c] = "done" =>
                    slot'[c].b # "key" /\ (slot'[c].b = "closed" \/ Spent(c))
    <3>1. c \notin unclosed
      BY <1>3, <2>4, CloseSlotsDoes
    <3>2. /\ closing[c] \in {"again", "refill"} => Spent(c)
          /\ closing[c] = "refill" => slot[c].b = Empty
      BY <2>4, <3>1 DEF ClosedSoFar, Holds
    <3> QED BY <1>3, <2>3, <2>4, <3>2, CloseSlotsDoes
  <2>5. ASSUME NEW d \in Codes, d # c
        PROVE  /\ closing'[d] = closing[d] /\ slot'[d] = slot[d]
               /\ d \in unclosed' <=> d \in unclosed
    BY <1>3, <2>5, CloseSlotsDoes DEF SlotsKept
  <2>6. UNCHANGED show /\ UNCHANGED await /\ UNCHANGED enter
    BY <1>3, CloseSlotsDoes
  <2> QED BY <2>1, <2>2, <2>4, <2>5, <2>6 DEF ClosedSoFar, Holds, Spent
<1>4. ASSUME NEW c \in Codes, Poll(c)
      PROVE  ClosedSoFar'
  BY <1>0, <1>4, PollDoes DEF ClosedSoFar, Linked, Holds, Spent, Others, AfterEnd, codes
<1>5. ASSUME NEW c \in Codes, TakeAnswer(c)
      PROVE  ClosedSoFar'
  BY <1>0, <1>5, TakeAnswerDoes DEF ClosedSoFar, Holds, SlotsKept, Spent, Others, codes
<1>6. ASSUME NEW c \in Codes, TakeAborted(c)
      PROVE  ClosedSoFar'
  BY <1>0, <1>6, TakeAbortedDoes DEF ClosedSoFar, Holds, SlotsKept, Spent, Others, codes
<1>7. ASSUME NEW c \in Codes, Expire(c)
      PROVE  ClosedSoFar'
  BY <1>0, <1>7, ExpireDoes DEF ClosedSoFar, Holds, Spent, Others
<1>8. ASSUME NEW c \in Codes, Expired(c)
      PROVE  ClosedSoFar'
  BY <1>0, <1>8, ExpiredDoes DEF ClosedSoFar, Holds, Spent, Others
<1>9. ASSUME NEW c \in Codes, AnswerCame(c)
      PROVE  ClosedSoFar'
  BY <1>0, <1>9, AnswerCameDoes DEF ClosedSoFar, Holds, Spent, Others
<1>10. ASSUME NEW c \in Codes, TenMinutes(c)
      PROVE  ClosedSoFar'
  BY <1>0, <1>10 DEF ClosedSoFar, Holds, Spent, TenMinutes, relay
<1>11. ASSUME NEW c \in Codes, Forget(c)
      PROVE  ClosedSoFar'
  BY <1>0, <1>11, ForgetDoes DEF ClosedSoFar, Holds, SlotsKept, Spent, ScreenSame
<1>12. ASSUME NEW c \in Codes, NEW mode \in {"offer", "request"}, Ask(c, mode)
      PROVE  ClosedSoFar'
  BY <1>0, <1>12, AskDoes DEF ClosedSoFar, Linked, Holds, SlotsKept, Spent, codes
<1>13. ASSUME NEW c \in Codes, NEW e \in Enterers, Enter(e, c)
      PROVE  ClosedSoFar'
  BY <1>0, <1>13, EnterDoes DEF ClosedSoFar, Holds, SlotsKept, Spent, ScreenSame
<1>14. ASSUME NEW e \in Enterers, PutAnswer(e)
      PROVE  ClosedSoFar'
  BY <1>0, <1>14, PutAnswerDoes DEF ClosedSoFar, Holds, SlotsKept, Spent, ScreenSame
<1>15. CASE CancelPairing \/ Stop
  BY <1>0, <1>15, CancelOrStopDoes DEF ClosedSoFar, Holds, Spent, Gone
<1>16. CASE Stopped
  BY <1>0, <1>16, RunEnds DEF ClosedSoFar, Holds, Spent, Stopped, relay
<1>17. CASE UNCHANGED vars
  BY <1>0, <1>17 DEF ClosedSoFar, Holds, Spent, vars, relay, codes
<1> QED BY <1>1, <1>2, <1>3, <1>4, <1>5, <1>6, <1>7, <1>8, <1>9, <1>10, <1>11, <1>12, <1>13,
    <1>14, <1>15, <1>16, <1>17 DEF Next, ThisDevice

-----------------------------------------------------------------------------
\* The inductive invariant: the screen, when one code is asked for after the other.

LEMMA OneByOneNext ==
  ASSUME ~Together, TypeOK, Holding, Linked, OneByOne, Shown, [Next]_vars
  PROVE  OneByOne'
<1>1. ASSUME NEW c \in Codes, Replace(c)
      PROVE  OneByOne'
  <2>1. ASSUME NEW d \in Codes, await[d].pc \in {"sleep", "take"}
        PROVE  d \in dead' \cup late
    BY <1>1, <2>1, CodeFacts, ReplaceDoes DEF Shown, ScreenIsTrue, Gone, Over
  <2>2. \A b, d \in Codes : show'[b].pc # "no" /\ d < b => show'[d].pc = "over"
    BY <1>1, ReplaceDoes DEF OneByOne
  <2> QED BY <1>1, <2>1, <2>2, ReplaceDoes DEF OneByOne, Over
<1>2. ASSUME NEW c \in Codes, Show(c)
      PROVE  OneByOne'
  <2>1. \A b \in Codes : show[b].pc = "set" => b = c
    <3>1. \A b \in Codes : b < c \/ c < b \/ b = c
      BY DEF Codes
    <3> QED BY <1>2, <3>1, ShowDoes DEF OneByOne
  <2>2. \A b \in Codes : show'[b].pc # "set"
    BY <1>2, <2>1, ShowDoes
  <2>3. \A b, d \in Codes : show'[b].pc # "no" /\ d < b => show'[d].pc = "over"
    BY <1>2, ShowDoes DEF OneByOne
  <2> QED BY <2>2, <2>3 DEF OneByOne
<1>3. ASSUME NEW c \in Codes, CloseSlots(c)
      PROVE  OneByOne'
  <2>1. /\ \A d \in Codes : await'[d].pc \in {"sleep", "take"} => await[d].pc \in {"sleep", "take"}
        /\ UNCHANGED show /\ UNCHANGED run /\ UNCHANGED dead /\ UNCHANGED late
    BY <1>3, CloseSlotsDoes DEF Codes
  <2> QED BY <2>1 DEF OneByOne, Alive, Over
<1>4. ASSUME NEW c \in Codes, Poll(c)
      PROVE  OneByOne'
  <2>1. /\ \A d \in Codes : await'[d].pc \in {"sleep", "take"} => await[d].pc \in {"sleep", "take"}
        /\ UNCHANGED show /\ UNCHANGED run /\ UNCHANGED dead /\ UNCHANGED late
    BY <1>4, PollDoes DEF Others, codes
  <2> QED BY <2>1 DEF OneByOne, Alive, Over
<1>5. ASSUME NEW c \in Codes, TakeAnswer(c)
      PROVE  OneByOne'
  <2>1. /\ \A d \in Codes : await'[d].pc \in {"sleep", "take"} => await[d].pc \in {"sleep", "take"}
        /\ UNCHANGED show /\ UNCHANGED run /\ UNCHANGED dead /\ UNCHANGED late
    BY <1>5, TakeAnswerDoes DEF Others, codes
  <2> QED BY <2>1 DEF OneByOne, Alive, Over
<1>6. ASSUME NEW c \in Codes, TakeAborted(c)
      PROVE  OneByOne'
  <2>1. /\ \A d \in Codes : await'[d].pc \in {"sleep", "take"} => await[d].pc \in {"sleep", "take"}
        /\ UNCHANGED show /\ UNCHANGED run /\ UNCHANGED dead /\ UNCHANGED late
    BY <1>6, TakeAbortedDoes DEF Others, codes, AfterEnd
  <2> QED BY <2>1 DEF OneByOne, Alive, Over
<1>7. ASSUME NEW c \in Codes, Expire(c)
      PROVE  OneByOne'
  <2>1. /\ \A d \in Codes : await'[d].pc \in {"sleep", "take"} => await[d].pc \in {"sleep", "take"}
        /\ UNCHANGED show /\ UNCHANGED run /\ UNCHANGED dead /\ UNCHANGED late
    BY <1>7, ExpireDoes DEF Others
  <2> QED BY <2>1 DEF OneByOne, Alive, Over
<1>8. ASSUME NEW c \in Codes, Expired(c)
      PROVE  OneByOne'
  <2>1. /\ \A d \in Codes : await'[d].pc \in {"sleep", "take"} => await[d].pc \in {"sleep", "take"}
        /\ UNCHANGED show /\ UNCHANGED run /\ UNCHANGED dead /\ UNCHANGED late
    BY <1>8, ExpiredDoes DEF Others
  <2> QED BY <2>1 DEF OneByOne, Alive, Over
<1>9. ASSUME NEW c \in Codes, AnswerCame(c)
      PROVE  OneByOne'
  <2>1. /\ \A d \in Codes : await'[d].pc \in {"sleep", "take"} => await[d].pc \in {"sleep", "take"}
        /\ UNCHANGED show /\ UNCHANGED run /\ UNCHANGED dead /\ UNCHANGED late
    BY <1>9, AnswerCameDoes DEF Others
  <2> QED BY <2>1 DEF OneByOne, Alive, Over
<1>10. ASSUME NEW c \in Codes, TenMinutes(c)
      PROVE  OneByOne'
  BY <1>10 DEF OneByOne, Alive, Over, TenMinutes, relay
<1>11. ASSUME NEW c \in Codes, Forget(c)
      PROVE  OneByOne'
  BY <1>11, ForgetDoes DEF OneByOne, Alive, Over, ScreenSame
<1>12. ASSUME NEW c \in Codes, NEW mode \in {"offer", "request"}, Ask(c, mode)
      PROVE  OneByOne'
  <2>1. /\ show[c].pc = "no" /\ show'[c].pc \in {"replace", "over"}
        /\ c > 1 => show[c - 1].pc = "over"
        /\ \A d \in Codes : d # c => show'[d] = show[d]
        /\ UNCHANGED await /\ UNCHANGED run /\ UNCHANGED dead /\ UNCHANGED late
    BY <1>12, AskDoes DEF codes
  <2>2. ASSUME NEW b \in Codes, NEW d \in Codes, show'[b].pc # "no", d < b
        PROVE  show'[d].pc = "over"
    <3>1. CASE b = c
      <4>1. c - 1 \in Codes /\ c > 1 /\ (d = c - 1 \/ d < c - 1) /\ d # c
        BY <2>2, <3>1, PairingAssumption DEF Codes
      <4>2. show[c - 1].pc = "over"
        BY <2>1, <4>1
      <4>3. show[d].pc = "over"
        BY <4>1, <4>2 DEF OneByOne
      <4> QED BY <2>1, <4>1, <4>3
    <3>2. CASE b # c
      <4>1. show[d].pc = "over"
        BY <2>1, <2>2, <3>2 DEF OneByOne
      <4> QED BY <2>1, <4>1
    <3> QED BY <3>1, <3>2
  <2>3. \A b \in Codes : show'[b].pc = "set" => show[b].pc = "set"
    BY <2>1
  <2> QED BY <2>1, <2>2, <2>3 DEF OneByOne, Alive, Over
<1>13. ASSUME NEW c \in Codes, NEW e \in Enterers, Enter(e, c)
      PROVE  OneByOne'
  BY <1>13, EnterDoes DEF OneByOne, Alive, Over, ScreenSame
<1>14. ASSUME NEW e \in Enterers, PutAnswer(e)
      PROVE  OneByOne'
  BY <1>14, PutAnswerDoes DEF OneByOne, Alive, Over, ScreenSame
<1>15. CASE CancelPairing \/ Stop
  BY <1>15, CancelOrStopDoes DEF OneByOne, Over, Gone
<1>16. CASE Stopped
  <2>1. \A d \in Codes : show'[d].pc = (IF show[d].pc = "no" THEN "no" ELSE "over")
    BY <1>16, RunEnds
  <2>2. ~Alive'
    BY <1>16, TypeIs DEF Stopped, Alive, RunType
  <2> QED BY <2>1, <2>2 DEF OneByOne
<1>17. CASE UNCHANGED vars
  BY <1>17 DEF OneByOne, Alive, Over, vars, relay, codes
<1> QED BY <1>1, <1>2, <1>3, <1>4, <1>5, <1>6, <1>7, <1>8, <1>9, <1>10, <1>11, <1>12, <1>13,
    <1>14, <1>15, <1>16, <1>17 DEF Next, ThisDevice

LEMMA ShownNext ==
  ASSUME ~Together, TypeOK, Holding, Linked, Answers, OneByOne, Shown, [Next]_vars
  PROVE  Shown'
<1>0. screen.code \in Codes \cup {NoCode}
  BY TypeIs DEF ScreenType
<1>1. ASSUME NEW c \in Codes, Replace(c)
      PROVE  Shown'
  <2>1. /\ Gone /\ Alive /\ UNCHANGED slot /\ UNCHANGED await /\ UNCHANGED late
    BY <1>1, ReplaceDoes
  <2>2. ASSUME NEW d \in Codes, await[d].pc \in {"sleep", "take"}
        PROVE  d \in dead' \cup late
    BY <2>1, <2>2, CodeFacts DEF Shown, ScreenIsTrue, Gone, Over
  <2>3. screen'.state = "none"
    BY <2>1 DEF Gone, NoScreen
  <2> QED BY <2>1, <2>2, <2>3 DEF Shown, ScreenIsTrue, Over, Holds
<1>2. ASSUME NEW c \in Codes, Show(c)
      PROVE  Shown'
  <2>1. /\ Alive /\ show[c].pc = "set" /\ UNCHANGED slot /\ UNCHANGED dead /\ UNCHANGED late
        /\ UNCHANGED run /\ screen' = [code |-> c, state |-> "waiting"]
        /\ await'[c].pc = "sleep" /\ \A d \in Codes : d # c => await'[d] = await[d]
    BY <1>2, ShowDoes DEF Others
  <2>2. \A d \in Codes : d # c /\ await'[d].pc \in {"sleep", "take"} => Over(d)
    BY <2>1 DEF OneByOne
  <2> QED BY <2>1, <2>2 DEF Shown, ScreenIsTrue, Alive, Over, Holds
<1>3. ASSUME NEW c \in Codes, CloseSlots(c)
      PROVE  Shown'
  <2>1. /\ UNCHANGED screen /\ UNCHANGED run /\ UNCHANGED dead /\ UNCHANGED late /\ UNCHANGED await
    BY <1>3, CloseSlotsDoes DEF Codes
  <2>2. \A d \in Codes : Holds(d, "b")' \in {Empty, "closed", "joined", "key"}
    BY <1>3, CloseSlotsDoes DEF Shown, Holds, SlotsKept
  <2> QED BY <2>1, <2>2 DEF Shown, ScreenIsTrue, Alive, Over
<1>4. ASSUME NEW c \in Codes, Poll(c)
      PROVE  Shown'
  <2>1. /\ UNCHANGED screen /\ UNCHANGED run /\ UNCHANGED dead /\ UNCHANGED late /\ Alive
        /\ await[c].pc \in {"sleep", "take"} /\ \A d \in Codes : d # c => await'[d] = await[d]
    BY <1>4, PollDoes DEF Others, codes
  <2>2. await'[c].pc = "got" => ~Over(c) /\ await'[c].got = slot[c].b /\ slot[c].b # Empty
    BY <1>4, PollDoes DEF AfterEnd
  <2>3. ~Over(c) => closing[c] = "no"
    BY <2>1 DEF Linked
  <2>4. await'[c].pc = "got" => await'[c].got \in {"joined", "key"}
    BY <2>2, <2>3 DEF Answers, Shown, Holds
  <2>5. \A d \in Codes : slot'[d].b = slot[d].b \/ slot'[d].b = Empty
    BY <1>4, PollDoes DEF SlotsKept
  <2>6. screen.state = "done" => screen.code \in Codes /\ screen.code # c
    BY <1>0, <2>1 DEF Linked, Shown
  <2>7. \A d \in Codes : await'[d].pc \in {"sleep", "take"} => await[d].pc \in {"sleep", "take"}
    BY <2>1
  <2>8. ScreenIsTrue'
    BY <2>1, <2>6, <2>7 DEF Shown, ScreenIsTrue, Alive, Over
  <2>9. \A d \in Codes : Holds(d, "b")' \in {Empty, "closed", "joined", "key"}
    BY <2>5 DEF Shown, Holds
  <2> QED BY <2>1, <2>4, <2>6, <2>8, <2>9 DEF Shown
<1>5. ASSUME NEW c \in Codes, TakeAnswer(c)
      PROVE  Shown'
  <2>1. /\ UNCHANGED screen /\ UNCHANGED run /\ UNCHANGED dead /\ UNCHANGED late /\ Alive
        /\ await[c].pc \in {"sleep", "take"} /\ \A d \in Codes : d # c => await'[d] = await[d]
    BY <1>5, TakeAnswerDoes DEF Others, codes
  <2>2. await'[c].pc = "got" => ~Over(c) /\ await'[c].got = slot[c].b /\ slot[c].b # Empty
    BY <1>5, TakeAnswerDoes DEF AfterEnd
  <2>3. ~Over(c) => closing[c] = "no"
    BY <2>1 DEF Linked
  <2>4. await'[c].pc = "got" => await'[c].got \in {"joined", "key"}
    BY <2>2, <2>3 DEF Answers, Shown, Holds
  <2>5. \A d \in Codes : slot'[d].b = slot[d].b \/ slot'[d].b = Empty
    BY <1>5, TakeAnswerDoes DEF SlotsKept
  <2>6. screen.state = "done" => screen.code \in Codes /\ screen.code # c
    BY <1>0, <2>1 DEF Linked, Shown
  <2>7. \A d \in Codes : await'[d].pc \in {"sleep", "take"} => await[d].pc \in {"sleep", "take"}
    BY <2>1
  <2>8. ScreenIsTrue'
    BY <2>1, <2>6, <2>7 DEF Shown, ScreenIsTrue, Alive, Over
  <2>9. \A d \in Codes : Holds(d, "b")' \in {Empty, "closed", "joined", "key"}
    BY <2>5 DEF Shown, Holds
  <2> QED BY <2>1, <2>4, <2>6, <2>8, <2>9 DEF Shown
<1>6. ASSUME NEW c \in Codes, TakeAborted(c)
      PROVE  Shown'
  <2>1. /\ UNCHANGED screen /\ UNCHANGED run /\ UNCHANGED dead /\ UNCHANGED late /\ Alive
        /\ await[c].pc \in {"sleep", "take"} /\ \A d \in Codes : d # c => await'[d] = await[d]
    BY <1>6, TakeAbortedDoes DEF Others, codes
  <2>2. await'[c].pc = "got" => ~Over(c) /\ await'[c].got = slot[c].b /\ slot[c].b # Empty
    BY <1>6, TakeAbortedDoes DEF AfterEnd
  <2>3. ~Over(c) => closing[c] = "no"
    BY <2>1 DEF Linked
  <2>4. await'[c].pc = "got" => await'[c].got \in {"joined", "key"}
    BY <2>2, <2>3 DEF Answers, Shown, Holds
  <2>5. \A d \in Codes : slot'[d].b = slot[d].b \/ slot'[d].b = Empty
    BY <1>6, TakeAbortedDoes DEF SlotsKept
  <2>6. screen.state = "done" => screen.code \in Codes /\ screen.code # c
    BY <1>0, <2>1 DEF Linked, Shown
  <2>7. \A d \in Codes : await'[d].pc \in {"sleep", "take"} => await[d].pc \in {"sleep", "take"}
    BY <2>1
  <2>8. ScreenIsTrue'
    BY <2>1, <2>6, <2>7 DEF Shown, ScreenIsTrue, Alive, Over
  <2>9. \A d \in Codes : Holds(d, "b")' \in {Empty, "closed", "joined", "key"}
    BY <2>5 DEF Shown, Holds
  <2> QED BY <2>1, <2>4, <2>6, <2>8, <2>9 DEF Shown
<1>7. ASSUME NEW c \in Codes, Expire(c)
      PROVE  Shown'
  <2>1. /\ Alive /\ UNCHANGED slot /\ UNCHANGED dead /\ UNCHANGED late /\ UNCHANGED run
        /\ await'[c].pc \in {"expire", "closing", "over"} /\ await'[c].got = await[c].got
        /\ \A d \in Codes : d # c => await'[d] = await[d]
    BY <1>7, ExpireDoes DEF Others
  <2>2. /\ screen'.code = screen.code
        /\ \/ screen' = screen
           \/ screen.code = c /\ screen.state = "waiting" /\ screen'.state \in {"expired"}
    BY <1>7, ExpireDoes
  <2>3. c \in late
    BY <1>7, ExpireDoes DEF Linked
  <2>4. ASSUME NEW d \in Codes, await'[d].pc \in {"sleep", "take"}, ~Over(d)
        PROVE  screen' = [code |-> d, state |-> "waiting"]
    <3>1. d # c /\ await[d].pc \in {"sleep", "take"}
      BY <2>1, <2>4
    <3>2. screen = [code |-> d, state |-> "waiting"]
      BY <2>1, <2>4, <3>1 DEF Shown, ScreenIsTrue
    <3>3. screen.code # c
      BY <3>1, <3>2
    <3> QED BY <2>2, <3>2, <3>3
  <2>5. screen'.state = "expired" => screen'.code \in late'
    BY <2>1, <2>2, <2>3 DEF Shown, ScreenIsTrue
  <2>6. screen'.state = "done" => /\ await'[screen'.code].got \in {"joined", "key"}
                                  /\ await'[screen'.code].pc \in {"expire", "closing", "over"}
    <3>1. CASE screen' = screen
      <4>1. screen.state = "done" => screen.code \in Codes
        BY <1>0 DEF Linked
      <4> QED BY <2>1, <3>1, <4>1 DEF Shown, ScreenIsTrue
    <3>2. CASE screen.code = c /\ screen'.state \in {"expired"}
      BY <2>1, <2>2, <2>3, <3>2
    <3> QED BY <2>2, <3>1, <3>2
  <2> QED BY <2>1, <2>4, <2>5, <2>6 DEF Shown, ScreenIsTrue, Alive, Over, Holds
<1>8. ASSUME NEW c \in Codes, Expired(c)
      PROVE  Shown'
  <2>1. /\ Alive /\ UNCHANGED slot /\ UNCHANGED dead /\ UNCHANGED late /\ UNCHANGED run
        /\ await'[c].pc \in {"expire", "closing", "over"} /\ await'[c].got = await[c].got
        /\ \A d \in Codes : d # c => await'[d] = await[d]
    BY <1>8, ExpiredDoes DEF Others
  <2>2. /\ screen'.code = screen.code
        /\ \/ screen' = screen
           \/ screen.code = c /\ screen.state = "waiting" /\ screen'.state \in {"expired"}
    BY <1>8, ExpiredDoes
  <2>3. c \in late
    BY <1>8, ExpiredDoes DEF Linked
  <2>4. ASSUME NEW d \in Codes, await'[d].pc \in {"sleep", "take"}, ~Over(d)
        PROVE  screen' = [code |-> d, state |-> "waiting"]
    <3>1. d # c /\ await[d].pc \in {"sleep", "take"}
      BY <2>1, <2>4
    <3>2. screen = [code |-> d, state |-> "waiting"]
      BY <2>1, <2>4, <3>1 DEF Shown, ScreenIsTrue
    <3>3. screen.code # c
      BY <3>1, <3>2
    <3> QED BY <2>2, <3>2, <3>3
  <2>5. screen'.state = "expired" => screen'.code \in late'
    BY <2>1, <2>2, <2>3 DEF Shown, ScreenIsTrue
  <2>6. screen'.state = "done" => /\ await'[screen'.code].got \in {"joined", "key"}
                                  /\ await'[screen'.code].pc \in {"expire", "closing", "over"}
    <3>1. CASE screen' = screen
      <4>1. screen.state = "done" => screen.code \in Codes
        BY <1>0 DEF Linked
      <4> QED BY <2>1, <3>1, <4>1 DEF Shown, ScreenIsTrue
    <3>2. CASE screen.code = c /\ screen'.state \in {"expired"}
      BY <2>1, <2>2, <2>3, <3>2
    <3> QED BY <2>2, <3>1, <3>2
  <2> QED BY <2>1, <2>4, <2>5, <2>6 DEF Shown, ScreenIsTrue, Alive, Over, Holds
<1>9. ASSUME NEW c \in Codes, AnswerCame(c)
      PROVE  Shown'
  <2>1. /\ Alive /\ UNCHANGED slot /\ UNCHANGED dead /\ UNCHANGED late /\ UNCHANGED run
        /\ await'[c].pc \in {"expire", "closing", "over"} /\ await'[c].got = await[c].got
        /\ \A d \in Codes : d # c => await'[d] = await[d]
    BY <1>9, AnswerCameDoes DEF Others
  <2>2. /\ screen'.code = screen.code
        /\ \/ screen' = screen
           \/ screen.code = c /\ screen.state = "waiting" /\ screen'.state \in {"done", "failed"}
    BY <1>9, AnswerCameDoes
  <2>3. await[c].got \in {"joined", "key"}
    BY <1>9, AnswerCameDoes DEF Shown
  <2>4. ASSUME NEW d \in Codes, await'[d].pc \in {"sleep", "take"}, ~Over(d)
        PROVE  screen' = [code |-> d, state |-> "waiting"]
    <3>1. d # c /\ await[d].pc \in {"sleep", "take"}
      BY <2>1, <2>4
    <3>2. screen = [code |-> d, state |-> "waiting"]
      BY <2>1, <2>4, <3>1 DEF Shown, ScreenIsTrue
    <3>3. screen.code # c
      BY <3>1, <3>2
    <3> QED BY <2>2, <3>2, <3>3
  <2>5. screen'.state = "expired" => screen'.code \in late'
    BY <2>1, <2>2, <2>3 DEF Shown, ScreenIsTrue
  <2>6. screen'.state = "done" => /\ await'[screen'.code].got \in {"joined", "key"}
                                  /\ await'[screen'.code].pc \in {"expire", "closing", "over"}
    <3>1. CASE screen' = screen
      <4>1. screen.state = "done" => screen.code \in Codes
        BY <1>0 DEF Linked
      <4> QED BY <2>1, <3>1, <4>1 DEF Shown, ScreenIsTrue
    <3>2. CASE screen.code = c /\ screen'.state \in {"done", "failed"}
      BY <2>1, <2>2, <2>3, <3>2
    <3> QED BY <2>2, <3>1, <3>2
  <2> QED BY <2>1, <2>4, <2>5, <2>6 DEF Shown, ScreenIsTrue, Alive, Over, Holds
<1>10. ASSUME NEW c \in Codes, TenMinutes(c)
      PROVE  Shown'
  <2>1. /\ UNCHANGED screen /\ UNCHANGED run /\ UNCHANGED dead /\ late \subseteq late'
        /\ UNCHANGED await /\ UNCHANGED slot
    BY <1>10 DEF TenMinutes, relay
  <2> QED BY <2>1 DEF Shown, ScreenIsTrue, Alive, Over, Holds
<1>11. ASSUME NEW c \in Codes, Forget(c)
      PROVE  Shown'
  <2>1. /\ UNCHANGED screen /\ UNCHANGED run /\ UNCHANGED dead /\ UNCHANGED late /\ UNCHANGED await
    BY <1>11, ForgetDoes DEF ScreenSame
  <2>2. \A d \in Codes : Holds(d, "b")' \in {Empty, "closed", "joined", "key"}
    BY <1>11, ForgetDoes DEF Shown, Holds, SlotsKept
  <2> QED BY <2>1, <2>2 DEF Shown, ScreenIsTrue, Alive, Over
<1>12. ASSUME NEW c \in Codes, NEW mode \in {"offer", "request"}, Ask(c, mode)
      PROVE  Shown'
  <2>1. /\ UNCHANGED screen /\ UNCHANGED run /\ UNCHANGED dead /\ UNCHANGED late /\ UNCHANGED await
    BY <1>12, AskDoes DEF codes
  <2>2. \A d \in Codes : Holds(d, "b")' \in {Empty, "closed", "joined", "key"}
    BY <1>12, AskDoes DEF Shown, Holds, SlotsKept
  <2> QED BY <2>1, <2>2 DEF Shown, ScreenIsTrue, Alive, Over
<1>13. ASSUME NEW c \in Codes, NEW e \in Enterers, Enter(e, c)
      PROVE  Shown'
  <2>1. /\ UNCHANGED screen /\ UNCHANGED run /\ UNCHANGED dead /\ UNCHANGED late /\ UNCHANGED await
    BY <1>13, EnterDoes DEF ScreenSame
  <2>2. \A d \in Codes : Holds(d, "b")' \in {Empty, "closed", "joined", "key"}
    BY <1>13, EnterDoes DEF Shown, Holds, SlotsKept
  <2> QED BY <2>1, <2>2 DEF Shown, ScreenIsTrue, Alive, Over
<1>14. ASSUME NEW e \in Enterers, PutAnswer(e)
      PROVE  Shown'
  <2>1. /\ UNCHANGED screen /\ UNCHANGED run /\ UNCHANGED dead /\ UNCHANGED late /\ UNCHANGED await
    BY <1>14, PutAnswerDoes DEF ScreenSame
  <2>2. \A d \in Codes : Holds(d, "b")' \in {Empty, "closed", "joined", "key"}
    BY <1>14, PutAnswerDoes DEF Shown, Holds, SlotsKept
  <2> QED BY <2>1, <2>2 DEF Shown, ScreenIsTrue, Alive, Over
<1>15. CASE CancelPairing \/ Stop
  <2>1. /\ Gone /\ Alive /\ UNCHANGED slot /\ UNCHANGED await /\ UNCHANGED late
    BY <1>15, CancelOrStopDoes
  <2>2. ASSUME NEW d \in Codes, await[d].pc \in {"sleep", "take"}
        PROVE  d \in dead' \cup late
    BY <2>1, <2>2, CodeFacts DEF Shown, ScreenIsTrue, Gone, Over
  <2>3. screen'.state = "none"
    BY <2>1 DEF Gone, NoScreen
  <2> QED BY <2>1, <2>2, <2>3 DEF Shown, ScreenIsTrue, Over, Holds
<1>16. CASE Stopped
  <2>1. \A d \in Codes : await'[d].pc = "no" \/ await'[d].pc = "over"
    BY <1>16, RunEnds
  <2>2. screen'.state = "none" /\ ~Alive' /\ UNCHANGED slot
    BY <1>16, TypeIs DEF Stopped, Alive, RunType, NoScreen, relay
  <2> QED BY <2>1, <2>2 DEF Shown, ScreenIsTrue, Holds
<1>17. CASE UNCHANGED vars
  BY <1>0, <1>17 DEF Shown, ScreenIsTrue, Alive, Over, Holds, vars, relay, codes
<1> QED BY <1>1, <1>2, <1>3, <1>4, <1>5, <1>6, <1>7, <1>8, <1>9, <1>10, <1>11, <1>12, <1>13,
    <1>14, <1>15, <1>16, <1>17 DEF Next, ThisDevice

-----------------------------------------------------------------------------
\* The theorems.

\* What holds of the records, however fast the app asks and however late a read arrives.
PInv == TypeOK /\ Holding /\ Linked /\ Answers

LEMMA PInvInit == Init => PInv
<1> SUFFICES ASSUME Init PROVE PInv
  OBVIOUS
<1>1. TypeOK
  BY TypeInit
<1>2. Holding
  BY DEF Init, Holding
<1>3. Linked
  BY DEF Init, Linked, NoScreen
<1>4. Answers
  BY CodeFacts, MessagesAre DEF Init, Answers, Holds
<1> QED BY <1>1, <1>2, <1>3, <1>4 DEF PInv

LEMMA PInvNext == PInv /\ [Next]_vars => PInv'
BY TypeNext, HoldingNext, LinkedNext, AnswersNext DEF PInv

LEMMA PInvAlways == Spec => []PInv
BY PInvInit, PInvNext, PTL DEF Spec

\* Every variable keeps its type, for any number of devices, codes and failed requests.
THEOREM TypeCorrect == Spec => []TypeOK
<1>1. PInv => TypeOK
  BY DEF PInv
<1> QED BY PInvAlways, <1>1, PTL

\* A withdrawn code no longer works, and a request that left the screen leaves no group key at the
\* relay, neither one sent before nor one on its way (closeSlots), as long as the relay has
\* carried out an aborted read before the next request of its device reaches it.
THEOREM WithdrawnIsDeadAlways == ~Late => (Spec => []WithdrawnIsDead)
<1> SUFFICES ASSUME ~Late PROVE Spec => []WithdrawnIsDead
  OBVIOUS
<1>1. Init => ClosedSoFar
  BY DEF Init, ClosedSoFar
<1>2. PInv /\ ClosedSoFar /\ [Next]_vars => ClosedSoFar'
  BY ClosedNext DEF PInv
<1>3. ClosedSoFar => WithdrawnIsDead
  BY DEF ClosedSoFar, WithdrawnIsDead
<1> QED BY PInvAlways, <1>1, <1>2, <1>3, PTL DEF Spec

\* The only code that can still be answered is the one on the screen, and the screen says of a code
\* what became of this code (show, finish), as long as the app asks for one code after the other.
THEOREM ScreenIsTrueAlways == ~Together => (Spec => []ScreenIsTrue)
<1> SUFFICES ASSUME ~Together PROVE Spec => []ScreenIsTrue
  OBVIOUS
<1>1. Init => OneByOne /\ Shown
  <2> SUFFICES ASSUME Init PROVE OneByOne /\ Shown
    OBVIOUS
  <2>1. \A c \in Codes : show[c].pc = "no" /\ await[c].pc = "no" /\ Holds(c, "b") = Empty
    BY DEF Init, Holds
  <2>2. screen.state = "none"
    BY DEF Init, NoScreen
  <2> QED BY <2>1, <2>2 DEF OneByOne, Shown, ScreenIsTrue
<1>2. PInv /\ OneByOne /\ Shown /\ [Next]_vars => (OneByOne /\ Shown)'
  BY OneByOneNext, ShownNext DEF PInv
<1>3. Shown => ScreenIsTrue
  BY DEF Shown
<1> QED BY PInvAlways, <1>1, <1>2, <1>3, PTL DEF Spec
==============================================================================
